---------------------------- MODULE FrontendProofs -----------------------------
(****************************************************************************)
(* Theorems about Frontend, for every number of engineers and browsers and  *)
(* every mix of faults: one account per engineer (OneAccountPerEngineer)    *)
(* and no two logins blocking each other (WaitsForOneCommit), every run     *)
(* accounted to the engineer behind it (RunIsAccountable), every accepted   *)
(* bundle readable by the worker (AcceptedIsReadable) and run as asked      *)
(* (RunsWhatWasAsked), and for every reading a report (EveryReportShows)    *)
(* and a true row (TableIsTrue).                                            *)
(****************************************************************************)
EXTENDS Frontend, FiniteSetTheorems, TLAPS

\* An account that a login has inserted and not committed.
New(b) == login[b].user # None /\ login[b].user \notin users

Distinct(u, v) == u.username # v.username /\ u.id # v.id

LoginOK(b) ==
    /\ login[b].pc = "commit" => login[b].user # None
    /\ login[b].pc # "commit" => login[b].user = None
    /\ login[b].pc # "idle" => login[b].username \in Engineers
    /\ login[b].user # None => /\ login[b].user \in User
                               /\ login[b].user.username = login[b].username
                               /\ login[b].user.id <= user_id_seq
    /\ New(b) => \A u \in users : Distinct(login[b].user, u)

AccountTypes ==
    /\ users \subseteq User /\ user_id_seq \in Nat /\ now \in Nat
    /\ login \in [Browsers -> LoginState]

\* The accounts there are and those about to be are all different.
AccountInv ==
    /\ AccountTypes
    /\ \A u \in users : u.id <= user_id_seq
    /\ \A u, v \in users : u # v => Distinct(u, v)
    /\ \A b \in Browsers : LoginOK(b)
    /\ \A b, c \in Browsers : b # c /\ New(b) /\ New(c) => Distinct(login[b].user, login[c].user)

\* Accounts and sessions come in pairs.
PairInv ==
    /\ \A u \in users : \E s \in sessions : s.user_id = u.id
    /\ \A s \in sessions : \E u \in users : u.id = s.user_id

-----------------------------------------------------------------------------
\* A step that gives one browser's login another state and keeps the accounts.
LEMMA LoginMoves ==
    ASSUME AccountInv, NEW b \in Browsers, NEW l \in LoginState,
           login' = [login EXCEPT ![b] = l], users' = users, now' \in Nat,
           user_id_seq' \in Nat, user_id_seq <= user_id_seq',
           l.pc = "commit" => l.user # None,
           l.pc # "commit" => l.user = None,
           l.pc # "idle" => l.username \in Engineers,
           l.user # None => l.user \in User /\ l.user.username = l.username
                            /\ l.user.id <= user_id_seq',
           l.user # None /\ l.user \notin users =>
              /\ \A u \in users : Distinct(l.user, u)
              /\ \A c \in Browsers \ {b} : New(c) => Distinct(l.user, login[c].user)
    PROVE  AccountInv'
<1>1. AccountTypes'
  BY DEF AccountInv, AccountTypes
<1>2. login'[b] = l /\ \A c \in Browsers \ {b} : login'[c] = login[c]
  BY DEF AccountInv, AccountTypes
<1>3. \A u \in users' : u.id <= user_id_seq'
  BY DEF AccountInv, AccountTypes, User
<1>4. \A u, v \in users' : u # v => Distinct(u, v)'
  BY DEF AccountInv, Distinct
<1>5. ASSUME NEW c \in Browsers PROVE LoginOK(c)'
  <2>1. CASE c = b
    BY <1>2, <2>1 DEF LoginOK, New, Distinct
  <2>2. CASE c # b
    <3>1. LoginOK(c) /\ login'[c] = login[c]
      BY <1>2, <2>2 DEF AccountInv
    <3>2. login[c].user # None => login[c].user.id \in Nat
      BY <3>1 DEF LoginOK, User
    <3>3. login[c].user # None => login[c].user.id <= user_id_seq'
      BY <3>1, <3>2 DEF LoginOK, AccountInv, AccountTypes
    <3>4. QED
      BY <3>1, <3>3 DEF LoginOK, New, Distinct
  <2>3. QED
    BY <2>1, <2>2
<1>6. ASSUME NEW c \in Browsers, NEW d \in Browsers, c # d, New(c)', New(d)'
      PROVE  Distinct(login'[c].user, login'[d].user)
  <2>1. CASE c # b /\ d # b
    BY <1>2, <1>6, <2>1 DEF AccountInv, New
  <2>2. CASE c = b
    BY <1>2, <1>6, <2>2 DEF New
  <2>3. CASE d = b
    BY <1>2, <1>6, <2>3 DEF New, Distinct
  <2>4. QED
    BY <2>1, <2>2, <2>3
<1>7. QED
  BY <1>1, <1>3, <1>4, <1>5, <1>6 DEF AccountInv, Distinct

\* A step after which the browser's login has inserted nothing.
LEMMA LoginRests ==
    ASSUME AccountInv, NEW b \in Browsers, NEW l \in LoginState,
           login' = [login EXCEPT ![b] = l], UNCHANGED <<now, users, user_id_seq>>,
           l.pc # "commit", l.user = None, l.pc # "idle" => l.username \in Engineers
    PROVE  AccountInv'
<1>1. user_id_seq \in Nat /\ now \in Nat
  BY DEF AccountInv, AccountTypes
<1>2. users' = users /\ now' \in Nat /\ user_id_seq' \in Nat /\ user_id_seq <= user_id_seq'
  BY <1>1
<1>3. l.user # None => /\ l.user \in User /\ l.user.username = l.username
                       /\ l.user.id <= user_id_seq'
  OBVIOUS
<1>4. l.user # None /\ l.user \notin users =>
              /\ \A u \in users : Distinct(l.user, u)
              /\ \A c \in Browsers \ {b} : New(c) => Distinct(l.user, login[c].user)
  OBVIOUS
<1>5. QED
  BY <1>2, <1>3, <1>4, LoginMoves

LEMMA EndedInv ==
    ASSUME AccountInv, NEW b \in Browsers, Ended(b), UNCHANGED <<now, users, user_id_seq>>
    PROVE  AccountInv'
<1>1. NoLogin \in LoginState /\ NoLogin.pc = "idle" /\ NoLogin.user = None
  BY DEF NoLogin, LoginState
<1>2. login' = [login EXCEPT ![b] = NoLogin]
  BY DEF Ended
<1> HIDE DEF NoLogin
<1>3. QED
  BY <1>1, <1>2, LoginRests

LEMMA QuietLoginInv ==
    ASSUME AccountInv, NEW b \in Browsers, NEW n \in Engineers,
           SubmitLogin(b, n) \/ BindSucceeds(b) \/ MissUser(b)
    PROVE  AccountInv'
<1>1. login[b] \in LoginState /\ login[b].user = None /\ UNCHANGED <<now, users, user_id_seq>>
  BY DEF AccountInv, AccountTypes, LoginOK, SubmitLogin, BindSucceeds, MissUser
<1>2. CASE SubmitLogin(b, n)
  <2> DEFINE l == [login[b] EXCEPT !.pc = "bind", !.username = n]
  <2>1. login' = [login EXCEPT ![b] = l]
    BY <1>2 DEF SubmitLogin, AccountInv, AccountTypes
  <2>2. l \in LoginState /\ l.pc = "bind" /\ l.user = None /\ l.username \in Engineers
    BY <1>1 DEF LoginState
  <2> HIDE DEF l
  <2>3. QED
    BY <1>1, <2>1, <2>2, LoginRests
<1>3. CASE BindSucceeds(b) \/ MissUser(b)
  <2>1. PICK pc \in {"query", "add"} : login' = [login EXCEPT ![b].pc = pc]
    BY <1>3 DEF BindSucceeds, MissUser
  <2> DEFINE l == [login[b] EXCEPT !.pc = pc]
  <2>2. login' = [login EXCEPT ![b] = l] /\ login[b].username \in Engineers
    BY <1>3, <2>1 DEF BindSucceeds, MissUser, AccountInv, AccountTypes, LoginOK
  <2>3. /\ l \in LoginState /\ l.pc \in {"query", "add"} /\ l.user = None
        /\ l.username = login[b].username
    BY <1>1 DEF LoginState
  <2> HIDE DEF l
  <2>4. QED
    BY <1>1, <2>2, <2>3, LoginRests
<1>4. QED
  BY <1>2, <1>3

LEMMA NewSessionInv ==
    ASSUME AccountInv, NEW b \in Browsers, NEW u \in User, NewSession(b, u),
           UNCHANGED <<now, users>>, user_id_seq' \in Nat, user_id_seq <= user_id_seq',
           u.username = login[b].username, u.id <= user_id_seq', u.username \in Engineers,
           u \notin users => /\ \A v \in users : Distinct(u, v)
                            /\ \A c \in Browsers \ {b} : New(c) => Distinct(u, login[c].user)
    PROVE  AccountInv'
<1> DEFINE l == [login[b] EXCEPT !.pc = "commit", !.user = u, !.expires_at = now + SessionTTL]
<1>1. login[b] \in LoginState /\ now \in Nat /\ now + SessionTTL \in Nat
  BY TimeAssumption DEF AccountInv, AccountTypes
<1>2. login' = [login EXCEPT ![b] = l]
  BY DEF NewSession, AccountInv, AccountTypes
<1>3. l \in LoginState /\ l.pc = "commit" /\ l.user = u /\ l.username = login[b].username
  BY <1>1 DEF LoginState
<1>4. u # None
  BY NoneAssumption DEF User
<1> HIDE DEF l
<1>5. QED
  BY <1>1, <1>2, <1>3, <1>4, LoginMoves

LEMMA AccountChosenInv ==
    ASSUME AccountInv, NEW b \in Browsers, FindUser(b) \/ AddUser(b)
    PROVE  AccountInv'
<1>1. login[b].username \in Engineers \cup {None} /\ user_id_seq \in Nat
  BY DEF AccountInv, AccountTypes, LoginState
<1>2. CASE FindUser(b)
  <2>1. PICK u \in users : u.username = login[b].username /\ NewSession(b, u)
    BY <1>2 DEF FindUser, AccountsOf
  <2>2. u \in User /\ u.id <= user_id_seq /\ u.username \in Engineers
    BY DEF AccountInv, AccountTypes, User
  <2>3. QED
    BY <1>1, <1>2, <2>1, <2>2, NewSessionInv DEF FindUser
<1>3. CASE AddUser(b)
  <2> DEFINE u == [id |-> user_id_seq + 1, username |-> login[b].username]
  <2>1. /\ NewSession(b, u) /\ user_id_seq' = user_id_seq + 1
        /\ Inserting(b) = {} /\ AccountsOf(login[b].username) = {} /\ UNCHANGED <<now, users>>
        /\ login[b].pc = "add"
    BY <1>3 DEF AddUser
  <2>2. login[b].username \in Engineers
    BY <2>1 DEF AccountInv, LoginOK
  <2>3. u \in User /\ u.username = login[b].username /\ u.id = user_id_seq + 1
    BY <1>1, <2>2 DEF User
  <2>4. ASSUME NEW v \in users PROVE Distinct(u, v)
    <3>1. v.id \in Nat /\ v.id <= user_id_seq /\ v.username # login[b].username
      BY <2>1 DEF AccountInv, AccountTypes, User, AccountsOf
    <3>2. QED
      BY <1>1, <2>3, <3>1 DEF Distinct
  <2>5. ASSUME NEW c \in Browsers \ {b}, New(c) PROVE Distinct(u, login[c].user)
    <3>1. login[c].user.username # login[b].username
      BY <2>1, <2>5 DEF Inserting, New
    <3>2. login[c].user.id \in Nat /\ login[c].user.id <= user_id_seq
      BY <2>5 DEF New, AccountInv, LoginOK, User
    <3>3. QED
      BY <1>1, <2>3, <3>1, <3>2 DEF Distinct
  <2> HIDE DEF u
  <2>6. user_id_seq' \in Nat /\ user_id_seq <= user_id_seq' /\ u.id <= user_id_seq'
    BY <1>1, <2>1, <2>3
  <2>7. QED
    BY <2>1, <2>2, <2>3, <2>4, <2>5, <2>6, NewSessionInv
<1>4. QED
  BY <1>2, <1>3

LEMMA CommitLoginInv ==
    ASSUME AccountInv, NEW b \in Browsers, CommitLogin(b)
    PROVE  AccountInv'
<1> DEFINE u == login[b].user
<1>1. /\ users' = users \cup {u} /\ UNCHANGED <<now, user_id_seq>>
      /\ login' = [login EXCEPT ![b] = NoLogin]
  BY DEF CommitLogin, Ended
<1>2. /\ u # None /\ u \in User /\ u.id <= user_id_seq
      /\ u \in users \/ New(b)
  BY DEF CommitLogin, AccountInv, LoginOK, New
<1>3. NoLogin \in LoginState /\ NoLogin.pc = "idle" /\ NoLogin.user = None
  BY DEF NoLogin, LoginState
<1>4. login'[b] = NoLogin /\ \A c \in Browsers \ {b} : login'[c] = login[c]
  BY <1>1 DEF AccountInv, AccountTypes
<1>5. AccountTypes'
  BY <1>1, <1>2, <1>3 DEF AccountInv, AccountTypes
<1>6. u \notin users => \A v \in users : Distinct(u, v)
  BY <1>2 DEF AccountInv, LoginOK
<1>7. ASSUME NEW c \in Browsers \ {b}, New(c) PROVE u = login[c].user \/ Distinct(login[c].user, u)
  <2>1. CASE u \in users
    BY <1>7, <2>1 DEF AccountInv, LoginOK
  <2>2. CASE New(b)
    BY <1>7, <2>2 DEF AccountInv
  <2>3. QED
    BY <1>2, <2>1, <2>2
<1>8. \A v \in users' : v.id <= user_id_seq'
  BY <1>1, <1>2 DEF AccountInv
<1>9. \A v, w \in users' : v # w => Distinct(v, w)
  BY <1>1, <1>6 DEF AccountInv, Distinct
<1>10. ASSUME NEW c \in Browsers PROVE LoginOK(c)'
  <2>1. CASE c = b
    BY <1>3, <1>4, <2>1 DEF LoginOK, New
  <2>2. CASE c # b
    BY <1>1, <1>4, <1>7, <2>2 DEF AccountInv, LoginOK, New, Distinct
  <2>3. QED
    BY <2>1, <2>2
<1>11. ASSUME NEW c \in Browsers, NEW d \in Browsers, c # d, New(c)', New(d)'
       PROVE  Distinct(login'[c].user, login'[d].user)
  <2>1. c # b /\ d # b
    BY <1>3, <1>4, <1>11 DEF New
  <2>2. New(c) /\ New(d)
    BY <1>1, <1>4, <1>11, <2>1 DEF New
  <2>3. QED
    BY <1>4, <1>11, <2>1, <2>2 DEF AccountInv
<1>12. QED
  BY <1>5, <1>8, <1>9, <1>10, <1>11 DEF AccountInv, Distinct

LEMMA CommitLoginPairs ==
    ASSUME PairInv, NEW b \in Browsers, CommitLogin(b)
    PROVE  PairInv'
<1>1. users' = users \cup {login[b].user}
  BY DEF CommitLogin
<1> DEFINE s == [token |-> Cardinality(sessions) + 1, user_id |-> login[b].user.id,
                 expires_at |-> login[b].expires_at]
<1>2. sessions' = sessions \cup {s} /\ s.user_id = login[b].user.id
  BY DEF CommitLogin
<1> HIDE DEF s
<1>3. \A u \in users' : \E t \in sessions' : t.user_id = u.id
  BY <1>1, <1>2 DEF PairInv
<1>4. \A t \in sessions' : \E u \in users' : u.id = t.user_id
  BY <1>1, <1>2 DEF PairInv
<1>5. QED
  BY <1>3, <1>4 DEF PairInv

LEMMA LoginNextInv ==
    ASSUME AccountInv, PairInv, NEW b \in Browsers, LoginNext(b)
    PROVE  AccountInv' /\ PairInv'
<1>1. CASE \E n \in Engineers : SubmitLogin(b, n)
  <2>1. PICK n \in Engineers : SubmitLogin(b, n)
    BY <1>1
  <2>2. QED
    BY <2>1, QuietLoginInv DEF PairInv, SubmitLogin
<1>2. CASE BindSucceeds(b) \/ MissUser(b)
  <2>1. login[b].username \in Engineers
    BY <1>2 DEF BindSucceeds, MissUser, AccountInv, LoginOK
  <2>2. QED
    BY <1>2, <2>1, QuietLoginInv DEF PairInv, BindSucceeds, MissUser
<1>3. CASE BindFails(b) \/ AddUserRefused(b) \/ CommitFails(b)
  <2>1. Ended(b) /\ UNCHANGED <<now, users, user_id_seq, sessions>>
    BY <1>3 DEF BindFails, AddUserRefused, CommitFails
  <2>2. QED
    BY <2>1, EndedInv DEF PairInv
<1>4. CASE FindUser(b) \/ AddUser(b)
  BY <1>4, AccountChosenInv DEF PairInv, FindUser, AddUser
<1>5. CASE CommitLogin(b)
  BY <1>5, CommitLoginInv, CommitLoginPairs
<1>6. QED
  BY <1>1, <1>2, <1>3, <1>4, <1>5 DEF LoginNext

LEMMA BackendCrashInv ==
    ASSUME AccountInv, PairInv, BackendCrash
    PROVE  AccountInv' /\ PairInv'
<1>1. /\ login' = [b \in Browsers |-> NoLogin]
      /\ UNCHANGED <<now, users, user_id_seq, sessions>>
  BY DEF BackendCrash
<1>2. NoLogin \in LoginState /\ NoLogin.pc = "idle" /\ NoLogin.user = None
  BY DEF NoLogin, LoginState
<1>3. \A b \in Browsers : login'[b] = NoLogin
  BY <1>1
<1>4. AccountTypes' /\ PairInv'
  BY <1>1, <1>2 DEF AccountInv, AccountTypes, PairInv
<1>5. \A b \in Browsers : LoginOK(b)' /\ ~New(b)'
  BY <1>2, <1>3 DEF LoginOK, New
<1>6. QED
  BY <1>1, <1>4, <1>5 DEF AccountInv, Distinct

LEMMA ElsewhereInv ==
    ASSUME AccountInv, PairInv, now' \in Nat, UNCHANGED <<users, user_id_seq, sessions, login>>
    PROVE  AccountInv' /\ PairInv'
BY DEF AccountInv, AccountTypes, PairInv, LoginOK, New, Distinct

\* A step of the frontend is one of a login, a crash, or none of the accounts'.
LEMMA FrontendStep ==
    ASSUME AccountInv, PairInv, [Next]_vars
    PROVE  AccountInv' /\ PairInv'
<1>1. ASSUME NEW b \in Browsers, SessionStep(b) PROVE AccountInv' /\ PairInv'
  BY <1>1, LoginNextInv DEF SessionStep
<1>2. ASSUME NEW b \in Browsers, NEW f \in Forms,
             SubmitTest(b, f)
      PROVE  UNCHANGED <<now, users, user_id_seq, sessions, login>>
  BY <1>2 DEF SubmitTest, sessionVars
<1>3. CASE Clock
  BY <1>3, ElsewhereInv DEF Clock, Tick, AccountInv, AccountTypes
<1>4. CASE \E b \in Browsers : CommitRun(b) \/ CommitRunFails(b) \/ Dispatch(b)
  BY <1>4, ElsewhereInv
     DEF CommitRun, CommitRunFails, Dispatch, sessionVars, AccountInv, AccountTypes
<1>5. CASE \E b \in Browsers : \E f \in Forms : SubmitTest(b, f)
  BY <1>2, <1>5, ElsewhereInv DEF AccountInv, AccountTypes
<1>6. CASE Rebuild \/ RunnerUnknown \/ Translate \/ Acknowledge \/ WorkerCrash
  <2>1. UNCHANGED <<now, users, user_id_seq, sessions, login>>
    BY <1>6 DEF Rebuild, RunnerUnknown, Translate, Acknowledge, WorkerCrash, sessionVars
  <2>2. QED
    BY <2>1, ElsewhereInv DEF AccountInv, AccountTypes
<1>7. CASE (\E r \in Readings : ReportStatus(r)) \/ ShowStatus \/ ClearTable
  <2>1. UNCHANGED <<now, users, user_id_seq, sessions, login>>
    BY <1>7 DEF ReportStatus, ShowStatus, ClearTable, sessionVars
  <2>2. QED
    BY <2>1, ElsewhereInv DEF AccountInv, AccountTypes
<1>8. CASE UNCHANGED vars
  BY <1>8, ElsewhereInv DEF vars, sessionVars, AccountInv, AccountTypes
<1>9. QED
  BY <1>1, <1>3, <1>4, <1>5, <1>6, <1>7, <1>8, BackendCrashInv DEF Next

LEMMA FrontendInit ==
    ASSUME Init
    PROVE  AccountInv /\ PairInv
<1>1. NoLogin \in LoginState /\ NoLogin.pc = "idle" /\ NoLogin.user = None
  BY DEF NoLogin, LoginState
<1>2. /\ now = 0 /\ users = {} /\ user_id_seq = 0 /\ sessions = {}
      /\ login = [b \in Browsers |-> NoLogin]
  BY DEF Init, SessionsInit
<1>3. AccountTypes /\ PairInv
  BY <1>1, <1>2 DEF AccountTypes, PairInv
<1>4. \A b \in Browsers : LoginOK(b) /\ ~New(b)
  BY <1>1, <1>2 DEF LoginOK, New
<1>5. QED
  BY <1>2, <1>3, <1>4 DEF AccountInv

\* However many first logins of one engineer are under way, whatever fails and
\* whenever the backend dies, one account remains, with a session, and every
\* session has its account (authenticate_ldap, login_submit, models.User).
THEOREM OneAccountForAll == Spec => []OneAccountPerEngineer
<1>1. AccountInv /\ PairInv => OneAccountPerEngineer
  BY DEF AccountInv, PairInv, OneAccountPerEngineer, Distinct
<1>2. Init => AccountInv /\ PairInv
  BY FrontendInit
<1>3. AccountInv /\ PairInv /\ [Next]_vars => (AccountInv /\ PairInv)'
  BY FrontendStep
<1>4. QED
  BY <1>1, <1>2, <1>3, PTL DEF Spec

\* First logins never wait for each other in a circle: who waits waits for one
\* transaction, and that one has only its commit left.  Two that have inserted
\* have names that differ (AccountInv), so they are not both waited for.
THEOREM NoLoginsBlockEachOther == Spec => []WaitsForOneCommit
<1>1. AccountInv => WaitsForOneCommit
  <2>1. SUFFICES ASSUME AccountInv, NEW b \in Browsers,
                        NEW c \in Inserting(b), NEW d \in Inserting(b)
                 PROVE  c = d /\ login[c].pc = "commit"
    BY DEF WaitsForOneCommit
  <2>2. /\ c \in Browsers /\ d \in Browsers /\ New(c) /\ New(d)
        /\ login[c].user.username = login[d].user.username
    BY DEF Inserting, New
  <2>3. c = d
    BY <2>1, <2>2 DEF AccountInv, Distinct
  <2>4. login[c].pc = "commit"
    BY <2>1, <2>2 DEF AccountInv, LoginOK, New
  <2>5. QED
    BY <2>3, <2>4
<1>2. Init => AccountInv /\ PairInv
  BY FrontendInit
<1>3. AccountInv /\ PairInv /\ [Next]_vars => (AccountInv /\ PairInv)'
  BY FrontendStep
<1>4. QED
  BY <1>1, <1>2, <1>3, PTL DEF Spec

-----------------------------------------------------------------------------
\* The audit record.

\* The account uid is that of the engineer who logged in for the cookie c, and
\* at is no later than the session behind c lasts.
Answerable(uid, c, at) ==
    /\ at <= c.at + SessionTTL
    /\ \E u \in users : u.id = uid /\ u.username = c.by

\* A cookie's session is the one its login made.
CookieInv ==
    /\ IsFiniteSet(sessions)
    /\ \A s \in sessions : s.token \in Nat /\ s.token <= Cardinality(sessions)
    /\ \A s \in sessions : s.expires_at \in Nat
    /\ \A b \in Browsers : login[b].pc = "commit" => login[b].expires_at <= now + SessionTTL
    /\ \A b \in Browsers : cookie[b] # None =>
          /\ cookie[b].at \in Nat
          /\ cookie[b].token \in Nat /\ cookie[b].token <= Cardinality(sessions)
          /\ \A s \in sessions : s.token = cookie[b].token =>
                Answerable(s.user_id, cookie[b], s.expires_at)
    /\ cookie = [b \in Browsers |-> cookie[b]]

RunOK ==
    /\ run = [k \in {"user_id", "runner_type", "framework_image", "status"} |-> run[k]]
    /\ Answerable(run.user_id, asked.login, asked.at)

AuditInv ==
    /\ CookieInv
    /\ request = [b \in Browsers |-> request[b]]
    /\ \A b \in Browsers : request[b] # None =>
          Answerable(request[b].bundle.user_id, request[b].login, request[b].at)
    /\ run # None => RunOK
    /\ message # None /\ message.kind = "bundle" => RunOK
    /\ task # None => RunOK

\* A step of a login other than its commit.
LEMMA CookieStays ==
    ASSUME CookieInv, AccountInv, UNCHANGED <<sessions, cookie, users>>,
           now' \in Nat, now <= now',
           \A b \in Browsers : login'[b].pc = "commit" =>
              \/ login'[b] = login[b]
              \/ login'[b].expires_at = now + SessionTTL
    PROVE  CookieInv'
<1>1. now \in Nat /\ SessionTTL \in Nat
  BY TimeAssumption DEF AccountInv, AccountTypes
<1>2. ASSUME NEW b \in Browsers, login'[b].pc = "commit"
      PROVE  login'[b].expires_at <= now' + SessionTTL
  <2>1. CASE login'[b] = login[b]
    <3>1. login[b].expires_at \in Nat /\ login[b].expires_at <= now + SessionTTL
      BY <1>2, <2>1 DEF CookieInv, AccountInv, AccountTypes, LoginState
    <3>2. QED
      BY <1>1, <2>1, <3>1
  <2>2. CASE login'[b].expires_at = now + SessionTTL
    BY <1>1, <2>2
  <2>3. QED
    BY <1>2, <2>1, <2>2
<1>3. QED
  BY <1>2 DEF CookieInv, Answerable

LEMMA CommitCookie ==
    ASSUME CookieInv, AccountInv, NEW b \in Browsers, CommitLogin(b)
    PROVE  CookieInv'
<1>1. PICK l : l = login[b]
  OBVIOUS
<1>2. PICK n \in Nat : n = Cardinality(sessions)
  BY FS_CardinalityType DEF CookieInv
<1>3. PICK s : s = [token |-> n + 1, user_id |-> l.user.id, expires_at |-> l.expires_at]
  OBVIOUS
<1>4. PICK c : c = [token |-> n + 1, by |-> l.username, at |-> now]
  OBVIOUS
<1>5. /\ l.pc = "commit" /\ users' = users \cup {l.user}
      /\ sessions' = sessions \cup {s} /\ cookie' = [cookie EXCEPT ![b] = c]
      /\ login' = [login EXCEPT ![b] = NoLogin] /\ now' = now
  BY <1>1, <1>2, <1>3, <1>4 DEF CommitLogin, Ended
<1>6. l \in LoginState /\ now \in Nat /\ l.user # None
  BY <1>1, <1>5 DEF AccountInv, AccountTypes, LoginOK
<1>7. l.user.username = l.username /\ l.expires_at <= now + SessionTTL
  BY <1>1, <1>5, <1>6 DEF AccountInv, LoginOK, CookieInv
<1>8. /\ s.token = n + 1 /\ s.user_id = l.user.id
      /\ s.expires_at \in Nat /\ s.expires_at <= now + SessionTTL
      /\ c.token = n + 1 /\ c.by = l.username /\ c.at = now
  BY <1>3, <1>4, <1>6, <1>7 DEF LoginState
<1>9. Answerable(s.user_id, c, s.expires_at)'
  BY <1>5, <1>7, <1>8 DEF Answerable
<1>10. s \notin sessions
  BY <1>2, <1>8 DEF CookieInv
<1>11. IsFiniteSet(sessions') /\ Cardinality(sessions') = n + 1
  BY <1>2, <1>5, <1>10, FS_AddElement DEF CookieInv
<1>12. /\ cookie'[b] = c /\ \A d \in Browsers \ {b} : cookie'[d] = cookie[d]
       /\ cookie' = [d \in Browsers |-> cookie'[d]]
  BY <1>5 DEF CookieInv
<1>13. \A t \in sessions : t.token \in Nat /\ t.token <= n
  BY <1>2 DEF CookieInv
<1>14. \A t \in sessions' : t.token \in Nat /\ t.token <= n + 1 /\ t.expires_at \in Nat
  BY <1>5, <1>8, <1>13 DEF CookieInv
<1>15. ASSUME NEW d \in Browsers, cookie'[d] # None
       PROVE  /\ cookie'[d].at \in Nat
              /\ cookie'[d].token \in Nat /\ cookie'[d].token <= n + 1
              /\ \A t \in sessions' : t.token = cookie'[d].token =>
                    Answerable(t.user_id, cookie[d], t.expires_at)'
  <2>1. CASE d = b
    <3>1. \A t \in sessions' : t.token = n + 1 => t = s
      BY <1>5, <1>13
    <3>2. QED
      BY <1>6, <1>8, <1>9, <1>12, <2>1, <3>1
  <2>2. CASE d # b
    <3>1. /\ cookie'[d] = cookie[d] /\ cookie[d].at \in Nat
          /\ cookie[d].token \in Nat /\ cookie[d].token <= n
      BY <1>2, <1>12, <1>15, <2>2 DEF CookieInv
    <3>2. ASSUME NEW t \in sessions', t.token = cookie[d].token
          PROVE  Answerable(t.user_id, cookie[d], t.expires_at)'
      <4>1. t \in sessions
        BY <1>5, <1>8, <3>1, <3>2
      <4>2. Answerable(t.user_id, cookie[d], t.expires_at)
        BY <1>12, <1>15, <2>2, <3>2, <4>1 DEF CookieInv
      <4>3. QED
        BY <1>5, <3>1, <4>2 DEF Answerable
    <3>3. QED
      BY <3>1, <3>2
  <2>3. QED
    BY <2>1, <2>2
<1>16. \A d \in Browsers : login'[d].pc = "commit" => login'[d].expires_at <= now' + SessionTTL
  BY <1>5 DEF AccountInv, AccountTypes, NoLogin, CookieInv
<1>17. QED
  BY <1>11, <1>12, <1>14, <1>15, <1>16 DEF CookieInv


LEMMA LoginCookies ==
    ASSUME CookieInv, AccountInv, NEW b \in Browsers, LoginNext(b)
    PROVE  CookieInv' /\ users \subseteq users'
<1>1. now \in Nat /\ login = [c \in Browsers |-> login[c]]
  BY DEF AccountInv, AccountTypes
<1>2. CASE \E n \in Engineers : SubmitLogin(b, n)
  <2>1. /\ UNCHANGED <<now, sessions, cookie, users>>
        /\ \A c \in Browsers : login'[c].pc = "commit" => login'[c] = login[c]
    BY <1>1, <1>2 DEF SubmitLogin, AccountInv, AccountTypes, LoginState
  <2>2. QED
    BY <1>1, <2>1, CookieStays
<1>3. CASE BindSucceeds(b) \/ MissUser(b)
  <2>1. PICK pc \in {"query", "add"} : login' = [login EXCEPT ![b].pc = pc]
    BY <1>3 DEF BindSucceeds, MissUser
  <2>2. login[b] \in LoginState
    BY DEF AccountInv, AccountTypes
  <2>3. \A c \in Browsers : login'[c].pc = "commit" => login'[c] = login[c]
    BY <1>1, <2>1, <2>2 DEF LoginState
  <2>4. QED
    BY <1>1, <1>3, <2>3, CookieStays DEF BindSucceeds, MissUser
<1>4. CASE BindFails(b) \/ AddUserRefused(b) \/ CommitFails(b)
  <2>1. Ended(b) /\ UNCHANGED <<now, users, sessions, cookie>>
    BY <1>4 DEF BindFails, AddUserRefused, CommitFails
  <2>2. \A c \in Browsers : login'[c].pc = "commit" => login'[c] = login[c]
    BY <1>1, <2>1 DEF Ended, NoLogin
  <2>3. QED
    BY <1>1, <2>1, <2>2, CookieStays
<1>5. CASE FindUser(b) \/ AddUser(b)
  <2>1. PICK u : NewSession(b, u)
    BY <1>5 DEF FindUser, AddUser
  <2>2. login[b] \in LoginState
    BY DEF AccountInv, AccountTypes
  <2>3. \A c \in Browsers : login'[c] = login[c] \/ login'[c].expires_at = now + SessionTTL
    BY <1>1, <2>1, <2>2 DEF NewSession, LoginState
  <2>4. QED
    BY <1>1, <1>5, <2>3, CookieStays DEF FindUser, AddUser
<1>6. CASE CommitLogin(b)
  BY <1>6, CommitCookie DEF CommitLogin
<1>7. QED
  BY <1>2, <1>3, <1>4, <1>5, <1>6 DEF LoginNext

\* The record of a run keeps its user when its status changes.
LEMMA RunKept ==
    ASSUME RunOK, NEW st, run' = run \/ run' = [run EXCEPT !.status = st],
           users \subseteq users', asked' = asked
    PROVE  RunOK'
<1>1. run'.user_id = run.user_id
  BY DEF RunOK
<1>2. run' = [k \in {"user_id", "runner_type", "framework_image", "status"} |-> run'[k]]
  BY DEF RunOK
<1>3. QED
  BY <1>1, <1>2 DEF RunOK, Answerable

\* Steps that keep every request and the record, or drop requests.
LEMMA AuditStays ==
    ASSUME AuditInv, CookieInv', users \subseteq users', asked' = asked,
           \/ run' = run
           \/ RunOK /\ \E st : run' = [run EXCEPT !.status = st],
           request' = [b \in Browsers |-> request'[b]],
           \A b \in Browsers : request'[b] # None => request'[b] = request[b],
           message' # None /\ message'.kind = "bundle" =>
              RunOK \/ message' = message,
           task' # None => RunOK
    PROVE  AuditInv'
<1>1. RunOK => RunOK'
  BY RunKept
<1>2. \A b \in Browsers : request'[b] # None =>
          Answerable(request[b].bundle.user_id, request[b].login, request[b].at)'
  BY DEF AuditInv, Answerable
<1>3. QED
  BY <1>1, <1>2 DEF AuditInv

LEMMA SubmitAudit ==
    ASSUME AuditInv, AccountInv, NEW b \in Browsers, NEW f \in Forms, SubmitTest(b, f)
    PROVE  AuditInv'
<1>1. PICK u \in Resolved(b) :
          request' = [request EXCEPT ![b] =
              [bundle |-> FormBundle(TestId, u.id, f), form |-> f, login |-> cookie[b], at |-> now]]
  BY DEF SubmitTest
<1>2. UNCHANGED <<now, users, sessions, login, cookie, run, asked, message, task>>
  BY DEF SubmitTest, sessionVars, wireVars
<1>3. PICK s \in sessions : s.token = cookie[b].token /\ s.expires_at >= now /\ s.user_id = u.id
  BY <1>1 DEF Resolved, Unexpired
<1>4. Answerable(s.user_id, cookie[b], s.expires_at) /\ cookie[b].at \in Nat /\ s.expires_at \in Nat
  BY <1>1, <1>3 DEF Resolved, AuditInv, CookieInv
<1>5. Answerable(u.id, cookie[b], now)
  <2>1. now \in Nat /\ SessionTTL \in Nat
    BY TimeAssumption DEF AccountInv, AccountTypes
  <2>2. now <= cookie[b].at + SessionTTL
    BY <1>3, <1>4, <2>1 DEF Answerable
  <2>3. QED
    BY <1>3, <1>4, <2>2 DEF Answerable
<1>6. FormBundle(TestId, u.id, f).user_id = u.id
  BY DEF FormBundle
<1>7. PICK r : r = [bundle |-> FormBundle(TestId, u.id, f), form |-> f, login |-> cookie[b], at |-> now]
  OBVIOUS
<1>8. r.bundle.user_id = u.id /\ r.login = cookie[b] /\ r.at = now
  BY <1>6, <1>7
<1>9. request' = [request EXCEPT ![b] = r]
  BY <1>1, <1>7
<1>10. CookieInv' /\ (RunOK => RunOK')
  BY <1>2 DEF AuditInv, CookieInv, RunOK, Answerable
<1>11. ASSUME NEW c \in Browsers, request'[c] # None
       PROVE  Answerable(request[c].bundle.user_id, request[c].login, request[c].at)'
  <2>1. CASE c = b
    BY <1>2, <1>5, <1>8, <1>9, <2>1 DEF AuditInv, Answerable
  <2>2. CASE c # b
    BY <1>2, <1>9, <1>11, <2>2 DEF AuditInv, Answerable
  <2>3. QED
    BY <2>1, <2>2
<1>12. request' = [c \in Browsers |-> request'[c]]
  BY <1>9 DEF AuditInv
<1>13. QED
  BY <1>2, <1>10, <1>11, <1>12 DEF AuditInv

LEMMA RecordAudit ==
    ASSUME AuditInv, AccountInv, NEW b \in Browsers, CommitRun(b)
    PROVE  AuditInv'
<1>1. PICK r : r = request[b]
  OBVIOUS
<1>2. /\ r # None /\ Answerable(r.bundle.user_id, r.login, r.at)
      /\ UNCHANGED <<now, users, sessions, login, cookie, request, message, task>>
  BY <1>1 DEF CommitRun, sessionVars, wireVars, AuditInv
<1>3. /\ run' = [user_id |-> r.bundle.user_id, runner_type |-> r.bundle.runner_type,
                 framework_image |-> r.bundle.framework_image, status |-> "PENDING"]
      /\ asked' = [form |-> r.form, login |-> r.login, at |-> r.at]
  BY <1>1 DEF CommitRun
<1>4. run'.user_id = r.bundle.user_id /\ asked'.login = r.login /\ asked'.at = r.at
  BY <1>3
<1>5. run' = [k \in {"user_id", "runner_type", "framework_image", "status"} |-> run'[k]]
  BY <1>3
<1>6. RunOK'
  BY <1>2, <1>4, <1>5 DEF RunOK, Answerable
<1>7. CookieInv'
  BY <1>2 DEF AuditInv, CookieInv, Answerable
<1>8. QED
  BY <1>2, <1>6, <1>7 DEF AuditInv, Answerable

LEMMA RequestAudit ==
    ASSUME AuditInv, AccountInv, NEW b \in Browsers, CommitRunFails(b) \/ Dispatch(b)
    PROVE  AuditInv'
<1>1. CookieInv' /\ users' = users /\ asked' = asked /\ task' = task
  BY DEF CommitRunFails, Dispatch, sessionVars, wireVars, AuditInv, CookieInv, Answerable
<1>2. request' = [request EXCEPT ![b] = None]
  BY DEF CommitRunFails, Dispatch
<1>3. /\ request' = [c \in Browsers |-> request'[c]]
      /\ \A c \in Browsers : request'[c] # None => request'[c] = request[c]
  BY <1>2 DEF AuditInv
<1>4. CASE CommitRunFails(b)
  <2>1. run' = run /\ message' = message
    BY <1>4 DEF CommitRunFails, wireVars
  <2>2. QED
    BY <1>1, <1>3, <2>1, AuditStays DEF AuditInv
<1>5. CASE Dispatch(b)
  <2>1. RunOK /\ \E st : run' = [run EXCEPT !.status = st]
    BY <1>5 DEF Dispatch, AuditInv
  <2>2. QED
    BY <1>1, <1>3, <2>1, AuditStays
<1>6. QED
  BY <1>4, <1>5

LEMMA WorkerAudit ==
    ASSUME AuditInv, AccountInv,
           Rebuild \/ RunnerUnknown \/ Translate \/ Acknowledge \/ WorkerCrash
    PROVE  AuditInv'
<1>1. /\ UNCHANGED <<now, users, sessions, login, cookie, request, asked>>
      /\ message' = message \/ message' = None
  BY DEF Rebuild, RunnerUnknown, Translate, Acknowledge, WorkerCrash, sessionVars, requestVars
<1>2. CookieInv'
  BY <1>1 DEF AuditInv, CookieInv, Answerable
<1>3. \/ run' = run /\ (task' # None => RunOK)
      \/ RunOK /\ \E st : run' = [run EXCEPT !.status = st]
  BY DEF Rebuild, Delivered, RunnerUnknown, Translate, Acknowledge, WorkerCrash, requestVars, AuditInv
<1>4. QED
  BY <1>1, <1>2, <1>3, AuditStays DEF AuditInv

LEMMA StatusAudit ==
    ASSUME AuditInv, AccountInv,
           (\E r \in Readings : ReportStatus(r)) \/ ShowStatus \/ ClearTable \/ UNCHANGED vars
    PROVE  AuditInv'
<1>1. /\ UNCHANGED <<now, users, sessions, login, cookie, request, asked, run, task>>
      /\ message' # None /\ message'.kind = "bundle" => message' = message
  BY DEF ReportStatus, ShowStatus, ClearTable, vars, sessionVars, requestVars, wireVars
<1>2. CookieInv'
  BY <1>1 DEF AuditInv, CookieInv, Answerable
<1>3. QED
  BY <1>1, <1>2, AuditStays DEF AuditInv

LEMMA BackendAudit ==
    ASSUME AuditInv, AccountInv, BackendCrash \/ Clock
    PROVE  AuditInv'
<1>1. UNCHANGED <<users, sessions, cookie, run, asked, message, task>>
  BY DEF BackendCrash, Clock, Tick, requestVars, wireVars
<1>2. now \in Nat /\ now' \in Nat /\ now <= now'
  BY DEF BackendCrash, Clock, Tick, AccountInv, AccountTypes
<1>3. \A b \in Browsers : login'[b].pc = "commit" => login'[b] = login[b]
  BY DEF BackendCrash, Clock, Tick, NoLogin
<1>4. CookieInv'
  BY <1>1, <1>2, <1>3, CookieStays DEF AuditInv
<1>5. /\ request' = [b \in Browsers |-> request'[b]]
      /\ \A b \in Browsers : request'[b] # None => request'[b] = request[b]
  BY DEF BackendCrash, Clock, requestVars, AuditInv
<1>6. QED
  BY <1>1, <1>4, <1>5, AuditStays DEF AuditInv

LEMMA AuditStep ==
    ASSUME AuditInv, AccountInv, [Next]_vars
    PROVE  AuditInv'
<1>1. ASSUME NEW b \in Browsers, SessionStep(b) PROVE AuditInv'
  <2>1. CookieInv' /\ users \subseteq users'
    BY <1>1, LoginCookies DEF SessionStep, AuditInv
  <2>2. UNCHANGED <<request, run, asked, message, task>>
    BY <1>1 DEF SessionStep, requestVars, wireVars
  <2>3. QED
    BY <2>1, <2>2, AuditStays DEF AuditInv
<1>2. QED
  BY <1>1, SubmitAudit, RecordAudit, RequestAudit, WorkerAudit, StatusAudit, BackendAudit DEF Next

\* Every run is accounted to the engineer who asked for it, while the session
\* they asked with was good, whoever else logs in, whatever fails and however
\* long a browser keeps its cookie (resolve_session, submit_test).
THEOREM RunsAreAccountable == Spec => []RunIsAccountable
<1>1. AuditInv => RunIsAccountable
  BY DEF AuditInv, RunOK, Answerable, RunIsAccountable
<1>2. Init => AuditInv
  <2>1. ASSUME Init PROVE CookieInv
    BY <2>1, FS_EmptySet DEF Init, SessionsInit, CookieInv, NoLogin
  <2>2. QED
    BY <2>1 DEF Init, AuditInv
<1>3. Init => AccountInv /\ PairInv
  BY FrontendInit
<1>4. AccountInv /\ PairInv /\ AuditInv /\ [Next]_vars => (AccountInv /\ PairInv /\ AuditInv)'
  BY FrontendStep, AuditStep
<1>5. QED
  BY <1>1, <1>2, <1>3, <1>4, PTL DEF Spec

-----------------------------------------------------------------------------
\* The bundle on its way.

\* What submit_test makes of some form.
Accepted(d) == ValidBundle(d) /\ \E x, y, f : d = FormBundle(x, y, f)

LEMMA FormSurvives ==
    ASSUME NEW d, Accepted(d)
    PROVE  FromDict(d) = d /\ ~FromDictRaises(d)
<1>1. PICK x, y, f : d = FormBundle(x, y, f)
  BY DEF Accepted
<1>2. DOMAIN d = RequiredKeys \cup {"required_hw_tags", "requires_emulation",
                                    "quali_reservation_id", "runner_variables"}
  BY <1>1 DEF FormBundle, RequiredKeys
<1>3. FromDict(d) = d
  BY <1>1, <1>2 DEF FromDict, Get, FormBundle
<1>4. QED
  BY <1>2, <1>3 DEF FromDictRaises, Accepted

ReadableInv ==
    /\ request = [b \in Browsers |-> request[b]]
    /\ \A b \in Browsers : request[b] # None => Accepted(request[b].bundle)
    /\ message # None /\ message.kind = "bundle" => Accepted(message.body)
    /\ task # None => task = [k \in {"pc", "bundle"} |-> task[k]] /\ task.pc # "raised"

LEMMA SubmitReadable ==
    ASSUME ReadableInv, NEW b \in Browsers, NEW f \in Forms, SubmitTest(b, f)
    PROVE  ReadableInv'
<1>1. PICK u \in Resolved(b) :
          /\ ValidBundle(FormBundle(TestId, u.id, f))
          /\ request' = [request EXCEPT ![b] =
              [bundle |-> FormBundle(TestId, u.id, f), form |-> f, login |-> cookie[b], at |-> now]]
  BY DEF SubmitTest
<1>2. Accepted(FormBundle(TestId, u.id, f))
  BY <1>1 DEF Accepted
<1>3. \A c \in Browsers : request'[c] # None => Accepted(request'[c].bundle)
  BY <1>1, <1>2 DEF ReadableInv
<1>4. QED
  BY <1>1, <1>3 DEF ReadableInv, SubmitTest, wireVars

LEMMA WorkerReadable ==
    ASSUME ReadableInv, Rebuild \/ RunnerUnknown \/ Translate \/ Acknowledge \/ WorkerCrash
    PROVE  ReadableInv'
<1>1. request' = request /\ (message' = message \/ message' = None)
  BY DEF Rebuild, RunnerUnknown, Translate, Acknowledge, WorkerCrash, requestVars
<1>2. CASE Rebuild
  <2>1. task' = [pc |-> "runner", bundle |-> FromDict(message.body)]
    BY <1>2, FormSurvives DEF Rebuild, Delivered, ReadableInv
  <2>2. QED
    BY <1>1, <2>1 DEF ReadableInv
<1>3. CASE RunnerUnknown \/ Translate
  <2>1. task = [k \in {"pc", "bundle"} |-> task[k]]
    BY <1>3 DEF RunnerUnknown, Translate, ReadableInv
  <2>2. PICK pc \in {"start", "done"} : task' = [task EXCEPT !.pc = pc]
    BY <1>3 DEF RunnerUnknown, Translate
  <2>3. task' = [k \in {"pc", "bundle"} |-> task'[k]] /\ task'.pc = pc
    BY <2>1, <2>2
  <2>4. QED
    BY <1>1, <2>2, <2>3 DEF ReadableInv
<1>4. CASE Acknowledge \/ WorkerCrash
  BY <1>1, <1>4 DEF ReadableInv, Acknowledge, WorkerCrash
<1>5. QED
  BY <1>2, <1>3, <1>4

LEMMA ReadableStep ==
    ASSUME ReadableInv, [Next]_vars
    PROVE  ReadableInv'
<1>1. ASSUME NEW b \in Browsers, CommitRunFails(b) \/ Dispatch(b) PROVE ReadableInv'
  <2>1. /\ request' = [request EXCEPT ![b] = None] /\ task' = task
        /\ message' = message \/ message' = [kind |-> "bundle", body |-> request[b].bundle]
    BY <1>1 DEF CommitRunFails, Dispatch, wireVars
  <2>2. message' # None /\ message'.kind = "bundle" => Accepted(message'.body)
    BY <1>1, <2>1 DEF CommitRunFails, Dispatch, wireVars, ReadableInv
  <2>3. QED
    BY <2>1, <2>2 DEF ReadableInv
<1>2. ASSUME NEW b \in Browsers, SessionStep(b) \/ CommitRun(b) PROVE ReadableInv'
  BY <1>2 DEF SessionStep, CommitRun, requestVars, wireVars, ReadableInv
<1>3. CASE BackendCrash \/ Clock
  BY <1>3 DEF BackendCrash, Clock, requestVars, wireVars, ReadableInv
<1>4. CASE (\E r \in Readings : ReportStatus(r)) \/ ShowStatus \/ ClearTable \/ UNCHANGED vars
  <2>1. request' = request /\ task' = task
        /\ (message' # None /\ message'.kind = "bundle" => message' = message)
    BY <1>4 DEF ReportStatus, ShowStatus, ClearTable, vars, requestVars, wireVars
  <2>2. QED
    BY <2>1 DEF ReadableInv
<1>5. QED
  BY <1>1, <1>2, <1>3, <1>4, SubmitReadable, WorkerReadable DEF Next

\* Whatever forms there are: no bundle that submit_test accepts makes from_dict
\* raise on the worker, so no run is lost before it has a status of its own
\* (TestBundleRequest in src/shared/schemas.py).
THEOREM AcceptedBundlesAreReadable == Spec => []AcceptedIsReadable
<1>1. ReadableInv => AcceptedIsReadable
  BY DEF ReadableInv, AcceptedIsReadable
<1>2. Init => ReadableInv
  BY DEF Init, ReadableInv
<1>3. ReadableInv /\ [Next]_vars => ReadableInv'
  BY ReadableStep
<1>4. QED
  BY <1>1, <1>2, <1>3, PTL DEF Spec

-----------------------------------------------------------------------------
\* The statistics.

LEMMA Division ==
    ASSUME NEW n \in Nat, NEW d \in Nat \ {0}
    PROVE  n \div d \in Nat /\ n % d \in 0..d - 1 /\ n = d * (n \div d) + (n % d)
<1>1. n \div d \in Int /\ n % d \in 0..d - 1
  OBVIOUS
<1>2. n = d * (n \div d) + (n % d)
  OBVIOUS
<1>3. n \div d >= 0
  OBVIOUS
<1>4. QED
  BY <1>1, <1>2, <1>3

LEMMA OneMore ==
    ASSUME NEW d \in Int, NEW q \in Int
    PROVE  d * (q + 1) = d * q + d
OBVIOUS

LEMMA Multiples ==
    ASSUME NEW d \in Nat, NEW x \in Int, NEW y \in Int, x <= y
    PROVE  d * x <= d * y
OBVIOUS

\* f differs from n / d by half at most.
Half(f, n, d) == 2 * (d * f - n) \in -d..d

\* Rounding is off by half a unit at most.
LEMMA RoundingIsNear ==
    ASSUME NEW n \in Nat, NEW d \in Nat \ {0}
    PROVE  RoundHalfEven(n, d) \in Nat /\ Half(RoundHalfEven(n, d), n, d)
<1> DEFINE q == n \div d
           r == n % d
<1>1. q \in Nat /\ r \in 0..d - 1 /\ n = d * q + r
  BY Division
<1>2. RoundHalfEven(n, d) = q \/ (RoundHalfEven(n, d) = q + 1 /\ 2 * r >= d)
  BY <1>1 DEF RoundHalfEven
<1>3. RoundHalfEven(n, d) = q => 2 * r <= d
  BY <1>1 DEF RoundHalfEven
<1> HIDE DEF q, r
<1>4. CASE RoundHalfEven(n, d) = q
  BY <1>1, <1>3, <1>4 DEF Half
<1>5. CASE RoundHalfEven(n, d) = q + 1 /\ 2 * r >= d
  <2>1. d * (q + 1) = d * q + d
    BY <1>1, OneMore
  <2>2. QED
    BY <1>1, <1>5, <2>1 DEF Half
<1>6. QED
  BY <1>2, <1>4, <1>5

LEMMA RoundingIsMonotone ==
    ASSUME NEW m \in Nat, NEW n \in Nat, m <= n, NEW d \in Nat \ {0}
    PROVE  RoundHalfEven(m, d) <= RoundHalfEven(n, d)
<1> DEFINE q == m \div d
           r == m % d
           s == n \div d
           t == n % d
<1>1. /\ q \in Nat /\ r \in 0..d - 1 /\ m = d * q + r
      /\ s \in Nat /\ t \in 0..d - 1 /\ n = d * s + t
  BY Division
<1>2. RoundHalfEven(m, d) \in {q, q + 1} /\ RoundHalfEven(n, d) \in {s, s + 1}
  BY <1>1 DEF RoundHalfEven
<1>3. q = s => r <= t
  BY <1>1
<1>4. q = s => RoundHalfEven(m, d) <= RoundHalfEven(n, d)
  BY <1>1, <1>3 DEF RoundHalfEven
<1> HIDE DEF q, r, s, t
<1>5. q <= s
  <2>1. SUFFICES ASSUME s + 1 <= q PROVE FALSE
    BY <1>1
  <2>2. d * (s + 1) <= d * q
    BY <1>1, <2>1, Multiples
  <2>3. d * (s + 1) = d * s + d
    BY <1>1, OneMore
  <2>4. QED
    BY <1>1, <2>2, <2>3
<1>6. QED
  BY <1>1, <1>2, <1>4, <1>5

\* One rounding, in the snapshot: off by half a unit of the last digit at most.
LEMMA OneRounding ==
    ASSUME NEW n \in Nat, NEW d \in Nat \ {0}
    PROVE  /\ Tenths(n, d) \in Nat /\ Half(Tenths(n, d), 10 * n, d)
           /\ Hundredths(n, d) \in Nat /\ Half(Hundredths(n, d), 100 * n, d)
<1>1. 10 * n \in Nat /\ 100 * n \in Nat
  OBVIOUS
<1>2. QED
  BY <1>1, RoundingIsNear, Zenon DEF Tenths, Hundredths

\* Rounding a figure t, off by half, to r whole units: the errors add up.
LEMMA ErrorsAdd ==
    ASSUME NEW n \in Nat, NEW d \in Nat \ {0}, NEW t \in Nat, NEW r \in Nat
    PROVE  /\ Half(t, 10 * n, d) /\ Half(r, t, 10) => Within(550, r, 1, n, d)
           /\ Half(t, 100 * n, d) /\ Half(r, t, 100) => Within(505, r, 1, n, d)
<1> DEFINE p == d * t
           u == d * r
<1>1. p \in Int /\ u \in Int
  OBVIOUS
<1>2. ASSUME 2 * (10 * r - t) \in -10..10
      PROVE  p - 5 * d <= 10 * u /\ 10 * u <= p + 5 * d
  <2>1. t - 5 <= 10 * r /\ 10 * r <= t + 5
    BY <1>2
  <2>2. d * (t - 5) <= d * (10 * r) /\ d * (10 * r) <= d * (t + 5)
    BY <2>1, Multiples
  <2>3. d * (t - 5) = p - 5 * d /\ d * (10 * r) = 10 * u /\ d * (t + 5) = p + 5 * d
    OBVIOUS
  <2>4. QED
    BY <2>2, <2>3
<1>3. ASSUME 2 * (100 * r - t) \in -100..100
      PROVE  p - 50 * d <= 100 * u /\ 100 * u <= p + 50 * d
  <2>1. t - 50 <= 100 * r /\ 100 * r <= t + 50
    BY <1>3
  <2>2. d * (t - 50) <= d * (100 * r) /\ d * (100 * r) <= d * (t + 50)
    BY <2>1, Multiples
  <2>3. d * (t - 50) = p - 50 * d /\ d * (100 * r) = 100 * u /\ d * (t + 50) = p + 50 * d
    OBVIOUS
  <2>4. QED
    BY <2>2, <2>3
<1> HIDE DEF p, u
<1>4. ASSUME 2 * (p - 10 * n) \in -d..d, p - 5 * d <= 10 * u, 10 * u <= p + 5 * d
      PROVE  1000 * (u - n) \in -(550 * d)..(550 * d)
  BY <1>1, <1>4
<1>5. ASSUME 2 * (p - 100 * n) \in -d..d, p - 50 * d <= 100 * u, 100 * u <= p + 50 * d
      PROVE  1000 * (u - n) \in -(505 * d)..(505 * d)
  BY <1>1, <1>5
<1>6. QED
  <2>1. 1 * n = n
    OBVIOUS
  <2>2. QED
    BY <1>2, <1>3, <1>4, <1>5, <2>1 DEF p, u, Half, Within

LEMMA SmallerFigure ==
    ASSUME NEW m \in Nat, NEW n \in Nat, m <= n, NEW d \in Nat \ {0}
    PROVE  Tenths(m, d) <= Tenths(n, d) /\ Hundredths(m, d) <= Hundredths(n, d)
<1>1. /\ 10 * m \in Nat /\ 10 * n \in Nat /\ 10 * m <= 10 * n
      /\ 100 * m \in Nat /\ 100 * n \in Nat /\ 100 * m <= 100 * n
  OBVIOUS
<1>2. QED
  BY <1>1, RoundingIsMonotone DEF Tenths, Hundredths

LEMMA CpuInRange ==
    ASSUME NEW cpu \in Int
    PROVE  CpuClamped(cpu) \in Nat /\ Tenths(CpuClamped(cpu), PerPercent) \in 0..1000
<1> DEFINE c == CpuClamped(cpu)
           k == Tenths(c, PerPercent)
<1>1. PerPercent \in Nat \ {0} /\ c \in Nat /\ c <= 100 * PerPercent
  BY GrainAssumption DEF CpuClamped
<1>2. k \in Nat /\ 2 * (PerPercent * k - 10 * c) \in -PerPercent..PerPercent
  BY <1>1, OneRounding DEF Half
<1> HIDE DEF c, k
<1>3. 2 * (PerPercent * k) <= 2001 * PerPercent
  BY <1>1, <1>2
<1>4. k <= 1000
  <2>1. SUFFICES ASSUME 1001 <= k PROVE FALSE
    BY <1>2
  <2>2. PerPercent * 1001 <= PerPercent * k
    BY <1>1, <1>2, <2>1, Multiples
  <2>3. QED
    BY <1>1, <1>2, <1>3, <2>2
<1>5. k \in 0..1000
  BY <1>2, <1>4
<1>6. QED
  BY <1>1, <1>5 DEF c, k

\* HostStats accepts every snapshot.
LEMMA SnapshotIsPlausible ==
    ASSUME NEW r \in Readings
    PROVE  Plausible(Collect(r))
<1>1. Tenths(CpuClamped(r.cpu), PerPercent) \in 0..1000
  BY CpuInRange, ReadingsAssumption, Zenon
<1>2. /\ 0 <= Tenths(r.ram_available, PerMB)
      /\ Tenths(r.ram_available, PerMB) <= Tenths(r.ram_total, PerMB)
      /\ 0 <= Hundredths(r.disk_free, PerGB)
      /\ Hundredths(r.disk_free, PerGB) <= Hundredths(r.disk_total, PerGB)
  <2>1. /\ r.ram_available \in Nat /\ r.ram_total \in Nat /\ r.ram_available <= r.ram_total
        /\ r.disk_free \in Nat /\ r.disk_total \in Nat /\ r.disk_free <= r.disk_total
        /\ PerMB \in Nat \ {0} /\ PerGB \in Nat \ {0}
    BY ReadingsAssumption, GrainAssumption
  <2>2. /\ Tenths(r.ram_available, PerMB) <= Tenths(r.ram_total, PerMB)
        /\ Hundredths(r.disk_free, PerGB) <= Hundredths(r.disk_total, PerGB)
    BY <2>1, SmallerFigure, Zenon
  <2>3. Tenths(r.ram_available, PerMB) \in Nat /\ Hundredths(r.disk_free, PerGB) \in Nat
    BY <2>1, OneRounding, Zenon
  <2>4. \A k \in Nat : 0 <= k
    OBVIOUS
  <2>5. QED
    BY <2>2, <2>3, <2>4, Zenon
<1>3. (IF r.utmp THEN r.users ELSE 0) >= 0
  BY ReadingsAssumption
<1>4. QED
  BY <1>1, <1>2, <1>3 DEF Plausible, Collect

\* The figures of a row, each as near as its roundings allow.
LEMMA FigureIsNear ==
    ASSUME NEW n \in Nat, NEW d \in Nat \ {0}
    PROVE  /\ Within(500, Tenths(n, d), 10, n, d)
           /\ Within(550, RoundHalfEven(Tenths(n, d), 10), 1, n, d)
           /\ Within(500, Hundredths(n, d), 100, n, d)
           /\ Within(505, RoundHalfEven(Hundredths(n, d), 100), 1, n, d)
<1>1. ASSUME NEW t \in Nat, NEW w \in Nat, Half(t, w, d)
      PROVE  1000 * (d * t - w) \in -(500 * d)..(500 * d)
  <2> DEFINE p == d * t
  <2>1. p \in Int /\ 2 * (p - w) \in -d..d
    BY <1>1 DEF Half
  <2> HIDE DEF p
  <2>2. 1000 * (p - w) \in -(500 * d)..(500 * d)
    BY <2>1
  <2>3. QED
    BY <2>2 DEF p
<1>2. 10 * n \in Nat /\ 100 * n \in Nat /\ 10 \in Nat \ {0} /\ 100 \in Nat \ {0}
  OBVIOUS
<1>3. /\ Tenths(n, d) \in Nat /\ Half(Tenths(n, d), 10 * n, d)
      /\ Hundredths(n, d) \in Nat /\ Half(Hundredths(n, d), 100 * n, d)
  BY OneRounding, Zenon
<1>4. /\ RoundHalfEven(Tenths(n, d), 10) \in Nat
      /\ Half(RoundHalfEven(Tenths(n, d), 10), Tenths(n, d), 10)
      /\ RoundHalfEven(Hundredths(n, d), 100) \in Nat
      /\ Half(RoundHalfEven(Hundredths(n, d), 100), Hundredths(n, d), 100)
  BY <1>2, <1>3, RoundingIsNear, Zenon
<1>5. /\ Within(550, RoundHalfEven(Tenths(n, d), 10), 1, n, d)
      /\ Within(505, RoundHalfEven(Hundredths(n, d), 100), 1, n, d)
  BY <1>3, <1>4, ErrorsAdd
<1>6. Within(500, Tenths(n, d), 10, n, d) /\ Within(500, Hundredths(n, d), 100, n, d)
  BY <1>1, <1>2, <1>3 DEF Within
<1>7. QED
  BY <1>5, <1>6

\* A row is as near to the reading as its roundings allow.
LEMMA RowIsTrue ==
    ASSUME NEW r \in Readings
    PROVE  LET shown == StatusRow(Collect(r))
           IN  /\ Within(500, shown.cpu, 10, CpuClamped(r.cpu), PerPercent)
               /\ Within(500, shown.ram, 10, r.ram_available, PerMB)
               /\ Within(550, shown.ram_of, 1, r.ram_total, PerMB)
               /\ Within(500, shown.disk, 100, r.disk_free, PerGB)
               /\ Within(505, shown.disk_of, 1, r.disk_total, PerGB)
<1>1. CpuClamped(r.cpu) \in Nat
  BY CpuInRange, ReadingsAssumption
<1>2. /\ Within(500, Tenths(CpuClamped(r.cpu), PerPercent), 10, CpuClamped(r.cpu), PerPercent)
      /\ Within(500, Tenths(r.ram_available, PerMB), 10, r.ram_available, PerMB)
      /\ Within(550, RoundHalfEven(Tenths(r.ram_total, PerMB), 10), 1, r.ram_total, PerMB)
      /\ Within(500, Hundredths(r.disk_free, PerGB), 100, r.disk_free, PerGB)
      /\ Within(505, RoundHalfEven(Hundredths(r.disk_total, PerGB), 100), 1, r.disk_total, PerGB)
  BY <1>1, FigureIsNear, ReadingsAssumption, GrainAssumption
<1>3. QED
  BY <1>2 DEF StatusRow, Collect

IsReport(m) == m # None /\ m.kind = "stats"

\* What is on its way or in the table comes from the last reading, and a task
\* works on no report.
ReportInv ==
    /\ IsReport(message) => reading \in Readings /\ message.body = Collect(reading)
    /\ row # None => reading \in Readings /\ row = StatusRow(Collect(reading)) /\ ~IsReport(message)
    /\ reading # None => row # None \/ IsReport(message)
    /\ task # None => message # None /\ message.kind = "bundle"

LEMMA ReportStep ==
    ASSUME ReportInv, [Next]_vars
    PROVE  ReportInv'
<1> USE DEF ReportInv, IsReport
<1>1. ASSUME NEW b \in Browsers, Dispatch(b) PROVE ReportInv'
  <2>1. message = None /\ UNCHANGED <<row, reading, task>>
    BY <1>1 DEF Dispatch
  <2>2. message' # None => message'.kind = "bundle"
    BY <1>1, <2>1 DEF Dispatch
  <2>3. QED
    BY <2>1, <2>2
<1>2. ASSUME NEW b \in Browsers, SessionStep(b) \/ CommitRun(b) \/ CommitRunFails(b) PROVE ReportInv'
  BY <1>2 DEF SessionStep, CommitRun, CommitRunFails, wireVars
<1>3. ASSUME NEW b \in Browsers, NEW f \in Forms, SubmitTest(b, f) PROVE ReportInv'
  BY <1>3 DEF SubmitTest, wireVars
<1>4. CASE BackendCrash \/ Clock \/ UNCHANGED vars
  BY <1>4 DEF BackendCrash, Clock, vars, wireVars
<1>5. CASE Rebuild \/ RunnerUnknown \/ Translate \/ WorkerCrash
  <2>1. UNCHANGED <<message, row, reading>>
    BY <1>5 DEF Rebuild, RunnerUnknown, Translate, WorkerCrash
  <2>2. task' # None => message # None /\ message.kind = "bundle"
    BY <1>5 DEF Rebuild, Delivered, RunnerUnknown, Translate, WorkerCrash
  <2>3. QED
    BY <2>1, <2>2
<1>6. CASE Acknowledge
  BY <1>6 DEF Acknowledge
<1>7. ASSUME NEW r \in Readings, ReportStatus(r) PROVE ReportInv'
  <2>1. message' = [kind |-> "stats", body |-> Collect(r)]
    BY <1>7, SnapshotIsPlausible DEF ReportStatus
  <2>2. message' # None /\ message'.kind = "stats" /\ message'.body = Collect(r)
    BY <2>1, NoneIsNoReport
  <2>3. reading' = r /\ row' = None /\ task' = None
    BY <1>7 DEF ReportStatus
  <2>4. QED
    BY <2>2, <2>3
<1>8. CASE ShowStatus
  <2>1. row' = StatusRow(Collect(reading)) /\ message' = None /\ reading' = reading /\ task' = None
    BY <1>8 DEF ShowStatus, requestVars
  <2>2. reading \in Readings
    BY <1>8 DEF ShowStatus
  <2>3. row' # None
    BY <2>1, <2>2, NoneIsNoReport
  <2>4. QED
    BY <2>1, <2>2, <2>3
<1>9. CASE ClearTable
  BY <1>9 DEF ClearTable
<1>10. QED
  BY <1>1, <1>2, <1>3, <1>4, <1>5, <1>6, <1>7, <1>8, <1>9 DEF Next

LEMMA ReportInvHolds == Spec => []ReportInv
<1>1. Init => ReportInv
  BY DEF Init, ReportInv, IsReport
<1>2. QED
  BY <1>1, ReportStep, PTL DEF Spec

\* Whatever psutil reads within its own guarantees, the assertions of HostStats
\* hold and the report goes out (collect_host_stats in src/shared/host_stats.py).
THEOREM NoHostIsMute == Spec => []EveryReportShows
<1>1. ReportInv => EveryReportShows
  BY DEF ReportInv, IsReport, EveryReportShows
<1>2. QED
  BY <1>1, ReportInvHolds, PTL

\* Whatever psutil reads and in whatever grain: a figure with decimals is the
\* reading rounded once, and a total, which the code rounds twice, is off by no
\* more than the two errors together (collect_host_stats, render_status_row).
THEOREM TableIsAlwaysTrue == Spec => []TableIsTrue
<1>1. ReportInv => TableIsTrue
  BY RowIsTrue DEF ReportInv, TableIsTrue
<1>2. QED
  BY <1>1, ReportInvHolds, PTL

-----------------------------------------------------------------------------
\* Types.

\* What the invariants above leave open.
RestTypeOK ==
    /\ now \in 0..MaxTime /\ budget \in 0..MaxFaults
    /\ sessions \subseteq UserSession
    /\ cookie \in [Browsers -> [token : Nat, by : Engineers, at : Nat] \cup {None}]

WireTypeOK ==
    /\ run # None => run.user_id \in Nat /\ run.status \in Statuses
    /\ message # None => message.kind \in {"bundle", "stats"}
    /\ task # None => task.pc \in {"runner", "start", "raised", "done"}

AllInv == AccountInv /\ PairInv /\ AuditInv /\ ReadableInv

LEMMA FaultTypes ==
    ASSUME RestTypeOK, NEW k, Fault(k)
    PROVE  budget' \in 0..MaxFaults
BY FrontendFaultsAssumption DEF RestTypeOK, Fault

LEMMA LoginTypes ==
    ASSUME AllInv, RestTypeOK, NEW b \in Browsers, LoginNext(b)
    PROVE  RestTypeOK'
<1>1. CASE ~CommitLogin(b)
  <2>1. UNCHANGED <<now, sessions, cookie>> /\ (budget' = budget \/ Fault("db"))
    BY <1>1 DEF LoginNext, SubmitLogin, BindSucceeds, BindFails, FindUser, MissUser, AddUser,
       AddUserRefused, CommitFails
  <2>2. QED
    BY <2>1, FaultTypes DEF RestTypeOK
<1>2. CASE CommitLogin(b)
  <2> DEFINE s == [token |-> Cardinality(sessions) + 1, user_id |-> login[b].user.id,
                   expires_at |-> login[b].expires_at]
             c == [token |-> s.token, by |-> login[b].username, at |-> now]
  <2>1. /\ sessions' = sessions \cup {s} /\ cookie' = [cookie EXCEPT ![b] = c]
        /\ UNCHANGED <<now, budget>> /\ login[b].pc = "commit"
    BY <1>2 DEF CommitLogin
  <2>2. login[b].user \in User /\ login[b].expires_at \in Nat /\ login[b].username \in Engineers
    BY <2>1 DEF AllInv, AccountInv, AccountTypes, LoginOK, LoginState
  <2>3. Cardinality(sessions) + 1 \in Nat /\ now \in Nat
    BY FS_CardinalityType DEF AllInv, AuditInv, CookieInv, AccountInv, AccountTypes
  <2>4. s \in UserSession /\ c \in [token : Nat, by : Engineers, at : Nat]
    BY <2>2, <2>3 DEF User, UserSession
  <2> HIDE DEF s, c
  <2>5. QED
    BY <2>1, <2>4 DEF RestTypeOK
<1>3. QED
  BY <1>1, <1>2

LEMMA RestTypes ==
    ASSUME AllInv, RestTypeOK, [Next]_vars
    PROVE  RestTypeOK'
<1>1. ASSUME NEW b \in Browsers, SessionStep(b) PROVE RestTypeOK'
  BY <1>1, LoginTypes DEF SessionStep
<1>2. CASE Clock
  BY <1>2, TimeAssumption DEF Clock, Tick, RestTypeOK
<1>3. ASSUME UNCHANGED <<now, sessions, cookie>>, budget' = budget \/ \E k : Fault(k)
      PROVE  RestTypeOK'
  BY <1>3, FaultTypes DEF RestTypeOK
<1>4. ASSUME NEW b \in Browsers,
             (\E f \in Forms : SubmitTest(b, f)) \/ CommitRun(b) \/ CommitRunFails(b) \/ Dispatch(b)
      PROVE  RestTypeOK'
  BY <1>3, <1>4 DEF SubmitTest, CommitRun, CommitRunFails, Dispatch, sessionVars
<1>5. CASE BackendCrash \/ Rebuild \/ RunnerUnknown \/ Translate \/ Acknowledge \/ WorkerCrash
  BY <1>3, <1>5 DEF BackendCrash, Rebuild, RunnerUnknown, Translate, Acknowledge, WorkerCrash, sessionVars
<1>6. CASE (\E r \in Readings : ReportStatus(r)) \/ ShowStatus \/ ClearTable \/ UNCHANGED vars
  BY <1>3, <1>6 DEF ReportStatus, ShowStatus, ClearTable, vars, sessionVars
<1>7. QED
  BY <1>1, <1>2, <1>4, <1>5, <1>6 DEF Next

LEMMA WireTypes ==
    ASSUME AllInv, WireTypeOK, [Next]_vars
    PROVE  WireTypeOK'
<1> USE DEF WireTypeOK
<1>1. ASSUME NEW b \in Browsers, SessionStep(b) \/ (\E f \in Forms : SubmitTest(b, f)) PROVE WireTypeOK'
  BY <1>1 DEF SessionStep, SubmitTest, requestVars, wireVars
<1>2. ASSUME NEW b \in Browsers, CommitRun(b) PROVE WireTypeOK'
  <2>1. PICK uid : uid = request[b].bundle.user_id
    OBVIOUS
  <2>2. run'.user_id = uid /\ run'.status = "PENDING" /\ UNCHANGED <<message, task>>
    BY <1>2, <2>1 DEF CommitRun, wireVars
  <2>3. uid \in Nat
    BY <1>2, <2>1 DEF CommitRun, AllInv, AuditInv, Answerable, AccountInv, AccountTypes, User
  <2>4. QED
    BY <2>2, <2>3 DEF Statuses
<1>3. ASSUME NEW b \in Browsers, CommitRunFails(b) PROVE WireTypeOK'
  BY <1>3 DEF CommitRunFails, wireVars
<1>4. ASSUME RunOK,
             NEW st \in {"PENDING", "DISPATCHED", "RUNNING", "FAILED"}, run' = [run EXCEPT !.status = st]
      PROVE  run'.user_id \in Nat /\ run'.status = st
  <2>1. run.user_id \in Nat
    BY <1>4 DEF RunOK, Answerable, AllInv, AccountInv, AccountTypes, User
  <2>2. QED
    BY <1>4, <2>1 DEF RunOK
<1>5. ASSUME NEW b \in Browsers, Dispatch(b) PROVE WireTypeOK'
  <2>1. RunOK /\ \E st \in {"DISPATCHED", "FAILED"} : run' = [run EXCEPT !.status = st]
    BY <1>5 DEF Dispatch, AllInv, AuditInv
  <2>2. task' = task /\ (message' # None => message'.kind = "bundle")
    BY <1>5 DEF Dispatch
  <2>3. QED
    BY <2>1, <2>2, <1>4 DEF Statuses
<1>6. CASE Rebuild \/ RunnerUnknown
  <2>1. RunOK
    BY <1>6 DEF Rebuild, Delivered, RunnerUnknown, AllInv, AuditInv
  <2>2. message' = message
    BY <1>6 DEF Rebuild, RunnerUnknown
  <2>3. task' # None => task'.pc \in {"runner", "start", "raised", "done"}
    BY <1>6 DEF Rebuild, RunnerUnknown, AllInv, ReadableInv
  <2>4. run' = run \/ \E st \in {"RUNNING", "FAILED"} : run' = [run EXCEPT !.status = st]
    BY <1>6 DEF Rebuild, RunnerUnknown
  <2>5. QED
    BY <2>1, <2>2, <2>3, <2>4, <1>4 DEF Statuses
<1>7. CASE Translate
  BY <1>7 DEF Translate, requestVars, AllInv, ReadableInv
<1>8. CASE Acknowledge \/ WorkerCrash
  BY <1>8 DEF Acknowledge, WorkerCrash, requestVars
<1>9. CASE BackendCrash \/ Clock \/ UNCHANGED vars
  BY <1>9 DEF BackendCrash, Clock, vars, requestVars, wireVars
<1>10. CASE (\E r \in Readings : ReportStatus(r)) \/ ShowStatus \/ ClearTable
  BY <1>10 DEF ReportStatus, ShowStatus, ClearTable, requestVars
<1>11. QED
  BY <1>1, <1>2, <1>3, <1>5, <1>6, <1>7, <1>8, <1>9, <1>10 DEF Next

\* Every variable keeps its type, for any number of logins, requests, crashes
\* and database errors (the tables users, user_sessions and test_executions).
THEOREM FrontendTypes == Spec => []FrontendTypeOK
<1> DEFINE Inv == AllInv /\ RestTypeOK /\ WireTypeOK
<1>1. Init => Inv
  <2>1. ASSUME Init PROVE AuditInv /\ ReadableInv
    BY <2>1, FS_EmptySet DEF Init, SessionsInit, AuditInv, CookieInv, ReadableInv, NoLogin
  <2>2. ASSUME Init PROVE RestTypeOK /\ WireTypeOK
    BY <2>2, TimeAssumption, FrontendFaultsAssumption DEF Init, SessionsInit, RestTypeOK, WireTypeOK
  <2>3. QED
    BY <2>1, <2>2, FrontendInit DEF AllInv
<1>2. Inv /\ [Next]_vars => Inv'
  BY FrontendStep, AuditStep, ReadableStep, RestTypes, WireTypes DEF AllInv
<1>3. Inv => FrontendTypeOK
  BY DEF AllInv, AccountInv, AccountTypes, RestTypeOK, WireTypeOK, FrontendTypeOK, SessionsTypeOK
<1>4. QED
  BY <1>1, <1>2, <1>3, PTL DEF Spec

-----------------------------------------------------------------------------
\* What a field is split into.

\* The words of a list of texts.
Words(pieces) == {pieces[i].word : i \in DOMAIN pieces}

\* The texts of a form.
Texts == [padded : BOOLEAN, word : STRING]

\* A nonempty set of naturals has a least element: induction without an operator.
LEMMA Smallest ==
    ASSUME NEW B \in SUBSET Nat, B # {}
    PROVE  \E n \in B : \A m \in Nat : m < n => m \notin B
<1>1. PICK n \in B : \A y \in B : ~(<<y, n>> \in OpToRel(<, Nat))
  BY NatLessThanWellFounded, WFMin, Zenon
<1>2. \A y \in B : ~(y < n)
  BY <1>1 DEF OpToRel
<1> QED BY <1>2

\* One piece more.
SplitStep(tags, pieces, i) ==
    IF i = 0 THEN <<>>
    ELSE IF Truthy(Strip(pieces[i])) THEN Append(tags[i - 1], Strip(pieces[i]))
    ELSE tags[i - 1]

\* tags holds the lists that SplitTags builds, piece by piece.
IsSplit(tags, pieces, n) == tags = [i \in 0..n |-> SplitStep(tags, pieces, i)]

\* The recursion over the pieces is well defined.
LEMMA SplitExists ==
    ASSUME NEW pieces, NEW n \in Nat
    PROVE  \E tags : IsSplit(tags, pieces, n)
<1> DEFINE B == {k \in Nat : ~\E tags : IsSplit(tags, pieces, k)}
<1>1. B = {}
  <2> SUFFICES ASSUME B # {} PROVE FALSE
    OBVIOUS
  <2>1. PICK k \in B : \A m \in Nat : m < k => m \notin B
    <3>1. B \in SUBSET Nat
      OBVIOUS
    <3> HIDE DEF B
    <3> QED BY <3>1, Smallest
  <2>2. CASE k = 0
    <3> DEFINE t == [i \in 0..0 |-> <<>>]
    <3>1. \A i \in 0..0 : t[i] = SplitStep(t, pieces, i)
      BY DEF SplitStep
    <3>2. IsSplit(t, pieces, 0)
      BY <3>1 DEF IsSplit
    <3> QED BY <2>1, <2>2, <3>2
  <2>3. CASE k # 0
    <3>1. k - 1 \in Nat /\ k - 1 < k /\ k \in Nat
      BY <2>1, <2>3
    <3>2. PICK g : IsSplit(g, pieces, k - 1)
      BY <2>1, <3>1
    <3> DEFINE t == [i \in 0..k |-> SplitStep(g, pieces, i)]
    <3>3. \A i \in 0..k : i # 0 => i - 1 \in 0..(k - 1)
      BY <3>1
    <3>4. \A i \in 0..(k - 1) : i \in 0..k /\ t[i] = g[i]
      BY <3>1, <3>2 DEF IsSplit
    <3>5. \A i \in 0..k : t[i] = SplitStep(t, pieces, i)
      BY <3>3, <3>4 DEF SplitStep
    <3>6. IsSplit(t, pieces, k)
      BY <3>5 DEF IsSplit
    <3> QED BY <2>1, <3>6
  <2> QED BY <2>2, <2>3
<1>2. n \notin B
  BY <1>1
<1> QED BY <1>2

\* The words of the first k pieces that are not blank.
FirstWords(pieces, k) == {pieces[j].word : j \in 1..k} \ {""}

LEMMA AppendWords ==
    ASSUME NEW s \in Seq(Texts), NEW x \in Texts
    PROVE  Append(s, x) \in Seq(Texts) /\ Words(Append(s, x)) = Words(s) \cup {x.word}
<1>1. /\ DOMAIN Append(s, x) = DOMAIN s \cup {Len(s) + 1}
      /\ \A i \in DOMAIN s : Append(s, x)[i] = s[i]
      /\ Append(s, x)[Len(s) + 1] = x
  OBVIOUS
<1>2. Append(s, x) \in Seq(Texts)
  OBVIOUS
<1>3. Words(Append(s, x)) = Words(s) \cup {x.word}
  BY <1>1 DEF Words
<1> QED BY <1>2, <1>3

LEMMA SplitGrows ==
    ASSUME NEW pieces \in Seq(Texts), NEW tags, NEW k \in 1..Len(pieces),
           IsSplit(tags, pieces, Len(pieces)),
           tags[k - 1] \in Seq(Texts), Words(tags[k - 1]) = FirstWords(pieces, k - 1)
    PROVE  tags[k] \in Seq(Texts) /\ Words(tags[k]) = FirstWords(pieces, k)
<1>1. k \in 0..Len(pieces) /\ k # 0 /\ k \in Int
  OBVIOUS
<1>2. tags[k] = SplitStep(tags, pieces, k)
  BY <1>1 DEF IsSplit
<1>3. pieces[k] \in Texts
  OBVIOUS
<1>4. /\ Truthy(Strip(pieces[k])) <=> pieces[k].word # ""
      /\ Strip(pieces[k]) \in Texts /\ Strip(pieces[k]).word = pieces[k].word
  BY <1>3 DEF Truthy, Strip, Plain, Text, Empty, Texts
<1>5. FirstWords(pieces, k) = FirstWords(pieces, k - 1) \cup ({pieces[k].word} \ {""})
  <2>1. 1..k = 1..(k - 1) \cup {k}
    OBVIOUS
  <2> QED BY <2>1 DEF FirstWords
<1>6. CASE pieces[k].word # ""
  <2>1. tags[k] = Append(tags[k - 1], Strip(pieces[k]))
    BY <1>1, <1>2, <1>4, <1>6 DEF SplitStep
  <2>2. tags[k] \in Seq(Texts) /\ Words(tags[k]) = Words(tags[k - 1]) \cup {pieces[k].word}
    BY <1>4, <2>1, AppendWords
  <2> QED BY <1>5, <1>6, <2>2
<1>7. CASE pieces[k].word = ""
  <2>1. tags[k] = tags[k - 1]
    BY <1>1, <1>2, <1>4, <1>7 DEF SplitStep
  <2> QED BY <1>5, <1>7, <2>1
<1> QED BY <1>6, <1>7

\* Splitting a field keeps the words that are not blank.
LEMMA SplitWords ==
    ASSUME NEW pieces \in Seq(Texts)
    PROVE  Words(SplitTags(pieces)) = Words(pieces) \ {""}
<1> DEFINE n == Len(pieces)
           tags == CHOOSE t : IsSplit(t, pieces, n)
<1>1. SplitTags(pieces) = tags[n]
  BY DEF SplitTags, IsSplit, SplitStep
<1>2. n \in Nat
  OBVIOUS
<1>3. IsSplit(tags, pieces, n)
  BY <1>2, SplitExists
<1>4. tags[0] \in Seq(Texts) /\ Words(tags[0]) = FirstWords(pieces, 0)
  <2>1. 0 \in 0..n /\ 1..0 = {}
    OBVIOUS
  <2>2. tags[0] = <<>>
    BY <1>3, <2>1 DEF IsSplit, SplitStep
  <2>3. <<>> \in Seq(Texts)
    OBVIOUS
  <2>4. Words(<<>>) = {}
    BY DEF Words
  <2>5. FirstWords(pieces, 0) = {}
    BY <2>1 DEF FirstWords
  <2> QED BY <2>2, <2>3, <2>4, <2>5
<1> DEFINE B == {i \in Nat : i <= n /\ ~(tags[i] \in Seq(Texts) /\ Words(tags[i]) = FirstWords(pieces, i))}
<1>5. B = {}
  <2> SUFFICES ASSUME B # {} PROVE FALSE
    OBVIOUS
  <2> HIDE DEF tags
  <2>1. PICK k \in B : \A m \in Nat : m < k => m \notin B
    <3>1. B \in SUBSET Nat
      OBVIOUS
    <3> HIDE DEF B
    <3> QED BY <3>1, Smallest
  <2>2. k \in Nat /\ k <= n /\ ~(tags[k] \in Seq(Texts) /\ Words(tags[k]) = FirstWords(pieces, k))
    BY <2>1
  <2>3. k # 0
    BY <1>4, <2>2
  <2>4. k - 1 \in Nat /\ k - 1 < k /\ k - 1 <= n /\ k \in 1..n
    BY <1>2, <2>2, <2>3
  <2>5. k - 1 \notin B
    <3> HIDE DEF B
    <3> QED BY <2>1, <2>4
  <2>6. tags[k - 1] \in Seq(Texts) /\ Words(tags[k - 1]) = FirstWords(pieces, k - 1)
    BY <2>4, <2>5
  <2> HIDE DEF B
  <2> QED BY <1>3, <2>2, <2>4, <2>6, SplitGrows
<1>6. Words(tags[n]) = FirstWords(pieces, n)
  <2> HIDE DEF tags
  <2> QED BY <1>2, <1>5
<1>7. Words(pieces) = {pieces[j].word : j \in 1..n}
  BY DEF Words
<1> QED BY <1>1, <1>6, <1>7 DEF FirstWords

-----------------------------------------------------------------------------
\* The run that was asked for.

BundleOf(d, f) == f \in Forms /\ \E x : d = FormBundle(TestId, x, f)

\* The request that wrote the row is the only one, and what it sends, and what
\* the worker rebuilds from that, is the bundle of the form that was recorded.
AskedInv ==
    /\ \A b \in Browsers : request[b] # None => BundleOf(request[b].bundle, request[b].form)
    /\ \A b, c \in Browsers : request[b] # None /\ request[c] # None => b = c
    /\ run # None =>
          /\ run = [k \in {"user_id", "runner_type", "framework_image", "status"} |-> run[k]]
          /\ asked.form \in Forms /\ run.runner_type = asked.form.runner_type
          /\ run.framework_image = asked.form.framework_image
          /\ \A b \in Browsers : request[b] # None => request[b].form = asked.form
    /\ message # None /\ message.kind = "bundle" =>
          run # None /\ BundleOf(message.body, asked.form)
    /\ task # None =>
          /\ run # None /\ BundleOf(task.bundle, asked.form)
          /\ task.pc = "start" => config.target_dut = asked.form.target_dut

\* What the bundle of a form says, and the configuration written from it.
LEMMA BundleSays ==
    ASSUME NEW d, NEW f, BundleOf(d, f)
    PROVE  /\ d.runner_type = f.runner_type /\ d.framework_image = f.framework_image
           /\ d.requires_emulation = f.requires_emulation
           /\ Words(d.required_hw_tags) = Words(f.required_hw_tags) \ {""}
           /\ WriteConfig(d).target_dut = f.target_dut
<1>1. PICK x : d = FormBundle(TestId, x, f)
  BY DEF BundleOf
<1>2. /\ d.runner_type = f.runner_type /\ d.framework_image = f.framework_image
      /\ d.requires_emulation = f.requires_emulation
      /\ d.required_hw_tags = SplitTags(f.required_hw_tags)
      /\ d.runner_variables = RunnerVariables(f)
  BY <1>1 DEF FormBundle
<1>3. Words(d.required_hw_tags) = Words(f.required_hw_tags) \ {""}
  BY <1>2, FormsAssumption, SplitWords DEF BundleOf, Texts
<1>4. Get(RunnerVariables(f), "target_dut", Empty) = f.target_dut
  BY DEF Get, RunnerVariables, Truthy
<1>5. WriteConfig(d).target_dut = f.target_dut
  BY <1>2, <1>4 DEF WriteConfig
<1>6. QED
  BY <1>2, <1>3, <1>5

\* Steps that keep the record and the row but for its status, and drop requests.
LEMMA AskedStays ==
    ASSUME AskedInv, asked' = asked,
           \/ run' = run
           \/ run # None /\ run' # None /\ \E st : run' = [run EXCEPT !.status = st],
           \A b \in Browsers : request'[b] # None => request'[b] = request[b],
           message' # None /\ message'.kind = "bundle" =>
              run # None /\ BundleOf(message'.body, asked.form),
           task' # None =>
              /\ run # None /\ BundleOf(task'.bundle, asked.form)
              /\ task'.pc = "start" => config'.target_dut = asked.form.target_dut
    PROVE  AskedInv'
<1>1. run' # None =>
        /\ run # None /\ run'.framework_image = run.framework_image
        /\ run'.runner_type = run.runner_type
        /\ run' = [k \in {"user_id", "runner_type", "framework_image", "status"} |-> run'[k]]
  BY DEF AskedInv
<1>2. run # None => run' # None
  OBVIOUS
<1>3. \A d : BundleOf(d, asked'.form) <=> BundleOf(d, asked.form)
  OBVIOUS
<1>4. QED
  BY <1>1, <1>2, <1>3 DEF AskedInv, BundleOf

LEMMA RowStays ==
    ASSUME AskedInv, FrontendTypeOK, run # None,
           NEW st \in {"DISPATCHED", "RUNNING", "FAILED"}
    PROVE  [run EXCEPT !.status = st] # None
<1>1. PICK r : r = [run EXCEPT !.status = st]
  OBVIOUS
<1>2. /\ r = [k \in {"user_id", "runner_type", "framework_image", "status"} |-> r[k]]
      /\ r.user_id \in Nat /\ r.status = st
      /\ r.runner_type \in {f.runner_type : f \in Forms}
      /\ r.framework_image \in {f.framework_image : f \in Forms}
  BY <1>1 DEF AskedInv, FrontendTypeOK
<1>3. r = [user_id |-> r.user_id, runner_type |-> r.runner_type,
           framework_image |-> r.framework_image, status |-> r.status]
  BY <1>2
<1>4. r \in [user_id : Nat, runner_type : {f.runner_type : f \in Forms},
              framework_image : {f.framework_image : f \in Forms}, status : Statuses]
  BY <1>2, <1>3 DEF Statuses
<1>5. QED
  BY <1>1, <1>4, NoneIsNoRow

LEMMA SubmitAsked ==
    ASSUME AskedInv, ReadableInv, NEW b \in Browsers, NEW f \in Forms, SubmitTest(b, f)
    PROVE  AskedInv'
<1>0. PICK u \in Resolved(b) : request' = [request EXCEPT ![b] =
          [bundle |-> FormBundle(TestId, u.id, f), form |-> f, login |-> cookie[b], at |-> now]]
  BY DEF SubmitTest
<1>1. PICK r : r = [bundle |-> FormBundle(TestId, u.id, f), form |-> f, login |-> cookie[b], at |-> now]
  OBVIOUS
<1>2. request' = [request EXCEPT ![b] = r] /\ r.form = f /\ r.bundle = FormBundle(TestId, u.id, f)
  BY <1>0, <1>1
<1>3. run = None /\ \A c \in Browsers : request[c] = None
  BY DEF SubmitTest
<1>4. UNCHANGED <<run, asked, message, task, config>>
  BY DEF SubmitTest, wireVars
<1>5. \A c \in Browsers : request'[c] # None => c = b /\ request'[c] = r
  BY <1>2, <1>3 DEF ReadableInv
<1>6. BundleOf(r.bundle, r.form)
  BY <1>2 DEF BundleOf
<1>7. QED
  BY <1>3, <1>4, <1>5, <1>6 DEF AskedInv, BundleOf

LEMMA RecordAsked ==
    ASSUME AskedInv, NEW b \in Browsers, CommitRun(b)
    PROVE  AskedInv'
<1>1. PICK r : r = request[b]
  OBVIOUS
<1>2. /\ r # None /\ run = None /\ BundleOf(r.bundle, r.form)
      /\ UNCHANGED <<request, message, task, config>>
  BY <1>1 DEF CommitRun, wireVars, AskedInv
<1>3. /\ run' = [user_id |-> r.bundle.user_id, runner_type |-> r.bundle.runner_type,
                 framework_image |-> r.bundle.framework_image, status |-> "PENDING"]
      /\ asked'.form = r.form
  BY <1>1 DEF CommitRun
<1>4. /\ run' = [k \in {"user_id", "runner_type", "framework_image", "status"} |-> run'[k]]
      /\ run'.framework_image = r.bundle.framework_image
      /\ run'.runner_type = r.bundle.runner_type
  BY <1>3
<1>5. /\ run'.framework_image = asked'.form.framework_image
      /\ run'.runner_type = asked'.form.runner_type /\ asked'.form \in Forms
  <2>1. r.form \in Forms /\ r.bundle.framework_image = r.form.framework_image
        /\ r.bundle.runner_type = r.form.runner_type
    BY <1>2, BundleSays DEF BundleOf
  <2>2. QED
    BY <1>3, <1>4, <2>1
<1>6. \A c \in Browsers : request'[c] # None => c = b
  BY <1>1, <1>2 DEF AskedInv
<1>7. QED
  BY <1>1, <1>2, <1>3, <1>4, <1>5, <1>6 DEF AskedInv, BundleOf

LEMMA RequestAsked ==
    ASSUME AskedInv, ReadableInv, FrontendTypeOK, NEW b \in Browsers, CommitRunFails(b) \/ Dispatch(b)
    PROVE  AskedInv'
<1>1. asked' = asked /\ task' = task /\ config' = config
  BY DEF CommitRunFails, Dispatch, wireVars
<1>2. \A c \in Browsers : request'[c] # None => request'[c] = request[c]
  BY DEF CommitRunFails, Dispatch, ReadableInv
<1>3. CASE CommitRunFails(b)
  <2>1. run' = run /\ message' = message
    BY <1>3 DEF CommitRunFails, wireVars
  <2>2. QED
    BY <1>1, <1>2, <2>1, AskedStays DEF AskedInv
<1>4. CASE Dispatch(b)
  <2>1. run # None /\ request[b] # None
    BY <1>4 DEF Dispatch
  <2>2. PICK st \in {"DISPATCHED", "RUNNING", "FAILED"} : run' = [run EXCEPT !.status = st]
    BY <1>4 DEF Dispatch
  <2>3. run' # None
    BY <2>1, <2>2, RowStays
  <2>4. BundleOf(request[b].bundle, asked.form)
    BY <2>1 DEF AskedInv
  <2>5. message' # None /\ message'.kind = "bundle" =>
          run # None /\ BundleOf(message'.body, asked.form)
    BY <1>4, <2>1, <2>4 DEF Dispatch, AskedInv
  <2>6. task' # None =>
          /\ run # None /\ BundleOf(task'.bundle, asked.form)
          /\ task'.pc = "start" => config'.target_dut = asked.form.target_dut
    BY <1>1 DEF AskedInv
  <2>7. QED
    BY <1>1, <1>2, <2>1, <2>2, <2>3, <2>5, <2>6, AskedStays
<1>5. QED
  BY <1>3, <1>4

LEMMA WorkerAsked ==
    ASSUME AskedInv, ReadableInv, FrontendTypeOK,
           Rebuild \/ RunnerUnknown \/ Translate \/ Acknowledge \/ WorkerCrash
    PROVE  AskedInv'
<1>1. /\ UNCHANGED <<request, asked>>
      /\ message' = message \/ message' = None
  BY DEF Rebuild, RunnerUnknown, Translate, Acknowledge, WorkerCrash, requestVars
<1>2. CASE Rebuild
  <2>1. /\ run # None /\ BundleOf(message.body, asked.form)
        /\ Accepted(message.body)
    BY <1>2 DEF Rebuild, Delivered, AskedInv, ReadableInv
  <2>2. task' = [pc |-> "runner", bundle |-> message.body] /\ run' = [run EXCEPT !.status = "RUNNING"]
    BY <1>2, <2>1, FormSurvives DEF Rebuild
  <2>3. run' # None
    <3>1. [run EXCEPT !.status = "RUNNING"] # None
      BY <2>1, RowStays
    <3>2. QED
      BY <2>2, <3>1
  <2>4. task'.bundle = message.body /\ task'.pc = "runner"
    BY <2>2
  <2>5. QED
    BY <1>1, <1>2, <2>1, <2>2, <2>3, <2>4, AskedStays DEF Rebuild, AskedInv
<1>3. CASE RunnerUnknown
  <2>1. /\ task # None /\ run # None /\ BundleOf(task.bundle, asked.form)
        /\ task = [k \in {"pc", "bundle"} |-> task[k]]
    BY <1>3 DEF RunnerUnknown, AskedInv, ReadableInv
  <2>2. task' = [task EXCEPT !.pc = "done"] /\ run' = [run EXCEPT !.status = "FAILED"]
    BY <1>3 DEF RunnerUnknown
  <2>3. task'.bundle = task.bundle /\ task'.pc = "done"
    BY <2>1, <2>2
  <2>4. run' # None
    <3>1. [run EXCEPT !.status = "FAILED"] # None
      BY <2>1, RowStays
    <3>2. QED
      BY <2>2, <3>1
  <2>5. QED
    BY <1>1, <1>3, <2>1, <2>2, <2>3, <2>4, AskedStays DEF RunnerUnknown, AskedInv
<1>4. CASE Translate
  <2>1. /\ task # None /\ run # None /\ BundleOf(task.bundle, asked.form)
        /\ task = [k \in {"pc", "bundle"} |-> task[k]]
    BY <1>4 DEF Translate, AskedInv, ReadableInv
  <2>2. /\ task' = [task EXCEPT !.pc = "start"] /\ config' = WriteConfig(task.bundle)
        /\ UNCHANGED <<run, message>>
    BY <1>4 DEF Translate, requestVars
  <2>3. task'.bundle = task.bundle /\ config'.target_dut = asked.form.target_dut
    BY <2>1, <2>2, BundleSays
  <2>4. QED
    BY <1>1, <2>1, <2>2, <2>3, AskedStays DEF AskedInv
<1>5. CASE Acknowledge \/ WorkerCrash
  <2>1. run' = run /\ task' = None
    BY <1>5 DEF Acknowledge, WorkerCrash, requestVars
  <2>2. QED
    BY <1>1, <2>1, AskedStays DEF AskedInv
<1>6. QED
  BY <1>2, <1>3, <1>4, <1>5

LEMMA AskedStep ==
    ASSUME AskedInv, ReadableInv, FrontendTypeOK, [Next]_vars
    PROVE  AskedInv'
<1>1. ASSUME \/ \E b \in Browsers : SessionStep(b)
             \/ BackendCrash \/ Clock \/ UNCHANGED vars
             \/ (\E r \in Readings : ReportStatus(r)) \/ ShowStatus \/ ClearTable
      PROVE  AskedInv'
  <2>1. UNCHANGED <<asked, run, task, config>>
    BY <1>1 DEF SessionStep, BackendCrash, Clock, ReportStatus, ShowStatus, ClearTable,
                vars, requestVars, wireVars
  <2>2. message' # None /\ message'.kind = "bundle" => message' = message
    BY <1>1 DEF SessionStep, BackendCrash, Clock, ReportStatus, ShowStatus, ClearTable,
                vars, wireVars
  <2>3. \A b \in Browsers : request'[b] # None => request'[b] = request[b]
    BY <1>1 DEF SessionStep, BackendCrash, Clock, ReportStatus, ShowStatus, ClearTable,
                vars, requestVars
  <2>4. QED
    BY <2>1, <2>2, <2>3, AskedStays DEF AskedInv
<1>2. QED
  BY <1>1, SubmitAsked, RecordAsked, RequestAsked, WorkerAsked DEF Next

\* Whatever form is accepted: the runner is configured for what was asked, after
\* the broker, a redelivery and two rebuildings of the bundle (from_dict,
\* write_config), with no tag lost or made up on the way (submit_test).
THEOREM RunsAreAsAsked == Spec => []RunsWhatWasAsked
<1>1. AskedInv => RunsWhatWasAsked
  <2>1. SUFFICES ASSUME AskedInv, task # None, task.pc = "start"
                 PROVE  RunsWhatWasAsked
    BY DEF RunsWhatWasAsked
  <2>2. /\ BundleOf(task.bundle, asked.form) /\ config.target_dut = asked.form.target_dut
        /\ run.framework_image = asked.form.framework_image
    BY <2>1 DEF AskedInv
  <2>3. QED
    BY <2>2, BundleSays DEF RunsWhatWasAsked, Words
<1>2. Init => AskedInv
  BY DEF Init, AskedInv
<1>3. AskedInv /\ ReadableInv /\ FrontendTypeOK /\ [Next]_vars => AskedInv'
  BY AskedStep
<1>4. Spec => []ReadableInv
  <2>1. Init => ReadableInv
    BY DEF Init, ReadableInv
  <2>2. ReadableInv /\ [Next]_vars => ReadableInv'
    BY ReadableStep
  <2>3. QED
    BY <2>1, <2>2, PTL DEF Spec
<1>5. QED
  BY <1>1, <1>2, <1>3, <1>4, FrontendTypes, PTL DEF Spec
================================================================================
