------------------------------- MODULE Sessions --------------------------------
(****************************************************************************)
(* Logging in and being recognised: authenticate_ldap and resolve_session   *)
(* (src/backend/auth/ldap_auth.py), the login route (src/backend/main.py),  *)
(* and the two tables they write (src/backend/models.py).                   *)
(*                                                                          *)
(* Every login is a request with a database session of its own.  It is at   *)
(*   idle     no login under way                                            *)
(*   bind     binding against the directory                                 *)
(*   query    bound, looking for the account                                *)
(*   add      no account found, about to INSERT one (flush)                 *)
(*   commit   account and session row due, transaction open                 *)
(* What a transaction has inserted is invisible to the others until it      *)
(* commits, but the unique index on username already knows it.              *)
(****************************************************************************)
EXTENDS Naturals, FiniteSets

CONSTANTS
    Engineers,      \* usernames the directory knows
    Browsers,       \* each one login or request at a time
    SessionTTL,     \* SESSION_TTL
    MaxTime,        \* bound: how far the clock goes
    MaxSessions,    \* bound: how many session rows are written
    FrontendFaults, \* the kinds of fault this instance injects
    MaxFaults,      \* bound: how many of them
    None

ASSUME TimeAssumption == SessionTTL \in Nat \ {0} /\ MaxTime \in Nat
ASSUME FrontendFaultsAssumption == FrontendFaults \subseteq {"db", "crash"} /\ MaxFaults \in Nat

ASSUME NoneAssumption == None \notin [id : Nat, username : Engineers]

VARIABLES
    now,
    users,        \* committed rows of users
    user_id_seq,  \* the sequence behind users.id
    sessions,     \* committed rows of user_sessions
    login,        \* where each browser's login is
    cookie,       \* each browser's session_token; history: who logged in for it, and when
    budget

sessionVars == <<now, users, user_id_seq, sessions, login, cookie, budget>>

User == [id : Nat, username : Engineers]
UserSession == [token : Nat, user_id : Nat, expires_at : Nat]
NoLogin == [pc |-> "idle", username |-> None, user |-> None, expires_at |-> 0]

SessionsInit ==
    /\ now = 0
    /\ users = {} /\ user_id_seq = 0 /\ sessions = {}
    /\ login = [b \in Browsers |-> NoLogin]
    /\ cookie = [b \in Browsers |-> None]
    /\ budget = MaxFaults

LoginState ==
    [pc : {"idle", "bind", "query", "add", "commit"}, username : Engineers \cup {None},
     user : User \cup {None}, expires_at : Nat]

SessionsTypeOK ==
    /\ now \in 0..MaxTime
    /\ users \subseteq User /\ user_id_seq \in Nat /\ sessions \subseteq UserSession
    /\ login \in [Browsers -> LoginState]
    /\ cookie \in [Browsers -> [token : Nat, by : Engineers, at : Nat] \cup {None}]
    /\ budget \in 0..MaxFaults

Fault(k) ==
    /\ k \in FrontendFaults
    /\ budget > 0
    /\ budget' = budget - 1

Ended(b) == login' = [login EXCEPT ![b] = NoLogin]

-----------------------------------------------------------------------------
\* authenticate_ldap

SubmitLogin(b, n) ==
    /\ login[b].pc = "idle"
    /\ Cardinality(sessions) + Cardinality({c \in Browsers : login[c].pc # "idle"}) < MaxSessions
    /\ login' = [login EXCEPT ![b].pc = "bind", ![b].username = n]
    /\ UNCHANGED <<now, users, user_id_seq, sessions, cookie, budget>>

BindSucceeds(b) ==
    /\ login[b].pc = "bind"
    /\ login' = [login EXCEPT ![b].pc = "query"]
    /\ UNCHANGED <<now, users, user_id_seq, sessions, cookie, budget>>

\* A blank field, wrong credentials or no directory: the form again, 401.  An
\* error of the search after the bind is a 500, which ends the login as well.
BindFails(b) ==
    /\ login[b].pc = "bind"
    /\ Ended(b)
    /\ UNCHANGED <<now, users, user_id_seq, sessions, cookie, budget>>

NewSession(b, u) ==
    login' = [login EXCEPT ![b].pc = "commit", ![b].user = u, ![b].expires_at = now + SessionTTL]

AccountsOf(n) == {u \in users : u.username = n}

FindUser(b) ==
    /\ login[b].pc = "query"
    /\ \E u \in AccountsOf(login[b].username) : NewSession(b, u)
    /\ UNCHANGED <<now, users, user_id_seq, sessions, cookie, budget>>

MissUser(b) ==
    /\ login[b].pc = "query"
    /\ AccountsOf(login[b].username) = {}
    /\ login' = [login EXCEPT ![b].pc = "add"]
    /\ UNCHANGED <<now, users, user_id_seq, sessions, cookie, budget>>

\* Other transactions with an uncommitted account of this name: the index
\* makes the INSERT wait for them.
Inserting(b) ==
    {c \in Browsers \ {b} : /\ login[c].user # None
                            /\ login[c].user \notin users
                            /\ login[c].user.username = login[b].username}

\* Variant: without the unique index.
AddUserUnchecked(b) ==
    /\ login[b].pc = "add"
    /\ user_id_seq' = user_id_seq + 1
    /\ NewSession(b, [id |-> user_id_seq', username |-> login[b].username])
    /\ UNCHANGED <<now, users, sessions, cookie, budget>>

\* Variant: the id is used before a flush has drawn it.
AddUserUnflushed(b) ==
    /\ login[b].pc = "add"
    /\ Inserting(b) = {} /\ AccountsOf(login[b].username) = {}
    /\ NewSession(b, [id |-> None, username |-> login[b].username])
    /\ UNCHANGED <<now, users, user_id_seq, sessions, cookie, budget>>

AddUser(b) ==
    /\ login[b].pc = "add"
    /\ Inserting(b) = {} /\ AccountsOf(login[b].username) = {}
    /\ user_id_seq' = user_id_seq + 1
    /\ NewSession(b, [id |-> user_id_seq', username |-> login[b].username])
    /\ UNCHANGED <<now, users, sessions, cookie, budget>>

\* The other first login has committed: IntegrityError, which login_submit does
\* not catch.  The engineer gets a 500 and has to log in again.
AddUserRefused(b) ==
    /\ login[b].pc = "add"
    /\ AccountsOf(login[b].username) # {}
    /\ Ended(b)
    /\ UNCHANGED <<now, users, user_id_seq, sessions, cookie, budget>>

\* Both rows, then the redirect with the cookie.
CommitLogin(b) ==
    LET l == login[b]
        row == [token |-> Cardinality(sessions) + 1, user_id |-> l.user.id,
                expires_at |-> l.expires_at]
    IN  /\ l.pc = "commit"
        /\ users' = users \cup {l.user}
        /\ sessions' = sessions \cup {row}
        /\ cookie' = [cookie EXCEPT ![b] = [token |-> row.token, by |-> l.username, at |-> now]]
        /\ Ended(b)
        /\ UNCHANGED <<now, user_id_seq, budget>>

\* Variant: get_db does not close the session, and its transaction stays open.
CommitFailsUnclosed(b) ==
    /\ login[b].pc = "commit"
    /\ Fault("db")
    /\ login' = [login EXCEPT ![b].pc = "idle"]
    /\ UNCHANGED <<now, users, user_id_seq, sessions, cookie>>

\* get_db closes the session, which rolls back.
CommitFails(b) ==
    /\ login[b].pc = "commit"
    /\ Fault("db")
    /\ Ended(b)
    /\ UNCHANGED <<now, users, user_id_seq, sessions, cookie>>

LoginNext(b) ==
    \/ \E n \in Engineers : SubmitLogin(b, n)
    \/ BindSucceeds(b) \/ BindFails(b)
    \/ FindUser(b)     \/ MissUser(b)
    \/ AddUser(b)      \/ AddUserRefused(b)
    \/ CommitLogin(b)  \/ CommitFails(b)

-----------------------------------------------------------------------------
\* Variant: the end of a session is left to the max_age of its cookie.
UnexpiredOrNot(s) == TRUE

Unexpired(s) == s.expires_at >= now

\* resolve_session with the cookie of b, which a client may keep for longer
\* than max_age: at most one user.
Resolved(b) ==
    {u \in users :
        /\ cookie[b] # None
        /\ \E s \in sessions : /\ s.token = cookie[b].token
                               /\ Unexpired(s)
                               /\ s.user_id = u.id}

Tick ==
    /\ now < MaxTime
    /\ now' = now + 1
    /\ UNCHANGED <<users, user_id_seq, sessions, login, cookie, budget>>

-----------------------------------------------------------------------------
\* Two first logins at once leave one account, and every account has a session:
\* a login writes both rows or none, and all logins of an engineer meet in the
\* same identity (users.username is unique; authenticate_ldap commits once).
OneAccountPerEngineer ==
    /\ \A u, v \in users : u.username = v.username \/ u.id = v.id => u = v
    /\ \A u \in users : \E s \in sessions : s.user_id = u.id
    /\ \A s \in sessions : \E u \in users : u.id = s.user_id

\* An INSERT that has to wait waits for one transaction, which itself waits for
\* nobody and has only its commit left: first logins cannot block each other in
\* a circle or in a queue (authenticate_ldap: flush, then commit; get_db closes
\* the session of a login that failed).
WaitsForOneCommit ==
    \A b \in Browsers : login[b].pc = "add" =>
        \A c, d \in Inserting(b) : c = d /\ login[c].pc = "commit"

\* Once the directory has answered, a login ends, also when it has to wait for
\* another first login of the same engineer.
LoginEnds ==
    \A b \in Browsers : login[b].pc \in {"query", "add", "commit"} ~> login[b].pc = "idle"
================================================================================
