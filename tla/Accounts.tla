------------------------------ MODULE Accounts ------------------------------
(***************************************************************************)
(* User accounts and password resets: routers/auth.py,                     *)
(* services/auth_service.py and the dependencies in routers/auth_deps.py.  *)
(*                                                                         *)
(* A reset token is a row that is used once and expires.  When it expires  *)
(* is left to chance: a reset may be refused at any time.  Access tokens   *)
(* leave no state on the server; a request acts for the user that its      *)
(* token names, if that user is still active.                              *)
(***************************************************************************)
EXTENDS Transactions

CONSTANTS Name, Email, Password, AccountLoads

\* The load: how many users, tokens and profiles requests insert, the values in
\* their payloads, and whether users and managers change passwords themselves.
IsAccountLoad(l) ==
  /\ {l.users, l.tokens} \subseteq Nat
  /\ l.roles \subseteq Role /\ l.emails \subseteq Email /\ l.names \subseteq Name
  /\ l.passwords \subseteq Password
  /\ l.manual \in BOOLEAN

ASSUME AccountAssumption == \A l \in AccountLoads : IsAccountLoad(l)

----------------------------------------------------------------------------

UserTable(d) ==
  /\ IsColumn(d.username, Nat, Name) /\ IsColumn(d.email, Nat, Email)
  /\ IsColumn(d.password, Nat, Password) /\ IsColumn(d.role, Nat, Role)
  /\ IsColumn(d.active, Nat, BOOLEAN)
TokenTable(d) == IsColumn(d.tokenUser, Nat, Nat) /\ IsColumn(d.used, Nat, BOOLEAN)
\* The users with whose account a customer or technician profile was created.
ProfileTable(d) == IsColumn(d.profile, Nat, {"customer", "technician"})

NoAccounts ==
  [username |-> Empty, email |-> Empty, password |-> Empty, role |-> Empty, active |-> Empty,
   profile |-> Empty, tokenUser |-> Empty, used |-> Empty]

\* linked: the payload names the customer or technician.
UserCreate ==
  [name : load.names, email : load.emails, password : load.passwords, role : load.roles, linked : BOOLEAN]
UserUpdate ==
  [email : load.emails \cup {Null}, role : load.roles \cup {Null}, active : BOOLEAN \cup {Null}]

\* get_current_user, for an endpoint whose RoleChecker admits these roles.
CurrentUser(u, roles) == db.active[u] /\ db.role[u] \in roles
Manager == \E u \in DOMAIN db.role : CurrentUser(u, {"manager"})

RegisterUser(s, u, p) ==
  /\ \A v \in DOMAIN db.username : db.username[v] # p.name /\ db.email[v] # p.email
  /\ Begin(s, [NoAccounts EXCEPT
       !.username = At(u, p.name), !.email = At(u, p.email), !.password = At(u, p.password),
       !.role = At(u, p.role), !.active = At(u, TRUE),
       !.profile = IF p.role \in {"customer", "technician"} /\ ~p.linked
                   THEN At(u, p.role) ELSE Empty])

\* A role may be changed to one that the user has no profile for.
UpdateUser(s, u, p) ==
  /\ Manager
  /\ \A v \in DOMAIN db.email \ {u} : db.email[v] # p.email
  /\ Begin(s, [NoAccounts EXCEPT !.email = Assign(db.email, u, p.email),
                                 !.role = Assign(db.role, u, p.role),
                                 !.active = Assign(db.active, u, p.active)])

\* Fault: the token's row does not name its user.
RequestAnonymously(s, t, u) ==
  db.active[u] /\ Begin(s, [NoAccounts EXCEPT !.used = At(t, FALSE)])
RequestPasswordReset(s, t, u) ==
  /\ db.active[u]
  /\ Begin(s, [NoAccounts EXCEPT !.tokenUser = At(t, u), !.used = At(t, FALSE)])

\* The user may have been deactivated since the token was sent.
\* Fault: used tokens are searched, too.
ConfirmAgain(s, t, new) ==
  Begin(s, [NoAccounts EXCEPT !.used = Update(db.used, t, TRUE),
                              !.password = At(db.tokenUser[t], new)])
ConfirmPasswordReset(s, t, new) == ~db.used[t] /\ ConfirmAgain(s, t, new)

AdminResetPassword(s, u, new) ==
  load.manual /\ Manager /\ Begin(s, [NoAccounts EXCEPT !.password = At(u, new)])
ChangePassword(s, u, current, new) ==
  /\ load.manual
  /\ CurrentUser(u, Role)
  /\ current = db.password[u]
  /\ Begin(s, [NoAccounts EXCEPT !.password = At(u, new)])

\* user_account_username_key and user_account_email_key.
\* Fault: emails are not unique in the table.
UniqueUsername(W) ==
  \A u \in DOMAIN W.username, v \in DOMAIN db.username : W.username[u] = db.username[v] => u = v
UniqueUser(W) ==
  /\ UniqueUsername(W)
  /\ \A u \in DOMAIN W.email, v \in DOMAIN db.email : W.email[u] = db.email[v] => u = v

AccountsInit == load \in AccountLoads /\ db = NoAccounts /\ txn = Empty

AccountsNext ==
  \E s \in load.sessions :
    \/ \E u \in 1 .. load.users, p \in UserCreate :
         Fresh(u, Used("username")) /\ RegisterUser(s, u, p)
    \/ \E u \in DOMAIN db.username, p \in UserUpdate : UpdateUser(s, u, p)
    \/ \E t \in 1 .. load.tokens, u \in DOMAIN db.username :
         Fresh(t, Used("tokenUser")) /\ RequestPasswordReset(s, t, u)
    \/ \E t \in DOMAIN db.tokenUser, new \in load.passwords : ConfirmPasswordReset(s, t, new)
    \/ \E u \in DOMAIN db.username, new \in load.passwords : AdminResetPassword(s, u, new)
    \/ \E u \in DOMAIN db.username, current, new \in load.passwords : ChangePassword(s, u, current, new)
    \/ s \in DOMAIN txn /\ Commit(s, UniqueUser(txn[s]))
    \/ Rollback(s)

AccountsSpec == AccountsInit /\ [][AccountsNext]_vars
----------------------------------------------------------------------------

\* Type invariant: users and tokens are whole, a token has its user and a profile its
\* account, committed or in flight.
WholeUser(W, d) ==
  /\ \A u \in DOMAIN W.username \cup DOMAIN W.email \cup DOMAIN W.password \cup DOMAIN W.role
            \cup DOMAIN W.active \cup DOMAIN W.profile :
       \/ u \in DOMAIN d.username
       \/ u \in DOMAIN W.username \cap DOMAIN W.email \cap DOMAIN W.password
              \cap DOMAIN W.role \cap DOMAIN W.active
  /\ \A t \in DOMAIN W.tokenUser \cup DOMAIN W.used :
       t \in DOMAIN d.tokenUser \/ t \in DOMAIN W.tokenUser \cap DOMAIN W.used
  /\ Range(W.tokenUser) \subseteq DOMAIN d.username
SameUsers(d) ==
  /\ DOMAIN d.email = DOMAIN d.username /\ DOMAIN d.password = DOMAIN d.username
  /\ DOMAIN d.role = DOMAIN d.username /\ DOMAIN d.active = DOMAIN d.username
  /\ DOMAIN d.used = DOMAIN d.tokenUser
AccountsTypeOK ==
  load \in AccountLoads =>
    /\ UserTable(db) /\ TokenTable(db) /\ ProfileTable(db)
    /\ SameUsers(db) /\ WholeUser(db, db)
    /\ \A s \in DOMAIN txn :
         /\ UserTable(txn[s]) /\ TokenTable(txn[s]) /\ ProfileTable(txn[s])
         /\ WholeUser(txn[s], db)

\* No two accounts share a name or an email, though two requests may both find them
\* free, and a manager may give the email away meanwhile ("Username or email already
\* registered.", "Email already in use by another user.").
UniqueAccounts ==
  load \in AccountLoads =>
    \A u, v \in DOMAIN db.username :
      db.username[u] = db.username[v] \/ db.email[u] = db.email[v] => u = v

\* A reset token sets one password: when neither users nor managers set passwords,
\* each change of a password spends a token of its user that was not spent ("Validates
\* token, consumes it, and updates the user's password.").
TokenSpentOnce ==
  [][Serial /\ load \in AccountLoads /\ ~load.manual =>
       \A u \in DOMAIN db.password : db'.password[u] # db.password[u] =>
         \E t \in DOMAIN db.tokenUser : db.tokenUser[t] = u /\ ~db.used[t] /\ db'.used[t]]_vars
=============================================================================
