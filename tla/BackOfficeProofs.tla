-------------------------- MODULE BackOfficeProofs --------------------------
(***************************************************************************)
(* Theorems about accounts, attachments and inventory, for every load.     *)
(***************************************************************************)
EXTENDS Accounts, Files, Inventory, ColumnsProofs

\* A field of a payload writes the row it is for, or nothing.
LEMMA AssignColumn ==
  ASSUME NEW S, NEW T, NEW column, NEW k \in S, NEW v \in T \cup {Null}
  PROVE  /\ IsColumn(Assign(column, k, v), S, T)
         /\ DOMAIN Assign(column, k, v) \subseteq {k}
BY EmptyColumn, EmptyRows, UpdateColumn DEF Assign

\* A request that begins adds its writes to those in flight.
LEMMA BeginTxn ==
  ASSUME NEW s, NEW W, Begin(s, W)
  PROVE  /\ s \in load.sessions \ DOMAIN txn
         /\ DOMAIN txn' = DOMAIN txn \cup {s} /\ txn'[s] = W
         /\ \A r \in DOMAIN txn : txn'[r] = txn[r]
         /\ db' = db /\ load' = load
BY DEF Begin, Overlay, At

----------------------------------------------------------------------------
(* Accounts.  UniqueAccounts is kept by a commit because the constraints   *)
(* compare its writes with the rows they meet, and because no request      *)
(* writes two usernames or two emails, which no constraint would compare.  *)

AccountColumns ==
  {"username", "email", "password", "role", "active", "profile", "tokenUser", "used"}

OneUser(W) ==
  /\ \A u, v \in DOMAIN W.username : u = v
  /\ \A u, v \in DOMAIN W.email : u = v

\* Writes that a request may begin with.
AccountWrites(W) ==
  /\ UserTable(W) /\ TokenTable(W) /\ ProfileTable(W)
  /\ WholeUser(W, db)
  /\ OneUser(W)

AccountRows ==
  /\ DOMAIN db = AccountColumns
  /\ UserTable(db) /\ TokenTable(db) /\ ProfileTable(db)
  /\ SameUsers(db) /\ WholeUser(db, db)

AccountsInv ==
  /\ load \in AccountLoads
  /\ AccountRows
  /\ \A s \in DOMAIN txn : AccountWrites(txn[s])
  /\ UniqueAccounts

\* What the load gives requests is well-typed.
LEMMA AccountLoad ==
  ASSUME AccountsInv
  PROVE  /\ load.users \in Nat /\ load.tokens \in Nat
         /\ load.roles \subseteq Role /\ load.emails \subseteq Email
         /\ load.names \subseteq Name /\ load.passwords \subseteq Password
BY AccountAssumption DEF AccountsInv, IsAccountLoad

LEMMA NoAccountsColumns == DOMAIN NoAccounts = AccountColumns
BY DEF NoAccounts, AccountColumns

\* Writes of an empty record of columns are well-typed.
LEMMA NoAccountsType ==
  UserTable(NoAccounts) /\ TokenTable(NoAccounts) /\ ProfileTable(NoAccounts)
BY EmptyColumn DEF NoAccounts, UserTable, TokenTable, ProfileTable

LEMMA AccountsInitInv == AccountsInit => AccountsInv
<1>. SUFFICES ASSUME AccountsInit PROVE AccountsInv
  OBVIOUS
<1>1. AccountRows
  BY NoAccountsColumns, NoAccountsType
     DEF AccountsInit, AccountRows, SameUsers, WholeUser, NoAccounts, Empty, Range
<1>2. DOMAIN txn = {}
  BY EmptyRows DEF AccountsInit
<1>3. UniqueAccounts
  BY EmptyRows DEF AccountsInit, UniqueAccounts, NoAccounts
<1>. QED
  BY <1>1, <1>2, <1>3 DEF AccountsInv, AccountsInit

\* A new account is whole.
LEMMA RegisterUserSound ==
  ASSUME AccountsInv, NEW s, NEW u \in 1 .. load.users, NEW p \in UserCreate,
         RegisterUser(s, u, p)
  PROVE  \E W : Begin(s, W) /\ AccountWrites(W)
<1>. DEFINE profile == IF p.role \in {"customer", "technician"} /\ ~p.linked
                       THEN At(u, p.role) ELSE Empty
            W == [NoAccounts EXCEPT
                    !.username = At(u, p.name), !.email = At(u, p.email),
                    !.password = At(u, p.password), !.role = At(u, p.role),
                    !.active = At(u, TRUE), !.profile = profile]
<1>1. Begin(s, W)
  BY DEF RegisterUser
<1>2. /\ u \in Nat /\ p.name \in Name /\ p.email \in Email /\ p.password \in Password
      /\ p.role \in Role
  BY AccountLoad DEF UserCreate
<1>3. IsColumn(profile, Nat, {"customer", "technician"}) /\ DOMAIN profile \subseteq {u}
  BY <1>2, AtColumn, AtRow, EmptyColumn, EmptyRows
<1>. HIDE DEF profile
<1>4. /\ W.username = At(u, p.name) /\ W.email = At(u, p.email) /\ W.password = At(u, p.password)
      /\ W.role = At(u, p.role) /\ W.active = At(u, TRUE) /\ W.profile = profile
      /\ W.tokenUser = Empty /\ W.used = Empty
  BY DEF NoAccounts
<1>. HIDE DEF W
<1>5. UserTable(W) /\ TokenTable(W) /\ ProfileTable(W)
  BY <1>2, <1>3, <1>4, AtColumn, EmptyColumn DEF UserTable, TokenTable, ProfileTable
<1>6. WholeUser(W, db) /\ OneUser(W)
  BY <1>3, <1>4 DEF WholeUser, OneUser, At, Empty, Range
<1>. QED
  BY <1>1, <1>5, <1>6 DEF AccountWrites

\* Writes to columns of an account that exists.
LEMMA OneAccountSound ==
  ASSUME AccountsInv, NEW u \in DOMAIN db.username, NEW W,
         UserTable(W), TokenTable(W),
         W.username = Empty, W.profile = Empty, W.tokenUser = Empty,
         DOMAIN W.email \subseteq {u}, DOMAIN W.password \subseteq {u},
         DOMAIN W.role \subseteq {u}, DOMAIN W.active \subseteq {u},
         DOMAIN W.used \subseteq DOMAIN db.tokenUser
  PROVE  AccountWrites(W)
BY EmptyColumn DEF AccountWrites, ProfileTable, WholeUser, OneUser, Range, Empty

LEMMA UpdateUserSound ==
  ASSUME AccountsInv, NEW s, NEW u \in DOMAIN db.username, NEW p \in UserUpdate,
         UpdateUser(s, u, p)
  PROVE  \E W : Begin(s, W) /\ AccountWrites(W)
<1>. DEFINE email == Assign(db.email, u, p.email)
            role == Assign(db.role, u, p.role)
            active == Assign(db.active, u, p.active)
            W == [NoAccounts EXCEPT !.email = email, !.role = role, !.active = active]
<1>1. Begin(s, W)
  BY DEF UpdateUser
<1>2. /\ u \in Nat /\ p.email \in Email \cup {Null} /\ p.role \in Role \cup {Null}
      /\ p.active \in BOOLEAN \cup {Null}
  BY AccountLoad DEF UserUpdate, AccountsInv, AccountRows, UserTable, IsColumn
<1>3. /\ IsColumn(email, Nat, Email) /\ DOMAIN email \subseteq {u}
      /\ IsColumn(role, Nat, Role) /\ DOMAIN role \subseteq {u}
  BY <1>2, AssignColumn, SMTT(30)
<1>6. IsColumn(active, Nat, BOOLEAN) /\ DOMAIN active \subseteq {u}
  BY <1>2, AssignColumn, Zenon
<1>. HIDE DEF email, role, active
<1>4. /\ W.email = email /\ W.role = role /\ W.active = active
      /\ W.username = Empty /\ W.password = Empty /\ W.profile = Empty
      /\ W.tokenUser = Empty /\ W.used = Empty
  BY DEF NoAccounts
<1>. HIDE DEF W
<1>5. UserTable(W) /\ TokenTable(W)
  BY <1>3, <1>4, <1>6, EmptyColumn DEF UserTable, TokenTable
<1>. QED
  BY <1>1, <1>3, <1>6, <1>4, <1>5, EmptyRows, AtRow, OneAccountSound

LEMMA RequestPasswordResetSound ==
  ASSUME AccountsInv, NEW s, NEW t \in 1 .. load.tokens, NEW u \in DOMAIN db.username,
         RequestPasswordReset(s, t, u)
  PROVE  \E W : Begin(s, W) /\ AccountWrites(W)
<1>. DEFINE W == [NoAccounts EXCEPT !.tokenUser = At(t, u), !.used = At(t, FALSE)]
<1>1. Begin(s, W)
  BY DEF RequestPasswordReset
<1>2. t \in Nat /\ u \in Nat
  BY AccountLoad DEF AccountsInv, AccountRows, UserTable, IsColumn
<1>3. /\ W.tokenUser = At(t, u) /\ W.used = At(t, FALSE)
      /\ W.username = Empty /\ W.email = Empty /\ W.password = Empty
      /\ W.role = Empty /\ W.active = Empty /\ W.profile = Empty
  BY DEF NoAccounts
<1>. HIDE DEF W
<1>4. UserTable(W) /\ TokenTable(W) /\ ProfileTable(W)
  BY <1>2, <1>3, AtColumn, EmptyColumn DEF UserTable, TokenTable, ProfileTable
<1>5. WholeUser(W, db) /\ OneUser(W)
  BY <1>3 DEF WholeUser, OneUser, At, Empty, Range
<1>. QED
  BY <1>1, <1>4, <1>5 DEF AccountWrites

LEMMA ConfirmPasswordResetSound ==
  ASSUME AccountsInv, NEW s, NEW t \in DOMAIN db.tokenUser, NEW new \in load.passwords,
         ConfirmPasswordReset(s, t, new)
  PROVE  \E W : Begin(s, W) /\ AccountWrites(W)
<1>. DEFINE used == Update(db.used, t, TRUE)
            u == db.tokenUser[t]
            W == [NoAccounts EXCEPT !.used = used, !.password = At(u, new)]
<1>1. Begin(s, W)
  BY DEF ConfirmPasswordReset, ConfirmAgain
<1>2. /\ t \in Nat /\ u \in DOMAIN db.username /\ u \in Nat /\ new \in Password
  BY AccountLoad
     DEF AccountsInv, AccountRows, UserTable, TokenTable, IsColumn, WholeUser, Range
<1>3. IsColumn(used, Nat, BOOLEAN) /\ DOMAIN used \subseteq {t}
  BY <1>2, UpdateColumn
<1>. HIDE DEF used, u
<1>4. /\ W.used = used /\ W.password = At(u, new)
      /\ W.username = Empty /\ W.email = Empty /\ W.role = Empty /\ W.active = Empty
      /\ W.profile = Empty /\ W.tokenUser = Empty
  BY DEF NoAccounts
<1>. HIDE DEF W
<1>5. UserTable(W) /\ TokenTable(W)
  BY <1>2, <1>3, <1>4, AtColumn, EmptyColumn DEF UserTable, TokenTable
<1>6. DOMAIN W.password = {u} /\ DOMAIN W.email = {} /\ DOMAIN W.role = {} /\ DOMAIN W.active = {}
  BY <1>4 DEF At, Empty
<1>7. AccountWrites(W)
  BY <1>2, <1>3, <1>4, <1>5, <1>6, OneAccountSound
<1>. QED
  BY <1>1, <1>7

\* AdminResetPassword and ChangePassword set one password.
LEMMA SetPasswordSound ==
  ASSUME AccountsInv, NEW s, NEW u \in DOMAIN db.username, NEW new \in load.passwords,
         Begin(s, [NoAccounts EXCEPT !.password = At(u, new)])
  PROVE  \E W : Begin(s, W) /\ AccountWrites(W)
<1>. DEFINE W == [NoAccounts EXCEPT !.password = At(u, new)]
<1>1. u \in Nat /\ new \in Password
  BY AccountLoad DEF AccountsInv, AccountRows, UserTable, IsColumn
<1>2. /\ W.password = At(u, new)
      /\ W.username = Empty /\ W.email = Empty /\ W.role = Empty /\ W.active = Empty
      /\ W.profile = Empty /\ W.tokenUser = Empty /\ W.used = Empty
  BY DEF NoAccounts
<1>. HIDE DEF W
<1>3. UserTable(W) /\ TokenTable(W)
  BY <1>1, <1>2, AtColumn, EmptyColumn DEF UserTable, TokenTable
<1>4. /\ DOMAIN W.password = {u} /\ DOMAIN W.email = {} /\ DOMAIN W.role = {}
      /\ DOMAIN W.active = {} /\ DOMAIN W.used = {}
  BY <1>2 DEF At, Empty
<1>5. AccountWrites(W)
  BY <1>2, <1>3, <1>4, OneAccountSound
<1>. QED
  BY <1>5 DEF W

\* Every request begins with such writes.
LEMMA RequestSound ==
  ASSUME AccountsInv, NEW s,
         \/ \E u \in 1 .. load.users, p \in UserCreate : RegisterUser(s, u, p)
         \/ \E u \in DOMAIN db.username, p \in UserUpdate : UpdateUser(s, u, p)
         \/ \E t \in 1 .. load.tokens, u \in DOMAIN db.username : RequestPasswordReset(s, t, u)
         \/ \E t \in DOMAIN db.tokenUser, new \in load.passwords :
              ConfirmPasswordReset(s, t, new)
         \/ \E u \in DOMAIN db.username, new \in load.passwords :
              Begin(s, [NoAccounts EXCEPT !.password = At(u, new)])
  PROVE  \E W : Begin(s, W) /\ AccountWrites(W)
BY RegisterUserSound, UpdateUserSound, RequestPasswordResetSound, ConfirmPasswordResetSound,
   SetPasswordSound

\* A request that begins keeps the invariant.
LEMMA AccountsBeginInv ==
  ASSUME AccountsInv, NEW s, NEW W, Begin(s, W), AccountWrites(W)
  PROVE  AccountsInv'
<1>1. /\ DOMAIN txn' = DOMAIN txn \cup {s} /\ txn'[s] = W
      /\ \A r \in DOMAIN txn : txn'[r] = txn[r]
      /\ db' = db /\ load' = load
  BY BeginTxn
<1>2. AccountRows' /\ UniqueAccounts'
  BY <1>1 DEF AccountsInv, AccountRows, UserTable, TokenTable, ProfileTable, SameUsers,
              WholeUser, UniqueAccounts
<1>3. ASSUME NEW r \in DOMAIN txn' PROVE AccountWrites(txn[r])'
  <2>1. AccountWrites(txn'[r])
    BY <1>1 DEF AccountsInv
  <2>. QED
    BY <1>1, <2>1 DEF AccountWrites, UserTable, TokenTable, ProfileTable, WholeUser, OneUser
<1>. QED
  BY <1>1, <1>2, <1>3 DEF AccountsInv

LEMMA AccountsRollbackInv ==
  ASSUME AccountsInv, NEW s, Rollback(s)
  PROVE  AccountsInv'
<1>1. /\ DOMAIN txn' = DOMAIN txn \ {s} /\ \A r \in DOMAIN txn' : txn'[r] = txn[r]
      /\ db' = db /\ load' = load
  BY DEF End, Rollback
<1>2. AccountRows' /\ UniqueAccounts'
  BY <1>1 DEF AccountsInv, AccountRows, UserTable, TokenTable, ProfileTable, SameUsers,
              WholeUser, UniqueAccounts
<1>3. ASSUME NEW r \in DOMAIN txn' PROVE AccountWrites(txn[r])'
  BY <1>1 DEF AccountsInv, AccountWrites, UserTable, TokenTable, ProfileTable, WholeUser, OneUser
<1>. QED
  BY <1>1, <1>2, <1>3 DEF AccountsInv

\* A commit keeps the tables whole, and the names and emails unique.
LEMMA AccountsCommitInv ==
  ASSUME AccountsInv, NEW s, Commit(s, UniqueUser(txn[s]))
  PROVE  AccountsInv'
<1>. DEFINE W == txn[s]
<1>1. /\ s \in DOMAIN txn /\ UniqueUser(W)
      /\ DOMAIN txn' = DOMAIN txn \ {s} /\ \A r \in DOMAIN txn' : txn'[r] = txn[r]
      /\ load' = load
      /\ DOMAIN db' = DOMAIN db /\ \A c \in DOMAIN db : db'[c] = Overlay(W[c], db[c])
  <2>1. End(s)
    BY DEF Commit
  <2>. QED
    BY <2>1 DEF End, Commit
<1>2. /\ db'.username = Overlay(W.username, db.username)
      /\ db'.email = Overlay(W.email, db.email)
      /\ db'.password = Overlay(W.password, db.password)
      /\ db'.role = Overlay(W.role, db.role)
      /\ db'.active = Overlay(W.active, db.active)
      /\ db'.profile = Overlay(W.profile, db.profile)
      /\ db'.tokenUser = Overlay(W.tokenUser, db.tokenUser)
      /\ db'.used = Overlay(W.used, db.used)
  BY <1>1 DEF AccountsInv, AccountRows, AccountColumns
<1>3. AccountWrites(W)
  BY <1>1 DEF AccountsInv
<1>. HIDE DEF W
<1>4. /\ DOMAIN db'.username = DOMAIN W.username \cup DOMAIN db.username
      /\ DOMAIN db'.email = DOMAIN W.email \cup DOMAIN db.email
      /\ DOMAIN db'.password = DOMAIN W.password \cup DOMAIN db.password
      /\ DOMAIN db'.role = DOMAIN W.role \cup DOMAIN db.role
      /\ DOMAIN db'.active = DOMAIN W.active \cup DOMAIN db.active
      /\ DOMAIN db'.profile = DOMAIN W.profile \cup DOMAIN db.profile
      /\ DOMAIN db'.tokenUser = DOMAIN W.tokenUser \cup DOMAIN db.tokenUser
      /\ DOMAIN db'.used = DOMAIN W.used \cup DOMAIN db.used
  BY <1>2 DEF Overlay
<1>5. UserTable(db') /\ TokenTable(db') /\ ProfileTable(db')
  <2>1. /\ UserTable(W) /\ TokenTable(W) /\ ProfileTable(W)
        /\ UserTable(db) /\ TokenTable(db) /\ ProfileTable(db)
    BY <1>3 DEF AccountsInv, AccountRows, AccountWrites
  <2>2. IsColumn(db'.active, Nat, BOOLEAN)
    BY <1>2, <2>1, OverlayColumn, Zenon DEF UserTable
  <2>3. IsColumn(db'.used, Nat, BOOLEAN)
    BY <1>2, <2>1, OverlayColumn, Zenon DEF TokenTable
  <2>4. UserTable(db')
    BY <1>2, <2>1, <2>2, OverlayColumn DEF UserTable
  <2>5. TokenTable(db') /\ ProfileTable(db')
    BY <1>2, <2>1, <2>3, OverlayColumn DEF TokenTable, ProfileTable
  <2>. QED
    BY <2>4, <2>5
<1>6. SameUsers(db')
  BY <1>3, <1>4 DEF AccountsInv, AccountRows, AccountWrites, SameUsers, WholeUser
<1>7. Range(db'.tokenUser) \subseteq DOMAIN db'.username
  BY <1>2, <1>3, <1>4
     DEF AccountsInv, AccountRows, AccountWrites, WholeUser, Range, Overlay
<1>8. WholeUser(db', db')
  BY <1>3, <1>4, <1>6, <1>7
     DEF AccountsInv, AccountRows, AccountWrites, SameUsers, WholeUser
<1>9. AccountRows'
  BY <1>1, <1>5, <1>6, <1>8
     DEF AccountsInv, AccountRows, UserTable, TokenTable, ProfileTable, SameUsers, WholeUser
<1>10. ASSUME NEW r \in DOMAIN txn' PROVE AccountWrites(txn[r])'
  <2>1. AccountWrites(txn[r]) /\ txn'[r] = txn[r]
    BY <1>1 DEF AccountsInv
  <2>2. WholeUser(txn[r], db')
    BY <1>4, <2>1 DEF AccountWrites, WholeUser
  <2>. QED
    BY <2>1, <2>2 DEF AccountWrites, UserTable, TokenTable, ProfileTable, WholeUser, OneUser
<1>11. ASSUME NEW u \in DOMAIN db'.username, NEW v \in DOMAIN db'.username,
              db'.username[u] = db'.username[v] \/ db'.email[u] = db'.email[v]
       PROVE  u = v
  <2>1. u \in DOMAIN db'.email /\ v \in DOMAIN db'.email
    BY <1>6 DEF SameUsers
  <2>2. CASE db'.username[u] = db'.username[v]
    BY <1>1, <1>2, <1>3, <2>2 DEF AccountsInv, AccountWrites, OneUser, UniqueAccounts,
                                  UniqueUser, UniqueUsername, Overlay
  <2>3. CASE db'.email[u] = db'.email[v]
    BY <1>1, <1>2, <1>3, <2>1, <2>3
       DEF AccountsInv, AccountRows, AccountWrites, SameUsers, OneUser, UniqueAccounts,
           UniqueUser, Overlay
  <2>. QED
    BY <1>11, <2>2, <2>3
<1>. QED
  BY <1>1, <1>9, <1>10, <1>11 DEF AccountsInv, UniqueAccounts

LEMMA AccountsNextInv == AccountsInv /\ [AccountsNext]_vars => AccountsInv'
<1>. SUFFICES ASSUME AccountsInv, [AccountsNext]_vars PROVE AccountsInv'
  OBVIOUS
<1>1. CASE UNCHANGED vars
  BY <1>1 DEF vars, AccountsInv, AccountRows, AccountWrites, UserTable, TokenTable,
              ProfileTable, SameUsers, WholeUser, OneUser, UniqueAccounts
<1>2. CASE AccountsNext
  <2>1. PICK s \in load.sessions :
          \/ \/ \E u \in 1 .. load.users, p \in UserCreate : RegisterUser(s, u, p)
             \/ \E u \in DOMAIN db.username, p \in UserUpdate : UpdateUser(s, u, p)
             \/ \E t \in 1 .. load.tokens, u \in DOMAIN db.username :
                  RequestPasswordReset(s, t, u)
             \/ \E t \in DOMAIN db.tokenUser, new \in load.passwords :
                  ConfirmPasswordReset(s, t, new)
             \/ \E u \in DOMAIN db.username, new \in load.passwords :
                  Begin(s, [NoAccounts EXCEPT !.password = At(u, new)])
          \/ Commit(s, UniqueUser(txn[s]))
          \/ Rollback(s)
    BY <1>2 DEF AccountsNext, AdminResetPassword, ChangePassword
  <2>. QED
    BY <2>1, RequestSound, AccountsBeginInv, AccountsCommitInv, AccountsRollbackInv
<1>. QED
  BY <1>1, <1>2

\* Accounts and reset tokens are whole and well-typed, whatever requests run together.
THEOREM AccountsTypeCorrect == AccountsSpec => []AccountsTypeOK
<1>1. AccountsInv => AccountsTypeOK
  BY DEF AccountsInv, AccountRows, AccountWrites, AccountsTypeOK
<1>. QED
  BY <1>1, AccountsInitInv, AccountsNextInv, PTL DEF AccountsSpec

\* No two accounts share a name or an email, however many sessions register users and
\* change emails at once.
THEOREM AccountsUnique == AccountsSpec => []UniqueAccounts
<1>1. AccountsInv => UniqueAccounts
  BY DEF AccountsInv
<1>. QED
  BY <1>1, AccountsInitInv, AccountsNextInv, PTL DEF AccountsSpec

\* A pending password of an account that exists comes with an unspent token of its user,
\* which is spent with it: one request at a time, the token is unspent until the commit.
Spends(W) ==
  \A u \in DOMAIN W.password \cap DOMAIN db.password :
    \E t \in DOMAIN db.tokenUser \cap DOMAIN W.used :
      db.tokenUser[t] = u /\ ~db.used[t] /\ W.used[t]
SpendInv ==
  /\ AccountsInv
  /\ \A s \in DOMAIN txn : s \in load.sessions /\ (Serial /\ ~load.manual => Spends(txn[s]))

\* Requests that set no password of an account that exists.
LEMMA NoPasswordSpends ==
  ASSUME NEW W, DOMAIN W.password \cap DOMAIN db.password = {}
  PROVE  Spends(W)
BY DEF Spends

LEMMA RegisterUserSpends ==
  ASSUME AccountsInv, NEW s, NEW u \in 1 .. load.users, NEW p \in UserCreate,
         Fresh(u, Used("username")), RegisterUser(s, u, p)
  PROVE  Spends(txn'[s])
<1>1. u \notin DOMAIN db.password
  BY DEF Fresh, Used, AccountsInv, AccountRows, SameUsers
<1>2. DOMAIN txn'[s].password = {u}
  <2>1. txn'[s] = [NoAccounts EXCEPT
          !.username = At(u, p.name), !.email = At(u, p.email), !.password = At(u, p.password),
          !.role = At(u, p.role), !.active = At(u, TRUE),
          !.profile = IF p.role \in {"customer", "technician"} /\ ~p.linked
                      THEN At(u, p.role) ELSE Empty]
    BY BeginTxn DEF RegisterUser
  <2>2. txn'[s].password = At(u, p.password)
    BY <2>1 DEF NoAccounts
  <2>. QED
    BY <2>2, AtRow
<1>. QED
  BY <1>1, <1>2 DEF Spends

LEMMA ConfirmPasswordResetSpends ==
  ASSUME AccountsInv, NEW s, NEW t \in DOMAIN db.tokenUser, NEW new,
         ConfirmPasswordReset(s, t, new)
  PROVE  Spends(txn'[s])
<1>1. ~db.used[t] /\ t \in DOMAIN db.used
  BY DEF ConfirmPasswordReset, AccountsInv, AccountRows, SameUsers
<1>2. Update(db.used, t, TRUE) = At(t, TRUE)
  BY <1>1 DEF Update
<1>3. txn'[s] = [NoAccounts EXCEPT !.used = At(t, TRUE), !.password = At(db.tokenUser[t], new)]
  BY <1>2, BeginTxn DEF ConfirmPasswordReset, ConfirmAgain
<1>4. /\ DOMAIN txn'[s].used = {t} /\ txn'[s].used[t]
      /\ DOMAIN txn'[s].password = {db.tokenUser[t]}
  BY <1>3 DEF NoAccounts, At
<1>. QED
  BY <1>1, <1>4 DEF Spends

\* A request that begins and spends what it must.
LEMMA BeginSpendInv ==
  ASSUME SpendInv, NEW s \in load.sessions, NEW W, Begin(s, W), AccountWrites(W),
         Serial /\ ~load.manual => Spends(W)
  PROVE  SpendInv'
<1>1. /\ DOMAIN txn' = DOMAIN txn \cup {s} /\ txn'[s] = W
      /\ \A r \in DOMAIN txn : txn'[r] = txn[r]
      /\ db' = db /\ load' = load
  BY BeginTxn
<1>2. AccountsInv'
  BY AccountsBeginInv DEF SpendInv
<1>3. ASSUME NEW r \in DOMAIN txn', Serial', ~load'.manual PROVE Spends(txn[r])'
  <2>1. Spends(txn'[r])
    BY <1>1, <1>3 DEF SpendInv, Serial
  <2>. QED
    BY <1>1, <2>1 DEF Spends
<1>. QED
  BY <1>1, <1>2, <1>3 DEF SpendInv

LEMMA RequestSpendInv ==
  ASSUME SpendInv, NEW s \in load.sessions,
         \/ \E u \in 1 .. load.users, p \in UserCreate :
              Fresh(u, Used("username")) /\ RegisterUser(s, u, p)
         \/ \E u \in DOMAIN db.username, p \in UserUpdate : UpdateUser(s, u, p)
         \/ \E t \in 1 .. load.tokens, u \in DOMAIN db.username : RequestPasswordReset(s, t, u)
         \/ \E t \in DOMAIN db.tokenUser, new \in load.passwords :
              ConfirmPasswordReset(s, t, new)
         \/ load.manual /\ \E u \in DOMAIN db.username, new \in load.passwords :
              Begin(s, [NoAccounts EXCEPT !.password = At(u, new)])
  PROVE  SpendInv'
<1>1. PICK W : Begin(s, W) /\ AccountWrites(W)
  BY RequestSound DEF SpendInv
<1>2. txn'[s] = W
  BY <1>1, BeginTxn
<1>3. ASSUME ~load.manual PROVE Spends(W)
  <2>1. CASE \E u \in 1 .. load.users, p \in UserCreate :
               Fresh(u, Used("username")) /\ RegisterUser(s, u, p)
    BY <1>2, <2>1, RegisterUserSpends DEF SpendInv
  <2>2. CASE \E u \in DOMAIN db.username, p \in UserUpdate : UpdateUser(s, u, p)
    <3>1. PICK u, p : UpdateUser(s, u, p)
      BY <2>2
    <3>. DEFINE X == [NoAccounts EXCEPT !.email = Assign(db.email, u, p.email),
                                        !.role = Assign(db.role, u, p.role),
                                        !.active = Assign(db.active, u, p.active)]
    <3>2. Begin(s, X)
      BY <3>1 DEF UpdateUser
    <3>3. X.password = Empty
      BY DEF NoAccounts
    <3>. HIDE DEF X
    <3>4. DOMAIN W.password = {}
      BY <1>2, <3>2, <3>3, BeginTxn, EmptyRows
    <3>. QED
      BY <3>4, NoPasswordSpends
  <2>3. CASE \E t \in 1 .. load.tokens, u \in DOMAIN db.username : RequestPasswordReset(s, t, u)
    <3>1. PICK t, u : txn'[s] = [NoAccounts EXCEPT !.tokenUser = At(t, u), !.used = At(t, FALSE)]
      BY <2>3, BeginTxn, ZenonT(60) DEF RequestPasswordReset
    <3>2. DOMAIN W.password = {}
      BY <1>2, <3>1, EmptyRows DEF NoAccounts
    <3>. QED
      BY <3>2, NoPasswordSpends
  <2>4. CASE \E t \in DOMAIN db.tokenUser, new \in load.passwords : ConfirmPasswordReset(s, t, new)
    BY <1>2, <2>4, ConfirmPasswordResetSpends DEF SpendInv
  <2>. QED
    BY <1>3, <2>1, <2>2, <2>3, <2>4
<1>. QED
  BY <1>1, <1>3, BeginSpendInv

\* A commit is the only pending request when requests run one after another.
LEMMA CommitSpendInv ==
  ASSUME SpendInv, NEW s, Commit(s, UniqueUser(txn[s]))
  PROVE  SpendInv'
<1>1. /\ s \in DOMAIN txn /\ DOMAIN txn' = DOMAIN txn \ {s} /\ load' = load
      /\ \A r \in DOMAIN txn' : txn'[r] = txn[r]
  BY DEF End, Commit
<1>2. AccountsInv'
  BY AccountsCommitInv DEF SpendInv
<1>3. \A r \in DOMAIN txn' : r \in load'.sessions /\ ~Serial'
  BY <1>1 DEF SpendInv, Serial
<1>. QED
  BY <1>2, <1>3 DEF SpendInv

LEMMA RollbackSpendInv ==
  ASSUME SpendInv, NEW s, Rollback(s)
  PROVE  SpendInv'
<1>1. /\ DOMAIN txn' = DOMAIN txn \ {s} /\ \A r \in DOMAIN txn' : txn'[r] = txn[r]
      /\ db' = db /\ load' = load
  BY DEF End, Rollback
<1>2. AccountsInv'
  BY AccountsRollbackInv DEF SpendInv
<1>. QED
  BY <1>1, <1>2 DEF SpendInv, Spends, Serial

LEMMA SpendNextInv == SpendInv /\ [AccountsNext]_vars => SpendInv'
<1>. SUFFICES ASSUME SpendInv, [AccountsNext]_vars PROVE SpendInv'
  OBVIOUS
<1>1. CASE UNCHANGED vars
  <2>1. AccountsInv'
    BY <1>1, AccountsNextInv DEF SpendInv
  <2>. QED
    BY <1>1, <2>1 DEF vars, SpendInv, Spends, Serial
<1>2. CASE AccountsNext
  <2>1. PICK s \in load.sessions :
          \/ \/ \E u \in 1 .. load.users, p \in UserCreate :
                  Fresh(u, Used("username")) /\ RegisterUser(s, u, p)
             \/ \E u \in DOMAIN db.username, p \in UserUpdate : UpdateUser(s, u, p)
             \/ \E t \in 1 .. load.tokens, u \in DOMAIN db.username :
                  RequestPasswordReset(s, t, u)
             \/ \E t \in DOMAIN db.tokenUser, new \in load.passwords :
                  ConfirmPasswordReset(s, t, new)
             \/ load.manual /\ \E u \in DOMAIN db.username, new \in load.passwords :
                  Begin(s, [NoAccounts EXCEPT !.password = At(u, new)])
          \/ Commit(s, UniqueUser(txn[s]))
          \/ Rollback(s)
    BY <1>2 DEF AccountsNext, AdminResetPassword, ChangePassword
  <2>. QED
    BY <2>1, RequestSpendInv, CommitSpendInv, RollbackSpendInv
<1>. QED
  BY <1>1, <1>2

\* Only a commit changes a password, and what it spends was unspent before.
LEMMA StepSpends ==
  ASSUME SpendInv, AccountsNext, Serial, ~load.manual,
         NEW u \in DOMAIN db.password, db'.password[u] # db.password[u]
  PROVE  \E t \in DOMAIN db.tokenUser : db.tokenUser[t] = u /\ ~db.used[t] /\ db'.used[t]
<1>1. PICK s \in DOMAIN txn : Commit(s, UniqueUser(txn[s]))
  BY DEF AccountsNext, RegisterUser, UpdateUser, RequestPasswordReset, ConfirmPasswordReset,
         ConfirmAgain, AdminResetPassword, ChangePassword, Begin, Rollback
<1>2. /\ db'.password = Overlay(txn[s].password, db.password)
      /\ db'.used = Overlay(txn[s].used, db.used)
  BY <1>1 DEF Commit, SpendInv, AccountsInv, AccountRows, AccountColumns
<1>3. u \in DOMAIN txn[s].password
  BY <1>2 DEF Overlay
<1>4. PICK t \in DOMAIN db.tokenUser \cap DOMAIN txn[s].used :
        db.tokenUser[t] = u /\ ~db.used[t] /\ txn[s].used[t]
  BY <1>1, <1>3 DEF SpendInv, Spends
<1>5. db'.used[t] = txn[s].used[t]
  BY <1>2, <1>4 DEF Overlay
<1>. QED
  BY <1>4, <1>5

\* One request at a time, a reset token sets one password.
THEOREM TokensSpentOnce == AccountsSpec => TokenSpentOnce
<1>1. AccountsInit => SpendInv
  <2>1. AccountsInit => DOMAIN txn = {}
    BY EmptyRows DEF AccountsInit
  <2>. QED
    BY <2>1, AccountsInitInv DEF SpendInv
<1>2. SpendInv /\ [AccountsNext]_vars =>
        [Serial /\ load \in AccountLoads /\ ~load.manual =>
           \A u \in DOMAIN db.password : db'.password[u] # db.password[u] =>
             \E t \in DOMAIN db.tokenUser : db.tokenUser[t] = u /\ ~db.used[t] /\ db'.used[t]]_vars
  BY StepSpends
<1>. QED
  BY <1>1, <1>2, SpendNextInv, PTL DEF AccountsSpec, TokenSpentOnce

----------------------------------------------------------------------------
(* File attachments.  The limit is kept by counting attachments together   *)
(* with the uploads in flight: an upload begins below the limit, and then  *)
(* no more sessions than there are can have one.                           *)

FileColumns == {"entity", "uploader", "deleted", "disk"}

\* Writes that a request may begin with.
FileWrites(W, disk) ==
  /\ AttachmentTable(W) /\ WholeFile(W, db) /\ W.disk = Empty
  /\ \A f, g \in DOMAIN W.entity : f = g
  /\ ~load.deletes => DOMAIN W.entity \subseteq DOMAIN disk

FileRows ==
  /\ DOMAIN db = FileColumns
  /\ AttachmentTable(db) /\ WholeFile(db, db) /\ IsColumn(db.disk, Nat, {TRUE})
  /\ ~load.deletes => DOMAIN db.entity \subseteq DOMAIN db.disk

\* The sessions with an attachment of e in flight.
Uploading(e) == {s \in DOMAIN txn : \E f \in DOMAIN txn[s].entity : txn[s].entity[f] = e}

\* Attachments and uploads in flight.
Counted(e) ==
  /\ IsFiniteSet(AttachmentsOf(e))
  /\ Cardinality(AttachmentsOf(e)) + Cardinality(Uploading(e))
       <= MaxFilesPerEntity + Cardinality(load.sessions) - 1

FilesInv ==
  /\ load \in FileLoads
  /\ FileRows
  /\ DOMAIN txn \subseteq load.sessions
  /\ \A s \in DOMAIN txn : FileWrites(txn[s], db.disk)
  /\ \A e \in Entity : Counted(e)

\* The sessions are finitely many, and so are those that upload.
LEMMA FileSessions ==
  ASSUME FilesInv
  PROVE  /\ IsFiniteSet(load.sessions) /\ Cardinality(load.sessions) \in Nat
         /\ MaxFilesPerEntity \in Nat /\ load.uploads \in Nat
         /\ \A e \in Entity :
              /\ IsFiniteSet(Uploading(e)) /\ Cardinality(Uploading(e)) \in Nat
              /\ IsFiniteSet(AttachmentsOf(e)) /\ Cardinality(AttachmentsOf(e)) \in Nat
<1>1. /\ IsFiniteSet(load.sessions) /\ MaxFilesPerEntity \in Nat /\ load.uploads \in Nat
      /\ \A e \in Entity : IsFiniteSet(AttachmentsOf(e)) /\ Uploading(e) \subseteq load.sessions
  BY FileAssumption DEF FilesInv, IsFileLoad, Counted, Uploading
<1>. QED
  BY <1>1, FS_Subset, FS_CardinalityType

\* Fewer attachments and uploads are counted, too.
LEMMA CountedLess ==
  ASSUME FilesInv, NEW e \in Entity, load' = load,
         AttachmentsOf(e)' \subseteq AttachmentsOf(e), Uploading(e)' \subseteq Uploading(e)
  PROVE  Counted(e)'
<1>1. /\ IsFiniteSet(AttachmentsOf(e)') /\ Cardinality(AttachmentsOf(e)') \in Nat
      /\ Cardinality(AttachmentsOf(e)') <= Cardinality(AttachmentsOf(e))
      /\ Cardinality(Uploading(e)') \in Nat
      /\ Cardinality(Uploading(e)') <= Cardinality(Uploading(e))
  BY FileSessions, FS_Subset, FS_CardinalityType
<1>2. Cardinality(AttachmentsOf(e)) + Cardinality(Uploading(e))
        <= MaxFilesPerEntity + Cardinality(load.sessions) - 1
  BY DEF FilesInv, Counted
<1>. QED
  BY <1>1, <1>2, FileSessions DEF Counted

\* Without rows there is nothing to count: some session exists.
LEMMA FilesInitInv == FilesInit => FilesInv
<1>. SUFFICES ASSUME FilesInit PROVE FilesInv
  OBVIOUS
<1>1. FileRows
  BY EmptyColumn, EmptyRows DEF FilesInit, FileRows, FileColumns, NoFiles, AttachmentTable, WholeFile
<1>2. DOMAIN txn = {}
  BY EmptyRows DEF FilesInit
<1>3. ASSUME NEW e \in Entity PROVE Counted(e)
  <2>1. AttachmentsOf(e) = {} /\ Uploading(e) = {}
    BY <1>2, EmptyRows DEF FilesInit, AttachmentsOf, Attachments, NoFiles, Uploading
  <2>2. /\ IsFiniteSet(load.sessions) /\ load.sessions # {} /\ MaxFilesPerEntity \in Nat
    BY FileAssumption DEF FilesInit, IsFileLoad
  <2>3. Cardinality(load.sessions) \in Nat \ {0}
    BY <2>2, FS_CardinalityType, FS_EmptySet
  <2>. QED
    BY <2>1, <2>2, <2>3, FS_EmptySet DEF Counted
<1>. QED
  BY <1>1, <1>2, <1>3 DEF FilesInv, FilesInit

\* A request that changes the disk begins: rows and tables are as before.
LEMMA BeginOnDiskInv ==
  ASSUME FilesInv, NEW s, NEW W, NEW disk, BeginOnDisk(s, W, disk),
         FileWrites(W, disk), IsColumn(disk, Nat, {TRUE}),
         ~load.deletes => DOMAIN db.disk \subseteq DOMAIN disk,
         \A e \in Entity : (\E f \in DOMAIN W.entity : W.entity[f] = e) =>
           Cardinality(AttachmentsOf(e)) < MaxFilesPerEntity
  PROVE  FilesInv'
<1>1. /\ s \in load.sessions \ DOMAIN txn
      /\ DOMAIN txn' = DOMAIN txn \cup {s} /\ txn'[s] = W
      /\ \A r \in DOMAIN txn : txn'[r] = txn[r]
      /\ load' = load
  BY DEF BeginOnDisk, Overlay, At
<1>2. /\ DOMAIN db' = FileColumns /\ db'.disk = disk
      /\ db'.entity = db.entity /\ db'.uploader = db.uploader /\ db'.deleted = db.deleted
  BY DEF BeginOnDisk, FilesInv, FileRows, FileColumns
<1>3. FileRows'
  BY <1>1, <1>2 DEF FilesInv, FileRows, AttachmentTable, WholeFile
<1>4. ASSUME NEW r \in DOMAIN txn' PROVE FileWrites(txn[r], db.disk)'
  BY <1>1, <1>2 DEF FilesInv, FileWrites, AttachmentTable, WholeFile
<1>5. ASSUME NEW e \in Entity PROVE Counted(e)'
  <2>1. AttachmentsOf(e)' = AttachmentsOf(e)
    BY <1>2 DEF AttachmentsOf, Attachments
  <2>2. CASE \E f \in DOMAIN W.entity : W.entity[f] = e
    <3>1. Cardinality(AttachmentsOf(e)) < MaxFilesPerEntity
      BY <2>2
    <3>2. Uploading(e)' \subseteq load.sessions
      BY <1>1 DEF FilesInv, Uploading
    <3>3. /\ Cardinality(Uploading(e)') \in Nat
          /\ Cardinality(Uploading(e)') <= Cardinality(load.sessions)
      BY <3>2, FileSessions, FS_Subset, FS_CardinalityType
    <3>. QED
      BY <1>1, <2>1, <3>1, <3>3, FileSessions DEF Counted
  <2>3. CASE ~\E f \in DOMAIN W.entity : W.entity[f] = e
    <3>1. Uploading(e)' = Uploading(e)
      BY <1>1, <2>3 DEF Uploading
    <3>. QED
      BY <1>1, <2>1, <3>1, CountedLess
  <2>. QED
    BY <2>2, <2>3
<1>. QED
  BY <1>1, <1>3, <1>4, <1>5 DEF FilesInv

\* An upload writes the row of one file, which is on the disk by then.
LEMMA UploadFileInv ==
  ASSUME FilesInv, NEW s, NEW u \in User, NEW f \in 1 .. load.uploads, NEW e \in Entity,
         UploadFile(s, u, f, e)
  PROVE  FilesInv'
<1>. DEFINE W == NewAttachment(f, e, u)
            disk == Overlay(At(f, TRUE), db.disk)
<1>1. BeginOnDisk(s, W, disk) /\ Cardinality(AttachmentsOf(e)) < MaxFilesPerEntity
  BY DEF UploadFile
<1>2. f \in Nat
  BY FileSessions
<1>3. /\ W.entity = At(f, e) /\ W.uploader = At(f, u) /\ W.deleted = Empty /\ W.disk = Empty
  BY DEF NewAttachment, NoFiles
<1>4. DOMAIN disk = {f} \cup DOMAIN db.disk
  BY DEF Overlay, At
<1>5. IsColumn(disk, Nat, {TRUE})
  BY <1>2 DEF FilesInv, FileRows, IsColumn, Overlay, At
<1>. HIDE DEF W, disk
<1>6. DOMAIN W.entity = {f} /\ W.entity[f] = e /\ DOMAIN W.uploader = {f} /\ DOMAIN W.deleted = {}
  BY <1>3, AtRow, EmptyRows
<1>7. AttachmentTable(W)
  BY <1>2, <1>3, AtColumn, EmptyColumn DEF AttachmentTable
<1>8. FileWrites(W, disk)
  BY <1>3, <1>4, <1>6, <1>7 DEF FileWrites, WholeFile
<1>. QED
  BY <1>1, <1>4, <1>5, <1>6, <1>8, BeginOnDiskInv

\* A deletion writes no attachment, and happens only where deletions do.
LEMMA DeleteFileInv ==
  ASSUME FilesInv, NEW s, NEW u \in User, NEW f \in Attachments, DeleteFile(s, u, f)
  PROVE  FilesInv'
<1>. DEFINE W == [NoFiles EXCEPT !.deleted = At(f, TRUE)]
<1>1. PICK disk \in {Removed(f), db.disk} : BeginOnDisk(s, W, disk)
  BY DEF DeleteFile
<1>2. f \in DOMAIN db.entity /\ f \in Nat /\ load.deletes
  BY DEF DeleteFile, Attachments, FilesInv, FileRows, AttachmentTable, IsColumn
<1>3. IsColumn(disk, Nat, {TRUE})
  BY DEF FilesInv, FileRows, IsColumn, Removed
<1>4. /\ W.entity = Empty /\ W.uploader = Empty /\ W.deleted = At(f, TRUE) /\ W.disk = Empty
  BY DEF NoFiles
<1>. HIDE DEF W
<1>5. DOMAIN W.entity = {} /\ DOMAIN W.uploader = {} /\ DOMAIN W.deleted = {f}
  BY <1>4, AtRow, EmptyRows
<1>6. AttachmentTable(W)
  BY <1>2, <1>4, AtColumn, EmptyColumn DEF AttachmentTable
<1>7. FileWrites(W, disk)
  BY <1>2, <1>4, <1>5, <1>6 DEF FileWrites, WholeFile
<1>. QED
  BY <1>1, <1>2, <1>3, <1>5, <1>7, BeginOnDiskInv

LEMMA FilesRollbackInv ==
  ASSUME FilesInv, NEW s, Rollback(s)
  PROVE  FilesInv'
<1>1. /\ DOMAIN txn' = DOMAIN txn \ {s} /\ \A r \in DOMAIN txn' : txn'[r] = txn[r]
      /\ db' = db /\ load' = load
  BY DEF End, Rollback
<1>2. FileRows' /\ \A r \in DOMAIN txn' : FileWrites(txn[r], db.disk)'
  BY <1>1 DEF FilesInv, FileRows, FileWrites, AttachmentTable, WholeFile
<1>3. ASSUME NEW e \in Entity PROVE Counted(e)'
  BY <1>1, CountedLess DEF AttachmentsOf, Attachments, Uploading
<1>. QED
  BY <1>1, <1>2, <1>3 DEF FilesInv

\* A committed attachment was an upload in flight and is none any more.
LEMMA FilesCommitInv ==
  ASSUME FilesInv, NEW s, Commit(s, TRUE)
  PROVE  FilesInv'
<1>. DEFINE W == txn[s]
<1>1. /\ s \in DOMAIN txn /\ DOMAIN txn' = DOMAIN txn \ {s} /\ load' = load
      /\ \A r \in DOMAIN txn' : txn'[r] = txn[r]
      /\ DOMAIN db' = DOMAIN db /\ \A c \in DOMAIN db : db'[c] = Overlay(W[c], db[c])
  <2>1. End(s)
    BY DEF Commit
  <2>. QED
    BY <2>1 DEF End, Commit
<1>2. /\ db'.entity = Overlay(W.entity, db.entity)
      /\ db'.uploader = Overlay(W.uploader, db.uploader)
      /\ db'.deleted = Overlay(W.deleted, db.deleted)
      /\ db'.disk = Overlay(W.disk, db.disk)
  BY <1>1 DEF FilesInv, FileRows, FileColumns
<1>3. FileWrites(W, db.disk)
  BY <1>1 DEF FilesInv
<1>4. /\ DOMAIN db'.entity = DOMAIN W.entity \cup DOMAIN db.entity
      /\ DOMAIN db'.uploader = DOMAIN W.uploader \cup DOMAIN db.uploader
      /\ DOMAIN db'.deleted = DOMAIN W.deleted \cup DOMAIN db.deleted
      /\ \A f \in DOMAIN W.entity : db'.entity[f] = W.entity[f]
      /\ \A f \in DOMAIN db.entity \ DOMAIN W.entity : db'.entity[f] = db.entity[f]
  BY <1>2 DEF Overlay
<1>5. db'.disk = db.disk
  <2>1. db.disk = [f \in DOMAIN db.disk |-> db.disk[f]]
    BY DEF FilesInv, FileRows, IsColumn
  <2>2. db'.disk = Overlay(Empty, db.disk)
    BY <1>2, <1>3 DEF FileWrites
  <2>. QED
    BY <2>1, <2>2 DEF Overlay, Empty
<1>. HIDE DEF W
<1>6. AttachmentTable(db')
  BY <1>2, <1>3, OverlayColumn DEF FilesInv, FileRows, FileWrites, AttachmentTable
<1>7. FileRows'
  BY <1>1, <1>3, <1>4, <1>5, <1>6 DEF FilesInv, FileRows, FileWrites, WholeFile, AttachmentTable
<1>8. ASSUME NEW r \in DOMAIN txn' PROVE FileWrites(txn[r], db.disk)'
  BY <1>1, <1>4, <1>5 DEF FilesInv, FileWrites, AttachmentTable, WholeFile
<1>9. ASSUME NEW e \in Entity PROVE Counted(e)'
  <2>1. CASE \E f \in DOMAIN W.entity : W.entity[f] = e
    <3>1. PICK f \in DOMAIN W.entity : W.entity[f] = e
      BY <2>1
    <3>2. AttachmentsOf(e)' \subseteq AttachmentsOf(e) \cup {f}
      BY <1>3, <1>4 DEF FileWrites, AttachmentsOf, Attachments
    <3>3. s \in Uploading(e) /\ Uploading(e)' = Uploading(e) \ {s}
      BY <1>1, <3>1 DEF Uploading, W
    <3>4. /\ IsFiniteSet(AttachmentsOf(e)') /\ Cardinality(AttachmentsOf(e)') \in Nat
          /\ Cardinality(AttachmentsOf(e)') <= Cardinality(AttachmentsOf(e)) + 1
      <4>1. /\ IsFiniteSet(AttachmentsOf(e) \cup {f})
            /\ Cardinality(AttachmentsOf(e) \cup {f}) \in Nat
            /\ Cardinality(AttachmentsOf(e) \cup {f}) <= Cardinality(AttachmentsOf(e)) + 1
        <5>1. IsFiniteSet(AttachmentsOf(e)) /\ Cardinality(AttachmentsOf(e)) \in Nat
          BY FileSessions
        <5>2. /\ IsFiniteSet(AttachmentsOf(e) \cup {f})
              /\ \/ Cardinality(AttachmentsOf(e) \cup {f}) = Cardinality(AttachmentsOf(e))
                 \/ Cardinality(AttachmentsOf(e) \cup {f}) = Cardinality(AttachmentsOf(e)) + 1
          BY <5>1, FS_AddElement
        <5>. QED
          BY <5>1, <5>2
      <4>. QED
        BY <3>2, <4>1, FileSessions, FS_Subset, FS_CardinalityType
    <3>5. /\ Cardinality(Uploading(e)') \in Nat
          /\ Cardinality(Uploading(e)') = Cardinality(Uploading(e)) - 1
      BY <3>3, FileSessions, FS_RemoveElement, FS_CardinalityType
    <3>6. Cardinality(AttachmentsOf(e)) + Cardinality(Uploading(e))
            <= MaxFilesPerEntity + Cardinality(load.sessions) - 1
      BY DEF FilesInv, Counted
    <3>. QED
      BY <1>1, <3>4, <3>5, <3>6, FileSessions DEF Counted
  <2>2. CASE ~\E f \in DOMAIN W.entity : W.entity[f] = e
    <3>1. AttachmentsOf(e)' \subseteq AttachmentsOf(e)
      BY <1>4, <2>2 DEF AttachmentsOf, Attachments
    <3>2. Uploading(e)' \subseteq Uploading(e)
      BY <1>1 DEF Uploading
    <3>. QED
      BY <1>1, <3>1, <3>2, CountedLess
  <2>. QED
    BY <2>1, <2>2
<1>. QED
  BY <1>1, <1>7, <1>8, <1>9 DEF FilesInv

LEMMA FilesNextInv == FilesInv /\ [FilesNext]_vars => FilesInv'
<1>. SUFFICES ASSUME FilesInv, [FilesNext]_vars PROVE FilesInv'
  OBVIOUS
<1>1. CASE UNCHANGED vars
  <2>1. FileRows' /\ \A s \in DOMAIN txn' : FileWrites(txn[s], db.disk)'
    BY <1>1 DEF vars, FilesInv, FileRows, FileWrites, AttachmentTable, WholeFile
  <2>2. \A e \in Entity : Counted(e)'
    BY <1>1, CountedLess DEF vars, AttachmentsOf, Attachments, Uploading
  <2>. QED
    BY <1>1, <2>1, <2>2 DEF vars, FilesInv
<1>2. CASE FilesNext
  BY <1>2, UploadFileInv, DeleteFileInv, FilesCommitInv, FilesRollbackInv DEF FilesNext
<1>. QED
  BY <1>1, <1>2

\* Attachments are whole and well-typed, whichever requests fail.
THEOREM FilesTypeCorrect == FilesSpec => []FilesTypeOK
<1>1. FilesInv => FilesTypeOK
  BY DEF FilesInv, FileRows, FileWrites, FilesTypeOK
<1>. QED
  BY <1>1, FilesInitInv, FilesNextInv, PTL DEF FilesSpec

\* Uploads alone leave no attachment without its file, whichever of them fail.
THEOREM FilesStayOnDisk == FilesSpec => []FilesOnDisk
<1>1. FilesInv => FilesOnDisk
  BY DEF FilesInv, FileRows, FilesOnDisk, Attachments
<1>. QED
  BY <1>1, FilesInitInv, FilesNextInv, PTL DEF FilesSpec

\* However many sessions upload at once, they exceed the limit by less than their number.
THEOREM AttachmentsLimited == FilesSpec => []AttachmentLimit
<1>1. FilesInv => AttachmentLimit
  <2>. SUFFICES ASSUME FilesInv, NEW e \in Entity
                PROVE  Cardinality(AttachmentsOf(e))
                         <= MaxFilesPerEntity + Cardinality(load.sessions) - 1
    BY DEF AttachmentLimit
  <2>. QED
    BY FileSessions DEF FilesInv, Counted
<1>. QED
  BY <1>1, FilesInitInv, FilesNextInv, PTL DEF FilesSpec
----------------------------------------------------------------------------
(* Inventory.  An order line is committed together with its units, under   *)
(* a name that no other order has; from then on its units only change      *)
(* their status.  The stock is counted one request at a time.              *)

InventoryColumns == {"quantity", "ordered", "orderedPart", "instance"}

StockTables(d) == PartStock(d) /\ OrderLines(d) /\ Instances(d)

\* Writes that the request of s may begin with and commit.
StockWrites(s, W) ==
  /\ StockTables(W) /\ OrdersWhole(W, db)
  /\ \A i \in DOMAIN W.instance : i \in DOMAIN db.instance \/ LineOf(i) \in DOMAIN W.ordered
  /\ DOMAIN W.ordered \cap DOMAIN db.ordered = {}
  /\ \A r \in DOMAIN txn \ {s} : DOMAIN W.ordered \cap DOMAIN txn[r].ordered = {}

StockRows ==
  /\ DOMAIN db = InventoryColumns
  /\ StockTables(db) /\ OrdersWhole(db, db)
  /\ \A i \in DOMAIN db.instance : LineOf(i) \in DOMAIN db.ordered

InventoryInv ==
  /\ load \in InventoryLoads
  /\ StockRows
  /\ \A s \in DOMAIN txn : StockWrites(s, txn[s])

Received(p) == {i \in DOMAIN db.instance : PartOf(i) = p /\ db.instance[i] = "received"}
InStock(p) == IsFiniteSet(Received(p)) /\ db.quantity[p] >= Cardinality(Received(p))

\* Writes that keep the stock counted: none to parts and units that exist ...
NewStock(W) ==
  /\ DOMAIN W.quantity \cap DOMAIN db.quantity = {}
  /\ \A i \in DOMAIN W.instance : i \notin DOMAIN db.instance /\ W.instance[i] # "received"
\* ... or one unit's move, with the quantity that follows from it.
UnitMove(W) ==
  \E i \in DOMAIN db.instance, st \in InstanceStatus :
    /\ W.instance = Update(db.instance, i, st)
    /\ W.quantity = Update(db.quantity, PartOf(i),
                           StockAfter(db.instance[i], st, db.quantity[PartOf(i)]))
    /\ DOMAIN W.ordered = {}
Counts(W) == NewStock(W) \/ UnitMove(W)

StockInv ==
  /\ InventoryInv
  /\ \A s \in DOMAIN txn : s \in load.sessions
  /\ Serial /\ load.counted = {} =>
       /\ \A s \in DOMAIN txn : Counts(txn[s])
       /\ \A p \in DOMAIN db.quantity : InStock(p)

\* What the load gives requests is well-typed.
LEMMA InventoryLoad ==
  ASSUME InventoryInv
  PROVE  /\ load.parts \in Nat /\ load.orders \in Nat /\ load.lines \in Nat
         /\ load.stock \subseteq Nat /\ load.counted \subseteq Nat /\ load.ordered \subseteq Int
         /\ load.statuses \subseteq InstanceStatus
BY InventoryAssumption DEF InventoryInv, IsInventoryLoad

\* A unit that exists has its part.
LEMMA UnitHasPart ==
  ASSUME InventoryInv, NEW i \in DOMAIN db.instance
  PROVE  /\ LineOf(i) \in DOMAIN db.orderedPart
         /\ PartOf(i) \in DOMAIN db.quantity /\ PartOf(i) \in Nat
         /\ db.quantity[PartOf(i)] \in Nat
         /\ i \in Instance /\ db.instance[i] \in InstanceStatus
<1>1. LineOf(i) \in DOMAIN db.orderedPart /\ Range(db.orderedPart) \subseteq DOMAIN db.quantity
  BY DEF InventoryInv, StockRows, OrdersWhole
<1>2. PartOf(i) \in DOMAIN db.quantity
  BY <1>1 DEF PartOf, Range
<1>3. /\ IsColumn(db.quantity, Nat, Nat) /\ IsColumn(db.instance, Instance, InstanceStatus)
  BY DEF InventoryInv, StockRows, StockTables, PartStock, Instances
<1>. QED
  BY <1>1, <1>2, <1>3 DEF IsColumn

\* Writes to no order line are sound when they are typed and only move units.
LEMMA NoOrderWrites ==
  ASSUME NEW s, NEW W, W.ordered = Empty, W.orderedPart = Empty,
         IsColumn(W.quantity, Nat, Nat), IsColumn(W.instance, Instance, InstanceStatus),
         DOMAIN W.instance \subseteq DOMAIN db.instance
  PROVE  StockWrites(s, W)
<1>1. StockTables(W)
  BY EmptyColumn DEF StockTables, PartStock, OrderLines, Instances
<1>2. DOMAIN W.ordered = {} /\ DOMAIN W.orderedPart = {} /\ Range(W.orderedPart) = {}
  BY EmptyRows DEF Range
<1>. QED
  BY <1>1, <1>2 DEF StockWrites, OrdersWhole

LEMMA CreatePartSound ==
  ASSUME InventoryInv, NEW s, NEW role, NEW p \in 1 .. load.parts, NEW q \in load.stock,
         p \notin Used("quantity"), CreatePart(s, role, p, q)
  PROVE  \E W : Begin(s, W) /\ StockWrites(s, W) /\ Counts(W)
<1>. DEFINE W == [NoParts EXCEPT !.quantity = At(p, q)]
<1>1. Begin(s, W) /\ p \in Nat /\ q \in Nat /\ p \notin DOMAIN db.quantity
  BY InventoryLoad DEF CreatePart, Used
<1>2. /\ W.quantity = At(p, q) /\ W.ordered = Empty /\ W.orderedPart = Empty
      /\ W.instance = Empty
  BY DEF NoParts
<1>. HIDE DEF W
<1>3. StockWrites(s, W)
  BY <1>1, <1>2, AtColumn, EmptyColumn, EmptyRows, NoOrderWrites
<1>4. DOMAIN W.quantity = {p} /\ DOMAIN W.instance = {}
  BY <1>2, AtRow, EmptyRows
<1>5. NewStock(W)
  BY <1>1, <1>4 DEF NewStock
<1>. QED
  BY <1>1, <1>3, <1>5 DEF Counts

LEMMA UpdatePartSound ==
  ASSUME InventoryInv, NEW s, NEW role, NEW p \in DOMAIN db.quantity, NEW q \in load.counted,
         UpdatePart(s, role, p, q)
  PROVE  \E W : Begin(s, W) /\ StockWrites(s, W)
<1>. DEFINE W == [NoParts EXCEPT !.quantity = Update(db.quantity, p, q)]
<1>1. Begin(s, W) /\ q \in Nat
  BY InventoryLoad DEF UpdatePart
<1>2. p \in Nat
  BY DEF InventoryInv, StockRows, StockTables, PartStock, IsColumn
<1>3. /\ W.quantity = Update(db.quantity, p, q) /\ W.ordered = Empty /\ W.orderedPart = Empty
      /\ W.instance = Empty
  BY DEF NoParts
<1>. HIDE DEF W
<1>4. IsColumn(W.quantity, Nat, Nat)
  <2>1. IsColumn(Update(db.quantity, p, q), Nat, Nat)
    BY <1>1, <1>2, UpdateColumn, Zenon
  <2>. QED
    BY <1>3, <2>1
<1>5. IsColumn(W.instance, Instance, InstanceStatus) /\ DOMAIN W.instance = {}
  BY <1>3, EmptyColumn, EmptyRows
<1>6. StockWrites(s, W)
  BY <1>3, <1>4, <1>5, NoOrderWrites
<1>. QED
  BY <1>1, <1>6

\* An order: its lines have a name of their own, and exactly the units they ask for.
LEMMA CreatePurchaseOrderSound ==
  ASSUME InventoryInv, NEW s, NEW role, NEW po \in 1 .. load.orders, NEW n \in 0 .. load.lines,
         NEW lines \in [1 .. n -> [part : DOMAIN db.quantity, qty : load.ordered]],
         po \notin {k.po : k \in Used("ordered")},
         CreatePurchaseOrder(s, role, po, lines)
  PROVE  \E W : Begin(s, W) /\ StockWrites(s, W) /\ Counts(W)
<1>. DEFINE rows == [po : {po}, line : DOMAIN lines]
            ordered == [r \in rows |-> lines[r.line].qty]
            part == [r \in rows |-> lines[r.line].part]
            units == [i \in UnitsOf(po, lines) |-> "ordered"]
            W == [NoParts EXCEPT !.ordered = ordered, !.orderedPart = part, !.instance = units]
<1>1. Begin(s, W) /\ \A l \in DOMAIN lines : lines[l].qty > 0
  BY DEF CreatePurchaseOrder
<1>2. /\ W.quantity = Empty /\ W.ordered = ordered /\ W.orderedPart = part
      /\ W.instance = units
  BY DEF NoParts
<1>3. /\ po \in Nat /\ DOMAIN lines = 1 .. n /\ DOMAIN lines \subseteq Nat
      /\ \A l \in DOMAIN lines : /\ lines[l].qty \in Nat \ {0}
                                 /\ lines[l].part \in DOMAIN db.quantity
                                 /\ lines[l].part \in Nat
  <2>1. DOMAIN db.quantity \subseteq Nat
    BY DEF InventoryInv, StockRows, StockTables, PartStock, IsColumn
  <2>2. \A l \in DOMAIN lines : lines[l].qty \in load.ordered /\ lines[l].part \in DOMAIN db.quantity
    OBVIOUS
  <2>. QED
    BY <1>1, <2>1, <2>2, InventoryLoad
<1>4. \A i : i \in DOMAIN units <=>
        \E l \in DOMAIN lines : \E m \in 1 .. lines[l].qty : i = [po |-> po, line |-> l, n |-> m]
  BY DEF UnitsOf
<1>5. \A r \in rows : /\ r \in OrderLine /\ r.po = po /\ r.line \in DOMAIN lines
                      /\ r = [po |-> po, line |-> r.line]
  BY <1>3 DEF OrderLine
<1>6. IsColumn(ordered, OrderLine, Nat \ {0}) /\ IsColumn(part, OrderLine, Nat)
  BY <1>3, <1>5 DEF IsColumn
<1>7. ASSUME NEW i \in DOMAIN units
      PROVE  i \in Instance /\ LineOf(i) \in rows /\ units[i] = "ordered"
  BY <1>3, <1>4 DEF Instance, LineOf
<1>8. IsColumn(units, Instance, InstanceStatus)
  BY <1>7 DEF IsColumn, InstanceStatus
<1>9. \A k \in rows : {i \in DOMAIN units : LineOf(i) = k} = [po : {k.po}, line : {k.line}, n : 1 .. ordered[k]]
  <2>. SUFFICES ASSUME NEW k \in rows
                PROVE  {i \in DOMAIN units : LineOf(i) = k}
                         = [po : {po}, line : {k.line}, n : 1 .. lines[k.line].qty]
    BY <1>5
  <2>1. ASSUME NEW i \in DOMAIN units, LineOf(i) = k
        PROVE  i \in [po : {po}, line : {k.line}, n : 1 .. lines[k.line].qty]
    BY <1>4, <2>1 DEF LineOf
  <2>2. ASSUME NEW i \in [po : {po}, line : {k.line}, n : 1 .. lines[k.line].qty]
        PROVE  i \in DOMAIN units /\ LineOf(i) = k
    <3>1. i = [po |-> po, line |-> k.line, n |-> i.n] /\ i.n \in 1 .. lines[k.line].qty
      OBVIOUS
    <3>. QED
      BY <1>4, <1>5, <3>1 DEF LineOf
  <2>. QED
    BY <2>1, <2>2
<1>10. \A k \in Used("ordered") : k \notin rows
  BY <1>5
<1>11. rows \cap DOMAIN db.ordered = {} /\ \A r \in DOMAIN txn \ {s} : rows \cap DOMAIN txn[r].ordered = {}
  BY <1>10 DEF Used
<1>12. DOMAIN ordered = rows /\ DOMAIN part = rows /\ Range(part) \subseteq DOMAIN db.quantity
  <2>1. \A r \in rows : part[r] \in DOMAIN db.quantity
    BY <1>3, <1>5
  <2>. QED
    BY <2>1 DEF Range
<1>. HIDE DEF rows, ordered, part, units, W
<1>13. StockTables(W)
  BY <1>2, <1>6, <1>8, EmptyColumn DEF StockTables, PartStock, OrderLines, Instances
<1>14. StockWrites(s, W)
  BY <1>2, <1>7, <1>9, <1>11, <1>12, <1>13 DEF StockWrites, OrdersWhole
<1>15. NewStock(W)
  BY <1>2, <1>7, <1>11, EmptyRows DEF NewStock, InventoryInv, StockRows
<1>. QED
  BY <1>1, <1>14, <1>15 DEF Counts

LEMMA UpdatePartInstanceSound ==
  ASSUME InventoryInv, NEW s, NEW role, NEW i \in DOMAIN db.instance, NEW st \in load.statuses,
         UpdatePartInstance(s, role, i, st)
  PROVE  \E W : Begin(s, W) /\ StockWrites(s, W) /\ Counts(W)
<1>. DEFINE q == StockAfter(db.instance[i], st, db.quantity[PartOf(i)])
            W == [NoParts EXCEPT !.instance = Update(db.instance, i, st),
                                 !.quantity = Update(db.quantity, PartOf(i), q)]
<1>1. Begin(s, W) /\ st \in InstanceStatus
  BY InventoryLoad DEF UpdatePartInstance
<1>2. q \in Nat
  BY UnitHasPart DEF StockAfter
<1>3. /\ W.quantity = Update(db.quantity, PartOf(i), q)
      /\ W.instance = Update(db.instance, i, st)
      /\ W.ordered = Empty /\ W.orderedPart = Empty
  BY DEF NoParts
<1>4. UnitMove(W)
  BY <1>1, <1>3, EmptyRows DEF UnitMove
<1>. HIDE DEF q, W
<1>5. /\ IsColumn(W.quantity, Nat, Nat) /\ IsColumn(W.instance, Instance, InstanceStatus)
      /\ DOMAIN W.instance \subseteq {i}
  <2>1. IsColumn(W.quantity, Nat, Nat)
    <3>1. IsColumn(Update(db.quantity, PartOf(i), q), Nat, Nat)
      BY <1>2, UnitHasPart, UpdateColumn, Zenon
    <3>. QED
      BY <1>3, <3>1
  <2>2. /\ IsColumn(W.instance, Instance, InstanceStatus)
        /\ DOMAIN W.instance \subseteq {i}
    <3>1. /\ IsColumn(Update(db.instance, i, st), Instance, InstanceStatus)
          /\ DOMAIN Update(db.instance, i, st) \subseteq {i}
      BY <1>1, UnitHasPart, UpdateColumn, Zenon
    <3>. QED
      BY <1>3, <3>1
  <2>. QED
    BY <2>1, <2>2
<1>6. StockWrites(s, W)
  BY <1>3, <1>5, NoOrderWrites
<1>. QED
  BY <1>1, <1>4, <1>6 DEF Counts

\* Without rows and requests everything is in stock.
LEMMA StockInitInv == InventoryInit => StockInv
<1>. SUFFICES ASSUME InventoryInit PROVE StockInv
  OBVIOUS
<1>1. /\ DOMAIN db = InventoryColumns /\ DOMAIN txn = {} /\ load \in InventoryLoads
      /\ db.quantity = Empty /\ db.ordered = Empty /\ db.orderedPart = Empty /\ db.instance = Empty
  BY EmptyRows DEF InventoryInit, NoParts, InventoryColumns
<1>2. StockTables(db)
  BY <1>1, EmptyColumn DEF StockTables, PartStock, OrderLines, Instances
<1>3. StockRows
  BY <1>1, <1>2, EmptyRows DEF StockRows, OrdersWhole, Range
<1>. QED
  BY <1>1, <1>3, EmptyRows DEF StockInv, InventoryInv

\* A request that begins keeps the invariant.
LEMMA StockBeginInv ==
  ASSUME StockInv, NEW s, NEW W, Begin(s, W), StockWrites(s, W), load.counted = {} => Counts(W),
         \A r \in DOMAIN txn : DOMAIN W.ordered \cap DOMAIN txn[r].ordered = {}
  PROVE  StockInv'
<1>1. /\ s \in load.sessions \ DOMAIN txn
      /\ DOMAIN txn' = DOMAIN txn \cup {s} /\ txn'[s] = W
      /\ \A r \in DOMAIN txn : txn'[r] = txn[r]
      /\ db' = db /\ load' = load
  BY BeginTxn
<1>2. StockRows'
  BY <1>1 DEF StockInv, InventoryInv, StockRows, StockTables, PartStock, OrderLines, Instances,
              OrdersWhole, LineOf
<1>3. ASSUME NEW r \in DOMAIN txn' PROVE StockWrites(r, txn[r])'
  <2>1. CASE r = s
    BY <1>1, <2>1 DEF StockWrites, StockTables, PartStock, OrderLines, Instances, OrdersWhole, LineOf
  <2>2. CASE r # s
    <3>1. r \in DOMAIN txn /\ txn'[r] = txn[r] /\ StockWrites(r, txn[r])
      BY <1>1, <2>2 DEF StockInv, InventoryInv
    <3>2. \A v \in DOMAIN txn' \ {r} : DOMAIN txn[r].ordered \cap DOMAIN txn'[v].ordered = {}
      BY <1>1, <3>1 DEF StockWrites
    <3>. QED
      BY <1>1, <3>1, <3>2 DEF StockWrites, StockTables, PartStock, OrderLines, Instances,
                              OrdersWhole, LineOf
  <2>. QED
    BY <2>1, <2>2
<1>4. ASSUME Serial', load'.counted = {}
      PROVE  /\ \A r \in DOMAIN txn' : Counts(txn[r])'
             /\ \A p \in DOMAIN db'.quantity : InStock(p)'
  <2>1. Serial /\ load.counted = {}
    BY <1>1, <1>4 DEF Serial
  <2>2. \A r \in DOMAIN txn' : Counts(txn'[r])
    BY <1>1, <2>1 DEF StockInv
  <2>. QED
    BY <1>1, <2>1, <2>2, ZenonT(60) DEF StockInv, Counts, NewStock, UnitMove, InStock, Received, PartOf, LineOf
<1>. QED
  BY <1>1, <1>2, <1>3, <1>4 DEF StockInv, InventoryInv

LEMMA StockRollbackInv ==
  ASSUME StockInv, NEW s, Rollback(s)
  PROVE  StockInv'
<1>1. /\ DOMAIN txn' = DOMAIN txn \ {s} /\ \A r \in DOMAIN txn' : txn'[r] = txn[r]
      /\ db' = db /\ load' = load
  BY DEF End, Rollback
<1>2. StockRows'
  BY <1>1 DEF StockInv, InventoryInv, StockRows, StockTables, PartStock, OrderLines, Instances,
              OrdersWhole, LineOf
<1>3. ASSUME NEW r \in DOMAIN txn' PROVE StockWrites(r, txn[r])'
  BY <1>1 DEF StockInv, InventoryInv, StockWrites, StockTables, PartStock, OrderLines, Instances,
              OrdersWhole, LineOf
<1>4. ASSUME Serial', load'.counted = {}
      PROVE  /\ \A r \in DOMAIN txn' : Counts(txn[r])'
             /\ \A p \in DOMAIN db'.quantity : InStock(p)'
  <2>1. Serial /\ load.counted = {}
    BY <1>1, <1>4 DEF Serial
  <2>2. \A r \in DOMAIN txn' : Counts(txn'[r])
    BY <1>1, <2>1 DEF StockInv
  <2>. QED
    BY <1>1, <2>1, <2>2 DEF StockInv, Counts, NewStock, UnitMove, InStock, Received, PartOf, LineOf
<1>. QED
  BY <1>1, <1>2, <1>3, <1>4 DEF StockInv, InventoryInv

\* What a commit does to the columns.
LEMMA StockCommit ==
  ASSUME StockInv, NEW s, Commit(s, TRUE)
  PROVE  /\ s \in DOMAIN txn /\ StockWrites(s, txn[s])
         /\ DOMAIN txn' = DOMAIN txn \ {s} /\ \A r \in DOMAIN txn' : txn'[r] = txn[r]
         /\ load' = load /\ DOMAIN db' = DOMAIN db
         /\ db'.quantity = Overlay(txn[s].quantity, db.quantity)
         /\ db'.ordered = Overlay(txn[s].ordered, db.ordered)
         /\ db'.orderedPart = Overlay(txn[s].orderedPart, db.orderedPart)
         /\ db'.instance = Overlay(txn[s].instance, db.instance)
<1>1. /\ s \in DOMAIN txn /\ DOMAIN txn' = DOMAIN txn \ {s} /\ load' = load
      /\ \A r \in DOMAIN txn' : txn'[r] = txn[r]
      /\ DOMAIN db' = DOMAIN db /\ \A c \in DOMAIN db : db'[c] = Overlay(txn[s][c], db[c])
  <2>1. End(s)
    BY DEF Commit
  <2>. QED
    BY <2>1 DEF End, Commit
<1>. QED
  BY <1>1 DEF StockInv, InventoryInv, StockRows, InventoryColumns

\* A commit of whole orders leaves whole orders.
LEMMA StockCommitRows ==
  ASSUME StockInv, NEW s, Commit(s, TRUE)
  PROVE  InventoryInv'
<1>. DEFINE W == txn[s]
<1>1. /\ s \in DOMAIN txn /\ DOMAIN txn' = DOMAIN txn \ {s} /\ load' = load
      /\ \A r \in DOMAIN txn' : txn'[r] = txn[r]
      /\ DOMAIN db' = InventoryColumns
      /\ db'.quantity = Overlay(W.quantity, db.quantity)
      /\ db'.ordered = Overlay(W.ordered, db.ordered)
      /\ db'.orderedPart = Overlay(W.orderedPart, db.orderedPart)
      /\ db'.instance = Overlay(W.instance, db.instance)
  BY StockCommit DEF StockInv, InventoryInv, StockRows
<1>2. StockWrites(s, W)
  BY StockCommit
<1>3. /\ DOMAIN db'.quantity = DOMAIN W.quantity \cup DOMAIN db.quantity
      /\ DOMAIN db'.ordered = DOMAIN W.ordered \cup DOMAIN db.ordered
      /\ DOMAIN db'.orderedPart = DOMAIN W.orderedPart \cup DOMAIN db.orderedPart
      /\ DOMAIN db'.instance = DOMAIN W.instance \cup DOMAIN db.instance
      /\ \A k \in DOMAIN W.ordered : db'.ordered[k] = W.ordered[k]
      /\ \A k \in DOMAIN db.ordered \ DOMAIN W.ordered : db'.ordered[k] = db.ordered[k]
      /\ Range(db'.orderedPart) \subseteq Range(W.orderedPart) \cup Range(db.orderedPart)
  BY <1>1 DEF Overlay, Range
<1>4. \A r \in DOMAIN txn \ {s} :
        /\ StockWrites(r, txn[r])
        /\ DOMAIN txn[r].ordered \cap DOMAIN W.ordered = {}
  BY <1>1 DEF StockInv, InventoryInv, StockWrites
<1>. HIDE DEF W
<1>5. StockTables(db')
  BY <1>1, <1>2, OverlayColumn DEF StockInv, InventoryInv, StockRows, StockWrites, StockTables,
                                   PartStock, OrderLines, Instances
<1>6. OrdersWhole(db, db)' /\ \A i \in DOMAIN db'.instance : LineOf(i) \in DOMAIN db'.ordered
  <2>1. /\ DOMAIN db'.orderedPart = DOMAIN db'.ordered
        /\ Range(db'.orderedPart) \subseteq DOMAIN db'.quantity
    BY <1>2, <1>3 DEF StockInv, InventoryInv, StockRows, StockWrites, OrdersWhole
  <2>2. \A i \in DOMAIN db'.instance : LineOf(i) \in DOMAIN db'.ordered
    BY <1>2, <1>3 DEF StockInv, InventoryInv, StockRows, StockWrites
  <2>3. ASSUME NEW k \in DOMAIN W.ordered
        PROVE  {i \in DOMAIN db'.instance : LineOf(i) = k} = {i \in DOMAIN W.instance : LineOf(i) = k}
    BY <1>2, <1>3 DEF StockInv, InventoryInv, StockRows, StockWrites
  <2>4. ASSUME NEW k \in DOMAIN db.ordered
        PROVE  /\ k \notin DOMAIN W.ordered
               /\ {i \in DOMAIN db'.instance : LineOf(i) = k}
                    = {i \in DOMAIN db.instance : LineOf(i) = k}
    BY <1>2, <1>3 DEF StockWrites
  <2>5. \A k \in DOMAIN db'.ordered :
          {i \in DOMAIN db'.instance : LineOf(i) = k}
            = [po : {k.po}, line : {k.line}, n : 1 .. db'.ordered[k]]
    <3>. SUFFICES ASSUME NEW k \in DOMAIN db'.ordered
                  PROVE  {i \in DOMAIN db'.instance : LineOf(i) = k}
                           = [po : {k.po}, line : {k.line}, n : 1 .. db'.ordered[k]]
      OBVIOUS
    <3>1. OrdersWhole(W, db) /\ OrdersWhole(db, db)
      BY <1>2 DEF StockInv, InventoryInv, StockRows, StockWrites
    <3>2. CASE k \in DOMAIN W.ordered
      <4>1. db'.ordered[k] = W.ordered[k]
        BY <1>3, <3>2
      <4>2. {i \in DOMAIN W.instance : LineOf(i) = k}
              = [po : {k.po}, line : {k.line}, n : 1 .. W.ordered[k]]
        BY <3>1, <3>2 DEF OrdersWhole
      <4>. QED
        BY <2>3, <3>2, <4>1, <4>2
    <3>3. CASE k \in DOMAIN db.ordered
      <4>1. db'.ordered[k] = db.ordered[k]
        BY <1>3, <2>4, <3>3
      <4>2. {i \in DOMAIN db.instance : LineOf(i) = k}
              = [po : {k.po}, line : {k.line}, n : 1 .. db.ordered[k]]
        BY <3>1, <3>3 DEF OrdersWhole
      <4>. QED
        BY <2>4, <3>3, <4>1, <4>2
    <3>. QED
      BY <1>3, <3>2, <3>3
  <2>. QED
    BY <2>1, <2>2, <2>5 DEF OrdersWhole, LineOf
<1>7. ASSUME NEW r \in DOMAIN txn' PROVE StockWrites(r, txn[r])'
  <2>1. /\ r \in DOMAIN txn \ {s} /\ txn'[r] = txn[r]
    BY <1>1
  <2>2. StockTables(txn[r]) /\ OrdersWhole(txn[r], db) /\ OrdersWhole(txn[r], db)'
    BY <1>3, <1>4, <2>1, ZenonT(60) DEF StockWrites, OrdersWhole, LineOf
  <2>3. /\ \A i \in DOMAIN txn[r].instance :
             i \in DOMAIN db'.instance \/ LineOf(i) \in DOMAIN txn[r].ordered
        /\ DOMAIN txn[r].ordered \cap DOMAIN db'.ordered = {}
        /\ \A v \in DOMAIN txn' \ {r} : DOMAIN txn[r].ordered \cap DOMAIN txn'[v].ordered = {}
    BY <1>1, <1>3, <1>4, <2>1 DEF StockWrites
  <2>. QED
    BY <2>1, <2>2, <2>3 DEF StockWrites, StockTables, PartStock, OrderLines, Instances, OrdersWhole, LineOf
<1>. QED
  BY <1>1, <1>5, <1>6, <1>7 DEF StockInv, InventoryInv, StockRows, StockTables, PartStock,
                                OrderLines, Instances, LineOf

\* Orders and new parts bring nothing that was received.
LEMMA NewStockCounted ==
  ASSUME StockInv, Serial, load.counted = {}, NEW s, Commit(s, TRUE), NewStock(txn[s]),
         NEW p \in DOMAIN db'.quantity
  PROVE  InStock(p)'
<1>. DEFINE W == txn[s]
<1>1. /\ db'.quantity = Overlay(W.quantity, db.quantity)
      /\ db'.instance = Overlay(W.instance, db.instance)
      /\ db'.orderedPart = Overlay(W.orderedPart, db.orderedPart)
      /\ StockWrites(s, W) /\ NewStock(W)
  BY StockCommit
<1>2. \A c \in {W.quantity} : IsColumn(c, Nat, Nat)
  BY <1>1 DEF StockWrites, StockTables, PartStock
<1>. HIDE DEF W
<1>3. \A i \in DOMAIN db.instance :
        /\ LineOf(i) \notin DOMAIN W.orderedPart
        /\ db'.orderedPart[LineOf(i)] = db.orderedPart[LineOf(i)]
  BY <1>1, UnitHasPart DEF StockInv, InventoryInv, StockRows, StockWrites, OrdersWhole, Overlay
<1>4. Received(p)' = Received(p)
  <2>1. \A i \in DOMAIN db'.instance : db'.instance[i] = "received" => i \in DOMAIN db.instance
    BY <1>1 DEF NewStock, Overlay
  <2>2. \A i \in DOMAIN db.instance : i \in DOMAIN db'.instance /\ db'.instance[i] = db.instance[i]
    BY <1>1 DEF NewStock, Overlay
  <2>. QED
    BY <1>3, <2>1, <2>2 DEF Received, PartOf, LineOf
<1>5. CASE p \in DOMAIN db.quantity
  <2>1. db'.quantity[p] = db.quantity[p]
    BY <1>1, <1>5 DEF NewStock, Overlay
  <2>. QED
    BY <1>4, <1>5, <2>1 DEF StockInv, InStock
<1>6. CASE p \notin DOMAIN db.quantity
  <2>1. Received(p) = {}
    BY <1>6, UnitHasPart DEF StockInv, Received
  <2>2. db'.quantity[p] \in Nat
    BY <1>1, <1>2, <1>6 DEF Overlay, IsColumn
  <2>. QED
    BY <1>4, <2>1, <2>2, FS_EmptySet DEF InStock
<1>. QED
  BY <1>5, <1>6

\* A unit that moves takes its count along.
LEMMA UnitMoveCounted ==
  ASSUME StockInv, Serial, load.counted = {}, NEW s, Commit(s, TRUE), UnitMove(txn[s]),
         NEW p \in DOMAIN db'.quantity
  PROVE  InStock(p)'
<1>. DEFINE W == txn[s]
<1>1. PICK i \in DOMAIN db.instance, st \in InstanceStatus :
        /\ W.instance = Update(db.instance, i, st)
        /\ W.quantity = Update(db.quantity, PartOf(i),
                               StockAfter(db.instance[i], st, db.quantity[PartOf(i)]))
        /\ DOMAIN W.ordered = {}
  BY DEF UnitMove
<1>. DEFINE old == db.instance[i]
            q == db.quantity[PartOf(i)]
            R == Received(PartOf(i))
<1>2. /\ PartOf(i) \in DOMAIN db.quantity /\ q \in Nat
      /\ IsFiniteSet(R) /\ Cardinality(R) \in Nat /\ q >= Cardinality(R)
  BY UnitHasPart, FS_CardinalityType DEF StockInv, InStock
<1>3. /\ db'.quantity = Overlay(W.quantity, db.quantity)
      /\ db'.instance = Overlay(W.instance, db.instance)
      /\ db'.orderedPart = Overlay(W.orderedPart, db.orderedPart)
      /\ DOMAIN W.orderedPart = {}
  BY <1>1, StockCommit DEF StockWrites, OrdersWhole
<1>. HIDE DEF W
<1>4. /\ DOMAIN db'.instance = DOMAIN db.instance
      /\ db'.instance[i] = st
      /\ \A j \in DOMAIN db.instance \ {i} : db'.instance[j] = db.instance[j]
  BY <1>1, <1>3 DEF Update, Overlay, At, Empty
<1>5. /\ DOMAIN db'.quantity = DOMAIN db.quantity
      /\ db'.quantity[PartOf(i)] = StockAfter(old, st, q)
      /\ \A v \in DOMAIN db.quantity \ {PartOf(i)} : db'.quantity[v] = db.quantity[v]
  BY <1>1, <1>2, <1>3 DEF Update, Overlay, At, Empty
<1>6. \A j \in DOMAIN db.instance : db'.orderedPart[LineOf(j)] = db.orderedPart[LineOf(j)]
  BY <1>3, UnitHasPart DEF StockInv, Overlay
<1>7. CASE p # PartOf(i)
  <2>1. Received(p)' = Received(p)
    BY <1>4, <1>6, <1>7 DEF Received, PartOf, LineOf
  <2>. QED
    BY <1>5, <1>7, <2>1 DEF StockInv, InStock
<1>8. CASE p = PartOf(i)
  <2>. DEFINE R1 == Received(p)'
  <2>1. R1 = IF st = "received" THEN R \cup {i} ELSE R \ {i}
    BY <1>4, <1>6, <1>8 DEF Received, PartOf, LineOf
  <2>2. i \in R <=> old = "received"
    BY DEF Received
  <2>. HIDE DEF R1, R
  <2>3. IsFiniteSet(R1) /\ Cardinality(R1) \in Nat
    BY <1>2, <2>1, FS_AddElement, FS_RemoveElement, FS_CardinalityType
  <2>4. /\ st = "received" /\ i \notin R => Cardinality(R1) = Cardinality(R) + 1
        /\ st # "received" /\ i \in R => Cardinality(R1) = Cardinality(R) - 1
        /\ (st = "received" <=> i \in R) => Cardinality(R1) = Cardinality(R)
    <3>1. CASE st = "received"
      BY <1>2, <2>1, <3>1, FS_AddElement
    <3>2. CASE st # "received"
      BY <1>2, <2>1, <3>2, FS_RemoveElement
    <3>. QED
      BY <3>1, <3>2
  <2>5. StockAfter(old, st, q) >= Cardinality(R1)
    <3>1. i \in R => Cardinality(R) > 0
      BY <1>2, FS_EmptySet
    <3>. QED
      BY <1>2, <2>2, <2>3, <2>4, <3>1 DEF StockAfter
  <2>. QED
    BY <1>5, <1>8, <2>3, <2>5 DEF InStock, R1
<1>. QED
  BY <1>7, <1>8

LEMMA StockCommitInv ==
  ASSUME StockInv, NEW s, Commit(s, TRUE)
  PROVE  StockInv'
<1>1. /\ s \in DOMAIN txn /\ DOMAIN txn' = DOMAIN txn \ {s} /\ load' = load
  BY StockCommit
<1>2. ASSUME Serial', load'.counted = {}
      PROVE  /\ \A r \in DOMAIN txn' : Counts(txn[r])'
             /\ \A p \in DOMAIN db'.quantity : InStock(p)'
  <2>1. Serial /\ load.counted = {}
    BY <1>1, <1>2 DEF Serial
  <2>2. DOMAIN txn' = {}
    BY <1>1, <2>1 DEF StockInv, Serial
  <2>3. NewStock(txn[s]) \/ UnitMove(txn[s])
    BY <1>1, <2>1 DEF StockInv, Counts
  <2>. QED
    BY <2>1, <2>2, <2>3, NewStockCounted, UnitMoveCounted
<1>. QED
  BY <1>1, <1>2, StockCommitRows DEF StockInv

LEMMA StockNextInv == StockInv /\ [InventoryNext]_vars => StockInv'
<1>. SUFFICES ASSUME StockInv, [InventoryNext]_vars PROVE StockInv'
  OBVIOUS
<1>1. CASE UNCHANGED vars
  <2>1. db' = db /\ txn' = txn /\ load' = load
    BY <1>1 DEF vars
  <2>2. InventoryInv'
    BY <2>1 DEF StockInv, InventoryInv, StockRows, StockWrites, StockTables, PartStock,
                OrderLines, Instances, OrdersWhole, LineOf
  <2>3. (\A r \in DOMAIN txn : Counts(txn[r])) => (\A r \in DOMAIN txn : Counts(txn[r]))'
    BY <2>1 DEF Counts, NewStock, UnitMove, PartOf, LineOf
  <2>4. \A p \in DOMAIN db.quantity : InStock(p) => InStock(p)'
    BY <2>1 DEF InStock, Received, PartOf, LineOf
  <2>. QED
    BY <2>1, <2>2, <2>3, <2>4 DEF StockInv, Serial
<1>2. CASE InventoryNext
  <2>1. ASSUME NEW s, NEW W, Begin(s, W), StockWrites(s, W), load.counted = {} => Counts(W)
        PROVE  StockInv'
    <3>1. \A r \in DOMAIN txn : DOMAIN W.ordered \cap DOMAIN txn[r].ordered = {}
      BY <2>1, BeginTxn DEF StockWrites
    <3>. QED
      BY <2>1, <3>1, StockBeginInv
  <2>2. PICK s \in load.sessions :
          \/ \E role \in load.roles :
               \/ \E p \in 1 .. load.parts, q \in load.stock :
                    Fresh(p, Used("quantity")) /\ CreatePart(s, role, p, q)
               \/ \E p \in DOMAIN db.quantity, q \in load.counted : UpdatePart(s, role, p, q)
               \/ \E po \in 1 .. load.orders :
                    /\ Fresh(po, {k.po : k \in Used("ordered")})
                    /\ \E n \in 0 .. load.lines :
                         \E lines \in [1 .. n -> [part : DOMAIN db.quantity, qty : load.ordered]] :
                           CreatePurchaseOrder(s, role, po, lines)
               \/ \E i \in DOMAIN db.instance, st \in load.statuses : UpdatePartInstance(s, role, i, st)
          \/ s \in DOMAIN txn /\ Commit(s, TRUE)
          \/ Rollback(s)
    BY <1>2 DEF InventoryNext
  <2>3. InventoryInv
    BY DEF StockInv
  <2>4. CASE \E role \in load.roles, p \in 1 .. load.parts, q \in load.stock :
               Fresh(p, Used("quantity")) /\ CreatePart(s, role, p, q)
    BY <2>1, <2>3, <2>4, CreatePartSound DEF Fresh
  <2>5. CASE \E role \in load.roles, p \in DOMAIN db.quantity, q \in load.counted :
               UpdatePart(s, role, p, q)
    BY <2>1, <2>3, <2>5, UpdatePartSound
  <2>6. CASE \E role \in load.roles, po \in 1 .. load.orders, n \in 0 .. load.lines :
               \E lines \in [1 .. n -> [part : DOMAIN db.quantity, qty : load.ordered]] :
                 /\ Fresh(po, {k.po : k \in Used("ordered")})
                 /\ CreatePurchaseOrder(s, role, po, lines)
    BY <2>1, <2>3, <2>6, CreatePurchaseOrderSound DEF Fresh
  <2>7. CASE \E role \in load.roles, i \in DOMAIN db.instance, st \in load.statuses :
               UpdatePartInstance(s, role, i, st)
    BY <2>1, <2>3, <2>7, UpdatePartInstanceSound
  <2>8. CASE Commit(s, TRUE)
    BY <2>8, StockCommitInv
  <2>9. CASE Rollback(s)
    BY <2>9, StockRollbackInv
  <2>. QED
    BY <2>2, <2>4, <2>5, <2>6, <2>7, <2>8, <2>9
<1>. QED
  BY <1>1, <1>2

\* Order lines are committed with exactly the units they order, whatever runs beside.
THEOREM InventoryTypeCorrect == InventorySpec => []InventoryTypeOK
<1>1. StockInv => InventoryTypeOK
  BY DEF StockInv, InventoryInv, StockRows, StockWrites, StockTables, InventoryTypeOK
<1>. QED
  BY <1>1, StockInitInv, StockNextInv, PTL DEF InventorySpec

\* Requests that run one after another lose no received unit from the stock, however
\* its status was changed.
THEOREM ReceivedStaysCounted == InventorySpec => []ReceivedIsCounted
<1>1. StockInv => ReceivedIsCounted
  BY DEF StockInv, InStock, Received, ReceivedIsCounted
<1>. QED
  BY <1>1, StockInitInv, StockNextInv, PTL DEF InventorySpec
=============================================================================
