---------------------------- MODULE Transactions ----------------------------
(***************************************************************************)
(* Requests as database transactions (get_db in app/database.py), for the  *)
(* modules of the single components.                                       *)
(*                                                                         *)
(* A request reads the committed rows, decides, and begins a transaction   *)
(* with all its writes; it commits them onto whatever the rows hold by     *)
(* then, or rolls back.  No handler locks a row, so requests interleave as *)
(* freely as the sessions allow.                                           *)
(*                                                                         *)
(* What clients of the system do in one execution is its load: how many    *)
(* sessions serve them, who they are, which values their requests carry.   *)
(* It is chosen in the initial state and never changes.                    *)
(***************************************************************************)
EXTENDS Integers, FiniteSets, Functions, Columns

CONSTANT Null      \* an optional field that a request leaves out

VARIABLES
  db,      \* the committed rows: a record of columns
  txn,     \* the writes of the request that each session has in flight
  load     \* the load of this execution

vars == <<db, txn, load>>

\* User.role, which RoleChecker compares with the roles of an endpoint.
Role == {"manager", "advisor", "technician", "customer"}

----------------------------------------------------------------------------
(* Columns.                                                                *)

\* The ORM's UPDATE for a field of a payload: "if payload.field is not None".
Assign(column, k, v) == IF v = Null THEN Empty ELSE Update(column, k, v)

\* The keys of the column c that a committed or a pending row has.
Used(c) == DOMAIN db[c] \cup UNION {DOMAIN txn[s][c] : s \in DOMAIN txn}

\* Primary keys are taken in order, which loses nothing: they are random UUIDs.
Fresh(n, used) == n \notin used /\ 1 .. n - 1 \subseteq used

----------------------------------------------------------------------------
(* Transactions.                                                           *)

\* One session at a time: requests run one after another.
Serial == \A r, s \in load.sessions : r = s

Begin(s, writes) ==
  /\ s \in load.sessions \ DOMAIN txn
  /\ txn' = Overlay(At(s, writes), txn)
  /\ UNCHANGED <<db, load>>

End(s) ==
  /\ s \in DOMAIN txn
  /\ txn' = [r \in DOMAIN txn \ {s} |-> txn[r]]
  /\ UNCHANGED load

\* The commit at the end of get_db, if the constraints of the tables permit it.
Commit(s, permitted) ==
  /\ End(s)
  /\ permitted
  /\ db' = [c \in DOMAIN db |-> Overlay(txn[s][c], db[c])]

\* An exception after the reads: a constraint, a lost connection, a crash.
Rollback(s) == End(s) /\ UNCHANGED db
=============================================================================
