------------------------------ MODULE Columns ------------------------------
(***************************************************************************)
(* A table of the database as a set of columns: partial functions from row *)
(* keys to values, where NULL is a key that is absent.  The writes of a    *)
(* transaction to a column are such a function too.                        *)
(***************************************************************************)
EXTENDS Integers

Empty == [x \in {} |-> 0]
At(k, v) == [x \in {k} |-> v]

\* The column after an INSERT or UPDATE of the keys of new.
Overlay(new, old) ==
  [k \in DOMAIN new \cup DOMAIN old |-> IF k \in DOMAIN new THEN new[k] ELSE old[k]]

\* What the ORM emits for an assignment to an attribute of a loaded row:
\* nothing when the value is the one it loaded.
Update(column, k, v) ==
  IF k \in DOMAIN column /\ column[k] = v THEN Empty ELSE At(k, v)

IsColumn(f, S, T) == f \in [DOMAIN f -> T] /\ DOMAIN f \subseteq S
=============================================================================
