---------------------------- MODULE MCBackOffice ----------------------------
(* Small loads of the components that keep to themselves: inventory, accounts *)
(* and file attachments.  A load is one component's; so are its steps.        *)
EXTENDS Inventory, Accounts, Files, TLC

CONSTANTS s1, s2, s3, n1, n2, e1, e2, p1, p2, x, y, u1, u2

MCName == {n1, n2}
MCEmail == {e1, e2}
MCPassword == {p1, p2}
MCEntity == {x, y}
MCUser == {u1, u2}

\* Stock: two parts ordered in one or two lines, every move of their units.
Stock ==
  [sessions |-> {s1}, roles |-> {"manager"}, parts |-> 2, orders |-> 1, lines |-> 2,
   stock |-> {0}, counted |-> {}, ordered |-> {0, 1}, limit |-> 3,
   statuses |-> InstanceStatus]
\* Stock counted by hand beside a second session.
Recount ==
  [sessions |-> {s1, s2}, roles |-> {"manager", "technician"}, parts |-> 1, orders |-> 1,
   lines |-> 1, stock |-> {0, 1}, counted |-> {0}, ordered |-> {1, 2},
   limit |-> 3, statuses |-> {"received", "installed"}]
MCInventory == {Stock, Recount}

\* Registrations at once, changes of email.
Registration ==
  [sessions |-> {s1, s2}, users |-> 2, tokens |-> 0, roles |-> {"manager", "customer"},
   names |-> MCName, emails |-> MCEmail, passwords |-> {p1}, manual |-> FALSE]
\* Password resets, one request at a time, and with managers and users changing them too.
Resets(manual) ==
  [sessions |-> {s1}, users |-> 2, tokens |-> 2, roles |-> {"manager"}, names |-> MCName,
   emails |-> MCEmail, passwords |-> MCPassword, manual |-> manual]
MCAccounts == {Registration, Resets(TRUE), Resets(FALSE)}

\* Uploads of three sessions to two entities with room for one file each; deletions.
Uploads ==
  [sessions |-> {s1, s2, s3}, uploads |-> 4, managers |-> {u1}, deletes |-> FALSE]
Deletions ==
  [sessions |-> {s1, s2}, uploads |-> 3, managers |-> {u1}, deletes |-> TRUE]
MCFiles == {Uploads, Deletions}

BackOfficeInit == InventoryInit \/ AccountsInit \/ FilesInit
BackOfficeNext ==
  \/ load \in InventoryLoads /\ InventoryNext
  \/ load \in AccountLoads /\ AccountsNext
  \/ load \in FileLoads /\ FilesNext
BackOfficeSpec == BackOfficeInit /\ [][BackOfficeNext]_vars
=============================================================================
