---------------------------- MODULE MCWorkOrders ----------------------------
(* Small loads of WorkOrders for TLC.                                        *)
EXTENDS WorkOrders, TLC

CONSTANTS s1, s2

Load(sessions, roles) ==
  [sessions |-> sessions, roles |-> roles, quotes |-> 1, workOrders |-> 1, items |-> 1,
   changeOrders |-> 0, services |-> 0, parts |-> 0, claims |-> 0, limit |-> 3, totals |-> {2},
   prices |-> {1}, deltas |-> {}, quoteStatuses |-> {"approved"},
   woStatuses |-> {"active"}, itemStatuses |-> {"completed"}, invoiceStatuses |-> {},
   modes |-> {"flat_rate"}]

\* Amounts: two items, a change order up or down, approved by whoever may.
Money ==
  [Load({s1}, {"manager", "advisor"}) EXCEPT
     !.items = 2, !.changeOrders = 1, !.totals = {0, 2}, !.prices = {0, 1, 2},
     !.deltas = {1, -1}, !.quoteStatuses = {"draft", "issued", "approved"},
     !.woStatuses = {"created"}, !.itemStatuses = {"not_started"}]

\* Progress: two items, hourly or not, through their statuses to the invoice.
Progress ==
  [Load({s1}, {"manager", "technician"}) EXCEPT
     !.items = 2, !.woStatuses = {"active", "closed", "archived"}, !.totals = {2},
     !.itemStatuses = {"not_started", "in_progress", "completed"},
     !.modes = {"flat_rate"}, !.invoiceStatuses = {"issued"}]

\* The menu, hourly labor, parts, warranties and claims.
Aftercare ==
  [Load({s1}, {"manager", "technician"}) EXCEPT
     !.services = 1, !.prices = {1, 3}, !.parts = 1, !.claims = 1,
     !.itemStatuses = {"in_progress", "completed"}, !.modes = {"hourly"},
     !.woStatuses = {"active", "closed"}, !.invoiceStatuses = {"issued", "voided"}]

\* Two sessions: a quote, two work orders drafted for it at once, a change order.
Race ==
  [Load({s1, s2}, {"manager", "customer"}) EXCEPT
     !.workOrders = 2, !.changeOrders = 1, !.deltas = {1}, !.woStatuses = {"created"},
     !.quoteStatuses = {"approved"}]

\* Two sessions of advisors and technicians.
Unapproved ==
  [Load({s1, s2}, {"advisor", "technician"}) EXCEPT
     !.changeOrders = 1, !.deltas = {1}, !.totals = {1, 2}, !.woStatuses = {"created"},
     !.quoteStatuses = {"draft", "approved"}]

MCLoads == {Money, Progress, Aftercare, Race, Unapproved}
=============================================================================
