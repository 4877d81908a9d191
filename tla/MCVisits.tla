------------------------------ MODULE MCVisits ------------------------------
(* Small loads of Visits for TLC.                                            *)
EXTENDS Visits, TLC

CONSTANTS s1, s2, v1, v2

MCVehicle == {v1, v2}

Load(sessions, roles) ==
  [sessions |-> sessions, roles |-> roles, vehicles |-> {v1}, flags |-> {},
   appointments |-> 0, visits |-> 1, bays |-> 0,
   reports |-> 0, findings |-> 0, quotes |-> 0, workOrders |-> 0, seeded |-> 0,
   appointmentStatuses |-> {}, newVisits |-> {"checked_in"}, visitStatuses |-> {},
   bayStatuses |-> {}, quoteStatuses |-> {}]

\* Appointments, bays and the arrival of two vehicles.
FrontDesk ==
  [Load({s1}, {"advisor", "customer"}) EXCEPT
     !.vehicles = MCVehicle, !.appointments = 2, !.visits = 2, !.visitStatuses = {"awaiting_quote", "completed"},
     !.appointmentStatuses = {"requested", "confirmed"}]

\* Bays held, released and confirmed.
Bays ==
  [Load({s1}, {"manager"}) EXCEPT
     !.appointments = 1, !.bays = 1, !.bayStatuses = {"available", "held"},
     !.appointmentStatuses = {"requested", "confirmed", "cancelled"}]

\* Two reports of a visit, their findings, and staff who move the visit by hand.
Inspection ==
  [Load({s1}, {"manager"}) EXCEPT
     !.reports = 2, !.findings = 1, !.quoteStatuses = {"issued", "approved"},
     !.visitStatuses = {"in_diagnosis", "awaiting_quote", "in_service", "completed"}]

\* The way out: quotes, work orders, change orders, invoices.
Departure ==
  [Load({s1}, {"advisor"}) EXCEPT
     !.quotes = 2, !.workOrders = 2, !.flags = BOOLEAN,
     !.newVisits = {"awaiting_quote", "in_service", "completed"},
     !.visitStatuses = {"in_service", "awaiting_pickup", "completed"},
     !.quoteStatuses = {"draft", "approved"}]

\* Two sessions: an inspection completed twice, a vehicle checked in twice.
Race ==
  [Load({s1, s2}, {"manager"}) EXCEPT
     !.visits = 2, !.reports = 1, !.seeded = 1, !.visitStatuses = {"awaiting_quote"}]

MCLoads == {FrontDesk, Bays, Inspection, Departure, Race}
MCBays == {Bays}
=============================================================================
