------------------------------- MODULE Visits -------------------------------
(***************************************************************************)
(* Appointments, bays, visits and inspections: routers/visits.py,          *)
(* routers/diagnostics.py, the bays of routers/resources.py, and what      *)
(* quotes, work orders and invoices do to a visit.                         *)
(*                                                                         *)
(* A quote and a work order are named by the inspection report that drafted*)
(* them (report 0: drafted by staff) and a number.  Of a work order only   *)
(* its visit, its quote and whether its items have prices matter here: its *)
(* status and its amounts are in module WorkOrders, invoices in Billing.   *)
(* Dates are left to chance: which appointment of a vehicle is for today,  *)
(* and which hold of a bay has expired.                                    *)
(***************************************************************************)
EXTENDS Transactions

CONSTANTS Vehicle, VisitLoads

AppointmentStatus == {"requested", "confirmed", "cancelled", "checked_in"}
VisitStatus == {"checked_in", "in_diagnosis", "awaiting_quote", "in_service",
                "awaiting_pickup", "completed"}
BayStatus == {"available", "held", "confirmed", "occupied", "cleaning", "maintenance"}
ReportStatus == {"in_progress", "completed"}
QuoteStatus == {"draft", "issued", "approved", "declined", "expired"}

Finding == [report : Nat, n : Nat]
Draft == [report : Nat, n : Nat]       \* quotes and work orders
Item == [wo : Draft, n : Nat]

\* The load: sessions, roles that send requests, how many rows they insert, what is in
\* their payloads (flags: of change orders and invoices), the items of the template.
IsVisitLoad(l) ==
  /\ IsFiniteSet(l.sessions)
  /\ l.roles \subseteq Role /\ l.vehicles \subseteq Vehicle /\ l.flags \subseteq BOOLEAN
  /\ {l.appointments, l.visits, l.bays, l.reports, l.findings, l.quotes, l.workOrders,
      l.seeded} \subseteq Nat
  /\ l.appointmentStatuses \subseteq AppointmentStatus
  /\ l.newVisits \cup l.visitStatuses \subseteq VisitStatus
  /\ l.bayStatuses \subseteq BayStatus /\ l.quoteStatuses \subseteq QuoteStatus

ASSUME VisitAssumption == \A l \in VisitLoads : IsVisitLoad(l)

----------------------------------------------------------------------------
(* Payloads: the fields that the handlers read.                            *)

AppointmentCreate ==
  [vehicle : load.vehicles, status : load.appointmentStatuses, bay : DOMAIN db.bayStatus \cup {Null}]
AppointmentUpdate ==
  [vehicle : load.vehicles \cup {Null}, status : load.appointmentStatuses \cup {Null},
   bay : DOMAIN db.bayStatus \cup {Null}]
VisitCreate ==
  [vehicle : load.vehicles, status : load.newVisits,
   appointment : DOMAIN db.appointmentStatus \cup {Null}]
VisitUpdate == [status : load.visitStatuses \cup {Null}, out : BOOLEAN]
BayCreate == [status : load.bayStatuses, held : BOOLEAN]
\* held: whether held_until gets a date or NULL; Null when the field is not sent.
BayUpdate == [status : load.bayStatuses \cup {Null}, held : BOOLEAN \cup {Null}]

----------------------------------------------------------------------------
(* Tables.                                                                 *)

AppointmentTable(d) ==
  /\ IsColumn(d.appointmentStatus, Nat, AppointmentStatus)
  /\ IsColumn(d.appointmentVehicle, Nat, Vehicle)
  /\ IsColumn(d.appointmentBay, Nat, Nat)
VisitTable(d) ==
  /\ IsColumn(d.visitStatus, Nat, VisitStatus)
  /\ IsColumn(d.visitVehicle, Nat, Vehicle)
  /\ IsColumn(d.checkedOut, Nat, {TRUE})
BayTable(d) == IsColumn(d.bayStatus, Nat, BayStatus) /\ IsColumn(d.held, Nat, BOOLEAN)
ReportTable(d) ==
  /\ IsColumn(d.reportStatus, Nat, ReportStatus)
  /\ IsColumn(d.reportVisit, Nat, Nat)
\* Whether a finding has a recommended_service.
FindingTable(d) == IsColumn(d.recommended, Finding, BOOLEAN)
QuoteTable(d) ==
  /\ IsColumn(d.quoteStatus, Draft, QuoteStatus)
  /\ IsColumn(d.quoteVisit, Draft, Nat)
WorkOrderTable(d) ==
  /\ IsColumn(d.woQuote, Draft, Draft)
  /\ IsColumn(d.woVisit, Draft, Nat)
  /\ IsColumn(d.pending, Draft, BOOLEAN)        \* it has an issued change order
  /\ IsColumn(d.paid, Draft, BOOLEAN)           \* the status of its invoice is 'paid'
ItemTable(d) == IsColumn(d.priced, Item, BOOLEAN)

IsFloor(d) ==
  /\ AppointmentTable(d) /\ VisitTable(d) /\ BayTable(d) /\ ReportTable(d)
  /\ FindingTable(d) /\ QuoteTable(d) /\ WorkOrderTable(d) /\ ItemTable(d)

NoWrites ==
  [appointmentStatus |-> Empty, appointmentVehicle |-> Empty, appointmentBay |-> Empty,
   visitStatus |-> Empty, visitVehicle |-> Empty, checkedOut |-> Empty, bayStatus |-> Empty,
   held |-> Empty, reportStatus |-> Empty, reportVisit |-> Empty, recommended |-> Empty,
   quoteStatus |-> Empty, quoteVisit |-> Empty, woQuote |-> Empty, woVisit |-> Empty,
   pending |-> Empty, paid |-> Empty, priced |-> Empty]

Reports(v) == {r \in DOMAIN db.reportVisit : db.reportVisit[r] = v}
WorkOrders(v) == {w \in DOMAIN db.woVisit : db.woVisit[w] = v}
OpenQuotes(v) ==
  {q \in DOMAIN db.quoteVisit : db.quoteVisit[q] = v /\ db.quoteStatus[q] \in {"draft", "issued"}}

----------------------------------------------------------------------------
(* Appointments.                                                           *)

\* On a new row the listener on the status finds no bay.
CreateAppointment(s, a, p) ==
  Begin(s, [NoWrites EXCEPT !.appointmentStatus = At(a, p.status),
                            !.appointmentVehicle = At(a, p.vehicle),
                            !.appointmentBay = Assign(db.appointmentBay, a, p.bay)])
PostAppointment(s, role, a, p) == role # "technician" /\ CreateAppointment(s, a, p)

\* The listener on the status reads appointment.bay before the payload's bay is
\* assigned: with a bay on the row the lazy load fails (MissingGreenlet), without one
\* there is nothing to confirm.  A new bay is examined when the status comes with it.
Confirmable(a, p) ==
  /\ a \notin DOMAIN db.appointmentBay
  /\ p.bay # Null => db.bayStatus[p.bay] \in {"available", "confirmed"}
UpdateAppointment(s, a, p) ==
  /\ p.status = "confirmed" => Confirmable(a, p)
  /\ Begin(s, [NoWrites EXCEPT
       !.appointmentStatus = Assign(db.appointmentStatus, a, p.status),
       !.appointmentVehicle = Assign(db.appointmentVehicle, a, p.vehicle),
       !.appointmentBay = Assign(db.appointmentBay, a, p.bay)])
PutAppointment(s, role, a, p) ==
  /\ role # "technician"
  /\ role = "customer" => p.status = "cancelled"
  /\ UpdateAppointment(s, a, p)

----------------------------------------------------------------------------
(* Visits.                                                                 *)

\* update_visit allows these changes of status ...
ValidTransitions ==
  [checked_in |-> {"in_diagnosis", "awaiting_quote", "completed"},
   in_diagnosis |-> {"awaiting_quote", "in_service", "completed"},
   awaiting_quote |-> {"in_service", "completed"},
   in_service |-> {"awaiting_pickup", "completed"},
   awaiting_pickup |-> {"completed"},
   completed |-> {}]
\* ... and the validator on Visit.status, which every assignment runs, these.
AllowedNext ==
  [checked_in |-> {"in_diagnosis", "awaiting_quote", "in_service"},
   in_diagnosis |-> {"awaiting_quote", "in_service"},
   awaiting_quote |-> {"in_service", "completed"},
   in_service |-> {"awaiting_pickup"},
   awaiting_pickup |-> {"completed"},
   completed |-> {}]
Validated(old, new) == new = old \/ new \in AllowedNext[old]

\* Without an appointment in the payload: the vehicle's one open appointment of
\* today, or none (a walk-in).  With one: that one, whatever its vehicle or status.
Claimable(p) ==
  IF p.appointment # Null THEN {{p.appointment}}
  ELSE {{}} \cup {{a} : a \in {b \in DOMAIN db.appointmentStatus :
                                 /\ db.appointmentVehicle[b] = p.vehicle
                                 /\ db.appointmentStatus[b] \in {"requested", "confirmed"}}}
\* Fault: only visits still at the front desk count as active.
CheckInAgain(s, v, p) ==
  /\ \A u \in DOMAIN db.visitVehicle :
       db.visitVehicle[u] = p.vehicle => db.visitStatus[u] # "checked_in"
  /\ Begin(s, [NoWrites EXCEPT !.visitStatus = At(v, p.status), !.visitVehicle = At(v, p.vehicle)])
CreateVisit(s, v, p) ==
  /\ \A u \in DOMAIN db.visitVehicle :
       db.visitVehicle[u] = p.vehicle => db.visitStatus[u] = "completed"
  /\ \E claimed \in Claimable(p) :
       Begin(s, [NoWrites EXCEPT
         !.visitStatus = At(v, p.status), !.visitVehicle = At(v, p.vehicle),
         !.appointmentStatus = [a \in claimed |-> "checked_in"]])
PostVisit(s, role, v, p) == role \in {"manager", "advisor"} /\ CreateVisit(s, v, p)

\* Fault: a visit enters service without a work order.
TransitionUnordered(v, st) ==
  /\ st # db.visitStatus[v] => st \in ValidTransitions[db.visitStatus[v]]
  /\ Validated(db.visitStatus[v], st)
Transition(v, st) ==
  /\ st # db.visitStatus[v] => st \in ValidTransitions[db.visitStatus[v]]
  /\ Validated(db.visitStatus[v], st)
  /\ st = "in_service" => WorkOrders(v) # {}
  /\ st = "awaiting_pickup" =>
       \A w \in WorkOrders(v) \cap DOMAIN db.pending : ~db.pending[w]
\* Setting checked_out_at: a listener completes the visit after its new status is set.
\* Fault: work orders are not searched for unpaid invoices.
CheckOutUnpaid(v, st) == Validated(st, "completed")
CheckOut(v, st) ==
  /\ \A w \in WorkOrders(v) \cap DOMAIN db.paid : db.paid[w]
  /\ Validated(st, "completed")
\* One request may carry a status and a check-out.
UpdateVisit(s, v, p) ==
  LET st == IF p.status = Null THEN db.visitStatus[v] ELSE p.status
  IN /\ p.status # Null => Transition(v, p.status)
     /\ p.out => CheckOut(v, st)
     /\ Begin(s, [NoWrites EXCEPT
          !.visitStatus = Update(db.visitStatus, v, IF p.out THEN "completed" ELSE st),
          !.checkedOut = IF p.out THEN Update(db.checkedOut, v, TRUE) ELSE Empty,
          !.quoteStatus = IF p.out THEN [q \in OpenQuotes(v) |-> "expired"] ELSE Empty])
PutVisit(s, role, v, p) == role \in {"manager", "advisor"} /\ UpdateVisit(s, v, p)

----------------------------------------------------------------------------
(* Inspections.                                                            *)

Inspectable == {"checked_in", "in_diagnosis"}

\* The template seeds findings without a recommended service.
CreateDiagnostic(s, role, r, v) ==
  /\ role # "customer"
  /\ db.visitStatus[v] \in Inspectable
  /\ Begin(s, [NoWrites EXCEPT
       !.reportStatus = At(r, "in_progress"), !.reportVisit = At(r, v),
       !.recommended = [f \in [report : {r}, n : 1 .. load.seeded] |-> FALSE],
       !.visitStatus = Update(db.visitStatus, v, "in_diagnosis")])

\* Findings are added and changed after the report is completed, too.
AddDiagnosticFinding(s, role, f, rec) ==
  /\ role \in {"technician", "manager"}
  /\ Begin(s, [NoWrites EXCEPT !.recommended = At(f, rec)])
UpdateDiagnosticFinding(s, role, f, rec) ==
  /\ role \in {"technician", "manager"}
  /\ Begin(s, [NoWrites EXCEPT !.recommended = Update(db.recommended, f, rec)])

\* The first completion moves the visit on and drafts a quote, a work order, and an
\* item for $0 for each recommended service; create_quote refuses the draft while
\* another report of the visit is in progress.
Completion(r) == [NoWrites EXCEPT !.reportStatus = At(r, "completed")]
\* Fault: a draft is made wherever the visit is.
DraftAlways(s, r, k) ==
  LET v == db.reportVisit[r]
  IN Begin(s, [Completion(r) EXCEPT
       !.quoteStatus = At(k, "draft"), !.quoteVisit = At(k, v),
       !.woQuote = At(k, k), !.woVisit = At(k, v)])
\* Fault: the work order is inserted without its quote.
DraftOrderOnly(s, r, k) ==
  LET v == db.reportVisit[r]
  IN /\ db.visitStatus[v] \in Inspectable
     /\ Begin(s, [Completion(r) EXCEPT !.woQuote = At(k, k), !.woVisit = At(k, v)])
CompleteAndDraft(s, r, k) ==
  LET v == db.reportVisit[r]
  IN /\ db.visitStatus[v] \in Inspectable
     /\ \A o \in Reports(v) \ {r} : db.reportStatus[o] = "completed"
     /\ Begin(s, [Completion(r) EXCEPT
          !.visitStatus = At(v, "awaiting_quote"),
          !.quoteStatus = At(k, "draft"), !.quoteVisit = At(k, v),
          !.woQuote = At(k, k), !.woVisit = At(k, v),
          !.priced = [i \in {[wo |-> k, n |-> f.n] : f \in
                             {g \in DOMAIN db.recommended : g.report = r /\ db.recommended[g]}}
                        |-> FALSE]])
CompleteOnly(s, r, k) ==
  db.visitStatus[db.reportVisit[r]] \notin Inspectable /\ Begin(s, Completion(r))
CompleteDiagnostic(s, role, r, k) ==
  /\ role \in {"technician", "manager"}
  /\ db.reportStatus[r] = "in_progress"
  /\ CompleteAndDraft(s, r, k) \/ CompleteOnly(s, r, k)

----------------------------------------------------------------------------
(* Quotes, work orders and invoices, as far as visits go.                  *)

CreateQuote(s, q, v, st) ==
  /\ \A r \in Reports(v) : db.reportStatus[r] = "completed"
  /\ Begin(s, [NoWrites EXCEPT !.quoteStatus = At(q, st), !.quoteVisit = At(q, v)])

\* The visit in the payload need not be the visit of the quote.
CreateWorkOrder(s, w, q, v) ==
  /\ db.quoteStatus[q] \in {"approved", "draft"}
  /\ \A x \in DOMAIN db.woQuote : db.woQuote[x] # q
  /\ Begin(s, [NoWrites EXCEPT !.woQuote = At(w, q), !.woVisit = At(w, v)])

Issuable(q) == \A i \in DOMAIN db.priced : db.woQuote[i.wo] = q => db.priced[i]
\* Approval sends the visit to service if it awaits the quote.
Serviced(q) == {v \in {db.quoteVisit[q]} : db.visitStatus[v] = "awaiting_quote"}
UpdateQuote(s, q, st) ==
  /\ st = "issued" => Issuable(q)
  /\ Begin(s, [NoWrites EXCEPT
       !.quoteStatus = Update(db.quoteStatus, q, st),
       !.visitStatus = IF st = "approved" THEN [v \in Serviced(q) |-> "in_service"] ELSE Empty])

UpdateLineItem(s, i) == Begin(s, [NoWrites EXCEPT !.priced = Update(db.priced, i, TRUE)])
UpdateChangeOrder(s, w, issued) ==
  Begin(s, [NoWrites EXCEPT !.pending = Update(db.pending, w, issued)])
UpdateInvoice(s, w, paid) == Begin(s, [NoWrites EXCEPT !.paid = Update(db.paid, w, paid)])

----------------------------------------------------------------------------
(* Bays.                                                                   *)

CreateBay(s, role, b, p) ==
  /\ role = "manager"
  /\ Begin(s, [NoWrites EXCEPT !.bayStatus = At(b, p.status), !.held = At(b, p.held)])
UpdateBay(s, role, b, p) ==
  /\ role # "customer"
  /\ Begin(s, [NoWrites EXCEPT !.bayStatus = Assign(db.bayStatus, b, p.status),
                               !.held = Assign(db.held, b, p.held)])
\* Listing the bays releases the holds that have expired.
ListBays(s, role) ==
  /\ role # "customer"
  /\ \E expired \in SUBSET {b \in DOMAIN db.bayStatus : db.bayStatus[b] = "held" /\ db.held[b]} :
       Begin(s, [NoWrites EXCEPT !.bayStatus = [b \in expired |-> "available"],
                                 !.held = [b \in expired |-> FALSE]])

----------------------------------------------------------------------------

VisitsInit == load \in VisitLoads /\ db = NoWrites /\ txn = Empty

\* work_order_quote_id_key.
Permitted(W) ==
  \A w \in DOMAIN W.woQuote, v \in DOMAIN db.woQuote : W.woQuote[w] = db.woQuote[v] => v = w

Drafted(c, r) == {k.n : k \in {j \in Used(c) : j.report = r}}

FrontDeskRequest(s, role) ==
  \/ \E a \in 1 .. load.appointments, p \in AppointmentCreate :
       Fresh(a, Used("appointmentStatus")) /\ PostAppointment(s, role, a, p)
  \/ \E a \in DOMAIN db.appointmentStatus, p \in AppointmentUpdate : PutAppointment(s, role, a, p)
  \/ \E v \in 1 .. load.visits, p \in VisitCreate :
       Fresh(v, Used("visitStatus")) /\ PostVisit(s, role, v, p)
  \/ \E v \in DOMAIN db.visitStatus, p \in VisitUpdate : PutVisit(s, role, v, p)

BayRequest(s, role) ==
  \/ \E b \in 1 .. load.bays, p \in BayCreate :
       Fresh(b, Used("bayStatus")) /\ CreateBay(s, role, b, p)
  \/ \E b \in DOMAIN db.bayStatus, p \in BayUpdate : UpdateBay(s, role, b, p)
  \/ ListBays(s, role)

InspectionRequest(s, role) ==
  \/ \E r \in 1 .. load.reports, v \in DOMAIN db.visitStatus :
       Fresh(r, Used("reportStatus")) /\ CreateDiagnostic(s, role, r, v)
  \/ \E r \in DOMAIN db.reportStatus, n \in 1 .. load.findings, rec \in BOOLEAN :
       /\ Fresh(n, Drafted("recommended", r))
       /\ AddDiagnosticFinding(s, role, [report |-> r, n |-> n], rec)
  \/ \E f \in DOMAIN db.recommended, rec \in BOOLEAN : UpdateDiagnosticFinding(s, role, f, rec)
  \/ \E r \in DOMAIN db.reportStatus, n \in 1 .. Cardinality(load.sessions) :
       /\ Fresh(n, Drafted("quoteStatus", r))
       /\ CompleteDiagnostic(s, role, r, [report |-> r, n |-> n])

OrderRequest(s) ==
  \/ \E n \in 1 .. load.quotes, v \in DOMAIN db.visitStatus, st \in load.quoteStatuses :
       /\ Fresh(n, Drafted("quoteStatus", 0))
       /\ CreateQuote(s, [report |-> 0, n |-> n], v, st)
  \/ \E q \in DOMAIN db.quoteStatus, st \in load.quoteStatuses : UpdateQuote(s, q, st)
  \/ \E n \in 1 .. load.workOrders, q \in DOMAIN db.quoteStatus, v \in DOMAIN db.visitStatus :
       /\ Fresh(n, Drafted("woQuote", 0))
       /\ CreateWorkOrder(s, [report |-> 0, n |-> n], q, v)
  \/ \E i \in DOMAIN db.priced : UpdateLineItem(s, i)
  \/ \E w \in DOMAIN db.woQuote, flag \in load.flags :
       UpdateChangeOrder(s, w, flag) \/ UpdateInvoice(s, w, flag)

VisitsNext ==
  \E s \in load.sessions :
    \/ \E role \in load.roles :
         FrontDeskRequest(s, role) \/ BayRequest(s, role) \/ InspectionRequest(s, role)
    \/ OrderRequest(s)
    \/ s \in DOMAIN txn /\ Commit(s, Permitted(txn[s]))
    \/ Rollback(s)

VisitsSpec == VisitsInit /\ [][VisitsNext]_vars
----------------------------------------------------------------------------
(* Properties that hold however requests interleave.                       *)

\* Rows are complete: a row that writes touch exists or is inserted whole, with every
\* column that is NOT NULL.
Partial(A, B) == (A \cup B) \ (A \cap B)
CompleteRows(W, d) ==
  /\ Partial(DOMAIN W.appointmentStatus, DOMAIN W.appointmentVehicle)
       \subseteq DOMAIN d.appointmentStatus
  /\ Partial(DOMAIN W.visitStatus, DOMAIN W.visitVehicle) \subseteq DOMAIN d.visitStatus
  /\ Partial(DOMAIN W.bayStatus, DOMAIN W.held) \subseteq DOMAIN d.bayStatus
  /\ Partial(DOMAIN W.reportStatus, DOMAIN W.reportVisit) \subseteq DOMAIN d.reportStatus
  /\ Partial(DOMAIN W.quoteStatus, DOMAIN W.quoteVisit) \subseteq DOMAIN d.quoteStatus
  /\ DOMAIN W.woQuote = DOMAIN W.woVisit
  /\ DOMAIN W.appointmentBay \subseteq DOMAIN d.appointmentStatus \cup DOMAIN W.appointmentStatus
  /\ DOMAIN W.checkedOut \subseteq DOMAIN d.visitStatus \cup DOMAIN W.visitStatus
\* The rows that writes refer to exist, or are inserted with them: the foreign keys.
RowsExist(W, d) ==
  /\ Range(W.appointmentBay) \subseteq DOMAIN d.bayStatus
  /\ Range(W.reportVisit) \cup Range(W.quoteVisit) \cup Range(W.woVisit)
       \subseteq DOMAIN d.visitStatus
  /\ {f.report : f \in DOMAIN W.recommended} \subseteq DOMAIN d.reportStatus \cup DOMAIN W.reportStatus
  /\ Range(W.woQuote) \subseteq DOMAIN d.quoteStatus \cup DOMAIN W.quoteStatus
  /\ {i.wo : i \in DOMAIN W.priced} \cup DOMAIN W.pending \cup DOMAIN W.paid
       \subseteq DOMAIN d.woQuote \cup DOMAIN W.woQuote

\* Type invariant: the committed rows and the writes in flight are well-typed, whole
\* and refer to rows that exist, whatever commits before the writes do.
VisitsTypeOK ==
  /\ load \in VisitLoads
  /\ IsFloor(db) /\ CompleteRows(db, NoWrites) /\ RowsExist(db, db)
  /\ DOMAIN txn \subseteq load.sessions
  /\ \A s \in DOMAIN txn :
       IsFloor(txn[s]) /\ CompleteRows(txn[s], db) /\ RowsExist(txn[s], db)

----------------------------------------------------------------------------
(* Properties of requests that run one after another.                      *)

\* A vehicle has one visit that is not completed ("Vehicle is already checked in with
\* an active visit."): no handler reopens a completed visit beside a new one.
OneActiveVisit ==
  Serial => \A u, v \in DOMAIN db.visitStatus :
    /\ db.visitVehicle[u] = db.visitVehicle[v]
    /\ db.visitStatus[u] # "completed" /\ db.visitStatus[v] # "completed"
    => u = v

\* The inspections of a visit draft one quote, however many reports it has and
\* whoever moves the visit by hand meanwhile.
DraftedOnce ==
  Serial => \A p, q \in DOMAIN db.quoteVisit :
    p.report # 0 /\ q.report # 0 /\ db.quoteVisit[p] = db.quoteVisit[q] => p = q

\* A visit enters service with a work order, or by the approval of a quote it waited
\* for ("Cannot transition to in_service: No active work order exists").
ServiceIsOrdered ==
  [][Serial => \A v \in DOMAIN db.visitStatus :
       db.visitStatus[v] # "in_service" /\ db'.visitStatus[v] = "in_service" =>
         \/ WorkOrders(v) # {}
         \/ /\ db.visitStatus[v] = "awaiting_quote"
            /\ \E q \in DOMAIN db.quoteVisit :
                 /\ db.quoteVisit[q] = v
                 /\ db.quoteStatus[q] # "approved" => db'.quoteStatus[q] = "approved"]_vars

\* A vehicle leaves with every invoice of its visit paid and none of its quotes open,
\* and its visit is then completed ("Cannot check out vehicle: Invoice ... is not
\* fully paid.").
CheckedOutPaid ==
  [][Serial => \A v \in DOMAIN db'.checkedOut \ DOMAIN db.checkedOut :
       /\ \A w \in WorkOrders(v) \cap DOMAIN db.paid : db.paid[w]
       /\ OpenQuotes(v)' = {}
       /\ db'.visitStatus[v] = "completed"]_vars

\* Confirming an appointment confirms its bay, says the table of side effects.
ConfirmationConfirmsBay ==
  [][\A a \in DOMAIN db.appointmentStatus :
       /\ db.appointmentStatus[a] # "confirmed" /\ db'.appointmentStatus[a] = "confirmed"
       /\ a \in DOMAIN db'.appointmentBay
       => db'.bayStatus[db'.appointmentBay[a]] = "confirmed"]_vars
=============================================================================
