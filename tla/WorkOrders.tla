----------------------------- MODULE WorkOrders -----------------------------
(***************************************************************************)
(* Quotes, work orders, line items, labor, quality checks, change orders,  *)
(* the service menu and warranties: routers/jobs.py, routers/menu.py, the  *)
(* quote and warranty endpoints of routers/billing.py, and their services. *)
(*                                                                         *)
(* Quotes and work orders are numbered; line items, change orders and      *)
(* claims are numbered within their work order.  A warranty is named by    *)
(* its work order, as an invoice is: a unique constraint permits one.      *)
(* The drafting of a work order from an inspection is in module Visits.    *)
(***************************************************************************)
EXTENDS Transactions

CONSTANT WorkOrderLoads

QuoteStatus == {"draft", "issued", "approved", "declined", "expired"}
WorkOrderStatus == {"created", "scheduled", "paused", "active", "closed", "archived"}
ItemStatus == {"not_started", "gated", "in_progress", "on_hold", "completed"}
Mode == {"flat_rate", "hourly"}
ApprovalStatus == {"issued", "approved", "declined"}
InvoiceStatus == {"issued", "disputed", "paid", "voided", "credited"}
ClaimStatus == {"filed", "approved", "denied", "resolved"}

Numbered == [wo : Nat, n : Nat]        \* rows numbered within a work order

\* The load: sessions, roles that send requests, how many rows they insert, the
\* values in their payloads; limit bounds the amount that repeated approvals reach.
IsWorkOrderLoad(l) ==
  /\ l.roles \subseteq Role
  /\ {l.quotes, l.workOrders, l.items, l.changeOrders, l.services, l.parts, l.claims,
      l.limit} \subseteq Nat
  /\ l.totals \cup l.prices \subseteq Nat /\ l.deltas \subseteq Int
  /\ l.quoteStatuses \subseteq QuoteStatus /\ l.woStatuses \subseteq WorkOrderStatus
  /\ l.itemStatuses \subseteq ItemStatus /\ l.invoiceStatuses \subseteq InvoiceStatus
  /\ l.modes \subseteq Mode

ASSUME WorkOrderAssumption == \A l \in WorkOrderLoads : IsWorkOrderLoad(l)

----------------------------------------------------------------------------
(* Payloads: the fields that the handlers read.                            *)

QuoteCreate == [status : load.quoteStatuses, total : load.totals]
WorkOrderCreate ==
  [quote : DOMAIN db.quoteStatus, status : load.woStatuses, authorized : load.totals]
LineItemCreate == [mode : load.modes, price : load.prices, status : load.itemStatuses]
LineItemUpdate ==
  [mode : load.modes \cup {Null}, price : load.prices \cup {Null},
   status : load.itemStatuses \cup {Null}]
ChangeOrderCreate ==
  [item : DOMAIN db.price, delta : load.deltas, status : ApprovalStatus]
CannedServiceCreate == [mode : load.modes, price : load.prices]

----------------------------------------------------------------------------
(* Tables.                                                                 *)

QuoteTable(d) ==
  /\ IsColumn(d.quoteStatus, Nat, QuoteStatus)
  /\ IsColumn(d.quoteTotal, Nat, Nat)              \* quote.total_amount
WorkOrderTable(d) ==
  /\ IsColumn(d.woQuote, Nat, Nat)                 \* work_order.quote_id
  /\ IsColumn(d.woStatus, Nat, WorkOrderStatus)
  /\ IsColumn(d.authorized, Nat, Nat)              \* authorized_amount
LineItemTable(d) ==
  /\ IsColumn(d.mode, Numbered, Mode)
  /\ IsColumn(d.price, Numbered, Nat)
  /\ IsColumn(d.itemStatus, Numbered, ItemStatus)
\* Of labor entries and quality checks it matters which items have some.
LaborTable(d) == IsColumn(d.labor, Numbered, {TRUE})
QualityTable(d) == IsColumn(d.passed, Numbered, {TRUE})
ChangeOrderTable(d) ==
  /\ IsColumn(d.coItem, Numbered, Numbered)
  /\ IsColumn(d.coDelta, Numbered, Int)
  /\ IsColumn(d.coStatus, Numbered, ApprovalStatus)
PartTable(d) == IsColumn(d.partItem, Nat, Numbered)  \* part_instance.line_item_id
WarrantyTable(d) == IsColumn(d.warranty, Nat, {TRUE})
ClaimTable(d) == IsColumn(d.claim, Numbered, ClaimStatus)
MenuTable(d) == IsColumn(d.service, Nat, [mode : Mode, price : Nat])
InvoiceTable(d) ==
  /\ IsColumn(d.invoice, Nat, InvoiceStatus)
  /\ IsColumn(d.covered, Nat, {TRUE})                \* invoice.warranty_id

IsShop(d) ==
  /\ QuoteTable(d) /\ WorkOrderTable(d) /\ LineItemTable(d) /\ LaborTable(d)
  /\ QualityTable(d) /\ ChangeOrderTable(d) /\ PartTable(d) /\ WarrantyTable(d)
  /\ ClaimTable(d) /\ MenuTable(d) /\ InvoiceTable(d)

NoWrites ==
  [quoteStatus |-> Empty, quoteTotal |-> Empty, woQuote |-> Empty, woStatus |-> Empty,
   authorized |-> Empty, mode |-> Empty, price |-> Empty, itemStatus |-> Empty,
   labor |-> Empty, passed |-> Empty, coItem |-> Empty, coDelta |-> Empty,
   coStatus |-> Empty, partItem |-> Empty, warranty |-> Empty, claim |-> Empty,
   service |-> Empty, invoice |-> Empty, covered |-> Empty]

ItemsOf(w) == {k \in DOMAIN db.price : k.wo = w}
\* WorkOrder.total_cost
TotalCost(w) == SumFunctionOnSet(db.price, ItemsOf(w))

----------------------------------------------------------------------------
(* Quotes.                                                                 *)

\* create_quote; the rule about the inspections of a visit is in Visits.
PostQuote(s, role, q, p) ==
  /\ role \in {"manager", "advisor"}
  /\ Begin(s, [NoWrites EXCEPT !.quoteStatus = At(q, p.status),
                               !.quoteTotal = At(q, p.total)])

\* Nothing stores is_complimentary, so every item for $0 keeps its quote from issue.
Issuable(q) ==
  \A w \in DOMAIN db.woQuote : db.woQuote[w] = q => \A k \in ItemsOf(w) : db.price[k] > 0
\* Approval activates the work order drafted for the quote and authorizes the total.
Activates(q) == {w \in DOMAIN db.woQuote : db.woQuote[w] = q /\ db.woStatus[w] = "created"}

UpdateQuote(s, q, st) ==
  /\ st = "issued" => Issuable(q)
  /\ Begin(s, [NoWrites EXCEPT
       !.quoteStatus = Update(db.quoteStatus, q, st),
       !.woStatus = IF st = "approved" THEN [w \in Activates(q) |-> "active"] ELSE Empty,
       !.authorized = IF st = "approved"
                      THEN [w \in Activates(q) |-> db.quoteTotal[q]] ELSE Empty])

\* A request with a total or a date is rolled back: the audit log cannot serialize
\* the Decimal or the date that log_update puts in its JSON column.
\* Fault: advisors approve quotes on behalf of customers.
AdvisorsApprove(s, role, q, st) ==
  /\ role \in {"manager", "advisor", "customer"}
  /\ role = "customer" => st \in {"approved", "declined"}
  /\ UpdateQuote(s, q, st)
PutQuote(s, role, q, st) ==
  /\ role \in {"manager", "advisor", "customer"}
  /\ role = "customer" => st \in {"approved", "declined"}
  /\ role = "advisor" => st # "approved"
  /\ UpdateQuote(s, q, st)

----------------------------------------------------------------------------
(* Work orders.                                                            *)

\* Fault: nothing looks for a work order the quote already has.
CreateAnyWorkOrder(s, w, p) ==
  Begin(s, [NoWrites EXCEPT !.woQuote = At(w, p.quote),
                            !.woStatus = At(w, p.status),
                            !.authorized = At(w, p.authorized)])
CreateWorkOrder(s, w, p) ==
  /\ \/ db.quoteStatus[p.quote] = "approved"
     \/ db.quoteStatus[p.quote] = "draft" /\ p.status = "created"
  /\ \A v \in DOMAIN db.woQuote : db.woQuote[v] # p.quote
  /\ CreateAnyWorkOrder(s, w, p)

PostWorkOrder(s, role, w, p) == role \in {"manager", "advisor"} /\ CreateWorkOrder(s, w, p)

Completed(w) == \A k \in ItemsOf(w) : db.itemStatus[k] = "completed"
Checked(w) == \A k \in ItemsOf(w) : k \in DOMAIN db.passed
\* For an item with a part the search for its warranty loads pi.part lazily, which an
\* AsyncSession refuses (MissingGreenlet): the request fails.  No item can have
\* warranty_required, so a warranty is never generated.
NoParts(w) == \A n \in DOMAIN db.partItem : db.partItem[n] \notin ItemsOf(w)

\* Fault: the quality checks are not looked at.
CloseUnchecked(w) == Completed(w) /\ NoParts(w)
MayClose(w) == Completed(w) /\ Checked(w) /\ NoParts(w)

UpdateWorkOrder(s, w, st) ==
  /\ st = "closed" => MayClose(w)
  /\ Begin(s, [NoWrites EXCEPT !.woStatus = Update(db.woStatus, w, st)])

\* A request with an authorized amount, a bay or a date is rolled back, as in PutQuote.
PutWorkOrder(s, role, w, st) == role \in {"manager", "advisor"} /\ UpdateWorkOrder(s, w, st)

\* create_deposit names the work order: the listeners on Deposit reschedule it.
Reschedule(s, w) ==
  Begin(s, [NoWrites EXCEPT !.woStatus = Update(db.woStatus, w, "scheduled")])

----------------------------------------------------------------------------
(* Line items.                                                             *)

NewItem(k, p) ==
  [NoWrites EXCEPT !.mode = At(k, p.mode), !.price = At(k, p.price),
                   !.itemStatus = At(k, p.status)]

\* Fault: the price is compared without the items the work order has.
CreateItemAlone(s, k, p) ==
  /\ p.price <= db.authorized[k.wo]
  /\ Begin(s, NewItem(k, p))
CreateLineItem(s, k, p) ==
  /\ TotalCost(k.wo) + p.price <= db.authorized[k.wo]
  /\ Begin(s, NewItem(k, p))

\* An advisor may ask $0 for an item flagged complimentary: any item, the flag is
\* not stored.
PostLineItem(s, role, k, p) == role \in {"manager", "advisor"} /\ CreateLineItem(s, k, p)

\* A price comes with a status (None is no status); without a price the status of
\* the payload is ignored.
Startable(k) == \A c \in DOMAIN db.coItem : db.coItem[c] = k => db.coStatus[c] # "issued"
Repriceable(k, p) ==
  /\ db.itemStatus[k] = "completed" => p.price = db.price[k]
  /\ TotalCost(k.wo) - db.price[k] + p.price <= db.authorized[k.wo]
  /\ p.status # Null
  /\ p.status \in {"in_progress", "completed"} => db.woStatus[k.wo] = "active"
  /\ p.status = "in_progress" => Startable(k)
UpdateLineItem(s, k, p) ==
  /\ p.price # Null => Repriceable(k, p)
  /\ Begin(s, [NoWrites EXCEPT
       !.mode = Assign(db.mode, k, p.mode),
       !.price = Assign(db.price, k, p.price),
       !.itemStatus = IF p.price = Null THEN Empty ELSE Update(db.itemStatus, k, p.status)])

\* An hourly item is completed with labor entries, unless a manager overrides.
MayComplete(role, k) ==
  role = "manager" \/ db.mode[k] # "hourly" \/ k \in DOMAIN db.labor
PutLineItem(s, role, k, p) ==
  /\ role \in {"manager", "advisor", "technician"}
  /\ p.status = "completed" => MayComplete(role, k)
  /\ UpdateLineItem(s, k, p)

\* The technician has an unexpired certification; requests without are refused.
CreateLaborEntry(s, k) ==
  /\ db.woStatus[k.wo] = "active"
  /\ db.itemStatus[k] = "in_progress"
  /\ Begin(s, [NoWrites EXCEPT !.labor = Update(db.labor, k, TRUE)])

\* A failed check sends the item back to work, whatever its work order's status.
CreateQualityCheck(s, k, result) ==
  /\ db.itemStatus[k] = "completed"
  /\ Begin(s, IF result = "passed"
              THEN [NoWrites EXCEPT !.passed = Update(db.passed, k, TRUE)]
              ELSE [NoWrites EXCEPT !.itemStatus = At(k, "in_progress")])
PostQualityCheck(s, role, k, result) ==
  role \in {"manager", "advisor"} /\ CreateQualityCheck(s, k, result)

\* update_part_instance links a part to a line item.
LinkPart(s, n, k) == Begin(s, [NoWrites EXCEPT !.partItem = Update(db.partItem, n, k)])

----------------------------------------------------------------------------
(* Change orders.                                                          *)

\* The line item may be one of another work order.
CreateChangeOrder(s, c, p) ==
  /\ c.wo \in DOMAIN db.invoice => db.invoice[c.wo] \notin {"issued", "paid"}
  /\ Begin(s, [NoWrites EXCEPT !.coItem = At(c, p.item), !.coDelta = At(c, p.delta),
                               !.coStatus = At(c, p.status)])

\* Fault: approving an approved change order adds its amount again.
NewlyApprovedAgain(c, st) == st = "approved"
NewlyApproved(c, st) == st = "approved" /\ db.coStatus[c] # "approved"
AmountWith(c) == db.authorized[c.wo] + db.coDelta[c]
\* The amount may be negative, the authorized amount may not become so.
\* Fault: nothing validates the authorized amount.
AnyAmount(amount) == TRUE
ValidAmount(amount) == amount >= 0
UpdateChangeOrder(s, c, st) ==
  /\ NewlyApproved(c, st) => ValidAmount(AmountWith(c)) /\ AmountWith(c) <= load.limit
  /\ Begin(s, [NoWrites EXCEPT
       !.coStatus = Update(db.coStatus, c, st),
       !.authorized = IF NewlyApproved(c, st)
                      THEN Update(db.authorized, c.wo, AmountWith(c)) ELSE Empty])

PutChangeOrder(s, role, c, st) ==
  /\ role \in {"manager", "advisor", "customer"}
  /\ role = "advisor" => st # "approved"
  /\ UpdateChangeOrder(s, c, st)

----------------------------------------------------------------------------
(* The service menu.                                                       *)

CreateCannedService(s, role, m, p) ==
  role = "manager" /\ Begin(s, [NoWrites EXCEPT !.service = At(m, p)])
UpdateCannedService(s, role, m, p) ==
  role = "manager" /\ Begin(s, [NoWrites EXCEPT !.service = Update(db.service, m, p)])

\* The authorized amount is not looked at.
ApplyToWorkOrder(s, role, k, m) ==
  /\ role # "customer"
  /\ db.woStatus[k.wo] \notin {"closed", "archived"}
  /\ Begin(s, NewItem(k, [mode |-> db.service[m].mode, price |-> db.service[m].price,
                          status |-> "not_started"]))

----------------------------------------------------------------------------
(* Warranties, and invoices as Billing creates and changes them.           *)

\* The invoice of the work order, if there is one, is linked to its warranty.
CreateWarranty(s, role, w) ==
  /\ role \in {"manager", "advisor"}
  /\ Begin(s, [NoWrites EXCEPT
       !.warranty = At(w, TRUE),
       !.covered = [v \in {w} \cap DOMAIN db.invoice |-> TRUE]])
CreateWarrantyClaim(s, role, c) ==
  role \in {"manager", "advisor"} /\ Begin(s, [NoWrites EXCEPT !.claim = At(c, "filed")])
UpdateWarrantyClaim(s, role, c, st) ==
  role = "manager" /\ Begin(s, [NoWrites EXCEPT !.claim = Update(db.claim, c, st)])

CreateInvoice(s, w, st) ==
  /\ db.woStatus[w] = "closed" /\ w \notin Used("invoice")
  /\ Begin(s, [NoWrites EXCEPT !.invoice = At(w, st)])
UpdateInvoice(s, w, st) == Begin(s, [NoWrites EXCEPT !.invoice = Update(db.invoice, w, st)])

----------------------------------------------------------------------------

\* work_order_quote_id_key, warranty_work_order_id_key, invoice_work_order_id_key.
\* Fault: the table work_order has no such constraint.
NoConstraint(W) == TRUE
UniqueQuote(W) ==
  \A w \in DOMAIN W.woQuote, v \in DOMAIN db.woQuote : W.woQuote[w] = db.woQuote[v] => v = w
Permitted(W) == UniqueQuote(W) /\ DOMAIN W.warranty \cap DOMAIN db.warranty = {}

WorkOrdersInit ==
  /\ load \in WorkOrderLoads
  /\ db = NoWrites
  /\ txn = Empty

Numbers(c, w) == {k.n : k \in {j \in Used(c) : j.wo = w}}

QuoteRequest(s, role) ==
  \/ \E q \in 1 .. load.quotes, p \in QuoteCreate :
       Fresh(q, Used("quoteStatus")) /\ PostQuote(s, role, q, p)
  \/ \E q \in DOMAIN db.quoteStatus, st \in load.quoteStatuses : PutQuote(s, role, q, st)

WorkOrderRequest(s, role) ==
  \/ \E w \in 1 .. load.workOrders, p \in WorkOrderCreate :
       Fresh(w, Used("woQuote")) /\ PostWorkOrder(s, role, w, p)
  \/ \E w \in DOMAIN db.woStatus, st \in load.woStatuses : PutWorkOrder(s, role, w, st)
  \/ \E w \in DOMAIN db.woStatus : Reschedule(s, w)
  \/ \E w \in DOMAIN db.woStatus, st \in load.invoiceStatuses : CreateInvoice(s, w, st)
  \/ \E w \in DOMAIN db.invoice, st \in load.invoiceStatuses : UpdateInvoice(s, w, st)

ItemRequest(s, role) ==
  \/ \E w \in DOMAIN db.woStatus, n \in 1 .. load.items :
       /\ Fresh(n, Numbers("price", w))
       /\ \/ \E p \in LineItemCreate : PostLineItem(s, role, [wo |-> w, n |-> n], p)
          \/ \E m \in DOMAIN db.service : ApplyToWorkOrder(s, role, [wo |-> w, n |-> n], m)
  \/ \E k \in DOMAIN db.price, p \in LineItemUpdate : PutLineItem(s, role, k, p)
  \/ \E k \in DOMAIN db.price : role # "customer" /\ CreateLaborEntry(s, k)
  \/ \E k \in DOMAIN db.price, result \in {"passed", "failed"} :
       PostQualityCheck(s, role, k, result)
  \/ \E k \in DOMAIN db.price, n \in 1 .. load.parts : role # "customer" /\ LinkPart(s, n, k)

ChangeOrderRequest(s, role) ==
  \/ \E w \in DOMAIN db.woStatus, n \in 1 .. load.changeOrders, p \in ChangeOrderCreate :
       /\ Fresh(n, Numbers("coStatus", w))
       /\ role # "customer" /\ CreateChangeOrder(s, [wo |-> w, n |-> n], p)
  \/ \E c \in DOMAIN db.coStatus, st \in ApprovalStatus : PutChangeOrder(s, role, c, st)

MenuRequest(s, role) ==
  \/ \E m \in 1 .. load.services, p \in CannedServiceCreate :
       Fresh(m, Used("service")) /\ CreateCannedService(s, role, m, p)
  \/ \E m \in DOMAIN db.service, p \in CannedServiceCreate : UpdateCannedService(s, role, m, p)

WarrantyRequest(s, role) ==
  \/ \E w \in DOMAIN db.woStatus : CreateWarranty(s, role, w)
  \/ \E w \in DOMAIN db.warranty, n \in 1 .. load.claims :
       /\ Fresh(n, Numbers("claim", w))
       /\ CreateWarrantyClaim(s, role, [wo |-> w, n |-> n])
  \/ \E c \in DOMAIN db.claim, st \in ClaimStatus : UpdateWarrantyClaim(s, role, c, st)

WorkOrdersNext ==
  \E s \in load.sessions :
    \/ \E role \in load.roles :
         \/ QuoteRequest(s, role) \/ WorkOrderRequest(s, role) \/ ItemRequest(s, role)
         \/ ChangeOrderRequest(s, role) \/ MenuRequest(s, role) \/ WarrantyRequest(s, role)
    \/ s \in DOMAIN txn /\ Commit(s, Permitted(txn[s]))
    \/ Rollback(s)

WorkOrdersSpec == WorkOrdersInit /\ [][WorkOrdersNext]_vars
----------------------------------------------------------------------------
(* Properties that hold however requests interleave.                       *)

\* Rows are complete: a row that writes touch exists or is inserted whole.
CompleteRows(W, d) ==
  /\ \A q \in DOMAIN W.quoteStatus \cup DOMAIN W.quoteTotal :
       q \in DOMAIN d.quoteTotal \/ q \in DOMAIN W.quoteStatus \cap DOMAIN W.quoteTotal
  /\ \A w \in DOMAIN W.woQuote \cup DOMAIN W.woStatus \cup DOMAIN W.authorized :
       \/ w \in DOMAIN d.woQuote
       \/ w \in DOMAIN W.woQuote \cap DOMAIN W.woStatus \cap DOMAIN W.authorized
  /\ \A k \in DOMAIN W.mode \cup DOMAIN W.price \cup DOMAIN W.itemStatus :
       \/ k \in DOMAIN d.price
       \/ k \in DOMAIN W.mode \cap DOMAIN W.price \cap DOMAIN W.itemStatus
  /\ \A c \in DOMAIN W.coItem \cup DOMAIN W.coDelta \cup DOMAIN W.coStatus :
       \/ c \in DOMAIN d.coItem
       \/ c \in DOMAIN W.coItem \cap DOMAIN W.coDelta \cap DOMAIN W.coStatus
SameRows(d) ==
  /\ DOMAIN d.quoteTotal = DOMAIN d.quoteStatus
  /\ DOMAIN d.woStatus = DOMAIN d.woQuote /\ DOMAIN d.authorized = DOMAIN d.woQuote
  /\ DOMAIN d.mode = DOMAIN d.price /\ DOMAIN d.itemStatus = DOMAIN d.price
  /\ DOMAIN d.coDelta = DOMAIN d.coItem /\ DOMAIN d.coStatus = DOMAIN d.coItem
\* The rows that writes refer to exist: the foreign keys.
RowsExist(W, d) ==
  /\ Range(W.woQuote) \subseteq DOMAIN d.quoteStatus
  /\ \A k \in DOMAIN W.price \cup DOMAIN W.coItem \cup DOMAIN W.claim : k.wo \in DOMAIN d.woQuote
  /\ DOMAIN W.labor \cup DOMAIN W.passed \cup Range(W.coItem) \cup Range(W.partItem)
       \subseteq DOMAIN d.price
  /\ DOMAIN W.warranty \cup DOMAIN W.invoice \subseteq DOMAIN d.woQuote
  /\ DOMAIN W.covered \subseteq DOMAIN d.invoice

\* Type invariant: the committed rows are complete, well-typed and refer to rows that
\* exist (an authorized amount is never negative), and so do the writes in flight,
\* whatever commits before them.
WorkOrdersTypeOK ==
  /\ load \in WorkOrderLoads
  /\ IsShop(db) /\ SameRows(db) /\ RowsExist(db, db)
  /\ DOMAIN txn \subseteq load.sessions
  /\ \A s \in DOMAIN txn :
       IsShop(txn[s]) /\ CompleteRows(txn[s], db) /\ RowsExist(txn[s], db)

\* A quote has one work order, though two requests may both find none ("A work
\* order already exists for this quote.").
OneWorkOrderPerQuote ==
  \A v, w \in DOMAIN db.woQuote : db.woQuote[v] = db.woQuote[w] => v = w

\* Without a manager or a customer nobody changes what a work order may cost: not
\* advisors and technicians through quotes, change orders, items or the menu.
\* ("Advisors are not authorized to approve change orders. Manager approval is
\* required.", "Advisors cannot manually override the authorized amount.")
ApproversAuthorize ==
  [][load.roles \cap {"manager", "customer"} = {} =>
       \A w \in DOMAIN db.authorized : db'.authorized[w] = db.authorized[w]]_vars

----------------------------------------------------------------------------
(* Properties of requests that run one after another.                      *)

\* A work order is closed when all its items are completed and each has passed a
\* quality check ("Cannot close work order: line item ... lacks a passed quality
\* check."), through whichever handler its status came to 'closed'.
ClosedWasChecked ==
  [][Serial => \A w \in DOMAIN db'.woStatus :
       db'.woStatus[w] = "closed" /\ ~(w \in DOMAIN db.woStatus /\ db.woStatus[w] = "closed")
         => (Completed(w) /\ Checked(w))']_vars

\* The authorized amount of a work order changes in two ways only: the approval of
\* its quote sets it to the quote's total when the work starts, and the approval of
\* a change order that was not approved adds its amount.
AuthorizationExplained ==
  [][Serial => \A w \in DOMAIN db.authorized : db'.authorized[w] # db.authorized[w] =>
       \/ /\ db.woStatus[w] = "created" /\ db'.woStatus[w] = "active"
          /\ db'.quoteStatus[db.woQuote[w]] = "approved"
          /\ db'.authorized[w] = db.quoteTotal[db.woQuote[w]]
       \/ \E c \in DOMAIN db.coStatus :
            /\ c.wo = w /\ db.coStatus[c] # "approved" /\ db'.coStatus[c] = "approved"
            /\ db'.authorized[w] = db.authorized[w] + db.coDelta[c]]_vars

\* What raises the cost of a work order keeps it within the authorized amount
\* ("exceeds the authorized amount"), except an item from the service menu, which is
\* not compared: for loads without a menu.
WithinAuthorized ==
  [][Serial /\ load.services = 0 => \A w \in DOMAIN db.woStatus :
       TotalCost(w)' > TotalCost(w) => TotalCost(w)' <= db'.authorized[w]]_vars
=============================================================================
