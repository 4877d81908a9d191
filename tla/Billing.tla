------------------------------ MODULE Billing ------------------------------
(***************************************************************************)
(* Billing: invoices, payments, deposits, disputes and refunds, as the     *)
(* handlers of app/routers/billing.py and BillingService run them.         *)
(*                                                                         *)
(* Every request runs in one database transaction (get_db): it reads rows, *)
(* decides, flushes INSERTs and UPDATEs and commits at the end, or rolls   *)
(* back on any exception.  No row is locked and the isolation level is     *)
(* READ COMMITTED, so between the reads of a request and its commit other  *)
(* requests may commit.  A handler is therefore one action that reads the  *)
(* committed rows and computes the transaction's writes, absolute values   *)
(* as the ORM emits them, and Commit applies these writes to whatever the  *)
(* rows hold by then.  With one session requests run one after another;    *)
(* with several they interleave.                                           *)
(*                                                                         *)
(* A database, and a set of writes, is a record of columns; a column is a  *)
(* partial function from row keys to values, and NULL is a key that is     *)
(* absent.  An invoice is named by its work order: Commit enforces the     *)
(* unique constraint on invoice.work_order_id that makes this a name.      *)
(* Amounts are small naturals.  due stands for amount_due + tax_amount     *)
(* (every assignment of amount_due recomputes tax_amount beside it).       *)
(***************************************************************************)
EXTENDS Integers, FiniteSets, Functions, Columns

CONSTANTS
  Sessions,        \* database sessions: requests that may be in flight
  WorkOrders,
  Quotes,
  QuoteOf,         \* the quote a work order was made from (work_order.quote_id)
  NoWorkOrder,     \* a deposit request that names no work order
  Amounts,         \* amounts of payments, deposits and refunds in requests
  Dues,            \* invoice totals in requests
  Credits,         \* credit amounts in requests
  StaffStatuses,   \* invoice statuses that staff put in requests
  StripeIds,       \* ids of Stripe that requests post with a payment
  MaxPayments,     \* bound: payments posted
  MaxDeposits,     \* bound: deposits
  MaxDisputes,     \* bound: disputes
  MaxCredit        \* bound: credit an invoice accumulates through disputes

InvoiceStatus == {"issued", "disputed", "paid", "voided", "credited"}
DepositStatus == {"collected", "applied", "refunded"}
DisputeStatus == {"open", "under_review", "resolved"}
WorkOrderStatus == {"active", "scheduled", "closed"}

ASSUME BillingAssumption ==
  /\ NoWorkOrder \notin WorkOrders
  /\ QuoteOf \in [WorkOrders -> Quotes]
  /\ Amounts \subseteq Nat \ {0}
  /\ Dues \subseteq Nat
  /\ Credits \subseteq Nat
  /\ StaffStatuses \subseteq InvoiceStatus
  /\ StripeIds \subseteq [session : Nat, charge : Nat]
  /\ MaxPayments \in Nat /\ MaxDeposits \in Nat /\ MaxDisputes \in Nat
  /\ MaxCredit \in Nat

VARIABLES
  db,      \* the committed rows
  open,    \* the sessions that have a request in flight
  txn      \* the writes of the request each session has in flight

vars == <<db, open, txn>>

----------------------------------------------------------------------------
(* Rows.                                                                   *)

\* A payment is named by where it comes from and a number, a transfer by its deposit.
\* Posted payments and those of Stripe's webhook also have ids that no request changes:
\* session is stripe_checkout_session_id, charge is stripe_payment_intent_id or
\* stripe_charge_id, whichever create_refund uses; 0 is NULL.  payment.method is read by
\* reports only.
PaymentKey ==
  [inv : WorkOrders, origin : {"deposit_transfer"}, n : Nat]
    \cup [inv : WorkOrders, origin : {"posted", "webhook"}, n : Nat, session : Nat, charge : Nat]
DisputeKey == [inv : WorkOrders, n : Nat]
DepositRow == [quote : Quotes, wo : WorkOrders \cup {NoWorkOrder}, amount : Nat]

IsDatabase(d) ==
  /\ IsColumn(d.woStatus, WorkOrders, WorkOrderStatus)
  /\ IsColumn(d.status, WorkOrders, InvoiceStatus)       \* invoice.status
  /\ IsColumn(d.due, WorkOrders, Nat)                    \* amount_due + tax_amount
  /\ IsColumn(d.credit, WorkOrders, Nat)                 \* invoice.credit_amount
  /\ IsColumn(d.paid, PaymentKey, Nat)                   \* payment.amount
  /\ IsColumn(d.refunded, PaymentKey, Nat)               \* payment.refund_amount
  /\ IsColumn(d.deposit, Nat, DepositRow)
  /\ IsColumn(d.depStatus, Nat, DepositStatus)
  /\ IsColumn(d.depInvoice, Nat, WorkOrders)             \* deposit.invoice_id
  /\ IsColumn(d.depRefund, Nat, Nat)                     \* deposit.refund_amount
  /\ IsColumn(d.dispute, DisputeKey, DisputeStatus)

\* created: the invoices the transaction inserts.
NoWrites ==
  [created |-> {}, woStatus |-> Empty, status |-> Empty, due |-> Empty,
   credit |-> Empty, paid |-> Empty, refunded |-> Empty, deposit |-> Empty,
   depStatus |-> Empty, depInvoice |-> Empty, depRefund |-> Empty, dispute |-> Empty]

----------------------------------------------------------------------------
(* What a handler computes from the rows it reads.                         *)

Invoices == DOMAIN db.status
PaymentsOf(w) == {k \in DOMAIN db.paid : k.inv = w}
RefundsOf(w) == {k \in DOMAIN db.refunded : k.inv = w}

\* sum(p.amount for p in invoice.payments): refunds are not subtracted.
Gross(w) == SumFunctionOnSet(db.paid, PaymentsOf(w))
\* The sum of p.amount - p.refund_amount that refund_payment takes.
Net(w) == Gross(w) - SumFunctionOnSet(db.refunded, RefundsOf(w))
Credit(w) == IF w \in DOMAIN db.credit THEN db.credit[w] ELSE 0
Owed(w) == db.due[w] - Credit(w)
\* Invoice.total_balance, and the balance_due of create_payment.
\* Fault: the payments already made are forgotten.
BalanceBeforePayments(w) == Owed(w)
Balance(w) == Owed(w) - Gross(w)

\* The charge at Stripe that a refund of the payment goes to, 0 for none.
ChargeOf(k) == IF k.origin = "deposit_transfer" THEN 0 ELSE k.charge

Transfer(w, d) == [inv |-> w, origin |-> "deposit_transfer", n |-> d]
Posted(w, n, ids) ==
  [inv |-> w, origin |-> "posted", n |-> n, session |-> ids.session, charge |-> ids.charge]

\* The deposits create_invoice applies: collected for the work order or its quote.
MatchingDeposits(w) ==
  {d \in DOMAIN db.deposit : db.deposit[d].wo = w \/ db.deposit[d].quote = QuoteOf[w]}
\* Fault: a deposit is applied whatever its status.
ApplicableInAnyStatus(w) == MatchingDeposits(w)
ApplicableDeposits(w) == {d \in MatchingDeposits(w) : db.depStatus[d] = "collected"}
\* Fault: deposits are marked applied and no payment is made for them.
NoTransfers(w) == Empty
TransfersTo(w) ==
  [k \in {Transfer(w, d) : d \in ApplicableDeposits(w)} |-> db.deposit[k.n].amount]

\* A paid invoice keeps its amount and its status in update_invoice.
\* Fault: the amount of a paid invoice may be changed.
MayUpdateAmount(w, st, due) == db.status[w] = "paid" => st = "paid"
MayUpdateInvoice(w, st, due) ==
  db.status[w] = "paid" => st = "paid" /\ due = db.due[w]

\* Where update_dispute sends the invoice of a dispute it resolves with credit c.
\* Fault: an invoice settled to the cent stays issued.
IssuedWhenSettled(w, c) == IF Balance(w) - c < 0 THEN "paid" ELSE "issued"
\* Fault: resolving a dispute settles its invoice.
PaidWhenResolved(w, c) == "paid"
StatusAfterDispute(w, c) == IF Balance(w) - c <= 0 THEN "paid" ELSE "issued"

\* Fault: an applied deposit may be refunded.
RefundableWhenApplied(d, a) == db.depStatus[d] # "refunded" /\ a <= db.deposit[d].amount
\* Fault: the refund is not compared with the deposit.
RefundableBeyondDeposit(d, a) == db.depStatus[d] \notin {"refunded", "applied"}
DepositRefundable(d, a) ==
  db.depStatus[d] \notin {"refunded", "applied"} /\ a <= db.deposit[d].amount
\* Fault: a payment may be refunded again.
RefundableAgain(k, a) == a <= db.paid[k]
PaymentRefundable(k, a) ==
  k \notin DOMAIN db.refunded /\ a <= db.paid[k]

\* Primary keys that no committed or pending row has, taken in order.
FreshPayment(n) ==
  LET used == {k.n : k \in {j \in DOMAIN db.paid \cup UNION {DOMAIN txn[s].paid : s \in open} :
                              j.origin = "posted"}}
  IN  n \notin used /\ 1 .. n - 1 \subseteq used
FreshDeposit(d) ==
  LET used == DOMAIN db.deposit \cup UNION {DOMAIN txn[s].deposit : s \in open}
  IN  d \notin used /\ 1 .. d - 1 \subseteq used
FreshDispute(n) ==
  LET used == {k.n : k \in DOMAIN db.dispute \cup UNION {DOMAIN txn[s].dispute : s \in open}}
  IN  n \notin used /\ 1 .. n - 1 \subseteq used

----------------------------------------------------------------------------
(* Transactions.                                                           *)

Init ==
  /\ db = [woStatus |-> [w \in WorkOrders |-> "active"], status |-> Empty,
           due |-> Empty, credit |-> Empty, paid |-> Empty, refunded |-> Empty,
           deposit |-> Empty, depStatus |-> Empty, depInvoice |-> Empty,
           depRefund |-> Empty, dispute |-> Empty]
  /\ open = {}
  /\ txn = [s \in Sessions |-> NoWrites]

Begin(s, writes) ==
  /\ s \notin open
  /\ open' = open \cup {s}
  /\ txn' = [txn EXCEPT ![s] = writes]
  /\ UNCHANGED db

\* Fault: the session is closed and its writes are kept.
EndKeepsWrites(s) == s \in open /\ open' = open \ {s} /\ UNCHANGED txn
End(s) ==
  /\ s \in open
  /\ open' = open \ {s}
  /\ txn' = [txn EXCEPT ![s] = NoWrites]

\* The unique constraint invoice_work_order_id_key.
\* Fault: the table has no such constraint.
NoConstraint(W) == TRUE
UniqueInvoice(W) == W.created \cap Invoices = {}

\* The commit at the end of get_db.  A request that violates the constraint can
\* only roll back.
Commit(s) ==
  LET W == txn[s] IN
  /\ End(s)
  /\ UniqueInvoice(W)
  /\ db' = [woStatus |-> Overlay(W.woStatus, db.woStatus),
            status |-> Overlay(W.status, db.status),
            due |-> Overlay(W.due, db.due),
            credit |-> Overlay(W.credit, db.credit),
            paid |-> Overlay(W.paid, db.paid),
            refunded |-> Overlay(W.refunded, db.refunded),
            deposit |-> Overlay(W.deposit, db.deposit),
            depStatus |-> Overlay(W.depStatus, db.depStatus),
            depInvoice |-> Overlay(W.depInvoice, db.depInvoice),
            depRefund |-> Overlay(W.depRefund, db.depRefund),
            dispute |-> Overlay(W.dispute, db.dispute)]

\* An exception after the reads: a constraint, a lost connection, a crash.
Rollback(s) == End(s) /\ UNCHANGED db

----------------------------------------------------------------------------
(* The handlers.                                                           *)

\* Staff set the status of a work order, closing or reopening it; whether its line
\* items allow it to be closed is left open.
UpdateWorkOrder(s, w, st) ==
  Begin(s, [NoWrites EXCEPT !.woStatus = Update(db.woStatus, w, st)])

\* The applicable deposits become payments; no check that they fit the amount.
CreateInvoice(s, w, due, st) ==
  LET settled == due - SumFunction(TransfersTo(w)) <= 0 IN
  /\ db.woStatus[w] = "closed"
  /\ w \notin Invoices
  /\ Begin(s, [NoWrites EXCEPT
                 !.created = {w},
                 !.status = At(w, IF settled THEN "paid" ELSE st),
                 !.due = At(w, due),
                 !.paid = TransfersTo(w),
                 !.depStatus = [d \in ApplicableDeposits(w) |-> "applied"],
                 !.depInvoice = [d \in ApplicableDeposits(w) |-> w]])

\* An absent field of the payload is the same as the value the row has.
UpdateInvoice(s, w, st, due, credit) ==
  LET remaining == due - credit - Gross(w)
      status == IF st # "paid" /\ remaining = 0 THEN "paid" ELSE st
  IN
  /\ w \in Invoices
  /\ MayUpdateInvoice(w, st, due)
  /\ st # "paid" => remaining >= 0
  /\ Begin(s, [NoWrites EXCEPT
                 !.status = Update(db.status, w, status),
                 !.due = Update(db.due, w, due),
                 !.credit = IF credit = Credit(w) THEN Empty ELSE At(w, credit)])

\* Naming a work order fires the listener that sets it to 'scheduled', whatever
\* its status; the work order need not be the one made from the quote.
CreateDeposit(s, d, q, w, a, st) ==
  /\ FreshDeposit(d)
  /\ Begin(s, [NoWrites EXCEPT
                 !.deposit = At(d, [quote |-> q, wo |-> w, amount |-> a]),
                 !.depStatus = At(d, st),
                 !.woStatus = IF w = NoWorkOrder THEN Empty
                              ELSE Update(db.woStatus, w, "scheduled")])

\* The invoice's status is not read: any invoice with a balance takes payments.  The ids
\* of Stripe are stored as they come: nothing asks Stripe about them.
CreatePayment(s, w, n, a, ids) ==
  LET k == Posted(w, n, ids) IN
  /\ w \in Invoices
  /\ a <= Balance(w)
  /\ FreshPayment(n)
  /\ Begin(s, [NoWrites EXCEPT
                 !.paid = At(k, a),
                 !.status = IF Balance(w) - a <= 0
                            THEN Update(db.status, w, "paid") ELSE Empty])

CreateDispute(s, w, n) ==
  LET k == [inv |-> w, n |-> n] IN
  /\ w \in Invoices
  /\ FreshDispute(n)
  /\ Begin(s, [NoWrites EXCEPT
                 !.dispute = At(k, "open"),
                 !.status = Update(db.status, w, "disputed")])

\* Resolving adds the credit and sends the invoice back to 'paid' or 'issued'.
UpdateDispute(s, k, st, c) ==
  LET resolves == st = "resolved" /\ db.dispute[k] # "resolved" IN
  /\ k \in DOMAIN db.dispute
  /\ ~resolves => c = 0        \* the credit of the payload is ignored
  /\ Credit(k.inv) + c <= MaxCredit
  /\ Begin(s, [NoWrites EXCEPT
                 !.dispute = Update(db.dispute, k, st),
                 !.credit = IF c = 0 THEN Empty ELSE At(k.inv, Credit(k.inv) + c),
                 !.status = IF resolves
                            THEN Update(db.status, k.inv, StatusAfterDispute(k.inv, c))
                            ELSE Empty])

RefundDeposit(s, d, a) ==
  /\ d \in DOMAIN db.deposit
  /\ DepositRefundable(d, a)
  /\ Begin(s, [NoWrites EXCEPT
                 !.depStatus = At(d, "refunded"),
                 !.depRefund = At(d, a)])

\* The invoice goes back to 'issued' when the net payments no longer cover it.
RefundWrites(k, a) ==
  [NoWrites EXCEPT
     !.refunded = At(k, a),
     !.status = IF Owed(k.inv) > Net(k.inv) - a
                THEN Update(db.status, k.inv, "issued") ELSE Empty]

\* The refund of a payment with a charge is RefundStripePayment, in module Stripe.
RefundPayment(s, k, a) ==
  /\ k \in DOMAIN db.paid
  /\ ChargeOf(k) = 0
  /\ PaymentRefundable(k, a)
  /\ Begin(s, RefundWrites(k, a))

----------------------------------------------------------------------------

Request(s) ==
  \/ \E w \in WorkOrders, st \in {"active", "closed"} : UpdateWorkOrder(s, w, st)
  \/ \E w \in WorkOrders, due \in Dues, st \in StaffStatuses : CreateInvoice(s, w, due, st)
  \/ \E w \in Invoices :
       \E st \in StaffStatuses \cup {db.status[w]}, due \in Dues \cup {db.due[w]},
          credit \in Credits \cup {Credit(w)} : UpdateInvoice(s, w, st, due, credit)
  \/ \E d \in 1 .. MaxDeposits, q \in Quotes, w \in WorkOrders \cup {NoWorkOrder},
        a \in Amounts, st \in DepositStatus : CreateDeposit(s, d, q, w, a, st)
  \/ \E w \in WorkOrders, n \in 1 .. MaxPayments, a \in Amounts, ids \in StripeIds :
       CreatePayment(s, w, n, a, ids)
  \/ \E w \in WorkOrders, n \in 1 .. MaxDisputes : CreateDispute(s, w, n)
  \/ \E k \in DOMAIN db.dispute, st \in DisputeStatus, c \in Credits \cup {0} :
       UpdateDispute(s, k, st, c)
  \/ \E d \in DOMAIN db.deposit, a \in Amounts : RefundDeposit(s, d, a)
  \/ \E k \in DOMAIN db.paid, a \in Amounts : RefundPayment(s, k, a)

Next == \E s \in Sessions : Request(s) \/ Commit(s) \/ Rollback(s)

Spec == Init /\ [][Next]_vars

----------------------------------------------------------------------------
(* Properties that hold however requests interleave.                       *)

\* Type invariant: the committed rows are complete and refer to invoices that exist,
\* they and the pending writes are well-typed, only an open session has writes.
TypeOK ==
  /\ IsDatabase(db)
  /\ DOMAIN db.due = Invoices /\ DOMAIN db.depStatus = DOMAIN db.deposit
  /\ \A k \in DOMAIN db.paid \cup DOMAIN db.dispute : k.inv \in Invoices
  /\ open \subseteq Sessions
  /\ DOMAIN txn = Sessions
  /\ \A s \in Sessions :
       /\ IsDatabase(txn[s])
       /\ txn[s].created \subseteq WorkOrders
       /\ s \notin open => txn[s] = NoWrites

\* A deposit that create_invoice linked to an invoice was credited there: the
\* deposit_transfer payment made for it is on that invoice, and every such
\* payment carries the full amount of an existing deposit.  The link and the
\* payment are written together, and later requests may overwrite the link.
TransfersMatchDeposits ==
  /\ \A d \in DOMAIN db.depInvoice : Transfer(db.depInvoice[d], d) \in DOMAIN db.paid
  /\ \A k \in DOMAIN db.paid : k.origin = "deposit_transfer" =>
       k.n \in DOMAIN db.deposit /\ db.paid[k] = db.deposit[k.n].amount

\* The writes of a request in flight stay grounded in the committed rows until it
\* commits, whatever commits before it: it updates rows that exist or that it
\* inserts, inserts no row that exists or that another request inserts, a transfer
\* belongs to the invoice it creates and carries the deposit's amount, a refund is
\* covered by the row it is for.
Grounded(W) ==
  /\ W.created \subseteq DOMAIN W.status \cap DOMAIN W.due
  /\ DOMAIN W.status \cup DOMAIN W.due \subseteq Invoices \cup W.created
  /\ \A k \in DOMAIN W.paid \cup DOMAIN W.dispute : k.inv \in Invoices \cup W.created
  /\ DOMAIN W.deposit \subseteq DOMAIN W.depStatus
  /\ DOMAIN W.depStatus \subseteq DOMAIN db.deposit \cup DOMAIN W.deposit
  /\ DOMAIN W.deposit \cap DOMAIN db.deposit = {}
  /\ \A k \in DOMAIN W.paid :
       IF k.origin = "deposit_transfer"
       THEN /\ k.inv \in W.created
            /\ k.n \in DOMAIN db.deposit /\ W.paid[k] = db.deposit[k.n].amount
       ELSE k \notin DOMAIN db.paid
  /\ \A d \in DOMAIN W.depInvoice : Transfer(W.depInvoice[d], d) \in DOMAIN W.paid
  /\ \A k \in DOMAIN W.refunded : k \in DOMAIN db.paid /\ W.refunded[k] <= db.paid[k]
  /\ \A d \in DOMAIN W.depRefund :
       d \in DOMAIN db.deposit /\ W.depRefund[d] <= db.deposit[d].amount
Disjoint(V, W) ==
  /\ DOMAIN V.deposit \cap DOMAIN W.deposit = {}
  /\ \A k \in DOMAIN V.paid \cap DOMAIN W.paid : k.origin = "deposit_transfer"
PendingGrounded ==
  /\ \A s \in Sessions : Grounded(txn[s])
  /\ \A r, s \in Sessions : r # s => Disjoint(txn[r], txn[s])

\* No refund exceeds what was collected, whichever requests race: refund_payment
\* and refund_deposit compare with an amount that no request may change.
RefundsCovered ==
  /\ \A k \in DOMAIN db.refunded : k \in DOMAIN db.paid /\ db.refunded[k] <= db.paid[k]
  /\ \A d \in DOMAIN db.depRefund :
       d \in DOMAIN db.deposit /\ db.depRefund[d] <= db.deposit[d].amount

\* Deposits are transferred to an invoice only by the commit that creates it: of
\* two create_invoice requests for a work order that both saw none, at most one
\* commits, so the other's transfers and its amount never reach the invoice.
InvoiceCreatedOnce ==
  [][\A k \in DOMAIN db'.paid \ DOMAIN db.paid :
       k.origin = "deposit_transfer" => k.inv \notin Invoices]_vars

----------------------------------------------------------------------------
(* Properties of requests that run one after another (one session).        *)

\* Every deposit is credited at most once, to the invoice it is linked to.  A
\* deposit may match two work orders, by its quote and by its work_order_id.
DepositsCreditedOnce ==
  \A k \in DOMAIN db.paid : k.origin = "deposit_transfer" =>
    k.n \in DOMAIN db.depInvoice /\ db.depInvoice[k.n] = k.inv

\* The shop never both credits a deposit to an invoice and pays it back.
\* (refund_deposit: "Cannot refund a deposit that has already been applied to an
\* invoice."; create_invoice takes 'collected' deposits only.)
AppliedXorRefunded ==
  \A d \in DOMAIN db.depInvoice : db.depStatus[d] = "applied" /\ d \notin DOMAIN db.depRefund

\* An 'issued' invoice is one that is still owed: payments, net of refunds, do
\* not cover it.  Every handler that leaves an invoice 'issued' recomputes this.
IssuedStillOwes ==
  \A w \in Invoices : db.status[w] = "issued" => Owed(w) > Net(w)

\* An 'issued' invoice can be paid: create_payment accepts some payment on it.
IssuedIsPayable ==
  \A w \in Invoices : db.status[w] = "issued" => Balance(w) > 0

\* A payment that is posted never brings the payments of its invoice above what is
\* owed ("Payment amount exceeds the remaining balance due").
NoOverpayment ==
  [][\A k \in DOMAIN db'.paid \ DOMAIN db.paid : k.origin = "posted" =>
       Gross(k.inv)' <= Owed(k.inv)']_vars

\* An invoice becomes 'paid', through payments, deposits, credits or a resolved
\* dispute, only when payments and credits cover it.  For staff who do not set
\* 'paid' by hand (StaffStatuses without "paid").
PaidOnlyWhenSettled ==
  [][\A w \in DOMAIN db'.status :
       db'.status[w] = "paid" /\ ~(w \in Invoices /\ db.status[w] = "paid") =>
         Balance(w)' <= 0]_vars

\* A paid invoice keeps its amount and leaves 'paid' only by a dispute opened or
\* resolved, or a refund that uncovers it ("Cannot modify amount due or status
\* of an invoice that is already paid").
PaidIsFinal ==
  [][\A w \in Invoices : db.status[w] = "paid" =>
       /\ db'.due[w] = db.due[w]
       /\ \/ db'.status[w] = "paid"
          \/ \E k \in DOMAIN db'.dispute : k.inv = w /\ db'.dispute[k] # "under_review"
               /\ (k \notin DOMAIN db.dispute \/ db'.dispute[k] # db.dispute[k])
          \/ RefundsOf(w)' # RefundsOf(w) /\ Owed(w)' > Net(w)']_vars

\* A refund is recorded once per payment and per deposit and never rewritten
\* ("Payment has already been refunded.", "Deposit has already been refunded.").
RefundRecordedOnce ==
  [][/\ \A k \in DOMAIN db.refunded : db'.refunded[k] = db.refunded[k]
     /\ \A d \in DOMAIN db.depRefund : db'.depRefund[d] = db.depRefund[d]]_vars
=============================================================================
