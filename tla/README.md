# Verification of the vehicle service shop API

TLA+ modules, TLC configurations and TLAPS proofs about the program under `src/`
(FastAPI, SQLAlchemy async, PostgreSQL). This file is for a reader who has the
repository: it lists the parts of the system, says which module models which
part, what each run and each theorem shows, and what is still to be done.

## How the program executes

Every HTTP request gets one database session and one transaction
(`app/database.py`, `get_db`): the handler reads rows, decides, flushes INSERTs
and UPDATEs, and the transaction commits when the handler returns, or rolls back
on any exception. PostgreSQL runs at its default READ COMMITTED level and no
query takes a row lock (`with_for_update` occurs nowhere), so everything a
handler decided may be stale when it commits. The ORM writes absolute values and
only the columns that changed. asyncio switches between requests at every
`await`, and several workers may run. This is where most of the hard behaviour
is; the unit tests run one request at a time.

## Inventory

| component | state | operations | interacts with | hard behaviour | what must hold |
|---|---|---|---|---|---|
| transactions (`database.py`) | sessions, pending writes | begin, commit, rollback | everything | interleaving, rollback after partial work, unique constraints | pending writes fit the rows they meet |
| billing (`billing_service.py`) | invoice, payment, deposit, dispute | create and update invoice, create deposit, payment and dispute, resolve dispute, refund deposit and payment | work order status, Stripe | status derived from sums in five places; races of refund, payment and invoice creation | deposits settled once, refunds covered, status agrees with the sums |
| Stripe (`stripe_service.py`) | checkout sessions and refunds at Stripe, payment ids | create session, webhook, refund | billing | duplicate and concurrent deliveries, effect before commit | the webhook records no session that has a payment, one refund per payment |
| Safepay webhook (`routers/billing.py`) | none (see below) | webhook | billing | answers success without recording anything | - |
| quotes and work orders (`job_service.py`) | quote, work order, line item, labor entry, quality check, change order, canned service, warranty, claim | create, update, approve, check, close | billing, visits, diagnostics | status rules in several handlers, authorized amount | a closed work order had all items completed and checked; authorized amount respected |
| visits (`visit_service.py`) | appointment, bay, visit | book, confirm, check in, move, check out | quotes, invoices, diagnostics | two transition tables, check-then-insert | one active visit per vehicle; no check-out with an unpaid invoice |
| diagnostics (`routers/diagnostics.py`) | report, finding | create, add findings, complete | visits, quotes, work orders | one handler writes five tables | the inspections of a visit draft one quote |
| inventory (`inventory_service.py`) | part, part instance, purchase order | order, receive, install, reject, return | line items | counter kept beside the instances | the stock covers the received instances |
| users (`auth_service.py`) | user, reset token | register, update, reset, change | - | check-then-insert, single-use tokens | names and emails are unique; a token is used once |
| files (`file_service.py`) | files on disk, attachment rows | upload, delete | - | two stores, one transaction | uploads leave no row without its file; a limit per entity |
| customers, vehicles, vendors, technicians | single rows | create, update, delete | referenced by the others | - | foreign keys |
| catalog import, accounting | purchase order; an in-memory record | import, sync | - | `import_part` always raises; accounting is a mock | - |
| reports, search, history, PDF, email, communications, audit log | none, or appended rows | read, send, append | all | - | - |

`PROJECT.json` lists every component with its status and its source files, and the
hazards of the code line by line.

## Modules

| module | content |
|---|---|
| `Billing.tla` | the transactions and the billing handlers |
| `Stripe.tla` | extends `Billing` with checkout sessions, the webhook and refunds by Stripe |
| `Ledger.tla` | what billing promises about money, without statuses and transactions |
| `BillingLedger.tla` | `Billing` seen as a `Ledger`: the refinement mapping |
| `StripeLedger.tla` | `Stripe` seen as a `Ledger`, with payments and refunds at Stripe among its entries |
| `Columns.tla` | a table as columns, and the writes of a transaction to it, for all components |
| `Transactions.tla` | requests, commits and rollbacks, for the modules below |
| `WorkOrders.tla` | quotes, work orders, line items, labor, quality checks, change orders, service menu, warranties |
| `Visits.tla` | appointments, visits, bays, inspections and what they draft |
| `Inventory.tla` | parts, purchase orders, part instances, the stock counter |
| `Accounts.tla` | users and password resets |
| `Files.tla` | attachments: rows and the disk |
| `ColumnsProofs.tla` | lemmas on columns, and on sums over sets of rows |
| `BillingProofs.tla` | theorems of `Billing` under any schedule |
| `BillingSerialProofs.tla` | theorems of `Billing` under a serial schedule: deposits, the ledger, balances |
| `StripeProofs.tla` | theorems of `Stripe` and of `StripeLedger`, both schedules |
| `LedgerProofs.tla` | what every ledger guarantees |
| `WorkOrdersProofs.tla` | theorems of `WorkOrders`, both schedules |
| `VisitsProofs.tla` | theorems of `Visits`, both schedules |
| `BackOfficeProofs.tla` | theorems of `Accounts`, `Files` and `Inventory` |
| `MCBilling.tla`, `MCStripe.tla`, `MCWorkOrders.tla`, `MCVisits.tla`, `MCBackOffice.tla`, with `.cfg` files | small instances for TLC; `MCBackOffice` has `Inventory`, `Accounts` and `Files` |

### Billing

`db` holds the committed rows as a record of columns; a column is a partial
function from row keys to values, and NULL is a missing key. An invoice is named
by its work order, a name that the unique constraint `invoice_work_order_id_key`
justifies. `open` is the set of sessions with a request in flight and `txn` holds
the writes each of them will commit, as a record of the same columns plus
`created`, the invoices it inserts.

| code | action |
|---|---|
| `get_db`: begin, commit, rollback | `Begin` (inside every handler), `Commit`, `Rollback` |
| `JobService.update_work_order` (status only) | `UpdateWorkOrder` |
| `BillingService.create_invoice`, `update_invoice` | `CreateInvoice`, `UpdateInvoice` |
| `create_deposit` with the listener on `Deposit.work_order` | `CreateDeposit` |
| `create_payment`, `refund_payment` | `CreatePayment`, `RefundPayment` |
| `refund_deposit` | `RefundDeposit` |
| `create_dispute`, `update_dispute` | `CreateDispute`, `UpdateDispute` |

A handler is one action: it reads `db` and begins the transaction with all its
writes. A request that is refused (400, 404) is not a step, for it changes nothing.
`Commit` overlays the writes on whatever the rows hold by then, and is not enabled
when a created invoice already exists: such a request can only roll back, as the
IntegrityError makes it. `Rollback` is enabled for every open request: lost
connections and crashes of the process are rollbacks too.

With one session the same specification is the serial schedule; with several it
has every interleaving of reads and commits.

Abstractions, all in the direction of the data:

- Amounts are small naturals. `due` is `amount_due + tax_amount`: every handler that
  writes one recomputes the other. A customer whose tax exemption changes between
  two writes of the same amount is not modelled.
- All reads of one request happen in one step. A handler issues several SELECTs and
  another request may commit between them; that finer interleaving is not modelled.
  Everything the properties need already happens between the reads and the commit.
- The statuses `created`, `paused` and `archived` of a work order behave like `active`
  for billing (only `closed` is tested), and whether line items allow a closing is
  left open. Work orders exist from the start.
- Role checks are left out: the requests are those of a manager, who may do
  everything the other roles may.
- Customers, payers, reasons, dates, warranties and the Safepay columns are left out, and
  so is the method of a payment, which only reports read.

A payment is named by where it comes from (`origin`: a deposit's transfer, posted to
`/payments`, recorded by Stripe's webhook), a number and two ids of Stripe that no request
changes: `session` is the id of a checkout session, `charge` what a refund names to Stripe (the
payment intent or else the charge). `create_payment` stores whatever ids the request names and
asks nobody about them, so a posted payment may have any of `StripeIds`. Nothing in billing but
`refund_payment` reads them: it calls Stripe if the row has a charge, whoever wrote the row.
`RefundPayment` is the refund of the others. The runs of `Billing` alone post none (`MCNoIds`).

### Stripe

Stripe keeps the checkout sessions (`checkout`: invoice, amount, whether the customer
completed it, how much was returned) and the completed ones whose event it still
delivers (`unacked`). `handles` says which database session handles an event. A checkout is
a number, and so are its session and its charge; other numbers are ids that no checkout of the
shop has. Two rows the webhook records for one checkout are told apart by a number.

| code | action |
|---|---|
| `create_checkout_session` | `CreateCheckoutSession` |
| the customer pays on Stripe's page (external) | `CompleteCheckout` |
| `stripe_webhook`, `handle_checkout_completed` | `HandleCheckoutCompleted`, then `StripeCommit` or `StripeRollback` |
| `refund_payment` with `create_refund` | `RefundStripePayment`, then commit or rollback |
| the handlers of billing, `create_payment` with ids of Stripe among them | `Request` of `Billing`, Stripe's state unchanged |

A call to Stripe takes effect in the step that makes it; the writes of the request only
at its commit. A committed delivery may or may not be acknowledged (its answer may be
lost), a rolled back one is not. The webhook looks for a payment with the id of the session,
whoever wrote it (`RecordsOf`): one stands for the event, whatever its invoice and amount;
two make `scalar_one_or_none` raise at every delivery. `CreateCheckoutSession` reads the balance and creates
the session in one step: what happens in between cannot be told from a customer who
opens the page later.

The repository's tests post payments by `stripe` with an intent and without a checkout, and
refund them through Stripe (`tests/test_stripe_integration.py:306-313`, `351-381`). So may the
users of the model (`StripeIds`): with the ids of a checkout once it exists (`PostsKnownIds`: who
posts an id has it from Stripe), and with ids of no checkout, whose charges are not followed
(Stripe accepts their refund). What is said about agreement with Stripe is said accordingly.
`PaymentsBacked` is about the payments that the webhook records; a posted one is the claim of
the user who posts it, and nothing in the code compares it with Stripe. `RecordedOnce` is about
what the webhook adds; a payment with the id of a recorded session can be posted afterwards, and
two with one id can be posted without any race. `RefundsBacked` is about all payments with the
charge of a checkout, for the code refunds all of them at Stripe.

Abstractions: Stripe is enabled (when it is not, `create_refund` does nothing and there
are no checkouts); the Stripe customer linked to a customer's row, signatures, currency
and the status query are left out; the webhook's answer follows the commit, which
depends on the FastAPI release (`requirements.txt` pins none).

### The ledger

`Ledger` has five kinds of entries: a deposit or a payment is taken, an invoice is made
with deposits credited to it, a payment is returned, a deposit is repaid. `BillingLedger`
says how to read one off the rows: `invoices` are the keys of the invoice columns,
`payments` the amounts paid (transfers included), `held` the deposits whose status is
`collected`, `returned` and `repaid` the refunds. Statuses, credits, disputes and requests
in flight are forgotten. `LedgerKept` is the ledger's specification under that reading: when
requests run one after another, a commit makes one entry or none. `create_invoice` is the
interesting handler: one row of `invoice`, one row of `payment` per deposit and two columns
per deposit become a single entry. With two sessions a commit may repay a deposit that
another has credited meanwhile, which is no entry (`billing_deposit_race`).

`StripeLedger` reads the rows in the same way when customers pay at Stripe, too. What the
webhook records is one more kind of payment and may be of any amount up to a total that staff set,
for a checkout takes the whole balance. `StripeLedgerKept` says that a delivery takes one
payment or does nothing, whatever has become of the invoice meanwhile, and that a refund by
Stripe returns a payment that was not returned before.

### Transactions, for the other components

`Transactions` has the same execution as `Billing` in a form that components share: `db` is
a record of columns (partial functions, NULL is a missing key), `txn` the writes of each
session's request, `Begin` starts a request with all its writes, `Commit` lays them over the
rows as they are by then, if the unique constraints permit, and `Rollback` drops them.
`Update` and `Assign` are what the ORM emits for an assignment: nothing when the value is the
one that was loaded. New rows are numbered in order (`Fresh`), because the random UUIDs of
the program carry no information.

`load` is chosen in the initial state and never changes. It says what the clients do in one
execution: how many sessions serve them, in which roles they send requests, how many rows
they insert and which values their payloads carry. One run thus checks several small
instances, each aimed at one part of a component. Each module states its type of load as
an assumption, `IsWorkOrderLoad` and the like, and the theorems hold for every such load.

### WorkOrders

| code | action |
|---|---|
| `POST /quotes`, `PUT /quotes/{id}` with `create_quote`, `update_quote` | `PostQuote`, `PutQuote` |
| `POST /work-orders`, `PUT /work-orders/{id}` with `create_work_order`, `update_work_order` | `PostWorkOrder`, `PutWorkOrder` |
| the listener on `Deposit.work_order` | `Reschedule` |
| line items, `create_line_item`, `update_line_item` | `PostLineItem`, `PutLineItem` |
| `create_labor_entry`, `create_quality_check` | `CreateLaborEntry`, `PostQualityCheck` |
| `update_part_instance`, the link to a line item | `LinkPart` |
| `create_change_order`, `update_change_order` | `CreateChangeOrder`, `PutChangeOrder` |
| `menu_service`: create, update, apply | `CreateCannedService`, `UpdateCannedService`, `ApplyToWorkOrder` |
| `create_warranty`, claims | `CreateWarranty`, `CreateWarrantyClaim`, `UpdateWarrantyClaim` |
| `create_invoice`, `update_invoice`, as far as change orders and warranties look at them | `CreateInvoice`, `UpdateInvoice` |

An action takes the role of the sender and has the role rules of the endpoint as guards
(`Post...`, `Put...` for the router; the operator they call is the service). Payloads are
records over the values of the load; `Null` is a field that is not sent. Three behaviours
of the code that one does not expect are in the model: a price of a line item must come with
a status and a status alone is ignored; nothing stores `is_complimentary`, so every item for
$0 keeps a quote from being issued; and a work order one of whose items has a part cannot be
closed.

### Visits

| code | action |
|---|---|
| appointments, with the listener on their status | `PostAppointment`, `PutAppointment` |
| `create_visit` (check-in, walk-in or of an appointment) | `PostVisit` |
| `update_visit`, with `Visit.validate_status` and the listener on `checked_out_at` | `PutVisit` |
| `create_diagnostic`, findings | `CreateDiagnostic`, `AddDiagnosticFinding`, `UpdateDiagnosticFinding` |
| `complete_diagnostic`, which drafts a quote, a work order and items | `CompleteDiagnostic` |
| `create_quote`, `update_quote`, `create_work_order`, `update_line_item`, `update_change_order`, `update_invoice`, as far as visits look at them | actions of the same names |
| bays, and `list_bays`, which releases expired holds | `CreateBay`, `UpdateBay`, `ListBays` |

Both transition tables are in the model, `ValidTransitions` of `update_visit` and
`AllowedNext` of the validator; a change of status must pass both, a check-out only the
second. Dates are left to chance: which appointment of a vehicle is for today, which hold
has expired. A quote or work order drafted by an inspection is named by its report.

### Inventory, Accounts, Files

| code | action |
|---|---|
| `create_part`, `update_part`, `create_purchase_order`, `update_part_instance` | `CreatePart`, `UpdatePart`, `CreatePurchaseOrder`, `UpdatePartInstance` |
| `register_user`, `update_user` | `RegisterUser`, `UpdateUser` |
| `request_password_reset`, `confirm_password_reset` | `RequestPasswordReset`, `ConfirmPasswordReset` |
| `admin_reset_password`, `change_password` | `AdminResetPassword`, `ChangePassword` |
| `upload_file`, `delete_file` | `UploadFile`, `DeleteFile` |

The disk is a column that no transaction writes: `BeginOnDisk` changes it at once, and a
rollback does not undo it. Access tokens leave no state on the server; when a reset token
expires is left to chance, for a reset may be refused at any time. These three components share
no state with each other, so one run checks them side by side, each under its own loads.

### Bounds

`MaxPayments`, `MaxDeposits`, `MaxDisputes` bound the rows a run may insert,
`MaxCredit` the credit an invoice accumulates; `Amounts`, `Dues`, `Credits` are the
amounts requests carry. With amounts 1 and 2 against totals 2 and 3, partial, exact and
excessive payments, deposits and refunds all occur, and so do a deposit larger than
the invoice and a credit that settles it. `MaxCheckouts` bounds the
checkout sessions: two let an invoice have two open checkouts for one balance, one of which
posted payments may name (`StripeIds`) while the other has the webhook's payments only.
Two work orders and two deposits let a
deposit match two work orders. Two sessions suffice for a race of one request with
one commit, and the invariants checked with two sessions are proved for any number.

In the modules over `Transactions` the bounds are in the loads: `quotes`, `workOrders`,
`items`, `visits`, `uploads` and so on say how many rows requests insert. `limit` of
`WorkOrders` bounds the authorized amount that approvals reach (a change order can be
approved, declined and approved again), `limit` of `Inventory` the quantity on hand (a part
can be received, inspected and received again). A load that is about one part of a component
gives the others nothing to do. Two work orders for one quote, two reports of one visit, two
visits of one vehicle, two tokens of one user and three uploads with room for one are the
least numbers at which the rules between rows can break; two line items let one be compared
without the other. What is checked serially is stated with `Serial` as a hypothesis, and the
loads with two or three sessions are there for what must hold in spite of races.

### Runs

| run | instance | shows |
|---|---|---|
| `billing_serial` | 1 session, 1 work order, 1 deposit, 2 payments, 1 dispute | `LedgerKept`: the rows are a ledger; `IssuedStillOwes`, `NoOverpayment`, `PaidOnlyWhenSettled`, `PaidIsFinal`, `RefundRecordedOnce`: status, amount and payments of an invoice agree after any sequence of requests |
| `billing_deposits` | 1 session, 2 work orders, 2 deposits | `DepositsCreditedOnce`, `AppliedXorRefunded`: a deposit is settled once, to one invoice; `LedgerKept` with invoices that several deposits are credited to |
| `billing_concurrent` | 2 sessions, 2 work orders, 1 deposit, 1 payment | `TypeOK`, `TransfersMatchDeposits`, `RefundsCovered`, `PendingGrounded`, `InvoiceCreatedOnce`: what survives every interleaving |
| `billing_payable` | as `billing_serial` | violation of `IssuedIsPayable`, see below |
| `billing_deposit_race` | as `billing_concurrent` | violation of `AppliedXorRefunded`, see below |
| `stripe_serial` | 1 session, 1 invoice, 2 checkouts, 1 posted payment: without ids, with the session and the charge of the first checkout, with its charge only, or with a charge of no checkout | `StripeTypeOK`, `PaymentsBacked`, `RefundsBacked`, `RecordedOnce`, `IssuedStillOwes`, `CompletedIsRecorded`, `StripeLedgerKept`: every completed checkout has a payment with its session's id in the end, the webhook records it for what it was and only where no payment has the session's id, no charge of a checkout is refunded in the books but not at Stripe, and the rows stay a ledger |
| `stripe_webhook` | 2 sessions, 1 checkout, nothing posted | violation of `RecordedOnce`, see below |
| `stripe_refund_retry` | 1 session, 1 checkout | violation of `RefundedOnce`, see below |
| `work_orders` | 5 loads: `Money`, `Progress`, `Aftercare` (1 session), `Race`, `Unapproved` (2 sessions) | `WorkOrdersTypeOK`; `OneWorkOrderPerQuote` and `ApproversAuthorize` in spite of races; `ClosedWasChecked`, `AuthorizationExplained`, `WithinAuthorized` for requests that run one after another |
| `visits` | 5 loads: `FrontDesk`, `Bays`, `Inspection`, `Departure` (1 session), `Race` (2 sessions) | `VisitsTypeOK`; serially `OneActiveVisit`, `DraftedOnce`, `ServiceIsOrdered`, `CheckedOutPaid` |
| `back_office` | 7 loads: 2 of inventory, 3 of accounts, 2 of files | `InventoryTypeOK`, `AccountsTypeOK`, `FilesTypeOK`; `UniqueAccounts`, `AttachmentLimit`, `FilesOnDisk` in spite of races and failures; serially `ReceivedIsCounted`, `TokenSpentOnce` |
| `appointment_bays` | the load `Bays` | violation of `ConfirmationConfirmsBay`, see below |

`PaidOnlyWhenSettled` is checked for staff who do not set `paid` by hand:
`update_invoice` accepts that status whatever the balance, and then it says nothing
about sums. The other runs let staff do so or do not depend on it.
In `Billing` and `Stripe` sessions are symmetric, and so are work orders together with their
quotes; no symmetric run has a liveness property. `LedgerKept` and `StripeLedgerKept` are
safety properties.

`back_office` is checked without deadlock: once all accounts are deactivated, or all uploads
are done and nothing is deleted, nobody has a request left to send.

### Fairness

Only `CompletedIsRecorded` is a liveness property; nothing else in these modules waits.
It is checked under `Fairness`: a request in flight ends (weak fairness of commit or
rollback: handlers have no unbounded wait and a lost connection is a rollback); an event
that can be delivered again and again is delivered (strong fairness, for other requests
may hold the session in between: Stripe repeats deliveries until one is answered with
success, for three days, and the connection pool is first come, first served); a
handler of an event that is begun again and again commits in the end (strong fairness:
the database does not fail for ever). Nothing is assumed of customers, of staff or of
whether answers arrive.

### Disagreements between the code and what it says

- A refund returns a paid invoice to `issued` "since balance is now > 0"
  (`tests/test_phase2_features.py:393`), but `total_balance` and `create_payment`
  subtract payments without their refunds: the balance stays 0 and no payment is
  accepted any more (`billing_payable`).
- "Cannot refund a deposit that has already been applied to an invoice."
  (`billing_service.py:508`): refund_deposit checks the status it read and overwrites
  it at commit, so a create_invoice in flight both credits the deposit and sees it
  paid back (`billing_deposit_race`). `NoOverpayment` and `RefundRecordedOnce` depend
  on requests running one after another for the same reason.
- "Verify invoice and avoid duplicate payment creation (idempotency)"
  (`stripe_service.py:190`): two deliveries of one event handled together both find no
  payment and both commit one; no unique constraint stops the second
  (`stripe_webhook`). Later deliveries of that event raise.
- "Payment has already been refunded." (`billing_service.py:538`): Stripe pays back
  before the request commits; if the request then rolls back, nothing records the
  refund and the next request refunds again (`stripe_refund_retry`).

- "| `Appointment.status` → `confirmed` | Appointment confirmed | Linked bay `status` →
  `'confirmed'` |" (`database_schema.md:591`): `update_appointment` assigns the status before
  the bay of the same payload, so the listener finds no bay and confirms none
  (`appointment_bays`).

Met while modelling, in the model where they affect state, without a run of their own:

- A payment posted with the id of a checkout session, for whatever invoice and amount, makes
  the webhook take the event as recorded: what the customer paid is then in the books only as
  the user posted it. Two payments with the id of one session, for instance one recorded and
  one posted later, make every further delivery of its event raise. `stripe_serial` has both.
- `log_update` stores the payload in a JSON column. A Decimal, a date or a UUID in it fails
  at the flush, and the update it logs is rolled back: no total of a quote and no amount,
  bay or date of a work order can be changed through its endpoint.
- Once an appointment has a bay, confirming it loads `target.bay` lazily, which an
  AsyncSession refuses (MissingGreenlet). For the same reason (`pi.part`,
  `job_service.py:106`) a work order one of whose items has a part can never be closed, and
  an automatic warranty is never generated.
- Two reports of a visit in progress block each other: completing either one drafts a
  quote, which `create_quote` refuses while the other is in progress, until somebody moves
  the visit on by hand, and then nothing is drafted.
- `is_complimentary` is stored nowhere: an item for $0 is accepted, and its quote can no
  longer be issued.
- An item of the service menu is not compared with the authorized amount.
- A change order that is approved, declined and approved again adds its amount twice.
- A failed quality check sends an item of a closed work order back to work.
- A part that is received, inspected and received again is counted twice, and an inspected
  part that is installed is not taken from stock.
- The last manager may deactivate themselves; nobody can then change accounts.
- The timeline of a customer reads attributes that `Appointment` and `Visit` do not have
  (`scheduled_time`, `check_in_time`) and fails.

## Proofs

The theorems of `Billing` and `Stripe` are proved from `BillingAssumption` (the constants
have the types one expects; `StripeAssumption` for `Stripe`), for every value of the
constants: any number of sessions, work orders, deposits, payments and disputes. Those of the
other components are proved from the assumption on their loads alone, for every load: any
number of sessions, roles, rows and values.

`BillingProofs` proves `TypeOK`, `TransfersMatchDeposits`, `RefundsCovered`,
`PendingGrounded` and `InvoiceCreatedOnce` for any interleaving. The inductive
invariant `BillingInv` is the conjunction of the first four. The difficulty is
`Commit`: it applies writes computed from rows that may have changed. `TypeOK`,
`TransfersMatchDeposits` and `RefundsCovered` alone do not survive it;
`PendingGrounded` says what remains true of pending writes whatever commits
before them: inserted rows are new and not inserted by another request, updated rows
exist, a transfer goes to the invoice the request itself inserts and carries the
amount of a deposit whose amount never changes, a refund is covered by a payment
whose amount never changes. `CommitKeeps` states that committed payments and deposits
are never rewritten, `CommitInv` that commits keep the invariant; for each handler
one lemma shows that it begins with `Sound` writes, and `BeginInv` does the rest.

`BillingSerialProofs` assumes `Serial` (no two sessions). It first proves
`DepositsCreditedOnce`, `AppliedXorRefunded` and `RefundRecordedOnce`. The invariant
`SerialInv` adds `SettledRows`, which ties a deposit's status to its link and its
refund, and `Current`, which says that the request in flight settles no deposit and
refunds no payment that is already settled or refunded. `Current` is what a second
session breaks.

`StripeProofs` proves `StripeTypeOK`, `PaymentsBacked` and `RefundsBacked` for any number
of sessions and whatever ids of Stripe are posted, from `StripeAssumption` as well (finitely
many sessions). `StripeInv` adds
them to `BillingInv`; they speak of pending writes too, because a commit is backed only
if what it applies is. `CheckoutsKept` is the argument: no step changes what a checkout
is for, undoes its completion or lowers what it returned, so whatever is backed stays
backed; a delivery records the amount of a completed checkout, and a refund records no
more than it has just added to what Stripe returned (`ReturnBacked`). `RequestOffline` shows
that the handlers of billing record nothing in the webhook's name and refund without Stripe
only payments that have no charge. Under `Serial`, `RecordedOnce` is proved with
`NewRecords`: the checkout a delivery is about to record still has no payment, recorded or
posted; and a commit adds what its request holds, so that the recorded payment is the
checkout's only one (`CommitRecords`).

The rest of `StripeProofs` carries what is proved of `Billing` over to the composition, in
which the webhook and refunds by Stripe write the same tables. Integrity holds under any
interleaving (`StripeRowsGrounded`, `StripeInvoiceCreatedOnce`). Under `Serial`, deposits are
settled once (`StripeDepositsSettledOnce`), refunds are not rewritten
(`StripeRefundRecordedOnce`), and status, amount and payments of an invoice agree
(`StripeIssuedStillOwes`, `StripeNoOverpayment`, `StripePaidOnlyWhenSettled`,
`StripePaidIsFinal`). Each uses the invariant of `Billing` with `StripeInv` beside it: the new
handlers begin with writes of which the invariant says the same as of those of billing. A
delivery that comes after its invoice was paid otherwise is the case to look at: it may
pay more than is owed, and the invoice stays `paid`.

`LedgerProofs` proves `LedgerBalanced`: in every ledger whose `Payment` names no
transfer, each deposit is credited once and in full, none is credited and repaid, and
nothing is given back beyond what was taken. `BillingSerialProofs` proves `LedgerKept` from
`Serial`: the initial rows are an empty ledger, and every step of `Billing` is an entry or
changes no account. Only commits write rows, so the invariant `EntryInv` says of the request
in flight that its writes are one entry that the rows, as they are, permit. It is needed
because the decision and the commit are different steps, and it is inductive because with
one session nothing commits in between; each handler establishes it by one lemma.
`StripeProofs` proves `StripeLedgerKept` in the same way: `CommitEntry` holds for whatever
payments and amounts a ledger permits, and `StripeEntryInv` adds that amounts due and amounts
of checkouts are among those.

The balances of `BillingSerialProofs` (`IssuedStillOwes`, `NoOverpayment`,
`PaidOnlyWhenSettled`, `PaidIsFinal`) relate the status of an invoice to sums over its
payments and refunds. `BalanceInv` says that finitely many payments and refunds are recorded,
that every issued invoice still owes, and of the request in flight that it `Keeps` this: what
its commit would make of the account of each invoice is `Fair`. `Fair` has one part per
property, and is about two states of the rows, so that it also is what the commit does
(`FairStep`). Each handler reads a sum, decides a status and writes one payment, refund,
credit or amount; one lemma per handler shows that the sum after its write is the one it
decided by. `PaidOnlyWhenSettled` has the hypothesis that staff do not set `paid`, as in the
run.

`ColumnsProofs` has what all proofs share: what `Overlay`, `Update` and `Assign` do to typed
columns, and what `SumFunctionOnSet` is. The sum is a fold, defined by a CHOOSE of a recursive
function. That such a function exists and is unique on a finite set, and hence that adding or
removing one row adds or takes away its value (`SumAdd`, `SumRemove`), is proved by a smallest
counterexample: proper inclusion of the subsets of a finite set is well-founded
(`SmallestSubset`), which needs no induction theorem with an operator as its parameter.

`WorkOrdersProofs` proves `WorkOrdersTypeOK`, `OneWorkOrderPerQuote` and
`ApproversAuthorize` for any interleaving. `ShopInv` adds to the type invariant that each
request in flight is `Sound`: it inserts at most one work order, under a name that no row
and no other request has; and unless its sender may approve, it authorizes only the work
order it inserts. The types alone do not say why a commit cannot change the authorized
amount of an existing row, or why the constraint on quotes, which compares a new row with
committed ones, is enough. There is one lemma per handler. The second part proves
`ClosedWasChecked`, `AuthorizationExplained` and `WithinAuthorized`, which are about requests
one after another. `DecidedInv` adds what the request in flight has decided on the rows it
will meet: it closes a work order only over checked items (those it writes included), each
amount it authorizes comes from the quote or from a change order that it approves, and without
a service menu the costs it raises stay within what is authorized. The last is a comparison of
two sums, of the rows read and of the rows after the write.

`VisitsProofs` proves `VisitsTypeOK` for any interleaving. `FloorInv` says the same of pending
writes: they are whole (a row is inserted with all its mandatory columns or only updated) and
refer to rows that exist or that they insert; since no row is deleted, that stays true until
they commit. `OneActiveVisit`, `DraftedOnce`, `ServiceIsOrdered` and `CheckedOutPaid` are proved
with `VisitsInv`, under `Serial`, by what the request in flight decided: the visit it inserts
is of a vehicle without an active one and no completed visit is reopened; a report that drafts
takes its visit out of inspection, to which no visit returns (`DraftsMoved`, without which a
second report of the visit would draft again); a visit enters service with its work order or
with the approval the same request writes; a check-out completes its visit and writes off the
quotes still open.

`BackOfficeProofs` proves `AccountsTypeOK` and `UniqueAccounts` for any interleaving: a
handler may have found a name or an email free that is taken when it commits, and
`AccountsInv` says why the constraints decide (a request writes one account only, `OneUser`).
`TokenSpentOnce` needs `SpendInv`: under `Serial` a request in flight that sets a password
spends a token of that user that is still unspent. Of `Files` it proves `FilesTypeOK`,
`FilesOnDisk` and `AttachmentLimit`. The limit is the interesting one: `FilesInv` counts the
attachments of an entity together with the uploads in flight to it, because a commit only
moves an upload from one group to the other; an upload begins with fewer committed rows than
the limit and at most one request in flight for each other session.
Of `Inventory` it proves `InventoryTypeOK` for any interleaving (an order's lines are not in
the rows or in another request when it commits, so they arrive with exactly their units) and
`ReceivedIsCounted` under `Serial`: `StockInv` says of the request in flight that it is one
unit's move with the quantity that follows from the rows it meets, or touches neither units
nor parts that exist.

Only model-checked: the liveness property `CompletedIsRecorded`, for the provers do not handle
ENABLED and hence fairness; and, by counterexamples, the properties that fail
(`IssuedIsPayable`, `RefundedOnce`, `ConfirmationConfirmsBay`, and with two sessions
`AppliedXorRefunded` and `RecordedOnce`). Every invariant and every action property that a
passing run checks is a theorem, under the hypotheses its comment states.

## Not modelled

- Safepay: the webhook handler uses `decimal` and `datetime`, which
  `routers/billing.py` does not import; the NameError is swallowed and the handler
  answers success, so it never changes state.
- Catalog import always raises (it passes columns `Part` does not have); accounting is
  an in-memory mock; reports, search, history and PDF only read; email and
  communications only send; the audit log only appends.
- Customers, vehicles, vendors, technicians and their certifications are single rows
  without rules between them beyond foreign keys.
- The application shell (wiring, logging, answers to exceptions) keeps no state; schemas
  and migrations are declarations, and the constraints that matter are in the modules of
  the tables they constrain.
- Parts of modelled components: the Stripe customer linked to a customer's row, signatures
  and the status query; texts, dates and file contents everywhere.

## Plan

Done: `Billing`, `Stripe`, `Ledger` with its two refinements, `WorkOrders`, `Visits`,
`Inventory`, `Accounts`, `Files`, and the theorems above. What is left, in the order of
importance:

1. The serial theorems under the weaker hypothesis that only requests for one invoice, one
   work order or one visit do not overlap.
2. What a few sessions can do at most, where a race breaks a property: how many payments one
   checkout may become, by how much an invoice may be overpaid.
3. The finer interleaving of the SELECTs of one handler, where a property depends on it.
