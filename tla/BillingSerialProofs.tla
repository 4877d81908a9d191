------------------------ MODULE BillingSerialProofs ------------------------
(***************************************************************************)
(* Theorems about Billing when requests run one after another, for every   *)
(* number of work orders, deposits, payments and disputes: deposits are    *)
(* settled once, the rows are a ledger, and the status of an invoice       *)
(* agrees with what was paid.  With two sessions the first of these fails: *)
(* MCBillingDepositRace.cfg.                                               *)
(***************************************************************************)
EXTENDS BillingLedger, BillingProofs

\* No two requests are in flight together.
Serial == \A r, s \in Sessions : r = s

----------------------------------------------------------------------------
(* The inductive invariant.  A deposit that was applied or refunded is      *)
(* settled; the request in flight settles none of these again, because what *)
(* it read is still what the rows hold.                                     *)

Settled == DOMAIN db.depInvoice \cup DOMAIN db.depRefund

SettledRows ==
  /\ DepositsCreditedOnce
  /\ \A d \in DOMAIN db.depInvoice : d \in DOMAIN db.depStatus /\ db.depStatus[d] = "applied"
  /\ \A d \in DOMAIN db.depRefund : d \in DOMAIN db.depStatus /\ db.depStatus[d] = "refunded"

\* Writes computed from rows that have not changed since.
Current(W) ==
  /\ \A k \in DOMAIN W.paid : k.origin = "deposit_transfer" =>
       k.n \in DOMAIN W.depInvoice /\ W.depInvoice[k.n] = k.inv
  /\ \A d \in DOMAIN W.depInvoice : d \in DOMAIN W.depStatus /\ W.depStatus[d] = "applied"
  /\ \A d \in DOMAIN W.depRefund : d \in DOMAIN W.depStatus /\ W.depStatus[d] = "refunded"
  /\ DOMAIN W.depStatus \cap Settled = {}
  /\ DOMAIN W.refunded \cap DOMAIN db.refunded = {}

SerialInv == BillingInv /\ SettledRows /\ \A s \in Sessions : Current(txn[s])

\* An empty database has no settled deposit.
LEMMA InitSerialInv == Init => SerialInv
<1>1. ASSUME Init PROVE SettledRows
  BY <1>1 DEF Init, SettledRows, DepositsCreditedOnce, Empty
<1>2. ASSUME Init PROVE \A s \in Sessions : Current(txn[s])
  BY <1>2 DEF Init, Current, Settled, NoWrites, Empty
<1>. QED
  BY <1>1, <1>2, InitInv DEF SerialInv

\* Writes that move no money are current whatever they read.
LEMMA PlainWritesCurrent ==
  ASSUME NEW W, W.paid = Empty, W.refunded = Empty, W.depStatus = Empty,
         W.depInvoice = Empty, W.depRefund = Empty
  PROVE  Current(W)
BY DEF Current, Empty

\* create_invoice takes 'collected' deposits, and a settled one is not.
LEMMA CreateInvoiceCurrent ==
  ASSUME SerialInv, NEW s \in Sessions, NEW w, NEW due, NEW st, CreateInvoice(s, w, due, st)
  PROVE  \E W : Begin(s, W) /\ Current(W)
<1>. DEFINE D == ApplicableDeposits(w)
            T == TransfersTo(w)
            status == IF due - SumFunction(T) <= 0 THEN "paid" ELSE st
            W == [NoWrites EXCEPT !.created = {w}, !.status = At(w, status),
                                  !.due = At(w, due), !.paid = T,
                                  !.depStatus = [d \in D |-> "applied"],
                                  !.depInvoice = [d \in D |-> w]]
<1>1. Begin(s, W)
  BY DEF CreateInvoice
<1>2. D \cap Settled = {}
  BY DEF SerialInv, SettledRows, Settled, ApplicableDeposits
<1>3. \A k \in DOMAIN T : k.inv = w /\ k.n \in D
  BY DEF TransfersTo, Transfer
<1>4. Current(W)
  <2>. HIDE DEF T, D, status
  <2>1. /\ W.paid = T /\ W.depStatus = [d \in D |-> "applied"]
        /\ W.depInvoice = [d \in D |-> w]
        /\ DOMAIN W.refunded = {} /\ DOMAIN W.depRefund = {}
    BY DEF NoWrites, Empty
  <2>. HIDE DEF W
  <2>. QED
    BY <1>2, <1>3, <2>1 DEF Current
<1>. QED
  BY <1>1, <1>4

\* refund_deposit refuses a deposit that is 'applied' or 'refunded'.
LEMMA RefundDepositCurrent ==
  ASSUME SerialInv, NEW s \in Sessions, NEW d, NEW a, RefundDeposit(s, d, a)
  PROVE  \E W : Begin(s, W) /\ Current(W)
<1>. DEFINE W == [NoWrites EXCEPT !.depStatus = At(d, "refunded"), !.depRefund = At(d, a)]
<1>1. Begin(s, W)
  BY DEF RefundDeposit
<1>2. d \notin Settled
  BY DEF SerialInv, SettledRows, Settled, RefundDeposit, DepositRefundable
<1>3. Current(W)
  BY <1>2 DEF Current, NoWrites, Empty, At
<1>. QED
  BY <1>1, <1>3

\* create_deposit inserts a row no link and no refund can refer to.
LEMMA CreateDepositCurrent ==
  ASSUME SerialInv, NEW s \in Sessions, NEW d, NEW q, NEW w, NEW a, NEW st,
         CreateDeposit(s, d, q, w, a, st)
  PROVE  \E W : Begin(s, W) /\ Current(W)
<1>. DEFINE scheduled == IF w = NoWorkOrder THEN Empty
                         ELSE Update(db.woStatus, w, "scheduled")
            W == [NoWrites EXCEPT !.deposit = At(d, [quote |-> q, wo |-> w, amount |-> a]),
                                  !.depStatus = At(d, st), !.woStatus = scheduled]
<1>1. FreshDeposit(d) /\ Begin(s, W)
  BY DEF CreateDeposit
<1>2. d \notin Settled
  <2>1. d \notin DOMAIN db.deposit
    BY <1>1 DEF FreshDeposit
  <2>. QED
    BY <2>1 DEF SerialInv, SettledRows, Settled, BillingInv, TypeOK
<1>3. Current(W)
  <2>. HIDE DEF scheduled
  <2>. QED
    BY <1>2 DEF Current, NoWrites, Empty, At
<1>. QED
  BY <1>1, <1>3

\* create_payment inserts a payment that is no transfer.
LEMMA CreatePaymentCurrent ==
  ASSUME SerialInv, NEW s \in Sessions, NEW w, NEW n, NEW a, NEW ids,
         CreatePayment(s, w, n, a, ids)
  PROVE  \E W : Begin(s, W) /\ Current(W)
<1>. DEFINE k == Posted(w, n, ids)
            status == IF Balance(w) - a <= 0 THEN Update(db.status, w, "paid") ELSE Empty
            W == [NoWrites EXCEPT !.paid = At(k, a), !.status = status]
<1>1. Begin(s, W)
  BY DEF CreatePayment
<1>2. Current(W)
  <2>. HIDE DEF status
  <2>. QED
    BY DEF Current, NoWrites, Empty, At, Posted
<1>. QED
  BY <1>1, <1>2

\* refund_payment refuses a payment that has a refund.
LEMMA RefundWritesCurrent ==
  ASSUME NEW k, NEW a, k \notin DOMAIN db.refunded
  PROVE  Current(RefundWrites(k, a))
<1>. DEFINE status == IF Owed(k.inv) > Net(k.inv) - a
                      THEN Update(db.status, k.inv, "issued") ELSE Empty
            W == [NoWrites EXCEPT !.refunded = At(k, a), !.status = status]
<1>1. Current(W)
  <2>. HIDE DEF status
  <2>. QED
    BY DEF Current, NoWrites, Empty, At
<1>. QED
  BY <1>1 DEF RefundWrites

\* Any request begins with writes computed from the rows as they are.
LEMMA RequestCurrent ==
  ASSUME SerialInv, NEW s \in Sessions, Request(s)
  PROVE  \E W : Begin(s, W) /\ Current(W)
<1>1. ASSUME NEW w, NEW st, UpdateWorkOrder(s, w, st)
      PROVE  \E W : Begin(s, W) /\ Current(W)
  BY <1>1, PlainWritesCurrent DEF UpdateWorkOrder, NoWrites
<1>2. ASSUME NEW w, NEW st, NEW due, NEW credit, UpdateInvoice(s, w, st, due, credit)
      PROVE  \E W : Begin(s, W) /\ Current(W)
  BY <1>2, PlainWritesCurrent DEF UpdateInvoice, NoWrites
<1>3. ASSUME NEW w, NEW n, CreateDispute(s, w, n)
      PROVE  \E W : Begin(s, W) /\ Current(W)
  BY <1>3, PlainWritesCurrent DEF CreateDispute, NoWrites
<1>4. ASSUME NEW k, NEW st, NEW c, UpdateDispute(s, k, st, c)
      PROVE  \E W : Begin(s, W) /\ Current(W)
  BY <1>4, PlainWritesCurrent DEF UpdateDispute, NoWrites
<1>5. ASSUME NEW k, NEW a, RefundPayment(s, k, a)
      PROVE  \E W : Begin(s, W) /\ Current(W)
  BY <1>5, RefundWritesCurrent DEF RefundPayment, PaymentRefundable
<1>. QED
  BY <1>1, <1>2, <1>3, <1>4, <1>5, CreateInvoiceCurrent, CreateDepositCurrent,
     CreatePaymentCurrent, RefundDepositCurrent DEF Request

----------------------------------------------------------------------------
(* Steps.                                                                  *)

\* A commit of current writes settles each deposit at most once.
LEMMA CommitSettled ==
  ASSUME SerialInv, NEW s \in Sessions, Commit(s)
  PROVE  SettledRows'
<1>. DEFINE W == txn[s]
<1>1. Current(W)
  BY DEF SerialInv
<1>2. /\ db'.paid = Overlay(W.paid, db.paid)
      /\ db'.depStatus = Overlay(W.depStatus, db.depStatus)
      /\ db'.depInvoice = Overlay(W.depInvoice, db.depInvoice)
      /\ db'.depRefund = Overlay(W.depRefund, db.depRefund)
  BY DEF Commit
<1>3. DepositsCreditedOnce'
  <2>1. ASSUME NEW k \in DOMAIN db'.paid, k.origin = "deposit_transfer"
        PROVE  k.n \in DOMAIN db'.depInvoice /\ db'.depInvoice[k.n] = k.inv
    <3>1. CASE k \in DOMAIN W.paid
      BY <1>1, <1>2, <2>1, <3>1 DEF Current, Overlay
    <3>2. CASE k \notin DOMAIN W.paid
      <4>1. k.n \in DOMAIN db.depInvoice /\ db.depInvoice[k.n] = k.inv
        BY <1>2, <2>1, <3>2 DEF SerialInv, SettledRows, DepositsCreditedOnce, Overlay
      <4>2. k.n \notin DOMAIN W.depInvoice
        BY <1>1, <4>1 DEF Current, Settled
      <4>. QED
        BY <1>2, <4>1, <4>2 DEF Overlay
    <3>. QED
      BY <3>1, <3>2
  <2>. QED
    BY <2>1 DEF DepositsCreditedOnce
<1>4. ASSUME NEW d \in DOMAIN db'.depInvoice
      PROVE  d \in DOMAIN db'.depStatus /\ db'.depStatus[d] = "applied"
  BY <1>1, <1>2 DEF Current, Settled, SerialInv, SettledRows, Overlay
<1>5. ASSUME NEW d \in DOMAIN db'.depRefund
      PROVE  d \in DOMAIN db'.depStatus /\ db'.depStatus[d] = "refunded"
  BY <1>1, <1>2 DEF Current, Settled, SerialInv, SettledRows, Overlay
<1>. QED
  BY <1>3, <1>4, <1>5 DEF SettledRows

\* What a request that reads the rows as they are, and its end, leave.
LEMMA BeginCurrent ==
  ASSUME Serial, SerialInv, BillingInv', NEW s \in Sessions, NEW W, Begin(s, W), Current(W)
  PROVE  SerialInv'
<1>1. db' = db /\ txn'[s] = W
  BY DEF Begin, SerialInv, BillingInv, TypeOK
<1>2. SettledRows'
  BY <1>1 DEF SerialInv, SettledRows, DepositsCreditedOnce
<1>3. Current(txn[s])'
  BY <1>1 DEF Current, Settled
<1>. QED
  BY <1>2, <1>3 DEF SerialInv, Serial

LEMMA EndCurrent ==
  ASSUME Serial, SerialInv, BillingInv', NEW s \in Sessions, Commit(s) \/ Rollback(s)
  PROVE  SerialInv'
<1>1. txn'[s] = NoWrites
  BY DEF Commit, Rollback, End, SerialInv, BillingInv, TypeOK
<1>2. SettledRows'
  BY CommitSettled DEF Rollback, SerialInv, SettledRows, DepositsCreditedOnce
<1>3. Current(txn[s])'
  BY <1>1 DEF Current, NoWrites, Empty
<1>. QED
  BY <1>2, <1>3 DEF SerialInv, Serial

\* SerialInv is inductive when no two sessions are open together.
LEMMA NextSerialInv ==
  ASSUME Serial, SerialInv, [Next]_vars
  PROVE  SerialInv'
<1>1. BillingInv'
  BY NextInv DEF SerialInv
<1>2. CASE UNCHANGED vars
  <2>1. SettledRows'
    BY <1>2 DEF SerialInv, SettledRows, DepositsCreditedOnce, vars
  <2>2. \A s \in Sessions : Current(txn[s])'
    BY <1>2 DEF SerialInv, Current, Settled, vars
  <2>. QED
    BY <1>1, <2>1, <2>2 DEF SerialInv
<1>. QED
  BY <1>1, <1>2, RequestCurrent, BeginCurrent, EndCurrent DEF Next

\* What the theorems below start from.
LEMMA SpecSerialInv ==
  ASSUME Serial
  PROVE  Spec => []SerialInv
<1>1. SerialInv /\ [Next]_vars => SerialInv'
  BY NextSerialInv
<1>. QED
  BY <1>1, InitSerialInv, PTL DEF Spec

\* Requests one after another: create_invoice credits no deposit twice, although a
\* deposit may match two work orders, and the link tells where it was credited.
THEOREM DepositsCreditedOnceCorrect ==
  ASSUME Serial
  PROVE  Spec => []DepositsCreditedOnce
<1>1. SerialInv => DepositsCreditedOnce
  BY DEF SerialInv, SettledRows
<1>. QED
  BY <1>1, SpecSerialInv, PTL

\* Requests one after another: no deposit is both credited to an invoice and paid
\* back by refund_deposit.
THEOREM AppliedXorRefundedCorrect ==
  ASSUME Serial
  PROVE  Spec => []AppliedXorRefunded
<1>1. SerialInv => AppliedXorRefunded
  BY DEF SerialInv, SettledRows, AppliedXorRefunded
<1>. QED
  BY <1>1, SpecSerialInv, PTL

\* The request in flight refunds what has no refund.
LEMMA CommitKeepsRefunds ==
  ASSUME SerialInv, NEW s \in Sessions, Commit(s)
  PROVE  /\ \A k \in DOMAIN db.refunded : db'.refunded[k] = db.refunded[k]
         /\ \A d \in DOMAIN db.depRefund : db'.depRefund[d] = db.depRefund[d]
<1>1. Current(txn[s])
  BY DEF SerialInv
<1>2. \A d \in DOMAIN db.depRefund : d \notin DOMAIN txn[s].depRefund
  BY <1>1 DEF Current, Settled
<1>3. \A k \in DOMAIN db.refunded : k \notin DOMAIN txn[s].refunded
  BY <1>1 DEF Current
<1>. QED
  BY <1>2, <1>3 DEF Commit, Overlay

\* Requests one after another: refund_payment and refund_deposit never rewrite a
\* refund that was recorded.
THEOREM RefundRecordedOnceCorrect ==
  ASSUME Serial
  PROVE  Spec => RefundRecordedOnce
<1>. DEFINE A == /\ \A k \in DOMAIN db.refunded : db'.refunded[k] = db.refunded[k]
                 /\ \A d \in DOMAIN db.depRefund : db'.depRefund[d] = db.depRefund[d]
<1>1. SerialInv /\ [Next]_vars => [A]_vars
  BY CommitKeepsRefunds, RequestReads DEF Next, vars, Rollback
<1>. QED
  BY <1>1, SpecSerialInv, PTL DEF Spec, RefundRecordedOnce

----------------------------------------------------------------------------
(* Columns as accounts.                                                    *)

\* One INSERT, or one UPDATE of one row, is one entry of an account.
LEMMA OverlayAt ==
  ASSUME NEW f, NEW k, NEW v
  PROVE  Overlay(At(k, v), f) = L!Enter(k, v, f)
BY DEF Overlay, At, L!Enter

----------------------------------------------------------------------------
(* The inductive invariant: what is in flight is at most one entry that the *)
(* ledger permits.  It speaks of the rows as they are, which another        *)
(* session's commit would change.                                           *)

Deposits == [d \in DOMAIN db.deposit |-> db.deposit[d].amount]
Held == {d \in DOMAIN db.depStatus : db.depStatus[d] = "collected"}

NoEntry(W) ==
  /\ DOMAIN W.status \subseteq Invoices
  /\ W.paid = Empty /\ W.deposit = Empty /\ W.depStatus = Empty
  /\ W.refunded = Empty /\ W.depRefund = Empty
DepositEntry(W, d, a) ==
  /\ d \notin DOMAIN db.deposit
  /\ DOMAIN W.deposit = {d} /\ W.deposit[d].amount = a /\ DOMAIN W.depStatus = {d}
  /\ W.status = Empty /\ W.paid = Empty /\ W.refunded = Empty /\ W.depRefund = Empty
InvoiceEntry(W, w, D) ==
  /\ w \notin Invoices /\ D \subseteq Held
  /\ DOMAIN W.status = {w}
  /\ W.paid = [k \in {Transfer(w, d) : d \in D} |-> db.deposit[k.n].amount]
  /\ W.depStatus = [d \in D |-> "applied"]
  /\ W.deposit = Empty /\ W.refunded = Empty /\ W.depRefund = Empty
PaymentEntry(W, k, a) ==
  /\ k \notin DOMAIN db.paid /\ k.inv \in Invoices
  /\ DOMAIN W.status \subseteq Invoices
  /\ W.paid = At(k, a)
  /\ W.deposit = Empty /\ W.depStatus = Empty /\ W.refunded = Empty /\ W.depRefund = Empty
ReturnEntry(W, k, a) ==
  /\ k \notin DOMAIN db.refunded /\ a <= db.paid[k]
  /\ DOMAIN W.status \subseteq Invoices
  /\ W.refunded = At(k, a)
  /\ W.paid = Empty /\ W.deposit = Empty /\ W.depStatus = Empty /\ W.depRefund = Empty
RepayEntry(W, d, a) ==
  /\ a <= db.deposit[d].amount
  /\ W.depStatus = At(d, "refunded") /\ W.depRefund = At(d, a)
  /\ W.status = Empty /\ W.paid = Empty /\ W.deposit = Empty /\ W.refunded = Empty

\* At most one entry, of a payment in P or of an amount in A.
EntryOf(P, A, W) ==
  \/ NoEntry(W)
  \/ \E d \in 1 .. MaxDeposits, a \in A : DepositEntry(W, d, a)
  \/ \E w \in WorkOrders, D \in SUBSET Held : InvoiceEntry(W, w, D)
  \/ \E k \in P, a \in A : PaymentEntry(W, k, a)
  \/ \E k \in DOMAIN db.paid, a \in A : ReturnEntry(W, k, a)
  \/ \E d \in Held, a \in A : RepayEntry(W, d, a)
Entry(W) == EntryOf(PostedPayment, Amounts, W)

EntryInv == TypeOK /\ \A s \in Sessions : Entry(txn[s])

----------------------------------------------------------------------------
(* Every request is at most one entry.                                     *)

\* Making an invoice: the deposits it applies are held.
LEMMA CreateInvoiceEntry ==
  ASSUME TypeOK, NEW s \in Sessions, NEW w \in WorkOrders, NEW due, NEW st,
         CreateInvoice(s, w, due, st)
  PROVE  \E W : Begin(s, W) /\ Entry(W)
<1>. DEFINE D == ApplicableDeposits(w)
            T == TransfersTo(w)
            status == IF due - SumFunction(T) <= 0 THEN "paid" ELSE st
            W == [NoWrites EXCEPT !.created = {w}, !.status = At(w, status),
                                  !.due = At(w, due), !.paid = T,
                                  !.depStatus = [d \in D |-> "applied"],
                                  !.depInvoice = [d \in D |-> w]]
<1>1. Begin(s, W) /\ w \notin Invoices
  BY DEF CreateInvoice
<1>2. D \subseteq Held
  BY DEF ApplicableDeposits, MatchingDeposits, Held, TypeOK
<1>3. T = [k \in {Transfer(w, d) : d \in D} |-> db.deposit[k.n].amount]
  BY DEF TransfersTo
<1>4. DOMAIN At(w, status) = {w}
  BY UpdateRow
<1>5. InvoiceEntry(W, w, D)
  <2>. HIDE DEF T, D, status
  <2>. QED
    BY <1>1, <1>2, <1>3, <1>4 DEF InvoiceEntry, NoWrites
<1>. QED
  BY <1>1, <1>2, <1>5 DEF Entry, EntryOf

\* Taking a deposit.
LEMMA CreateDepositEntry ==
  ASSUME TypeOK, NEW s \in Sessions, NEW d \in 1 .. MaxDeposits, NEW q, NEW w,
         NEW a \in Amounts, NEW st, CreateDeposit(s, d, q, w, a, st)
  PROVE  \E W : Begin(s, W) /\ Entry(W)
<1>. DEFINE scheduled == IF w = NoWorkOrder THEN Empty
                         ELSE Update(db.woStatus, w, "scheduled")
            row == [quote |-> q, wo |-> w, amount |-> a]
            W == [NoWrites EXCEPT !.deposit = At(d, row), !.depStatus = At(d, st),
                                  !.woStatus = scheduled]
<1>1. Begin(s, W) /\ d \notin DOMAIN db.deposit
  BY DEF CreateDeposit, FreshDeposit
<1>2. DepositEntry(W, d, a)
  <2>1. row.amount = a
    OBVIOUS
  <2>. HIDE DEF scheduled, row
  <2>. QED
    BY <1>1, <2>1 DEF DepositEntry, NoWrites, At
<1>. QED
  BY <1>1, <1>2 DEF Entry, EntryOf

\* Taking a payment that is posted.
LEMMA CreatePaymentEntry ==
  ASSUME NEW s \in Sessions, NEW w \in WorkOrders, NEW n \in 1 .. MaxPayments,
         NEW a \in Amounts, NEW ids \in StripeIds, CreatePayment(s, w, n, a, ids)
  PROVE  \E W : Begin(s, W) /\ Entry(W)
<1>. DEFINE k == Posted(w, n, ids)
            status == IF Balance(w) - a <= 0 THEN Update(db.status, w, "paid") ELSE Empty
            W == [NoWrites EXCEPT !.paid = At(k, a), !.status = status]
<1>1. Begin(s, W) /\ w \in Invoices /\ FreshPayment(n)
  BY DEF CreatePayment
<1>2. k \in PostedPayment /\ k.inv = w /\ k \notin DOMAIN db.paid
  BY <1>1 DEF PostedPayment, Posted, FreshPayment
<1>3. DOMAIN status \subseteq {w}
  BY UpdateRow
<1>4. PaymentEntry(W, k, a)
  <2>. HIDE DEF k, status
  <2>. QED
    BY <1>1, <1>2, <1>3 DEF PaymentEntry, NoWrites
<1>. QED
  BY <1>1, <1>2, <1>4 DEF Entry, EntryOf

\* Returning a payment.
LEMMA RefundPaymentEntry ==
  ASSUME TypeOK, NEW s \in Sessions, NEW k \in DOMAIN db.paid, NEW a \in Amounts,
         RefundPayment(s, k, a)
  PROVE  \E W : Begin(s, W) /\ Entry(W)
<1>. DEFINE status == IF Owed(k.inv) > Net(k.inv) - a
                      THEN Update(db.status, k.inv, "issued") ELSE Empty
            W == [NoWrites EXCEPT !.refunded = At(k, a), !.status = status]
<1>1. Begin(s, W) /\ k \notin DOMAIN db.refunded /\ a <= db.paid[k]
  BY DEF RefundPayment, RefundWrites, PaymentRefundable
<1>2. DOMAIN status \subseteq {k.inv} /\ k.inv \in Invoices
  BY UpdateRow DEF TypeOK
<1>3. ReturnEntry(W, k, a)
  <2>. HIDE DEF status
  <2>. QED
    BY <1>1, <1>2 DEF ReturnEntry, NoWrites
<1>. QED
  BY <1>1, <1>3 DEF Entry, EntryOf

\* Repaying a deposit: one that is neither applied nor refunded is held.
LEMMA RefundDepositEntry ==
  ASSUME TypeOK, NEW s \in Sessions, NEW d \in DOMAIN db.deposit, NEW a \in Amounts,
         RefundDeposit(s, d, a)
  PROVE  \E W : Begin(s, W) /\ Entry(W)
<1>. DEFINE W == [NoWrites EXCEPT !.depStatus = At(d, "refunded"), !.depRefund = At(d, a)]
<1>1. Begin(s, W) /\ DepositRefundable(d, a)
  BY DEF RefundDeposit
<1>2. d \in DOMAIN db.depStatus /\ db.depStatus[d] \in DepositStatus
  BY DEF TypeOK, IsDatabase, IsColumn
<1>3. d \in Held
  BY <1>1, <1>2 DEF DepositRefundable, DepositStatus, Held
<1>4. RepayEntry(W, d, a)
  BY <1>1 DEF RepayEntry, NoWrites, DepositRefundable
<1>. QED
  BY <1>1, <1>3, <1>4 DEF Entry, EntryOf

\* The other requests move no money.
LEMMA PlainEntry ==
  ASSUME NEW W, DOMAIN W.status \subseteq Invoices, W.paid = Empty, W.deposit = Empty,
         W.depStatus = Empty, W.refunded = Empty, W.depRefund = Empty
  PROVE  Entry(W)
BY DEF Entry, EntryOf, NoEntry

\* Any request begins with at most one entry.
LEMMA RequestEntry ==
  ASSUME TypeOK, NEW s \in Sessions, Request(s)
  PROVE  \E W : Begin(s, W) /\ Entry(W)
<1>1. ASSUME NEW w, NEW st, UpdateWorkOrder(s, w, st)
      PROVE  \E W : Begin(s, W) /\ Entry(W)
  <2>. DEFINE W == [NoWrites EXCEPT !.woStatus = Update(db.woStatus, w, st)]
  <2>1. Entry(W)
    BY UpdateRow, PlainEntry DEF NoWrites
  <2>. QED
    BY <1>1, <2>1 DEF UpdateWorkOrder
<1>2. ASSUME NEW w, NEW st, NEW due, NEW credit, UpdateInvoice(s, w, st, due, credit)
      PROVE  \E W : Begin(s, W) /\ Entry(W)
  <2>. DEFINE status == IF st # "paid" /\ due - credit - Gross(w) = 0 THEN "paid" ELSE st
              credits == IF credit = Credit(w) THEN Empty ELSE At(w, credit)
              W == [NoWrites EXCEPT !.status = Update(db.status, w, status),
                                    !.due = Update(db.due, w, due),
                                    !.credit = credits]
  <2>1. Begin(s, W) /\ w \in Invoices
    BY <1>2 DEF UpdateInvoice
  <2>2. DOMAIN Update(db.status, w, status) \subseteq {w}
    BY UpdateRow
  <2>3. Entry(W)
    <3>. HIDE DEF status, credits
    <3>. QED
      BY <2>1, <2>2, PlainEntry DEF NoWrites
  <2>. QED
    BY <2>1, <2>3
<1>3. ASSUME NEW w, NEW n, CreateDispute(s, w, n)
      PROVE  \E W : Begin(s, W) /\ Entry(W)
  <2>. DEFINE W == [NoWrites EXCEPT !.dispute = At([inv |-> w, n |-> n], "open"),
                                    !.status = Update(db.status, w, "disputed")]
  <2>1. Begin(s, W) /\ w \in Invoices
    BY <1>3 DEF CreateDispute
  <2>2. DOMAIN Update(db.status, w, "disputed") \subseteq {w}
    BY UpdateRow
  <2>3. Entry(W)
    BY <2>1, <2>2, PlainEntry DEF NoWrites
  <2>. QED
    BY <2>1, <2>3
<1>4. ASSUME NEW k, NEW st, NEW c, UpdateDispute(s, k, st, c)
      PROVE  \E W : Begin(s, W) /\ Entry(W)
  <2>. DEFINE resolves == st = "resolved" /\ db.dispute[k] # "resolved"
              credits == IF c = 0 THEN Empty ELSE At(k.inv, Credit(k.inv) + c)
              status == IF resolves
                        THEN Update(db.status, k.inv, StatusAfterDispute(k.inv, c)) ELSE Empty
              W == [NoWrites EXCEPT !.dispute = Update(db.dispute, k, st),
                                    !.credit = credits, !.status = status]
  <2>1. Begin(s, W) /\ k \in DOMAIN db.dispute
    BY <1>4 DEF UpdateDispute
  <2>2. k.inv \in Invoices /\ DOMAIN status \subseteq {k.inv}
    BY <2>1, UpdateRow DEF TypeOK
  <2>3. Entry(W)
    <3>. HIDE DEF status, credits
    <3>. QED
      BY <2>2, PlainEntry DEF NoWrites
  <2>. QED
    BY <2>1, <2>3
<1>. QED
  BY <1>1, <1>2, <1>3, <1>4, CreateInvoiceEntry, CreateDepositEntry, CreatePaymentEntry,
     RefundPaymentEntry, RefundDepositEntry DEF Request

----------------------------------------------------------------------------
(* Steps.                                                                  *)

\* What an entry is depends on the rows only.
LEMMA EntryStays ==
  ASSUME NEW P, NEW A, NEW W, EntryOf(P, A, W), db' = db
  PROVE  EntryOf(P, A, W)'
<1>1. Held' = Held
  BY DEF Held
<1>2. NoEntry(W) => NoEntry(W)'
  BY DEF NoEntry, Invoices
<1>3. \A d, a : DepositEntry(W, d, a) => DepositEntry(W, d, a)'
  BY DEF DepositEntry
<1>4. \A w, D : InvoiceEntry(W, w, D) => InvoiceEntry(W, w, D)'
  BY <1>1 DEF InvoiceEntry, Invoices, Transfer
<1>5. \A k, a : PaymentEntry(W, k, a) => PaymentEntry(W, k, a)'
  BY DEF PaymentEntry, Invoices
<1>6. \A k, a : ReturnEntry(W, k, a) => ReturnEntry(W, k, a)'
  BY DEF ReturnEntry, Invoices
<1>7. \A d, a : RepayEntry(W, d, a) => RepayEntry(W, d, a)'
  BY DEF RepayEntry
<1>. QED
  BY <1>1, <1>2, <1>3, <1>4, <1>5, <1>6, <1>7 DEF EntryOf

\* No writes are no entry.
LEMMA NoWritesEntry ==
  ASSUME NEW P, NEW A
  PROVE  EntryOf(P, A, NoWrites) /\ EntryOf(P, A, NoWrites)'
BY DEF EntryOf, NoEntry, NoWrites, Empty

\* EntryInv is inductive when no two sessions are open together.
LEMMA NextEntryInv ==
  ASSUME Serial, EntryInv, [Next]_vars, TypeOK'
  PROVE  EntryInv'
<1>1. DOMAIN txn = Sessions
  BY DEF EntryInv, TypeOK
<1>2. ASSUME NEW W, Entry(W), db' = db
      PROVE  Entry(W)'
  BY <1>2, EntryStays DEF Entry
<1>3. CASE UNCHANGED vars
  BY <1>2, <1>3 DEF EntryInv, vars
<1>4. ASSUME NEW s \in Sessions, NEW W, Begin(s, W), Entry(W)
      PROVE  EntryInv'
  <2>1. db' = db /\ txn'[s] = W
    BY <1>1, <1>4 DEF Begin
  <2>2. Entry(txn[s])'
    BY <1>2, <1>4, <2>1
  <2>. QED
    BY <2>2 DEF EntryInv, Serial
<1>5. ASSUME NEW s \in Sessions, Commit(s) \/ Rollback(s)
      PROVE  EntryInv'
  <2>1. txn'[s] = NoWrites
    BY <1>1, <1>5 DEF Commit, Rollback, End
  <2>2. Entry(txn[s])'
    BY <2>1, NoWritesEntry DEF Entry
  <2>. QED
    BY <2>2 DEF EntryInv, Serial
<1>. QED
  BY <1>3, <1>4, <1>5, RequestEntry DEF EntryInv, Next

\* An entry of the ledger, of a payment in P or of an amount in A.
EntryStep(P, A) ==
  \/ \E d \in 1 .. MaxDeposits, a \in A : L!TakeDeposit(d, a)
  \/ \E w \in WorkOrders, D \in SUBSET Held : L!MakeInvoice(w, D)
  \/ \E k \in P, a \in A : L!TakePayment(k, a)
  \/ \E k \in DOMAIN db.paid, a \in A : L!ReturnPayment(k, a)
  \/ \E d \in Held, a \in A : L!RepayDeposit(d, a)

\* A commit makes the entry in flight.
LEMMA CommitEntry ==
  ASSUME TypeOK, NEW P, NEW A, NEW s \in Sessions, EntryOf(P, A, txn[s]), Commit(s)
  PROVE  EntryStep(P, A) \/ UNCHANGED L!ledger
<1>. DEFINE W == txn[s]
<1>1. EntryOf(P, A, W) /\ IsDatabase(db)
  BY DEF TypeOK
<1>2. /\ db'.status = Overlay(W.status, db.status)
      /\ db'.paid = Overlay(W.paid, db.paid)
      /\ db'.deposit = Overlay(W.deposit, db.deposit)
      /\ db'.depStatus = Overlay(W.depStatus, db.depStatus)
      /\ db'.refunded = Overlay(W.refunded, db.refunded)
      /\ db'.depRefund = Overlay(W.depRefund, db.depRefund)
  BY DEF Commit
<1>3. /\ Overlay(Empty, db.paid) = db.paid
      /\ Overlay(Empty, db.deposit) = db.deposit
      /\ Overlay(Empty, db.depStatus) = db.depStatus
      /\ Overlay(Empty, db.refunded) = db.refunded
      /\ Overlay(Empty, db.depRefund) = db.depRefund
  BY <1>1, OverlayEmpty DEF IsDatabase
<1>4. Invoices' = Invoices \cup DOMAIN W.status
  BY <1>2 DEF Invoices, Overlay
<1>5. CASE NoEntry(W)
  <2>1. UNCHANGED <<Invoices, db.paid, db.deposit, db.depStatus, db.refunded, db.depRefund>>
    BY <1>2, <1>3, <1>4, <1>5 DEF NoEntry
  <2>2. UNCHANGED <<Deposits, Held>>
    BY <2>1 DEF Deposits, Held
  <2>. QED
    BY <2>1, <2>2 DEF L!ledger, Deposits, Held
<1>6. ASSUME NEW d \in 1 .. MaxDeposits, NEW a \in A, DepositEntry(W, d, a)
      PROVE  EntryStep(P, A)
  <2>1. UNCHANGED <<Invoices, db.paid, db.refunded, db.depRefund>>
    BY <1>2, <1>3, <1>4, <1>6 DEF DepositEntry, Empty
  <2>2. d \notin DOMAIN Deposits /\ Deposits' = L!Enter(d, a, Deposits)
    BY <1>2, <1>6 DEF Deposits, DepositEntry, Overlay, L!Enter
  <2>3. Held' \in {Held, Held \cup {d}}
    <3>1. d \notin DOMAIN db.depStatus
      BY <1>1, <1>6 DEF DepositEntry, TypeOK
    <3>2. Held' = Held \cup {e \in {d} : W.depStatus[e] = "collected"}
      BY <1>2, <1>6, <3>1 DEF Held, DepositEntry, Overlay
    <3>. QED
      BY <3>2
  <2>4. L!TakeDeposit(d, a)
    BY <2>1, <2>2, <2>3 DEF L!TakeDeposit, Deposits, Held
  <2>. QED
    BY <2>4 DEF EntryStep
<1>7. ASSUME NEW w \in WorkOrders, NEW D \in SUBSET Held, InvoiceEntry(W, w, D)
      PROVE  EntryStep(P, A)
  <2>1. UNCHANGED <<db.deposit, db.refunded, db.depRefund>> /\ Invoices' = Invoices \cup {w}
    BY <1>2, <1>3, <1>4, <1>7 DEF InvoiceEntry
  <2>2. UNCHANGED Deposits
    BY <2>1 DEF Deposits
  <2>3. Held' = Held \ D
    BY <1>2, <1>7 DEF Held, InvoiceEntry, Overlay
  <2>4. \A d \in D : L!Transfer(w, d) = Transfer(w, d)
    BY DEF L!Transfer, Transfer
  <2>5. db'.paid = [k \in DOMAIN db.paid \cup {Transfer(w, d) : d \in D} |->
                      IF k \in DOMAIN db.paid THEN db.paid[k] ELSE Deposits[k.n]]
    <3>1. \A k \in {Transfer(w, d) : d \in D} :
            k \notin DOMAIN db.paid /\ Deposits[k.n] = db.deposit[k.n].amount
      BY <1>1, <1>7 DEF InvoiceEntry, Transfer, TypeOK, Held, Deposits
    <3>2. /\ DOMAIN W.paid = {Transfer(w, d) : d \in D}
          /\ \A k \in DOMAIN W.paid : W.paid[k] = db.deposit[k.n].amount
      BY <1>7 DEF InvoiceEntry
    <3>. HIDE DEF W
    <3>. QED
      BY <1>2, <3>1, <3>2 DEF Overlay
  <2>6. L!MakeInvoice(w, D)
    BY <1>7, <2>1, <2>2, <2>3, <2>4, <2>5 DEF L!MakeInvoice, InvoiceEntry, Deposits, Held
  <2>. QED
    BY <2>6 DEF EntryStep
<1>8. ASSUME NEW k \in P, NEW a \in A, PaymentEntry(W, k, a)
      PROVE  EntryStep(P, A)
  <2>1. UNCHANGED <<Invoices, db.deposit, db.depStatus, db.refunded, db.depRefund>>
    BY <1>2, <1>3, <1>4, <1>8 DEF PaymentEntry
  <2>2. UNCHANGED <<Deposits, Held>>
    BY <2>1 DEF Deposits, Held
  <2>3. db'.paid = L!Enter(k, a, db.paid)
    BY <1>2, <1>8, OverlayAt DEF PaymentEntry
  <2>4. L!TakePayment(k, a)
    BY <1>8, <2>1, <2>2, <2>3 DEF L!TakePayment, PaymentEntry, Deposits, Held
  <2>. QED
    BY <2>4 DEF EntryStep
<1>9. ASSUME NEW k \in DOMAIN db.paid, NEW a \in A, ReturnEntry(W, k, a)
      PROVE  EntryStep(P, A)
  <2>1. UNCHANGED <<Invoices, db.paid, db.deposit, db.depStatus, db.depRefund>>
    BY <1>2, <1>3, <1>4, <1>9 DEF ReturnEntry
  <2>2. UNCHANGED <<Deposits, Held>>
    BY <2>1 DEF Deposits, Held
  <2>3. db'.refunded = L!Enter(k, a, db.refunded)
    BY <1>2, <1>9, OverlayAt DEF ReturnEntry
  <2>4. L!ReturnPayment(k, a)
    BY <1>9, <2>1, <2>2, <2>3 DEF L!ReturnPayment, ReturnEntry, Deposits, Held
  <2>. QED
    BY <2>4 DEF EntryStep
<1>10. ASSUME NEW d \in Held, NEW a \in A, RepayEntry(W, d, a)
       PROVE  EntryStep(P, A)
  <2>1. UNCHANGED <<Invoices, db.paid, db.deposit, db.refunded>>
    BY <1>2, <1>3, <1>4, <1>10 DEF RepayEntry, Empty
  <2>2. UNCHANGED Deposits /\ Deposits[d] = db.deposit[d].amount
    BY <1>1, <2>1 DEF Deposits, Held, TypeOK
  <2>3. Held' = Held \ {d}
    BY <1>2, <1>10 DEF Held, RepayEntry, Overlay, At
  <2>4. db'.depRefund = L!Enter(d, a, db.depRefund)
    BY <1>2, <1>10, OverlayAt DEF RepayEntry
  <2>5. L!RepayDeposit(d, a)
    BY <1>10, <2>1, <2>2, <2>3, <2>4 DEF L!RepayDeposit, RepayEntry, Deposits, Held
  <2>. QED
    BY <2>5 DEF EntryStep
<1>. QED
  BY <1>1, <1>5, <1>6, <1>7, <1>8, <1>9, <1>10 DEF EntryOf

\* An empty database is an empty ledger.
LEMMA InitLedger == Init => L!Init
BY DEF Init, L!Init, Invoices, Empty

\* Requests one after another: the rows of billing are a ledger in which every entry
\* is made once and as the ledger permits, whatever sequence of requests makes it.
THEOREM LedgerKeptCorrect ==
  ASSUME Serial
  PROVE  Spec => LedgerKept
<1>1. Init => EntryInv
  <2>1. ASSUME Init PROVE \A s \in Sessions : Entry(txn[s])
    BY <2>1, NoWritesEntry DEF Init, Entry
  <2>. QED
    BY <2>1, InitInv DEF EntryInv, BillingInv
<1>2. EntryInv /\ [Next]_vars /\ TypeOK' => EntryInv'
  BY NextEntryInv
<1>3. EntryInv /\ [Next]_vars => [L!Next]_(L!ledger)
  <2>. SUFFICES ASSUME EntryInv, [Next]_vars
                PROVE  [L!Next]_(L!ledger)
    OBVIOUS
  <2>1. CASE db' = db
    BY <2>1 DEF L!ledger, Invoices
  <2>2. ASSUME NEW s \in Sessions, Commit(s)
        PROVE  [L!Next]_(L!ledger)
    <3>1. EntryStep(PostedPayment, Amounts) \/ UNCHANGED L!ledger
      BY <2>2, CommitEntry DEF EntryInv, Entry
    <3>. QED
      BY <3>1 DEF EntryStep, L!Next, Held
  <2>. QED
    BY <2>1, <2>2, RequestReads DEF Next, vars, Rollback
<1>. QED
  BY <1>1, <1>2, <1>3, InitLedger, TypeCorrect, PTL DEF Spec, LedgerKept, L!Spec

----------------------------------------------------------------------------
(* Balances.  The invariant says of the request in flight what its commit   *)
(* will do to the account of each invoice, computed as Gross, Net, Owed and *)
(* Balance do for the rows as they are.                                     *)

RowsOf(f, w) == {k \in DOMAIN f : k.inv = w}
PaymentsIn(d, w) == RowsOf(d.paid, w)
RefundsIn(d, w) == RowsOf(d.refunded, w)
GrossIn(d, w) == SumFunctionOnSet(d.paid, PaymentsIn(d, w))
RefundedIn(d, w) == SumFunctionOnSet(d.refunded, RefundsIn(d, w))
CreditIn(d, w) == IF w \in DOMAIN d.credit THEN d.credit[w] ELSE 0
OwedIn(d, w) == d.due[w] - CreditIn(d, w)

\* The rows d once the writes W are committed.
After(d, W) ==
  [woStatus |-> Overlay(W.woStatus, d.woStatus), status |-> Overlay(W.status, d.status),
   due |-> Overlay(W.due, d.due), credit |-> Overlay(W.credit, d.credit),
   paid |-> Overlay(W.paid, d.paid), refunded |-> Overlay(W.refunded, d.refunded),
   deposit |-> Overlay(W.deposit, d.deposit),
   depStatus |-> Overlay(W.depStatus, d.depStatus),
   depInvoice |-> Overlay(W.depInvoice, d.depInvoice),
   depRefund |-> Overlay(W.depRefund, d.depRefund), dispute |-> Overlay(W.dispute, d.dispute)]

\* What the balance properties say of the invoice w.
StillOwes(d, w) ==
  w \in DOMAIN d.status /\ d.status[w] = "issued" => OwedIn(d, w) > GrossIn(d, w) - RefundedIn(d, w)
PostedCovered(d, e, w) ==
  (\E k \in DOMAIN e.paid \ DOMAIN d.paid : k.inv = w /\ k.origin = "posted")
    => GrossIn(e, w) <= OwedIn(e, w)
SettledWhenPaid(d, e, w) ==
  w \in DOMAIN e.status /\ e.status[w] = "paid" /\ ~(w \in DOMAIN d.status /\ d.status[w] = "paid")
    => OwedIn(e, w) <= GrossIn(e, w)
PaidKept(d, e, w) ==
  w \in DOMAIN d.status /\ d.status[w] = "paid" =>
    /\ e.due[w] = d.due[w]
    /\ \/ e.status[w] = "paid"
       \/ \E k \in DOMAIN e.dispute : k.inv = w /\ e.dispute[k] # "under_review"
            /\ (k \notin DOMAIN d.dispute \/ e.dispute[k] # d.dispute[k])
       \/ RefundsIn(e, w) # RefundsIn(d, w) /\ OwedIn(e, w) > GrossIn(e, w) - RefundedIn(e, w)
Fair(d, e, w) ==
  /\ StillOwes(e, w) /\ PostedCovered(d, e, w) /\ PaidKept(d, e, w)
  /\ "paid" \notin StaffStatuses => SettledWhenPaid(d, e, w)

\* Sums are over finitely many rows; amounts due and credits are those of invoices.
Accounts(d) ==
  /\ IsFiniteSet(DOMAIN d.paid) /\ IsFiniteSet(DOMAIN d.refunded) /\ IsFiniteSet(DOMAIN d.deposit)
  /\ DOMAIN d.due = DOMAIN d.status /\ DOMAIN d.credit \subseteq DOMAIN d.status
Keeps(d, W) == Accounts(After(d, W)) /\ \A w \in WorkOrders : Fair(d, After(d, W), w)

BalanceInv ==
  /\ BillingInv /\ Accounts(db)
  /\ \A w \in WorkOrders : StillOwes(db, w)
  /\ \A s \in Sessions : Keeps(db, txn[s])

\* What Billing computes from the rows as they are.
LEMMA BalanceOf ==
  ASSUME NEW w
  PROVE  /\ Gross(w) = GrossIn(db, w) /\ Credit(w) = CreditIn(db, w) /\ Owed(w) = OwedIn(db, w)
         /\ Net(w) = GrossIn(db, w) - RefundedIn(db, w)
         /\ Balance(w) = OwedIn(db, w) - GrossIn(db, w)
BY DEF Gross, Credit, Owed, Net, Balance, GrossIn, CreditIn, OwedIn, RefundedIn, PaymentsIn,
       RefundsIn, RowsOf, PaymentsOf, RefundsOf

\* Rows of other invoices do not count.
LEMMA SumElsewhere ==
  ASSUME NEW f, NEW new, NEW g, g = Overlay(new, f), NEW w, IsFiniteSet(DOMAIN f),
         \A k \in DOMAIN new : k.inv # w
  PROVE  /\ RowsOf(g, w) = RowsOf(f, w)
         /\ SumFunctionOnSet(g, RowsOf(g, w)) =
            SumFunctionOnSet(f, RowsOf(f, w))
<1>. DEFINE S == RowsOf(f, w)
<1>1. RowsOf(g, w) = S
  BY DEF RowsOf, Overlay
<1>2. IsFiniteSet(S)
  BY FS_Subset DEF RowsOf
<1>3. \A k \in S : g[k] = f[k]
  BY DEF RowsOf, Overlay
<1>. HIDE DEF S
<1>4. SumFunctionOnSet(g, S) = SumFunctionOnSet(f, S)
  BY <1>2, <1>3, SumSame
<1>. QED
  BY <1>1, <1>4 DEF S

\* A row that is inserted adds its amount to its invoice.
LEMMA SumInserted ==
  ASSUME NEW f, NEW k, NEW a \in Nat, NEW g, g = Overlay(At(k, a), f), k \notin DOMAIN f,
         IsFiniteSet(DOMAIN f), \A j \in DOMAIN f : f[j] \in Nat
  PROVE  SumFunctionOnSet(g, RowsOf(g, k.inv)) =
         SumFunctionOnSet(f, RowsOf(f, k.inv)) + a
<1>. DEFINE S == RowsOf(f, k.inv)
<1>1. /\ DOMAIN g = DOMAIN f \cup {k} /\ g[k] = a
      /\ \A j \in DOMAIN f : g[j] = f[j]
  BY DEF Overlay, At
<1>2. RowsOf(g, k.inv) = S \cup {k} /\ k \notin S /\ IsFiniteSet(S)
  BY <1>1, FS_Subset DEF RowsOf
<1>3. (\A j \in S : g[j] = f[j]) /\ (\A j \in S : f[j] \in Nat) /\ (\A j \in S \cup {k} : g[j] \in Nat)
  BY <1>1 DEF RowsOf
<1>. HIDE DEF S
<1>4. SumFunctionOnSet(g, S \cup {k}) = g[k] + SumFunctionOnSet(g, S)
  BY <1>2, <1>3, SumAdd
<1>5. SumFunctionOnSet(g, S) = SumFunctionOnSet(f, S) /\ SumFunctionOnSet(f, S) \in Nat
  BY <1>2, <1>3, SumSame, SumNat
<1>6. SumFunctionOnSet(g, S \cup {k}) = SumFunctionOnSet(f, S) + a
  BY <1>1, <1>4, <1>5
<1>. QED
  BY <1>2, <1>6 DEF S

\* Amounts add up to amounts.
LEMMA SumsNat ==
  ASSUME NEW d, IsDatabase(d), Accounts(d), NEW w
  PROVE  GrossIn(d, w) \in Nat /\ RefundedIn(d, w) \in Nat /\ CreditIn(d, w) \in Nat
<1>1. /\ \A k \in DOMAIN d.paid : d.paid[k] \in Nat
      /\ \A k \in DOMAIN d.refunded : d.refunded[k] \in Nat
      /\ \A v \in DOMAIN d.credit : d.credit[v] \in Nat
  BY DEF IsDatabase, IsColumn
<1>2. IsFiniteSet(PaymentsIn(d, w)) /\ IsFiniteSet(RefundsIn(d, w))
  BY FS_Subset DEF Accounts, PaymentsIn, RefundsIn, RowsOf
<1>3. (\A k \in PaymentsIn(d, w) : d.paid[k] \in Nat) /\ (\A k \in RefundsIn(d, w) : d.refunded[k] \in Nat)
  BY <1>1 DEF PaymentsIn, RefundsIn, RowsOf
<1>4. GrossIn(d, w) \in Nat /\ RefundedIn(d, w) \in Nat
  BY <1>2, <1>3, SumNat DEF GrossIn, RefundedIn
<1>. QED
  BY <1>1, <1>4 DEF CreditIn

\* What W writes elsewhere, it leaves the account of w alone.
Untouched(W, w) ==
  /\ w \notin DOMAIN W.status \cup DOMAIN W.due \cup DOMAIN W.credit
  /\ \A k \in DOMAIN W.paid \cup DOMAIN W.refunded : k.inv # w

LEMMA UntouchedFair ==
  ASSUME NEW d, NEW W, NEW w, Accounts(d), StillOwes(d, w), Untouched(W, w)
  PROVE  Fair(d, After(d, W), w)
<1>. DEFINE e == After(d, W)
<1>1. /\ e.status = Overlay(W.status, d.status) /\ e.due = Overlay(W.due, d.due)
      /\ e.credit = Overlay(W.credit, d.credit)
      /\ e.paid = Overlay(W.paid, d.paid) /\ e.refunded = Overlay(W.refunded, d.refunded)
  BY DEF After
<1>. HIDE DEF e
<1>2. GrossIn(e, w) = GrossIn(d, w) /\ RefundedIn(e, w) = RefundedIn(d, w)
  <2>1. IsFiniteSet(DOMAIN d.paid) /\ \A k \in DOMAIN W.paid : k.inv # w
    BY DEF Accounts, Untouched
  <2>2. GrossIn(e, w) = GrossIn(d, w)
    BY <1>1, <2>1, SumElsewhere DEF GrossIn, PaymentsIn
  <2>3. IsFiniteSet(DOMAIN d.refunded) /\ \A k \in DOMAIN W.refunded : k.inv # w
    BY DEF Accounts, Untouched
  <2>4. RefundedIn(e, w) = RefundedIn(d, w)
    BY <1>1, <2>3, SumElsewhere DEF RefundedIn, RefundsIn
  <2>. QED
    BY <2>2, <2>4
<1>3. /\ w \in DOMAIN e.status <=> w \in DOMAIN d.status
      /\ w \in DOMAIN d.status => e.status[w] = d.status[w] /\ e.due[w] = d.due[w]
      /\ CreditIn(e, w) = CreditIn(d, w)
  BY <1>1 DEF Accounts, Untouched, Overlay, CreditIn
<1>4. w \in DOMAIN d.status => OwedIn(e, w) = OwedIn(d, w)
  BY <1>3 DEF OwedIn
<1>5. StillOwes(e, w)
  BY <1>2, <1>3, <1>4 DEF StillOwes
<1>6. PostedCovered(d, e, w)
  BY <1>1 DEF PostedCovered, Untouched, Overlay
<1>7. SettledWhenPaid(d, e, w)
  BY <1>3 DEF SettledWhenPaid
<1>8. PaidKept(d, e, w)
  BY <1>3 DEF PaidKept
<1>. QED
  BY <1>5, <1>6, <1>7, <1>8 DEF Fair, e

\* Well-typed writes leave finitely many rows, and amounts due only to invoices.
LEMMA AfterAccounts ==
  ASSUME BillingInv, Accounts(db), NEW W, IsDatabase(W), Grounded(W), DOMAIN W.credit \subseteq Invoices,
         IsFiniteSet(DOMAIN W.paid), IsFiniteSet(DOMAIN W.refunded), IsFiniteSet(DOMAIN W.deposit)
  PROVE  Accounts(After(db, W))
<1>. DEFINE e == After(db, W)
<1>1. /\ e.paid = Overlay(W.paid, db.paid) /\ e.refunded = Overlay(W.refunded, db.refunded)
      /\ e.deposit = Overlay(W.deposit, db.deposit)
      /\ DOMAIN e.status = DOMAIN W.status \cup Invoices
      /\ DOMAIN e.due = DOMAIN W.due \cup DOMAIN db.due
      /\ DOMAIN e.credit = DOMAIN W.credit \cup DOMAIN db.credit
  BY DEF After, Overlay, Invoices
<1>. HIDE DEF e
<1>2. IsFiniteSet(DOMAIN e.paid) /\ IsFiniteSet(DOMAIN e.refunded) /\ IsFiniteSet(DOMAIN e.deposit)
  BY <1>1, OverlayFinite DEF Accounts
<1>3. DOMAIN e.due = DOMAIN e.status /\ DOMAIN e.credit \subseteq DOMAIN e.status
  BY <1>1 DEF Accounts, Grounded, Invoices
<1>. QED
  BY <1>2, <1>3 DEF Accounts, e

\* Writes to the account of one invoice: that account is what remains to be looked at.
LEMMA OneAccount ==
  ASSUME BalanceInv, NEW W, NEW w, \A v \in WorkOrders : v # w => Untouched(W, v),
         IsDatabase(W), Grounded(W), DOMAIN W.credit \subseteq Invoices,
         IsFiniteSet(DOMAIN W.paid), IsFiniteSet(DOMAIN W.refunded), IsFiniteSet(DOMAIN W.deposit),
         Fair(db, After(db, W), w)
  PROVE  Keeps(db, W)
BY AfterAccounts, UntouchedFair DEF BalanceInv, Keeps

\* Writes to no account.
LEMMA NoAccount ==
  ASSUME BalanceInv, NEW W, IsDatabase(W), Grounded(W),
         W.status = Empty, W.due = Empty, W.credit = Empty, W.paid = Empty, W.refunded = Empty,
         IsFiniteSet(DOMAIN W.deposit)
  PROVE  Keeps(db, W)
<1>1. \A w : Untouched(W, w)
  BY EmptyRows DEF Untouched
<1>2. IsFiniteSet(DOMAIN W.paid) /\ IsFiniteSet(DOMAIN W.refunded) /\ DOMAIN W.credit \subseteq Invoices
  BY EmptyRows, FS_EmptySet
<1>. QED
  BY <1>1, <1>2, AfterAccounts, UntouchedFair DEF BalanceInv, Keeps

----------------------------------------------------------------------------
(* Requests.                                                               *)

\* What a request begins with is well-typed and grounded: BillingInv is kept.
LEMMA BegunWrites ==
  ASSUME BillingInv, NEW s \in Sessions, Request(s), NEW W, Begin(s, W)
  PROVE  IsDatabase(W) /\ Grounded(W)
<1>1. BillingInv' /\ db' = db /\ txn'[s] = W
  BY NextInv DEF Next, Begin, BillingInv, TypeOK
<1>2. IsDatabase(W)
  BY <1>1 DEF BillingInv, TypeOK
<1>3. Grounded(txn[s])'
  BY <1>1 DEF BillingInv, PendingGrounded
<1>. QED
  BY <1>1, <1>2, <1>3 DEF Grounded, Invoices, Transfer

\* The account of an invoice as it is: types for the arithmetic below.
LEMMA AccountType ==
  ASSUME BalanceInv, NEW w \in Invoices
  PROVE  /\ GrossIn(db, w) \in Nat /\ RefundedIn(db, w) \in Nat /\ CreditIn(db, w) \in Nat
         /\ db.due[w] \in Nat /\ db.status[w] \in InvoiceStatus
         /\ w \in DOMAIN db.due /\ w \in DOMAIN db.status /\ w \in WorkOrders
         /\ OwedIn(db, w) \in Int
<1>1. IsDatabase(db) /\ Accounts(db) /\ w \in DOMAIN db.due /\ w \in DOMAIN db.status
  BY DEF BalanceInv, BillingInv, TypeOK, Accounts, Invoices
<1>2. GrossIn(db, w) \in Nat /\ RefundedIn(db, w) \in Nat /\ CreditIn(db, w) \in Nat
  BY <1>1, SumsNat
<1>3. db.due[w] \in Nat /\ db.status[w] \in InvoiceStatus /\ w \in WorkOrders
  BY <1>1 DEF IsDatabase, IsColumn
<1>. QED
  BY <1>1, <1>2, <1>3 DEF OwedIn

\* A new payment of an invoice, with the status that create_payment and the webhook
\* compute.
PaymentWrites(k, a) ==
  [NoWrites EXCEPT !.paid = At(k, a),
                   !.status = IF Balance(k.inv) - a <= 0
                              THEN Update(db.status, k.inv, "paid") ELSE Empty]

LEMMA PaymentKeeps ==
  ASSUME BalanceInv, NEW k, NEW a \in Nat, k.inv \in Invoices, k \notin DOMAIN db.paid,
         k.origin = "posted" => a <= Balance(k.inv),
         IsDatabase(PaymentWrites(k, a)), Grounded(PaymentWrites(k, a))
  PROVE  Keeps(db, PaymentWrites(k, a))
<1>. DEFINE w == k.inv
            W == PaymentWrites(k, a)
            e == After(db, W)
            status == IF Balance(w) - a <= 0 THEN Update(db.status, w, "paid") ELSE Empty
<1>1. /\ W.paid = At(k, a) /\ W.status = status /\ W.due = Empty /\ W.credit = Empty
      /\ W.refunded = Empty /\ W.deposit = Empty
  BY DEF PaymentWrites, NoWrites
<1>2. /\ e.paid = Overlay(At(k, a), db.paid) /\ e.status = Overlay(status, db.status)
      /\ e.due = db.due /\ e.credit = db.credit /\ e.refunded = db.refunded
  BY <1>1, OverlayEmpty DEF After, BalanceInv, BillingInv, TypeOK, IsDatabase
<1>3. DOMAIN status \subseteq {w}
  BY UpdateRow
<1>4. /\ \A j \in DOMAIN db.paid : db.paid[j] \in Nat
      /\ IsFiniteSet(DOMAIN db.paid)
  BY DEF BalanceInv, BillingInv, TypeOK, IsDatabase, IsColumn, Accounts
<1>5. GrossIn(e, w) = GrossIn(db, w) + a
  BY <1>2, <1>4, SumInserted DEF GrossIn, PaymentsIn
<1>6. /\ RefundedIn(e, w) = RefundedIn(db, w) /\ RefundsIn(e, w) = RefundsIn(db, w)
      /\ OwedIn(e, w) = OwedIn(db, w)
  BY <1>2 DEF RefundedIn, RefundsIn, OwedIn, CreditIn
<1>7. w \in Invoices /\ w \in DOMAIN e.status
      /\ e.status[w] = IF Balance(w) - a <= 0 THEN "paid" ELSE db.status[w]
  BY <1>2 DEF Overlay, Update, At, Empty, Invoices
<1>8. Balance(w) = OwedIn(db, w) - GrossIn(db, w)
  BY BalanceOf
<1>9. Fair(db, e, w)
  <2>. HIDE DEF e, w, W, status
  <2>1. StillOwes(e, w)
    BY <1>5, <1>6, <1>7, <1>8, AccountType DEF StillOwes
  <2>2. PostedCovered(db, e, w)
    <3>1. ASSUME NEW j \in DOMAIN e.paid \ DOMAIN db.paid, j.inv = w, j.origin = "posted"
          PROVE  GrossIn(e, w) <= OwedIn(e, w)
      <4>1. j = k
        BY <1>2, <3>1 DEF Overlay, At
      <4>. QED
        BY <1>5, <1>6, <1>7, <1>8, <3>1, <4>1, AccountType DEF w
    <3>. QED
      BY <3>1 DEF PostedCovered
  <2>3. SettledWhenPaid(db, e, w)
    BY <1>5, <1>6, <1>7, <1>8, AccountType DEF SettledWhenPaid, Invoices
  <2>4. PaidKept(db, e, w)
    BY <1>2, <1>7 DEF PaidKept
  <2>. QED
    BY <2>1, <2>2, <2>3, <2>4 DEF Fair
<1>10. /\ DOMAIN W.paid = {k} /\ DOMAIN W.status \subseteq {w} /\ DOMAIN W.due = {}
       /\ DOMAIN W.credit = {} /\ DOMAIN W.refunded = {} /\ DOMAIN W.deposit = {}
  <2>. HIDE DEF W, status, e, w
  <2>. QED
    BY <1>1, <1>3, UpdateRow
<1>. HIDE DEF W, e
<1>11. \A v \in WorkOrders : v # w => Untouched(W, v)
  BY <1>10 DEF Untouched
<1>12. IsFiniteSet(DOMAIN W.paid) /\ IsFiniteSet(DOMAIN W.refunded) /\ IsFiniteSet(DOMAIN W.deposit)
  BY <1>10, FewRows
<1>. QED
  BY <1>9, <1>10, <1>11, <1>12, OneAccount DEF W, e

LEMMA CreatePaymentKeeps ==
  ASSUME BalanceInv, NEW s \in Sessions, Request(s), NEW w, NEW n, NEW a \in Amounts,
         NEW ids, CreatePayment(s, w, n, a, ids)
  PROVE  \E W : Begin(s, W) /\ Keeps(db, W)
<1>. DEFINE k == Posted(w, n, ids)
            W == PaymentWrites(k, a)
<1>1. Begin(s, W) /\ a <= Balance(w) /\ w \in Invoices /\ FreshPayment(n)
  <2>1. k.inv = w
    BY DEF Posted
  <2>. QED
    BY <2>1 DEF CreatePayment, PaymentWrites
<1>2. a \in Nat /\ k.inv = w /\ k.origin = "posted" /\ k.n = n
  BY BillingAssumption DEF Posted
<1>3. k \notin DOMAIN db.paid
  BY <1>1, <1>2 DEF FreshPayment
<1>4. IsDatabase(W) /\ Grounded(W)
  BY <1>1, BegunWrites DEF BalanceInv
<1>5. Keeps(db, W)
  <2>. HIDE DEF k
  <2>. QED
    BY <1>1, <1>2, <1>3, <1>4, PaymentKeeps
<1>. QED
  BY <1>1, <1>5

\* A refund, with the status that refund_payment computes.
LEMMA RefundKeeps ==
  ASSUME BalanceInv, NEW k, NEW a \in Nat, k.inv \in Invoices, k \notin DOMAIN db.refunded,
         IsDatabase(RefundWrites(k, a)), Grounded(RefundWrites(k, a))
  PROVE  Keeps(db, RefundWrites(k, a))
<1>. DEFINE w == k.inv
            W == RefundWrites(k, a)
            e == After(db, W)
            status == IF Owed(w) > Net(w) - a THEN Update(db.status, w, "issued") ELSE Empty
<1>1. /\ W.refunded = At(k, a) /\ W.status = status /\ W.due = Empty /\ W.credit = Empty
      /\ W.paid = Empty /\ W.deposit = Empty
  BY DEF RefundWrites, NoWrites
<1>2. /\ e.refunded = Overlay(At(k, a), db.refunded) /\ e.status = Overlay(status, db.status)
      /\ e.due = db.due /\ e.credit = db.credit /\ e.paid = db.paid
  BY <1>1, OverlayEmpty DEF After, BalanceInv, BillingInv, TypeOK, IsDatabase
<1>3. DOMAIN status \subseteq {w}
  BY UpdateRow
<1>4. /\ \A j \in DOMAIN db.refunded : db.refunded[j] \in Nat
      /\ IsFiniteSet(DOMAIN db.refunded)
  BY DEF BalanceInv, BillingInv, TypeOK, IsDatabase, IsColumn, Accounts
<1>5. RefundedIn(e, w) = RefundedIn(db, w) + a
  BY <1>2, <1>4, SumInserted DEF RefundedIn, RefundsIn
<1>6. GrossIn(e, w) = GrossIn(db, w) /\ OwedIn(e, w) = OwedIn(db, w)
  BY <1>2 DEF GrossIn, PaymentsIn, OwedIn, CreditIn
<1>7. w \in Invoices /\ w \in DOMAIN e.status
      /\ e.status[w] = IF Owed(w) > Net(w) - a THEN "issued" ELSE db.status[w]
  BY <1>2 DEF Overlay, Update, At, Empty, Invoices
<1>8. Owed(w) = OwedIn(db, w) /\ Net(w) = GrossIn(db, w) - RefundedIn(db, w)
  BY BalanceOf
<1>9. RefundsIn(e, w) # RefundsIn(db, w)
  BY <1>2 DEF RefundsIn, RowsOf, Overlay, At
<1>10. Fair(db, e, w)
  <2>1. StillOwes(db, w)
    BY <1>7, AccountType DEF BalanceInv
  <2>. HIDE DEF e, w, W, status
  <2>2. StillOwes(e, w)
    BY <1>5, <1>6, <1>7, <1>8, <2>1, AccountType DEF StillOwes
  <2>3. PostedCovered(db, e, w)
    BY <1>2 DEF PostedCovered
  <2>4. SettledWhenPaid(db, e, w)
    BY <1>7, AccountType DEF SettledWhenPaid, Invoices
  <2>5. PaidKept(db, e, w)
    BY <1>2, <1>5, <1>6, <1>7, <1>8, <1>9, AccountType DEF PaidKept
  <2>. QED
    BY <2>2, <2>3, <2>4, <2>5 DEF Fair
<1>11. /\ DOMAIN W.refunded = {k} /\ DOMAIN W.status \subseteq {w} /\ DOMAIN W.due = {}
       /\ DOMAIN W.credit = {} /\ DOMAIN W.paid = {} /\ DOMAIN W.deposit = {}
  <2>. HIDE DEF W, status, e, w
  <2>. QED
    BY <1>1, <1>3, UpdateRow
<1>. HIDE DEF W, e
<1>12. \A v \in WorkOrders : v # w => Untouched(W, v)
  BY <1>11 DEF Untouched
<1>13. IsFiniteSet(DOMAIN W.paid) /\ IsFiniteSet(DOMAIN W.refunded) /\ IsFiniteSet(DOMAIN W.deposit)
  BY <1>11, FewRows
<1>. QED
  BY <1>10, <1>11, <1>12, <1>13, OneAccount DEF W, e

LEMMA RefundPaymentKeeps ==
  ASSUME BalanceInv, NEW s \in Sessions, Request(s), NEW k \in DOMAIN db.paid, NEW a \in Amounts,
         RefundPayment(s, k, a)
  PROVE  \E W : Begin(s, W) /\ Keeps(db, W)
<1>1. Begin(s, RefundWrites(k, a)) /\ k \notin DOMAIN db.refunded
  BY DEF RefundPayment, PaymentRefundable
<1>2. a \in Nat /\ k.inv \in Invoices
  BY BillingAssumption DEF BalanceInv, BillingInv, TypeOK
<1>. QED
  BY <1>1, <1>2, BegunWrites, RefundKeeps DEF BalanceInv

\* update_invoice pays an invoice whose balance it makes 0 and refuses a negative one.
LEMMA UpdateInvoiceKeeps ==
  ASSUME BalanceInv, NEW s \in Sessions, Request(s), NEW w \in Invoices,
         NEW st \in StaffStatuses \cup {db.status[w]}, NEW due \in Dues \cup {db.due[w]},
         NEW credit \in Credits \cup {Credit(w)}, UpdateInvoice(s, w, st, due, credit)
  PROVE  \E W : Begin(s, W) /\ Keeps(db, W)
<1>. DEFINE remaining == due - credit - Gross(w)
            status == IF st # "paid" /\ remaining = 0 THEN "paid" ELSE st
            statuses == Update(db.status, w, status)
            dues == Update(db.due, w, due)
            credits == IF credit = Credit(w) THEN Empty ELSE At(w, credit)
            W == [NoWrites EXCEPT !.status = statuses, !.due = dues, !.credit = credits]
            e == After(db, W)
<1>1. Begin(s, W) /\ MayUpdateInvoice(w, st, due) /\ (st # "paid" => remaining >= 0)
  BY DEF UpdateInvoice
<1>2. IsDatabase(W) /\ Grounded(W)
  BY <1>1, BegunWrites DEF BalanceInv
<1>3. /\ W.status = statuses /\ W.due = dues /\ W.credit = credits
      /\ W.paid = Empty /\ W.refunded = Empty /\ W.deposit = Empty
  BY DEF NoWrites
<1>. HIDE DEF W
<1>4. /\ e.status = Overlay(statuses, db.status) /\ e.due = Overlay(dues, db.due)
      /\ e.credit = Overlay(credits, db.credit) /\ e.paid = db.paid /\ e.refunded = db.refunded
  BY <1>3, OverlayEmpty DEF After, BalanceInv, BillingInv, TypeOK, IsDatabase
<1>5. DOMAIN statuses \subseteq {w} /\ DOMAIN dues \subseteq {w} /\ DOMAIN credits \subseteq {w}
  BY UpdateRow
<1>. HIDE DEF e
<1>6. /\ GrossIn(e, w) = GrossIn(db, w) /\ RefundedIn(e, w) = RefundedIn(db, w)
      /\ RefundsIn(e, w) = RefundsIn(db, w)
  BY <1>4 DEF GrossIn, PaymentsIn, RefundedIn, RefundsIn
<1>7. w \in DOMAIN e.status /\ e.status[w] = status /\ e.due[w] = due
  <2>. HIDE DEF status
  <2>. QED
    BY <1>4, AccountType DEF Overlay, Update, At, Empty, Invoices
<1>8. CreditIn(e, w) = credit
  BY <1>4 DEF CreditIn, Credit, Overlay, At, Empty
<1>9. Gross(w) = GrossIn(db, w) /\ Credit(w) = CreditIn(db, w)
  BY BalanceOf
<1>10. credit \in Nat /\ due \in Nat
  BY <1>9, AccountType, BillingAssumption
<1>11. OwedIn(e, w) = due - credit
  BY <1>7, <1>8 DEF OwedIn
<1>12. Fair(db, e, w)
  <2>1. StillOwes(e, w)
    BY <1>1, <1>6, <1>7, <1>9, <1>10, <1>11, AccountType DEF StillOwes
  <2>2. PostedCovered(db, e, w)
    BY <1>4 DEF PostedCovered
  <2>3. "paid" \notin StaffStatuses => SettledWhenPaid(db, e, w)
    BY <1>1, <1>6, <1>7, <1>9, <1>10, <1>11, AccountType DEF SettledWhenPaid, Invoices
  <2>4. PaidKept(db, e, w)
    BY <1>1, <1>7 DEF PaidKept, MayUpdateInvoice
  <2>. QED
    BY <2>1, <2>2, <2>3, <2>4 DEF Fair
<1>13. /\ DOMAIN W.status \subseteq {w} /\ DOMAIN W.due \subseteq {w} /\ DOMAIN W.credit \subseteq {w}
       /\ DOMAIN W.paid = {} /\ DOMAIN W.refunded = {} /\ DOMAIN W.deposit = {}
  <2>. HIDE DEF statuses, dues, credits
  <2>. QED
    BY <1>3, <1>5, EmptyRows
<1>14. \A v \in WorkOrders : v # w => Untouched(W, v)
  BY <1>13 DEF Untouched
<1>15. IsFiniteSet(DOMAIN W.paid) /\ IsFiniteSet(DOMAIN W.refunded) /\ IsFiniteSet(DOMAIN W.deposit)
  BY <1>13, FewRows
<1>16. Keeps(db, W)
  BY <1>2, <1>12, <1>13, <1>14, <1>15, OneAccount DEF e
<1>. QED
  BY <1>1, <1>16

\* create_invoice: the deposits credited to the new invoice are its only payments.
LEMMA CreateInvoiceKeeps ==
  ASSUME BalanceInv, NEW s \in Sessions, Request(s), NEW w \in WorkOrders, NEW due \in Dues,
         NEW st \in StaffStatuses, CreateInvoice(s, w, due, st)
  PROVE  \E W : Begin(s, W) /\ Keeps(db, W)
<1>. DEFINE D == ApplicableDeposits(w)
            T == TransfersTo(w)
            status == IF due - SumFunction(T) <= 0 THEN "paid" ELSE st
            W == [NoWrites EXCEPT !.created = {w}, !.status = At(w, status),
                                  !.due = At(w, due), !.paid = T,
                                  !.depStatus = [d \in D |-> "applied"],
                                  !.depInvoice = [d \in D |-> w]]
            e == After(db, W)
<1>1. Begin(s, W) /\ w \notin Invoices
  BY DEF CreateInvoice
<1>2. IsDatabase(W) /\ Grounded(W)
  BY <1>1, BegunWrites DEF BalanceInv
<1>3. /\ W.status = At(w, status) /\ W.due = At(w, due) /\ W.credit = Empty
      /\ W.paid = T /\ W.refunded = Empty /\ W.deposit = Empty
  <2>. HIDE DEF T, D, status
  <2>. QED
    BY DEF NoWrites
<1>4. \A k \in DOMAIN T : k.inv = w /\ T[k] \in Nat
  <2>1. \A k \in DOMAIN T : k.inv = w
    BY DEF TransfersTo, Transfer
  <2>2. \A k \in DOMAIN T : T[k] \in Nat
    <3>. HIDE DEF T
    <3>. QED
      BY <1>2, <1>3 DEF IsDatabase, IsColumn
  <2>. QED
    BY <2>1, <2>2
<1>5. IsFiniteSet(DOMAIN T)
  <2>1. IsFiniteSet(D)
    BY FS_Subset DEF ApplicableDeposits, MatchingDeposits, BalanceInv, Accounts
  <2>2. DOMAIN T = {Transfer(w, d) : d \in D}
    BY DEF TransfersTo
  <2>. HIDE DEF T, D
  <2>. DEFINE f == [d \in D |-> Transfer(w, d)]
  <2>3. f \in Surjection(D, DOMAIN T)
    BY <2>2 DEF Surjection
  <2>. HIDE DEF f
  <2>. QED
    BY <2>1, <2>3, FS_Surjection
<1>. HIDE DEF T, D, W
<1>6. /\ e.status = Overlay(At(w, status), db.status) /\ e.due = Overlay(At(w, due), db.due)
      /\ e.credit = db.credit /\ e.paid = Overlay(T, db.paid) /\ e.refunded = db.refunded
  BY <1>3, OverlayEmpty DEF After, BalanceInv, BillingInv, TypeOK, IsDatabase
<1>. HIDE DEF e
<1>7. w \notin DOMAIN db.credit /\ \A k \in DOMAIN db.paid : k.inv # w
  BY <1>1 DEF BalanceInv, BillingInv, TypeOK, Accounts, Invoices
<1>8. GrossIn(e, w) = SumFunction(T)
  <2>1. PaymentsIn(e, w) = DOMAIN T
    BY <1>4, <1>6, <1>7 DEF PaymentsIn, RowsOf, Overlay
  <2>2. \A k \in DOMAIN T : e.paid[k] = T[k]
    BY <1>6 DEF Overlay
  <2>3. SumFunctionOnSet(e.paid, DOMAIN T) = SumFunctionOnSet(T, DOMAIN T)
    BY <1>5, <2>2, SumSame
  <2>4. SumFunction(T) = SumFunctionOnSet(T, DOMAIN T)
    BY DEF SumFunction, SumFunctionOnSet, FoldFunction
  <2>. QED
    BY <2>1, <2>3, <2>4 DEF GrossIn
<1>9. RefundedIn(e, w) = 0
  <2>1. RefundsIn(e, w) = {}
    BY <1>6, <1>7 DEF RefundsIn, RowsOf, BalanceInv, BillingInv, RefundsCovered
  <2>. QED
    BY <2>1, SumEmpty DEF RefundedIn
<1>10. OwedIn(e, w) = due /\ e.status[w] = status /\ due \in Nat /\ SumFunction(T) \in Nat
  <2>1. SumFunction(T) \in Nat
    <3>1. SumFunctionOnSet(T, DOMAIN T) \in Nat
      BY <1>4, <1>5, SumNat
    <3>. QED
      BY <3>1 DEF SumFunction, SumFunctionOnSet, FoldFunction
  <2>2. e.due[w] = due /\ e.status[w] = status /\ due \in Nat
    <3>. HIDE DEF status
    <3>. QED
      BY <1>6, BillingAssumption DEF Overlay, At
  <2>3. CreditIn(e, w) = 0
    BY <1>6, <1>7 DEF CreditIn
  <2>. QED
    BY <2>1, <2>2, <2>3 DEF OwedIn
<1>11. Fair(db, e, w)
  <2>1. StillOwes(e, w)
    BY <1>8, <1>9, <1>10 DEF StillOwes
  <2>2. PostedCovered(db, e, w)
    <3>1. ASSUME NEW k \in DOMAIN e.paid \ DOMAIN db.paid, k.origin = "posted" PROVE FALSE
      <4>1. k \in DOMAIN T
        BY <1>6, <3>1 DEF Overlay
      <4>2. k.origin = "deposit_transfer"
        BY <4>1 DEF T, TransfersTo, Transfer
      <4>. QED
        BY <3>1, <4>2
    <3>. QED
      BY <3>1 DEF PostedCovered
  <2>3. "paid" \notin StaffStatuses => SettledWhenPaid(db, e, w)
    BY <1>8, <1>10 DEF SettledWhenPaid
  <2>4. PaidKept(db, e, w)
    BY <1>1 DEF PaidKept, Invoices
  <2>. QED
    BY <2>1, <2>2, <2>3, <2>4 DEF Fair
<1>12. /\ DOMAIN W.status = {w} /\ DOMAIN W.due = {w} /\ DOMAIN W.credit = {}
       /\ DOMAIN W.paid = DOMAIN T /\ DOMAIN W.refunded = {} /\ DOMAIN W.deposit = {}
  <2>. HIDE DEF status
  <2>. QED
    BY <1>3, AtRow, EmptyRows
<1>13. \A v \in WorkOrders : v # w => Untouched(W, v)
  BY <1>4, <1>12 DEF Untouched
<1>14. IsFiniteSet(DOMAIN W.paid) /\ IsFiniteSet(DOMAIN W.refunded) /\ IsFiniteSet(DOMAIN W.deposit)
  BY <1>5, <1>12, FewRows
<1>15. Keeps(db, W)
  BY <1>2, <1>11, <1>12, <1>13, <1>14, OneAccount DEF e
<1>. QED
  BY <1>1, <1>15 DEF W, T, D

\* Opening a dispute, or resolving it with a credit: the status follows the balance.
LEMMA CreateDisputeKeeps ==
  ASSUME BalanceInv, NEW s \in Sessions, Request(s), NEW w \in WorkOrders, NEW n,
         CreateDispute(s, w, n)
  PROVE  \E W : Begin(s, W) /\ Keeps(db, W)
<1>. DEFINE k == [inv |-> w, n |-> n]
            statuses == Update(db.status, w, "disputed")
            W == [NoWrites EXCEPT !.dispute = At(k, "open"), !.status = statuses]
            e == After(db, W)
<1>1. Begin(s, W) /\ w \in Invoices /\ FreshDispute(n)
  BY DEF CreateDispute
<1>2. IsDatabase(W) /\ Grounded(W)
  BY <1>1, BegunWrites DEF BalanceInv
<1>3. /\ W.status = statuses /\ W.due = Empty /\ W.credit = Empty /\ W.dispute = At(k, "open")
      /\ W.paid = Empty /\ W.refunded = Empty /\ W.deposit = Empty
  BY DEF NoWrites
<1>. HIDE DEF W
<1>4. /\ e.status = Overlay(statuses, db.status) /\ e.due = db.due
      /\ e.credit = db.credit /\ e.paid = db.paid /\ e.refunded = db.refunded
      /\ e.dispute = Overlay(At(k, "open"), db.dispute)
  BY <1>3, OverlayEmpty DEF After, BalanceInv, BillingInv, TypeOK, IsDatabase
<1>. HIDE DEF e
<1>5. e.status[w] = "disputed"
  BY <1>1, <1>4 DEF Overlay, Update, At, Empty, Invoices
<1>6. k.inv = w /\ k \in DOMAIN e.dispute /\ e.dispute[k] = "open" /\ k \notin DOMAIN db.dispute
  <2>1. k \notin DOMAIN db.dispute
    BY <1>1 DEF FreshDispute
  <2>. QED
    BY <1>4, <2>1 DEF Overlay, At
<1>7. Fair(db, e, w)
  <2>. HIDE DEF k
  <2>1. PaidKept(db, e, w)
    BY <1>4, <1>6 DEF PaidKept
  <2>. QED
    BY <1>4, <1>5, <2>1 DEF Fair, StillOwes, PostedCovered, SettledWhenPaid
<1>8. /\ DOMAIN W.status \subseteq {w} /\ DOMAIN W.due = {} /\ DOMAIN W.credit = {}
      /\ DOMAIN W.paid = {} /\ DOMAIN W.refunded = {} /\ DOMAIN W.deposit = {}
  BY <1>3, UpdateRow, EmptyRows
<1>9. \A v \in WorkOrders : v # w => Untouched(W, v)
  BY <1>8 DEF Untouched
<1>10. IsFiniteSet(DOMAIN W.paid) /\ IsFiniteSet(DOMAIN W.refunded) /\ IsFiniteSet(DOMAIN W.deposit)
  BY <1>8, FewRows
<1>11. Keeps(db, W)
  BY <1>2, <1>7, <1>8, <1>9, <1>10, OneAccount DEF e
<1>. QED
  BY <1>1, <1>11

LEMMA UpdateDisputeKeeps ==
  ASSUME BalanceInv, NEW s \in Sessions, Request(s), NEW k \in DOMAIN db.dispute,
         NEW st \in DisputeStatus, NEW c \in Credits \cup {0}, UpdateDispute(s, k, st, c)
  PROVE  \E W : Begin(s, W) /\ Keeps(db, W)
<1>. DEFINE w == k.inv
            resolves == st = "resolved" /\ db.dispute[k] # "resolved"
            disputes == Update(db.dispute, k, st)
            credits == IF c = 0 THEN Empty ELSE At(w, Credit(w) + c)
            statuses == IF resolves THEN Update(db.status, w, StatusAfterDispute(w, c)) ELSE Empty
            W == [NoWrites EXCEPT !.dispute = disputes, !.credit = credits, !.status = statuses]
            e == After(db, W)
<1>1. Begin(s, W) /\ (~resolves => c = 0)
  BY DEF UpdateDispute
<1>2. IsDatabase(W) /\ Grounded(W)
  BY <1>1, BegunWrites DEF BalanceInv
<1>3. /\ W.status = statuses /\ W.due = Empty /\ W.credit = credits /\ W.dispute = disputes
      /\ W.paid = Empty /\ W.refunded = Empty /\ W.deposit = Empty
  BY DEF NoWrites
<1>. HIDE DEF W
<1>4. /\ e.status = Overlay(statuses, db.status) /\ e.due = db.due
      /\ e.credit = Overlay(credits, db.credit) /\ e.paid = db.paid /\ e.refunded = db.refunded
      /\ e.dispute = Overlay(disputes, db.dispute)
  BY <1>3, OverlayEmpty DEF After, BalanceInv, BillingInv, TypeOK, IsDatabase
<1>5. DOMAIN statuses \subseteq {w} /\ DOMAIN credits \subseteq {w}
  BY UpdateRow
<1>6. w \in Invoices /\ w \in DOMAIN db.status /\ c \in Nat
  <2>1. w \in Invoices
    BY DEF BalanceInv, BillingInv, TypeOK
  <2>2. c \in Nat
    BY BillingAssumption
  <2>. QED
    BY <2>1, <2>2 DEF Invoices
<1>. HIDE DEF e
<1>7. GrossIn(e, w) = GrossIn(db, w) /\ RefundedIn(e, w) = RefundedIn(db, w)
  BY <1>4 DEF GrossIn, PaymentsIn, RefundedIn, RefundsIn
<1>8. Balance(w) = OwedIn(db, w) - GrossIn(db, w) /\ Credit(w) = CreditIn(db, w)
  BY BalanceOf
<1>9. CreditIn(e, w) = CreditIn(db, w) + c
  <2>1. CreditIn(db, w) \in Nat
    BY <1>6, AccountType
  <2>. QED
    BY <1>4, <1>6, <1>8, <2>1 DEF CreditIn, Overlay, At, Empty
<1>10. OwedIn(e, w) = OwedIn(db, w) - c
  BY <1>4, <1>6, <1>9, AccountType DEF OwedIn
<1>11. /\ w \in DOMAIN e.status
       /\ e.status[w] = IF resolves THEN StatusAfterDispute(w, c) ELSE db.status[w]
  <2>. HIDE DEF resolves, w
  <2>. QED
    BY <1>4, <1>6 DEF Overlay, Update, At, Empty
<1>12. k \in DOMAIN e.dispute /\ (resolves => e.dispute[k] = "resolved")
  BY <1>4 DEF Overlay, Update, At, Empty
<1>13. Fair(db, e, w)
  <2>1. StillOwes(db, w)
    BY <1>6, AccountType DEF BalanceInv
  <2>2. StillOwes(e, w)
    <3>. HIDE DEF w
    <3>1. CASE resolves
      BY <1>6, <1>7, <1>8, <1>10, <1>11, <3>1, AccountType DEF StillOwes, StatusAfterDispute
    <3>2. CASE ~resolves
      BY <1>1, <1>6, <1>7, <1>10, <1>11, <2>1, <3>2, AccountType DEF StillOwes
    <3>. QED
      BY <3>1, <3>2
  <2>3. PostedCovered(db, e, w)
    BY <1>4 DEF PostedCovered
  <2>4. SettledWhenPaid(db, e, w)
    <3>. HIDE DEF w
    <3>. QED
      BY <1>6, <1>7, <1>8, <1>10, <1>11, AccountType DEF SettledWhenPaid, StatusAfterDispute
  <2>5. PaidKept(db, e, w)
    BY <1>4, <1>11, <1>12 DEF PaidKept
  <2>. QED
    BY <2>2, <2>3, <2>4, <2>5 DEF Fair
<1>14. /\ DOMAIN W.status \subseteq {w} /\ DOMAIN W.due = {} /\ DOMAIN W.credit \subseteq {w}
       /\ DOMAIN W.paid = {} /\ DOMAIN W.refunded = {} /\ DOMAIN W.deposit = {}
  <2>. HIDE DEF statuses, credits, disputes
  <2>. QED
    BY <1>3, <1>5, EmptyRows
<1>15. \A v \in WorkOrders : v # w => Untouched(W, v)
  BY <1>14 DEF Untouched
<1>16. IsFiniteSet(DOMAIN W.paid) /\ IsFiniteSet(DOMAIN W.refunded) /\ IsFiniteSet(DOMAIN W.deposit)
  BY <1>14, FewRows
<1>17. Keeps(db, W)
  BY <1>2, <1>6, <1>13, <1>14, <1>15, <1>16, OneAccount DEF e
<1>. QED
  BY <1>1, <1>17

\* What touches no invoice: the status of a work order, a deposit taken or paid back.
LEMMA UpdateWorkOrderKeeps ==
  ASSUME BalanceInv, NEW s \in Sessions, Request(s), NEW w, NEW st, UpdateWorkOrder(s, w, st)
  PROVE  \E W : Begin(s, W) /\ Keeps(db, W)
<1>. DEFINE W == [NoWrites EXCEPT !.woStatus = Update(db.woStatus, w, st)]
<1>1. Begin(s, W)
  BY DEF UpdateWorkOrder
<1>2. IsDatabase(W) /\ Grounded(W)
  BY <1>1, BegunWrites DEF BalanceInv
<1>3. /\ W.status = Empty /\ W.due = Empty /\ W.credit = Empty /\ W.paid = Empty
      /\ W.refunded = Empty /\ DOMAIN W.deposit = {}
  BY DEF NoWrites, Empty
<1>. HIDE DEF W
<1>. QED
  BY <1>1, <1>2, <1>3, FS_EmptySet, NoAccount

LEMMA CreateDepositKeeps ==
  ASSUME BalanceInv, NEW s \in Sessions, Request(s), NEW d, NEW q, NEW w, NEW a, NEW st,
         CreateDeposit(s, d, q, w, a, st)
  PROVE  \E W : Begin(s, W) /\ Keeps(db, W)
<1>. DEFINE row == [quote |-> q, wo |-> w, amount |-> a]
            scheduled == IF w = NoWorkOrder THEN Empty ELSE Update(db.woStatus, w, "scheduled")
            W == [NoWrites EXCEPT !.deposit = At(d, row), !.depStatus = At(d, st),
                                  !.woStatus = scheduled]
<1>1. Begin(s, W)
  BY DEF CreateDeposit
<1>2. IsDatabase(W) /\ Grounded(W)
  BY <1>1, BegunWrites DEF BalanceInv
<1>3. /\ W.status = Empty /\ W.due = Empty /\ W.credit = Empty /\ W.paid = Empty
      /\ W.refunded = Empty /\ W.deposit = At(d, row)
  BY DEF NoWrites
<1>4. DOMAIN W.deposit \subseteq {d}
  BY <1>3, AtRow
<1>. HIDE DEF W
<1>5. IsFiniteSet(DOMAIN W.deposit)
  BY <1>4, FewRows
<1>. QED
  BY <1>1, <1>2, <1>3, <1>5, NoAccount

LEMMA RefundDepositKeeps ==
  ASSUME BalanceInv, NEW s \in Sessions, Request(s), NEW d, NEW a, RefundDeposit(s, d, a)
  PROVE  \E W : Begin(s, W) /\ Keeps(db, W)
<1>. DEFINE W == [NoWrites EXCEPT !.depStatus = At(d, "refunded"), !.depRefund = At(d, a)]
<1>1. Begin(s, W)
  BY DEF RefundDeposit
<1>2. IsDatabase(W) /\ Grounded(W)
  BY <1>1, BegunWrites DEF BalanceInv
<1>3. /\ W.status = Empty /\ W.due = Empty /\ W.credit = Empty /\ W.paid = Empty
      /\ W.refunded = Empty /\ DOMAIN W.deposit = {}
  BY DEF NoWrites, Empty
<1>. HIDE DEF W
<1>. QED
  BY <1>1, <1>2, <1>3, FS_EmptySet, NoAccount

LEMMA RequestKeeps ==
  ASSUME BalanceInv, NEW s \in Sessions, Request(s)
  PROVE  \E W : Begin(s, W) /\ Keeps(db, W)
BY UpdateWorkOrderKeeps, CreateInvoiceKeeps, UpdateInvoiceKeeps, CreateDepositKeeps,
   CreatePaymentKeeps, CreateDisputeKeeps, UpdateDisputeKeeps, RefundDepositKeeps,
   RefundPaymentKeeps DEF Request

----------------------------------------------------------------------------
(* Steps.                                                                  *)

\* Nothing in flight changes nothing.
LEMMA NoWritesKeeps ==
  ASSUME NEW d, IsDatabase(d), Accounts(d), \A w \in WorkOrders : StillOwes(d, w)
  PROVE  Keeps(d, NoWrites)
<1>1. \A w : Untouched(NoWrites, w)
  BY DEF Untouched, NoWrites, Empty
<1>. DEFINE e == After(d, NoWrites)
<1>2. /\ e.paid = d.paid /\ e.refunded = d.refunded /\ e.deposit = d.deposit
      /\ e.due = d.due /\ e.status = d.status /\ e.credit = d.credit
  BY OverlayEmpty DEF After, NoWrites, IsDatabase
<1>3. Accounts(e)
  BY <1>2 DEF Accounts
<1>. QED
  BY <1>1, <1>3, UntouchedFair DEF Keeps

\* What is in flight keeps the balances when it is committed.
LEMMA CommitAfter ==
  ASSUME NEW s \in Sessions, Commit(s)
  PROVE  db' = After(db, txn[s])
BY DEF Commit, After

\* An empty database has no balance.
LEMMA InitBalanceInv == Init => BalanceInv
<1>. SUFFICES ASSUME Init PROVE BalanceInv
  OBVIOUS
<1>1. BillingInv
  BY InitInv
<1>2. Accounts(db)
  BY FS_EmptySet, EmptyRows DEF Init, Accounts
<1>3. \A w \in WorkOrders : StillOwes(db, w)
  BY EmptyRows DEF Init, StillOwes
<1>4. \A s \in Sessions : Keeps(db, txn[s])
  BY <1>1, <1>2, <1>3, NoWritesKeeps DEF Init, BillingInv, TypeOK
<1>. QED
  BY <1>1, <1>2, <1>3, <1>4 DEF BalanceInv

\* A request begins, if no other is in flight.
LEMMA BeginKeeps ==
  ASSUME Serial, BalanceInv, BillingInv', NEW s \in Sessions, NEW W, Begin(s, W), Keeps(db, W)
  PROVE  BalanceInv'
<1>1. db' = db /\ \A r \in Sessions : txn'[r] = W
  BY DEF Begin, Serial, BalanceInv, BillingInv, TypeOK
<1>2. Accounts(db') /\ \A w \in WorkOrders : StillOwes(db', w)
  BY <1>1 DEF BalanceInv
<1>3. \A r \in Sessions : Keeps(db', txn'[r])
  BY <1>1
<1>. QED
  BY <1>2, <1>3 DEF BalanceInv

\* The request in flight ends.
LEMMA EndKeeps ==
  ASSUME Serial, BalanceInv, BillingInv', NEW s \in Sessions, Commit(s) \/ Rollback(s)
  PROVE  BalanceInv'
<1>1. \A r \in Sessions : txn'[r] = NoWrites
  BY DEF Commit, Rollback, End, Serial, BalanceInv, BillingInv, TypeOK
<1>2. Accounts(db') /\ \A w \in WorkOrders : StillOwes(db', w)
  <2>1. CASE Commit(s)
    BY <2>1, CommitAfter DEF BalanceInv, Keeps, Fair
  <2>2. CASE Rollback(s)
    BY <2>2 DEF BalanceInv, Rollback
  <2>. QED
    BY <2>1, <2>2
<1>3. IsDatabase(db')
  BY DEF BillingInv, TypeOK
<1>4. \A r \in Sessions : Keeps(db', txn'[r])
  BY <1>1, <1>2, <1>3, NoWritesKeeps
<1>. QED
  BY <1>2, <1>4 DEF BalanceInv

\* BalanceInv is inductive when no two sessions are open together.
LEMMA NextBalanceInv ==
  ASSUME Serial, BalanceInv, [Next]_vars
  PROVE  BalanceInv'
<1>1. BillingInv'
  BY NextInv DEF BalanceInv
<1>2. CASE UNCHANGED vars
  <2>1. db' = db /\ txn' = txn
    BY <1>2 DEF vars
  <2>. QED
    BY <1>1, <2>1 DEF BalanceInv
<1>3. ASSUME NEW s \in Sessions, Request(s) \/ Commit(s) \/ Rollback(s)
      PROVE  BalanceInv'
  BY <1>1, <1>3, RequestKeeps, BeginKeeps, EndKeeps
<1>. QED
  BY <1>2, <1>3 DEF Next

LEMMA SpecBalanceInv ==
  ASSUME Serial
  PROVE  Spec => []BalanceInv
<1>1. BalanceInv /\ [Next]_vars => BalanceInv'
  BY NextBalanceInv
<1>. QED
  BY <1>1, InitBalanceInv, PTL DEF Spec

\* Requests one after another: an issued invoice is never covered by its payments,
\* net of refunds; whatever covers it also pays it, and what uncovers it reopens it.
THEOREM IssuedStillOwesCorrect ==
  ASSUME Serial
  PROVE  Spec => []IssuedStillOwes
<1>1. BalanceInv => IssuedStillOwes
  BY BalanceOf, AccountType DEF BalanceInv, StillOwes, IssuedStillOwes
<1>. QED
  BY <1>1, SpecBalanceInv, PTL

\* What a step does to the accounts, requests one after another: nothing, or what a
\* commit of the request in flight does.
FairStep == BalanceInv /\ BalanceInv' /\ (db' = db \/ \A w \in WorkOrders : Fair(db, db', w))

LEMMA StepFair ==
  ASSUME BalanceInv, BalanceInv', [Next]_vars
  PROVE  FairStep
<1>1. ASSUME NEW s \in Sessions, Commit(s)
      PROVE  \A w \in WorkOrders : Fair(db, db', w)
  BY <1>1, CommitAfter DEF BalanceInv, Keeps
<1>. QED
  BY <1>1, RequestReads DEF Next, Rollback, vars, FairStep

\* A fair step takes no posted payment above what is owed.
LEMMA FairNoOverpayment ==
  ASSUME FairStep, NEW k \in DOMAIN db'.paid \ DOMAIN db.paid, k.origin = "posted"
  PROVE  Gross(k.inv)' <= Owed(k.inv)'
<1>1. k.inv \in WorkOrders
  BY DEF FairStep, BalanceInv, BillingInv, TypeOK, IsDatabase, IsColumn, PaymentKey
<1>2. GrossIn(db', k.inv) <= OwedIn(db', k.inv)
  BY <1>1 DEF FairStep, Fair, PostedCovered
<1>. QED
  BY <1>2 DEF Gross, Owed, Credit, GrossIn, OwedIn, CreditIn, PaymentsIn, PaymentsOf, RowsOf

\* A fair step, by staff who do not set 'paid', sets it on what is covered only.
LEMMA FairPaidOnlyWhenSettled ==
  ASSUME FairStep, "paid" \notin StaffStatuses, NEW w \in DOMAIN db'.status,
         db'.status[w] = "paid", ~(w \in Invoices /\ db.status[w] = "paid")
  PROVE  Balance(w)' <= 0
<1>1. w \in WorkOrders
  BY DEF FairStep, BalanceInv, BillingInv, TypeOK, IsDatabase, IsColumn
<1>2. OwedIn(db', w) <= GrossIn(db', w)
  BY <1>1 DEF FairStep, Fair, SettledWhenPaid, Invoices
<1>3. OwedIn(db', w) \in Int /\ GrossIn(db', w) \in Int
  <2>1. IsDatabase(db') /\ Accounts(db') /\ DOMAIN db'.due = DOMAIN db'.status
    BY DEF FairStep, BalanceInv, BillingInv, TypeOK, Accounts
  <2>2. db'.due[w] \in Nat
    BY <2>1 DEF IsDatabase, IsColumn
  <2>. QED
    BY <2>1, <2>2, SumsNat DEF OwedIn
<1>4. Balance(w)' = OwedIn(db', w) - GrossIn(db', w)
  BY DEF Balance, Gross, Owed, Credit, GrossIn, OwedIn, CreditIn, PaymentsIn, PaymentsOf, RowsOf
<1>. QED
  BY <1>2, <1>3, <1>4

\* A fair step keeps the amount of a paid invoice and makes it unpaid by a dispute or a
\* refund only.
LEMMA FairPaidIsFinal ==
  ASSUME FairStep, NEW w \in Invoices, db.status[w] = "paid"
  PROVE  /\ db'.due[w] = db.due[w]
         /\ \/ db'.status[w] = "paid"
            \/ \E k \in DOMAIN db'.dispute : k.inv = w /\ db'.dispute[k] # "under_review"
                 /\ (k \notin DOMAIN db.dispute \/ db'.dispute[k] # db.dispute[k])
            \/ RefundsOf(w)' # RefundsOf(w) /\ Owed(w)' > Net(w)'
<1>1. w \in WorkOrders /\ w \in DOMAIN db.status
  BY AccountType DEF FairStep
<1>2. CASE db' = db
  BY <1>2
<1>3. CASE PaidKept(db, db', w)
  <2>1. RefundsOf(w) = RefundsIn(db, w) /\ RefundsOf(w)' = RefundsIn(db', w)
    BY DEF RefundsIn, RefundsOf, RowsOf
  <2>2. /\ Owed(w)' = OwedIn(db', w)
        /\ Net(w)' = GrossIn(db', w) - RefundedIn(db', w)
    BY DEF Gross, Net, Owed, Credit, GrossIn, RefundedIn, OwedIn, CreditIn, PaymentsIn,
           PaymentsOf, RefundsIn, RefundsOf, RowsOf
  <2>. QED
    BY <1>1, <1>3, <2>1, <2>2 DEF PaidKept
<1>. QED
  BY <1>1, <1>2, <1>3 DEF FairStep, Fair

\* Requests one after another: create_payment never takes more than is owed.
THEOREM NoOverpaymentCorrect ==
  ASSUME Serial
  PROVE  Spec => NoOverpayment
<1>. DEFINE A == \A k \in DOMAIN db'.paid \ DOMAIN db.paid : k.origin = "posted" =>
                   Gross(k.inv)' <= Owed(k.inv)'
<1>1. BalanceInv /\ BalanceInv' /\ [Next]_vars => [A]_vars
  BY StepFair, FairNoOverpayment
<1>. QED
  BY <1>1, SpecBalanceInv, PTL DEF Spec, NoOverpayment

\* Requests one after another, by staff who do not set 'paid' by hand: no handler sets
\* an invoice to 'paid' unless payments and credits cover it.
THEOREM PaidOnlyWhenSettledCorrect ==
  ASSUME Serial, "paid" \notin StaffStatuses
  PROVE  Spec => PaidOnlyWhenSettled
<1>. DEFINE A == \A w \in DOMAIN db'.status :
                   db'.status[w] = "paid" /\ ~(w \in Invoices /\ db.status[w] = "paid") =>
                     Balance(w)' <= 0
<1>1. BalanceInv /\ BalanceInv' /\ [Next]_vars => [A]_vars
  BY StepFair, FairPaidOnlyWhenSettled
<1>. QED
  BY <1>1, SpecBalanceInv, PTL DEF Spec, PaidOnlyWhenSettled

\* Requests one after another: no handler changes the amount of a paid invoice, and
\* only a dispute opened or resolved, or a refund that uncovers it, makes it unpaid.
THEOREM PaidIsFinalCorrect ==
  ASSUME Serial
  PROVE  Spec => PaidIsFinal
<1>. DEFINE A == \A w \in Invoices : db.status[w] = "paid" =>
                   /\ db'.due[w] = db.due[w]
                   /\ \/ db'.status[w] = "paid"
                      \/ \E k \in DOMAIN db'.dispute : k.inv = w /\ db'.dispute[k] # "under_review"
                           /\ (k \notin DOMAIN db.dispute \/ db'.dispute[k] # db.dispute[k])
                      \/ RefundsOf(w)' # RefundsOf(w) /\ Owed(w)' > Net(w)'
<1>1. BalanceInv /\ BalanceInv' /\ [Next]_vars => [A]_vars
  BY StepFair, FairPaidIsFinal
<1>. QED
  BY <1>1, SpecBalanceInv, PTL DEF Spec, PaidIsFinal
=============================================================================
