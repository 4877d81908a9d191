--------------------------- MODULE BillingProofs ---------------------------
(***************************************************************************)
(* Theorems about Billing, for every value of its constants and any number *)
(* of sessions.                                                            *)
(***************************************************************************)
EXTENDS Billing, ColumnsProofs

\* The writes of an idle session are well-typed.
LEMMA NoWritesType == IsDatabase(NoWrites) /\ NoWrites.created \subseteq WorkOrders
BY EmptyColumn DEF IsDatabase, NoWrites

----------------------------------------------------------------------------
(* The inductive invariant.  TransfersMatchDeposits and RefundsCovered speak *)
(* of committed rows and are kept by a commit only if the writes it applies, *)
(* computed from rows read earlier, still fit the rows they meet:            *)
(* PendingGrounded says that they do.                                        *)

BillingInv == TypeOK /\ TransfersMatchDeposits /\ RefundsCovered /\ PendingGrounded

\* Writes that a request may begin with.
Sound(s, W) ==
  /\ IsDatabase(W)
  /\ W.created \subseteq WorkOrders
  /\ Grounded(W)
  /\ \A r \in Sessions \ {s} : Disjoint(W, txn[r])

\* An empty database satisfies the invariant.
LEMMA InitInv == Init => BillingInv
<1>. SUFFICES ASSUME Init PROVE BillingInv
  OBVIOUS
<1>1. IsDatabase(db)
  <2>1. IsColumn([w \in WorkOrders |-> "active"], WorkOrders, WorkOrderStatus)
    BY DEF IsColumn, WorkOrderStatus
  <2>. QED
    BY <2>1, EmptyColumn DEF Init, IsDatabase
<1>2. TypeOK
  BY <1>1, NoWritesType DEF Init, TypeOK, Invoices, Empty
<1>3. TransfersMatchDeposits /\ RefundsCovered
  BY DEF Init, TransfersMatchDeposits, RefundsCovered, Empty
<1>4. PendingGrounded
  BY DEF Init, PendingGrounded, Grounded, Disjoint, NoWrites, Empty
<1>. QED
  BY <1>2, <1>3, <1>4 DEF BillingInv

\* A session without writes disturbs no other.
LEMMA NoWritesSound ==
  ASSUME NEW s
  PROVE  Sound(s, NoWrites)
<1>1. Grounded(NoWrites) /\ \A W : Disjoint(NoWrites, W)
  BY DEF Grounded, Disjoint, NoWrites, Empty
<1>. QED
  BY <1>1, NoWritesType DEF Sound

\* Replacing the writes of one session by sound ones, the committed rows unchanged.
LEMMA ReplaceWrites ==
  ASSUME BillingInv, NEW s \in Sessions, NEW W, Sound(s, W),
         db' = db, txn' = [txn EXCEPT ![s] = W]
  PROVE  /\ \A r \in Sessions : IsDatabase(txn'[r]) /\ txn'[r].created \subseteq WorkOrders
         /\ TransfersMatchDeposits' /\ RefundsCovered' /\ PendingGrounded'
<1>1. DOMAIN txn = Sessions /\ txn'[s] = W /\ \A r \in Sessions \ {s} : txn'[r] = txn[r]
  BY DEF BillingInv, TypeOK
<1>2. \A r \in Sessions : IsDatabase(txn'[r]) /\ txn'[r].created \subseteq WorkOrders
  BY <1>1 DEF BillingInv, TypeOK, Sound
<1>3. TransfersMatchDeposits' /\ RefundsCovered'
  BY DEF BillingInv, TransfersMatchDeposits, RefundsCovered, Transfer
<1>4. \A r \in Sessions : Grounded(txn[r])'
  BY <1>1 DEF BillingInv, PendingGrounded, Sound, Grounded, Transfer, Invoices
<1>5. ASSUME NEW p \in Sessions, NEW q \in Sessions, p # q
      PROVE  Disjoint(txn'[p], txn'[q])
  BY <1>1, <1>5 DEF BillingInv, PendingGrounded, Sound, Disjoint
<1>. QED
  BY <1>2, <1>3, <1>4, <1>5 DEF PendingGrounded, Disjoint

\* A request that begins with sound writes keeps the invariant.
LEMMA BeginInv ==
  ASSUME BillingInv, NEW s \in Sessions, NEW W, Sound(s, W), Begin(s, W)
  PROVE  BillingInv'
<1>1. db' = db /\ txn' = [txn EXCEPT ![s] = W] /\ open' = open \cup {s}
  BY DEF Begin
<1>2. /\ \A r \in Sessions : IsDatabase(txn'[r]) /\ txn'[r].created \subseteq WorkOrders
      /\ TransfersMatchDeposits' /\ RefundsCovered' /\ PendingGrounded'
  BY <1>1, ReplaceWrites
<1>3. TypeOK'
  BY <1>1, <1>2 DEF BillingInv, TypeOK, Invoices
<1>. QED
  BY <1>2, <1>3 DEF BillingInv

\* So does one that is rolled back.
LEMMA RollbackInv ==
  ASSUME BillingInv, NEW s \in Sessions, Rollback(s)
  PROVE  BillingInv'
<1>1. db' = db /\ txn' = [txn EXCEPT ![s] = NoWrites] /\ open' = open \ {s}
  BY DEF Rollback, End
<1>2. /\ \A r \in Sessions : IsDatabase(txn'[r]) /\ txn'[r].created \subseteq WorkOrders
      /\ TransfersMatchDeposits' /\ RefundsCovered' /\ PendingGrounded'
  BY <1>1, NoWritesSound, ReplaceWrites
<1>3. TypeOK'
  BY <1>1, <1>2 DEF BillingInv, TypeOK, Invoices
<1>. QED
  BY <1>2, <1>3 DEF BillingInv

----------------------------------------------------------------------------
(* A commit.                                                               *)

\* A commit changes no recorded payment and no deposit's amount, and what it adds
\* comes from the writes it applies.
LEMMA CommitKeeps ==
  ASSUME BillingInv, NEW s \in Sessions, Commit(s)
  PROVE  /\ \A k \in DOMAIN db.paid : k \in DOMAIN db'.paid /\ db'.paid[k] = db.paid[k]
         /\ \A k \in DOMAIN db'.paid \ DOMAIN db.paid :
              k \in DOMAIN txn[s].paid /\ db'.paid[k] = txn[s].paid[k]
         /\ \A d \in DOMAIN db.deposit :
              d \in DOMAIN db'.deposit /\ db'.deposit[d] = db.deposit[d]
         /\ DOMAIN txn[s].paid \subseteq DOMAIN db'.paid
         /\ Invoices \subseteq Invoices'
<1>. DEFINE W == txn[s]
<1>1. db'.paid = Overlay(W.paid, db.paid) /\ db'.deposit = Overlay(W.deposit, db.deposit)
  BY DEF Commit
<1>2. Grounded(W)
  BY DEF BillingInv, PendingGrounded
<1>3. ASSUME NEW k \in DOMAIN db.paid, k \in DOMAIN W.paid
      PROVE  W.paid[k] = db.paid[k]
  BY <1>2, <1>3 DEF BillingInv, TransfersMatchDeposits, Grounded
<1>4. \A d \in DOMAIN db.deposit : d \notin DOMAIN W.deposit
  BY <1>2 DEF Grounded
<1>5. Invoices \subseteq Invoices'
  BY DEF Commit, Overlay, Invoices
<1>. QED
  BY <1>1, <1>3, <1>4, <1>5 DEF Overlay

\* A commit keeps the invariant, whatever committed since the request read.
LEMMA CommitInv ==
  ASSUME BillingInv, NEW s \in Sessions, Commit(s)
  PROVE  BillingInv'
<1>. DEFINE W == txn[s]
<1>1. /\ DOMAIN txn = Sessions
      /\ txn'[s] = NoWrites
      /\ \A r \in Sessions \ {s} : txn'[r] = txn[r]
      /\ open' = open \ {s} /\ txn' = [txn EXCEPT ![s] = NoWrites]
  BY DEF BillingInv, TypeOK, Commit, End
<1>2. Grounded(W)
  BY DEF BillingInv, PendingGrounded
<1>3. TypeOK'
  <2>1. IsDatabase(db) /\ IsDatabase(W)
    BY DEF BillingInv, TypeOK
  <2>2. IsDatabase(db')
    BY <2>1, OverlayColumn DEF Commit, IsDatabase
  <2>3. /\ DOMAIN db'.due = Invoices' /\ DOMAIN db'.depStatus = DOMAIN db'.deposit
        /\ \A k \in DOMAIN db'.paid \cup DOMAIN db'.dispute : k.inv \in Invoices'
    BY <1>2 DEF Commit, Overlay, Grounded, Invoices, BillingInv, TypeOK
  <2>. QED
    BY <1>1, <2>2, <2>3, NoWritesType DEF BillingInv, TypeOK
<1>4. TransfersMatchDeposits'
  <2>1. db'.depInvoice = Overlay(W.depInvoice, db.depInvoice)
    BY DEF Commit
  <2>2. ASSUME NEW d \in DOMAIN db'.depInvoice
        PROVE  Transfer(db'.depInvoice[d], d) \in DOMAIN db'.paid
    <3>1. CASE d \in DOMAIN W.depInvoice
      BY <1>2, <2>1, <3>1, CommitKeeps DEF Grounded, Overlay
    <3>2. CASE d \notin DOMAIN W.depInvoice
      BY <2>1, <2>2, <3>2, CommitKeeps DEF BillingInv, TransfersMatchDeposits, Overlay
    <3>. QED
      BY <3>1, <3>2
  <2>3. ASSUME NEW k \in DOMAIN db'.paid, k.origin = "deposit_transfer"
        PROVE  k.n \in DOMAIN db'.deposit /\ db'.paid[k] = db'.deposit[k.n].amount
    <3>1. k.n \in DOMAIN db.deposit /\ db'.paid[k] = db.deposit[k.n].amount
      BY <1>2, <2>3, CommitKeeps DEF BillingInv, TransfersMatchDeposits, Grounded
    <3>. QED
      BY <3>1, CommitKeeps
  <2>. QED
    BY <2>2, <2>3 DEF TransfersMatchDeposits, Transfer
<1>5. RefundsCovered'
  <2>1. /\ db'.refunded = Overlay(W.refunded, db.refunded)
        /\ db'.depRefund = Overlay(W.depRefund, db.depRefund)
    BY DEF Commit
  <2>2. ASSUME NEW k \in DOMAIN db'.refunded
        PROVE  k \in DOMAIN db'.paid /\ db'.refunded[k] <= db'.paid[k]
    <3>1. k \in DOMAIN db.paid /\ db'.refunded[k] <= db.paid[k]
      BY <1>2, <2>1, <2>2 DEF BillingInv, RefundsCovered, Grounded, Overlay
    <3>. QED
      BY <3>1, CommitKeeps
  <2>3. ASSUME NEW d \in DOMAIN db'.depRefund
        PROVE  d \in DOMAIN db'.deposit /\ db'.depRefund[d] <= db'.deposit[d].amount
    <3>1. d \in DOMAIN db.deposit /\ db'.depRefund[d] <= db.deposit[d].amount
      BY <1>2, <2>1, <2>3 DEF BillingInv, RefundsCovered, Grounded, Overlay
    <3>. QED
      BY <3>1, CommitKeeps
  <2>. QED
    BY <2>2, <2>3 DEF RefundsCovered
<1>6. PendingGrounded'
  <2>1. ASSUME NEW r \in Sessions
        PROVE  Grounded(txn[r])'
    <3>1. CASE r = s
      BY <1>1, <3>1 DEF Grounded, NoWrites, Empty
    <3>2. CASE r # s
      <4>. DEFINE V == txn[r]
      <4>1. txn'[r] = V /\ Grounded(V) /\ Disjoint(V, W)
        BY <1>1, <3>2 DEF BillingInv, PendingGrounded
      <4>2. /\ V.created \subseteq DOMAIN V.status \cap DOMAIN V.due
            /\ DOMAIN V.status \cup DOMAIN V.due \subseteq Invoices' \cup V.created
            /\ \A k \in DOMAIN V.paid \cup DOMAIN V.dispute : k.inv \in Invoices' \cup V.created
            /\ DOMAIN V.deposit \subseteq DOMAIN V.depStatus
            /\ DOMAIN V.depStatus \subseteq DOMAIN db'.deposit \cup DOMAIN V.deposit
        BY <4>1, CommitKeeps DEF Grounded
      <4>3. DOMAIN V.deposit \cap DOMAIN db'.deposit = {}
        <5>1. db'.deposit = Overlay(W.deposit, db.deposit)
          BY DEF Commit
        <5>. QED
          BY <4>1, <5>1 DEF Grounded, Disjoint, Overlay
      <4>4. ASSUME NEW k \in DOMAIN V.paid
            PROVE  IF k.origin = "deposit_transfer"
                   THEN /\ k.inv \in V.created
                        /\ k.n \in DOMAIN db'.deposit /\ V.paid[k] = db'.deposit[k.n].amount
                   ELSE k \notin DOMAIN db'.paid
        BY <4>1, CommitKeeps DEF Grounded, Disjoint
      <4>5. \A k \in DOMAIN V.refunded : k \in DOMAIN db'.paid /\ V.refunded[k] <= db'.paid[k]
        BY <4>1, CommitKeeps DEF Grounded
      <4>6. \A d \in DOMAIN V.depRefund :
              d \in DOMAIN db'.deposit /\ V.depRefund[d] <= db'.deposit[d].amount
        BY <4>1, CommitKeeps DEF Grounded
      <4>7. \A d \in DOMAIN V.depInvoice : Transfer(V.depInvoice[d], d) \in DOMAIN V.paid
        BY <4>1 DEF Grounded
      <4>. QED
        BY <4>1, <4>2, <4>3, <4>4, <4>5, <4>6, <4>7 DEF Grounded, Transfer
    <3>. QED
      BY <3>1, <3>2
  <2>2. ASSUME NEW p \in Sessions, NEW q \in Sessions, p # q
        PROVE  Disjoint(txn'[p], txn'[q])
    BY <1>1, <2>2 DEF BillingInv, PendingGrounded, Disjoint, NoWrites, Empty
  <2>. QED
    BY <2>1, <2>2 DEF PendingGrounded, Disjoint
<1>. QED
  BY <1>3, <1>4, <1>5, <1>6 DEF BillingInv

----------------------------------------------------------------------------
(* The handlers begin with sound writes.                                   *)

\* A pending row is a pending row of an open session.
LEMMA PendingIsOpen ==
  ASSUME BillingInv, NEW r \in Sessions, r \notin open
  PROVE  txn[r].paid = Empty /\ txn[r].deposit = Empty /\ txn[r].dispute = Empty
BY DEF BillingInv, TypeOK, NoWrites

\* Writes to existing invoices that insert no payment and no deposit, and record no
\* refund and no link to an invoice, are sound as soon as they are well-typed.
LEMMA PlainWritesSound ==
  ASSUME NEW s, NEW W, IsDatabase(W), W.created = {},
         DOMAIN W.status \cup DOMAIN W.due \subseteq Invoices,
         \A k \in DOMAIN W.dispute : k.inv \in Invoices,
         W.deposit = Empty, W.depStatus = Empty, W.paid = Empty, W.refunded = Empty,
         W.depInvoice = Empty, W.depRefund = Empty
  PROVE  Sound(s, W)
BY DEF Sound, Grounded, Disjoint, Empty

\* update_work_order writes the work order's status only.
LEMMA UpdateWorkOrderInv ==
  ASSUME BillingInv, NEW s \in Sessions, NEW w \in WorkOrders, NEW st \in WorkOrderStatus,
         UpdateWorkOrder(s, w, st)
  PROVE  BillingInv'
<1>. DEFINE W == [NoWrites EXCEPT !.woStatus = Update(db.woStatus, w, st)]
<1>1. IsColumn(Update(db.woStatus, w, st), WorkOrders, WorkOrderStatus)
  BY UpdateTyped
<1>2. IsDatabase(W)
  BY <1>1, EmptyColumn DEF IsDatabase, NoWrites
<1>3. Sound(s, W)
  BY <1>2, UpdateRow, PlainWritesSound DEF NoWrites
<1>. QED
  BY <1>3, BeginInv DEF UpdateWorkOrder

\* update_invoice writes the invoice's own columns only.
LEMMA UpdateInvoiceInv ==
  ASSUME BillingInv, NEW s \in Sessions, NEW w \in WorkOrders,
         NEW st \in InvoiceStatus, NEW due \in Nat, NEW credit \in Nat,
         UpdateInvoice(s, w, st, due, credit)
  PROVE  BillingInv'
<1>. DEFINE status == IF st # "paid" /\ due - credit - Gross(w) = 0 THEN "paid" ELSE st
            credits == IF credit = Credit(w) THEN Empty ELSE At(w, credit)
            W == [NoWrites EXCEPT !.status = Update(db.status, w, status),
                                  !.due = Update(db.due, w, due),
                                  !.credit = credits]
<1>1. status \in InvoiceStatus
  BY DEF InvoiceStatus
<1>2. IsColumn(Update(db.status, w, status), WorkOrders, InvoiceStatus)
  BY <1>1, UpdateTyped
<1>3. IsColumn(Update(db.due, w, due), WorkOrders, Nat)
  BY UpdateTyped
<1>4. IsColumn(credits, WorkOrders, Nat)
  BY AtColumn, EmptyColumn
<1>5. IsDatabase(W)
  <2>. HIDE DEF status, credits
  <2>. QED
    BY <1>2, <1>3, <1>4, EmptyColumn DEF IsDatabase, NoWrites
<1>6. w \in Invoices /\ Begin(s, W)
  BY DEF UpdateInvoice
<1>7. Sound(s, W)
  <2>1. /\ DOMAIN Update(db.status, w, status) \subseteq {w}
        /\ DOMAIN Update(db.due, w, due) \subseteq {w}
        /\ DOMAIN Empty = {}
    BY UpdateRow
  <2>. HIDE DEF status, credits
  <2>. QED
    BY <1>5, <1>6, <2>1, PlainWritesSound DEF NoWrites
<1>. QED
  BY <1>6, <1>7, BeginInv

\* create_deposit inserts a deposit that no other request knows.
LEMMA CreateDepositInv ==
  ASSUME BillingInv, NEW s \in Sessions, NEW d \in Nat, NEW q \in Quotes,
         NEW w \in WorkOrders \cup {NoWorkOrder}, NEW a \in Nat, NEW st \in DepositStatus,
         CreateDeposit(s, d, q, w, a, st)
  PROVE  BillingInv'
<1>. DEFINE row == [quote |-> q, wo |-> w, amount |-> a]
            scheduled == IF w = NoWorkOrder THEN Empty
                         ELSE Update(db.woStatus, w, "scheduled")
            W == [NoWrites EXCEPT !.deposit = At(d, row),
                                  !.depStatus = At(d, st),
                                  !.woStatus = scheduled]
<1>1. IsColumn(At(d, row), Nat, DepositRow)
  BY AtColumn DEF DepositRow
<1>2. IsColumn(At(d, st), Nat, DepositStatus)
  BY AtColumn
<1>3. IsColumn(scheduled, WorkOrders, WorkOrderStatus)
  BY EmptyColumn, UpdateTyped DEF WorkOrderStatus
<1>4. IsDatabase(W) /\ W.created \subseteq WorkOrders
  <2>. HIDE DEF row, scheduled
  <2>. QED
    BY <1>1, <1>2, <1>3, EmptyColumn DEF IsDatabase, NoWrites
<1>5. FreshDeposit(d) /\ Begin(s, W)
  BY DEF CreateDeposit
<1>6. Grounded(W)
  BY <1>5 DEF FreshDeposit, Grounded, NoWrites, At, Empty
<1>7. ASSUME NEW r \in Sessions \ {s}
      PROVE  Disjoint(W, txn[r])
  BY <1>5, PendingIsOpen DEF FreshDeposit, Disjoint, NoWrites, At, Empty
<1>. QED
  BY <1>4, <1>5, <1>6, <1>7, BeginInv DEF Sound

\* create_payment inserts a payment that no other request knows.
LEMMA CreatePaymentInv ==
  ASSUME BillingInv, NEW s \in Sessions, NEW w \in WorkOrders, NEW n \in Nat, NEW a \in Nat,
         NEW ids \in StripeIds, CreatePayment(s, w, n, a, ids)
  PROVE  BillingInv'
<1>. DEFINE k == Posted(w, n, ids)
            status == IF Balance(w) - a <= 0 THEN Update(db.status, w, "paid") ELSE Empty
            W == [NoWrites EXCEPT !.paid = At(k, a), !.status = status]
<1>1. IsColumn(At(k, a), PaymentKey, Nat)
  <2>1. k \in PaymentKey
    BY BillingAssumption DEF Posted, PaymentKey
  <2>. QED
    BY <2>1, AtColumn
<1>2. IsColumn(status, WorkOrders, InvoiceStatus)
  BY EmptyColumn, UpdateTyped DEF InvoiceStatus
<1>3. IsDatabase(W) /\ W.created \subseteq WorkOrders
  <2>. HIDE DEF k, status
  <2>. QED
    BY <1>1, <1>2, EmptyColumn DEF IsDatabase, NoWrites
<1>4. FreshPayment(n) /\ Begin(s, W)
  BY DEF CreatePayment
<1>5. DOMAIN W.paid = {k} /\ k.origin = "posted" /\ k.n = n /\ k.inv = w
  BY DEF NoWrites, At, Posted
<1>6. Grounded(W)
  <2>1. k \notin DOMAIN db.paid
    BY <1>4, <1>5 DEF FreshPayment
  <2>2. w \in Invoices /\ k.inv = w
    BY <1>5 DEF CreatePayment
  <2>3. DOMAIN status \subseteq {w}
    BY UpdateRow
  <2>. HIDE DEF k, status
  <2>. QED
    BY <1>5, <2>1, <2>2, <2>3 DEF Grounded, NoWrites, Empty
<1>7. ASSUME NEW r \in Sessions \ {s}
      PROVE  Disjoint(W, txn[r])
  <2>1. k \notin DOMAIN txn[r].paid
    BY <1>4, <1>5, PendingIsOpen DEF FreshPayment, Empty
  <2>. QED
    BY <1>5, <2>1 DEF Disjoint, NoWrites, Empty
<1>. QED
  BY <1>3, <1>4, <1>6, <1>7, BeginInv DEF Sound

\* create_dispute inserts a dispute and writes the invoice's status.
LEMMA CreateDisputeInv ==
  ASSUME BillingInv, NEW s \in Sessions, NEW w \in WorkOrders, NEW n \in Nat,
         CreateDispute(s, w, n)
  PROVE  BillingInv'
<1>. DEFINE k == [inv |-> w, n |-> n]
            W == [NoWrites EXCEPT !.dispute = At(k, "open"),
                                  !.status = Update(db.status, w, "disputed")]
<1>1. IsColumn(At(k, "open"), DisputeKey, DisputeStatus)
  BY AtColumn DEF DisputeKey, DisputeStatus
<1>2. IsColumn(Update(db.status, w, "disputed"), WorkOrders, InvoiceStatus)
  BY UpdateTyped DEF InvoiceStatus
<1>3. IsDatabase(W)
  <2>. HIDE DEF k
  <2>. QED
    BY <1>1, <1>2, EmptyColumn DEF IsDatabase, NoWrites
<1>4. w \in Invoices /\ Begin(s, W)
  BY DEF CreateDispute
<1>5. Sound(s, W)
  <2>1. /\ DOMAIN Update(db.status, w, "disputed") \subseteq {w}
        /\ DOMAIN At(k, "open") = {k} /\ DOMAIN Empty = {}
    BY UpdateRow
  <2>2. k.inv = w
    OBVIOUS
  <2>. HIDE DEF k
  <2>. QED
    BY <1>3, <1>4, <2>1, <2>2, PlainWritesSound DEF NoWrites
<1>. QED
  BY <1>4, <1>5, BeginInv

\* update_dispute writes the dispute's status, and credit and status of its invoice.
LEMMA UpdateDisputeInv ==
  ASSUME BillingInv, NEW s \in Sessions, NEW k \in DOMAIN db.dispute,
         NEW st \in DisputeStatus, NEW c \in Nat, UpdateDispute(s, k, st, c)
  PROVE  BillingInv'
<1>. DEFINE credits == IF c = 0 THEN Empty ELSE At(k.inv, Credit(k.inv) + c)
            status == IF st = "resolved" /\ db.dispute[k] # "resolved"
                      THEN Update(db.status, k.inv, StatusAfterDispute(k.inv, c)) ELSE Empty
            W == [NoWrites EXCEPT !.dispute = Update(db.dispute, k, st),
                                  !.credit = credits, !.status = status]
<1>1. k \in DisputeKey /\ k.inv \in WorkOrders /\ k.inv \in Invoices
  BY DEF BillingInv, TypeOK, IsDatabase, IsColumn, DisputeKey
<1>2. Credit(k.inv) + c \in Nat
  BY DEF BillingInv, TypeOK, IsDatabase, IsColumn, Credit
<1>3. IsColumn(Update(db.dispute, k, st), DisputeKey, DisputeStatus)
  BY <1>1, UpdateTyped
<1>4. IsColumn(credits, WorkOrders, Nat)
  BY <1>1, <1>2, EmptyColumn, AtColumn
<1>5. IsColumn(status, WorkOrders, InvoiceStatus)
  BY <1>1, EmptyColumn, UpdateTyped DEF InvoiceStatus, StatusAfterDispute
<1>6. IsDatabase(W)
  <2>. HIDE DEF credits, status
  <2>. QED
    BY <1>3, <1>4, <1>5, EmptyColumn DEF IsDatabase, NoWrites
<1>7. Sound(s, W)
  <2>1. /\ DOMAIN status \subseteq {k.inv}
        /\ DOMAIN Update(db.dispute, k, st) \subseteq {k} /\ DOMAIN Empty = {}
    BY UpdateRow
  <2>. HIDE DEF credits, status
  <2>. QED
    BY <1>1, <1>6, <2>1, PlainWritesSound DEF NoWrites
<1>8. Begin(s, W)
  BY DEF UpdateDispute
<1>. QED
  BY <1>7, <1>8, BeginInv

\* refund_deposit compares with the amount of a committed deposit.
LEMMA RefundDepositInv ==
  ASSUME BillingInv, NEW s \in Sessions, NEW d \in DOMAIN db.deposit, NEW a \in Nat,
         RefundDeposit(s, d, a)
  PROVE  BillingInv'
<1>. DEFINE W == [NoWrites EXCEPT !.depStatus = At(d, "refunded"), !.depRefund = At(d, a)]
<1>1. d \in Nat
  BY DEF BillingInv, TypeOK, IsDatabase, IsColumn
<1>2. IsColumn(At(d, "refunded"), Nat, DepositStatus) /\ IsColumn(At(d, a), Nat, Nat)
  BY <1>1, AtColumn DEF DepositStatus
<1>3. IsDatabase(W) /\ W.created \subseteq WorkOrders
  BY <1>2, EmptyColumn DEF IsDatabase, NoWrites
<1>4. a <= db.deposit[d].amount /\ Begin(s, W)
  BY DEF RefundDeposit, DepositRefundable
<1>5. Grounded(W)
  BY <1>4 DEF Grounded, NoWrites, Empty, At
<1>6. \A r \in Sessions \ {s} : Disjoint(W, txn[r])
  BY DEF Disjoint, NoWrites, Empty
<1>. QED
  BY <1>3, <1>4, <1>5, <1>6, BeginInv DEF Sound

\* refund_payment compares with the amount of a committed payment.
LEMMA RefundWritesSound ==
  ASSUME BillingInv, NEW s \in Sessions, NEW k \in DOMAIN db.paid, NEW a \in Nat,
         a <= db.paid[k]
  PROVE  Sound(s, RefundWrites(k, a))
<1>. DEFINE status == IF Owed(k.inv) > Net(k.inv) - a
                      THEN Update(db.status, k.inv, "issued") ELSE Empty
            W == [NoWrites EXCEPT !.refunded = At(k, a), !.status = status]
<1>1. k \in PaymentKey /\ k.inv \in WorkOrders /\ k.inv \in Invoices
  BY DEF BillingInv, TypeOK, IsDatabase, IsColumn, PaymentKey
<1>2. IsColumn(At(k, a), PaymentKey, Nat)
  BY <1>1, AtColumn
<1>3. IsColumn(status, WorkOrders, InvoiceStatus)
  BY <1>1, EmptyColumn, UpdateTyped DEF InvoiceStatus
<1>4. IsDatabase(W) /\ W.created \subseteq WorkOrders
  <2>. HIDE DEF status
  <2>. QED
    BY <1>2, <1>3, EmptyColumn DEF IsDatabase, NoWrites
<1>5. Grounded(W)
  <2>1. DOMAIN status \subseteq {k.inv}
    BY UpdateRow
  <2>. HIDE DEF status
  <2>. QED
    BY <1>1, <2>1 DEF Grounded, NoWrites, Empty, At
<1>6. \A r \in Sessions \ {s} : Disjoint(W, txn[r])
  BY DEF Disjoint, NoWrites, Empty
<1>7. W = RefundWrites(k, a)
  BY DEF RefundWrites
<1>. QED
  BY <1>4, <1>5, <1>6, <1>7 DEF Sound

\* A refund of a payment without a charge.
LEMMA RefundPaymentInv ==
  ASSUME BillingInv, NEW s \in Sessions, NEW k \in DOMAIN db.paid, NEW a \in Nat,
         RefundPayment(s, k, a)
  PROVE  BillingInv'
<1>1. a <= db.paid[k] /\ Begin(s, RefundWrites(k, a))
  BY DEF RefundPayment, PaymentRefundable
<1>. QED
  BY <1>1, RefundWritesSound, BeginInv

\* create_invoice moves each deposit it applies to the invoice it inserts, for the
\* amount the deposit has and keeps.
LEMMA CreateInvoiceInv ==
  ASSUME BillingInv, NEW s \in Sessions, NEW w \in WorkOrders, NEW due \in Nat,
         NEW st \in InvoiceStatus, CreateInvoice(s, w, due, st)
  PROVE  BillingInv'
<1>. DEFINE D == ApplicableDeposits(w)
            T == TransfersTo(w)
            status == IF due - SumFunction(T) <= 0 THEN "paid" ELSE st
            W == [NoWrites EXCEPT !.created = {w}, !.status = At(w, status),
                                  !.due = At(w, due), !.paid = T,
                                  !.depStatus = [d \in D |-> "applied"],
                                  !.depInvoice = [d \in D |-> w]]
<1>1. D \subseteq DOMAIN db.deposit /\ D \subseteq Nat
  BY DEF BillingInv, TypeOK, IsDatabase, IsColumn, ApplicableDeposits, MatchingDeposits
<1>2. \A d \in D : db.deposit[d].amount \in Nat
  BY <1>1 DEF BillingInv, TypeOK, IsDatabase, IsColumn, DepositRow
<1>3. /\ DOMAIN T = {Transfer(w, d) : d \in D}
      /\ \A k \in DOMAIN T : T[k] = db.deposit[k.n].amount
      /\ \A k \in DOMAIN T : k.inv = w /\ k.origin = "deposit_transfer" /\ k.n \in D
  BY DEF TransfersTo, Transfer
<1>4. IsColumn(T, PaymentKey, Nat)
  <2>1. DOMAIN T \subseteq PaymentKey
    BY <1>1, <1>3 DEF Transfer, PaymentKey
  <2>2. \A k \in DOMAIN T : T[k] \in Nat
    BY <1>2, <1>3
  <2>3. T = [k \in DOMAIN T |-> T[k]]
    BY DEF TransfersTo
  <2>. QED
    BY <2>1, <2>2, <2>3 DEF IsColumn
<1>5. IsColumn(At(w, status), WorkOrders, InvoiceStatus) /\ IsColumn(At(w, due), WorkOrders, Nat)
  BY AtColumn DEF InvoiceStatus
<1>6. /\ IsColumn([d \in D |-> "applied"], Nat, DepositStatus)
      /\ IsColumn([d \in D |-> w], Nat, WorkOrders)
  BY <1>1 DEF IsColumn, DepositStatus
<1>7. IsDatabase(W) /\ W.created \subseteq WorkOrders
  <2>. HIDE DEF T, status, D
  <2>. QED
    BY <1>4, <1>5, <1>6, EmptyColumn DEF IsDatabase, NoWrites
<1>8. Grounded(W)
  <2>1. DOMAIN At(w, status) = {w} /\ DOMAIN At(w, due) = {w}
    BY UpdateRow
  <2>. HIDE DEF T, D, status
  <2>2. /\ W.created = {w} /\ W.status = At(w, status) /\ W.due = At(w, due)
        /\ W.paid = T /\ W.depStatus = [d \in D |-> "applied"]
        /\ W.depInvoice = [d \in D |-> w]
        /\ W.deposit = Empty /\ W.refunded = Empty /\ W.depRefund = Empty
        /\ W.dispute = Empty /\ DOMAIN Empty = {}
    BY DEF NoWrites, Empty
  <2>3. \A k \in DOMAIN T : /\ k.origin = "deposit_transfer" /\ k.inv \in {w}
                            /\ k.n \in DOMAIN db.deposit /\ T[k] = db.deposit[k.n].amount
    BY <1>1, <1>3
  <2>. HIDE DEF W
  <2>. QED
    BY <1>1, <1>3, <2>1, <2>2, <2>3 DEF Grounded
<1>9. \A r \in Sessions \ {s} : Disjoint(W, txn[r])
  <2>. HIDE DEF T, D
  <2>. QED
    BY <1>3 DEF Disjoint, NoWrites, Empty
<1>10. Begin(s, W)
  BY DEF CreateInvoice
<1>. QED
  BY <1>7, <1>8, <1>9, <1>10, BeginInv DEF Sound

----------------------------------------------------------------------------
(* Every request, and every step.                                          *)

\* Any request keeps the invariant: one case per handler.
LEMMA RequestInv ==
  ASSUME BillingInv, NEW s \in Sessions, Request(s)
  PROVE  BillingInv'
<1>. USE BillingAssumption
<1>1. CASE \E w \in WorkOrders, st \in {"active", "closed"} : UpdateWorkOrder(s, w, st)
  BY <1>1, UpdateWorkOrderInv DEF WorkOrderStatus
<1>2. CASE \E w \in WorkOrders, due \in Dues, st \in StaffStatuses : CreateInvoice(s, w, due, st)
  BY <1>2, CreateInvoiceInv
<1>3. CASE \E w \in Invoices :
             \E st \in StaffStatuses \cup {db.status[w]}, due \in Dues \cup {db.due[w]},
                credit \in Credits \cup {Credit(w)} : UpdateInvoice(s, w, st, due, credit)
  <2>1. PICK w \in Invoices :
             \E st \in StaffStatuses \cup {db.status[w]}, due \in Dues \cup {db.due[w]},
                credit \in Credits \cup {Credit(w)} : UpdateInvoice(s, w, st, due, credit)
    BY <1>3
  <2>2. w \in WorkOrders /\ db.status[w] \in InvoiceStatus /\ db.due[w] \in Nat /\ Credit(w) \in Nat
    BY DEF BillingInv, TypeOK, IsDatabase, IsColumn, Invoices, Credit
  <2>. QED
    BY <2>1, <2>2, UpdateInvoiceInv
<1>4. CASE \E d \in 1 .. MaxDeposits, q \in Quotes, w \in WorkOrders \cup {NoWorkOrder},
              a \in Amounts, st \in DepositStatus : CreateDeposit(s, d, q, w, a, st)
  BY <1>4, CreateDepositInv
<1>5. CASE \E w \in WorkOrders, n \in 1 .. MaxPayments, a \in Amounts, ids \in StripeIds :
             CreatePayment(s, w, n, a, ids)
  BY <1>5, CreatePaymentInv
<1>6. CASE \E w \in WorkOrders, n \in 1 .. MaxDisputes : CreateDispute(s, w, n)
  BY <1>6, CreateDisputeInv
<1>7. CASE \E k \in DOMAIN db.dispute, st \in DisputeStatus, c \in Credits \cup {0} :
             UpdateDispute(s, k, st, c)
  BY <1>7, UpdateDisputeInv
<1>8. CASE \E d \in DOMAIN db.deposit, a \in Amounts : RefundDeposit(s, d, a)
  BY <1>8, RefundDepositInv
<1>9. CASE \E k \in DOMAIN db.paid, a \in Amounts : RefundPayment(s, k, a)
  BY <1>9, RefundPaymentInv
<1>. QED
  BY <1>1, <1>2, <1>3, <1>4, <1>5, <1>6, <1>7, <1>8, <1>9 DEF Request

\* A request changes no committed row before it commits.
LEMMA RequestReads ==
  ASSUME NEW s \in Sessions, Request(s)
  PROVE  db' = db
<1>1. \A W : Begin(s, W) => db' = db
  BY DEF Begin
<1>2. \A w, st : UpdateWorkOrder(s, w, st) => db' = db
  BY <1>1 DEF UpdateWorkOrder
<1>3. \A w, due, st : CreateInvoice(s, w, due, st) => db' = db
  BY <1>1 DEF CreateInvoice
<1>4. \A w, st, due, credit : UpdateInvoice(s, w, st, due, credit) => db' = db
  BY <1>1 DEF UpdateInvoice
<1>5. \A d, q, w, a, st : CreateDeposit(s, d, q, w, a, st) => db' = db
  BY <1>1 DEF CreateDeposit
<1>6. \A w, n, a, ids : CreatePayment(s, w, n, a, ids) => db' = db
  BY <1>1 DEF CreatePayment
<1>7. \A w, n : CreateDispute(s, w, n) => db' = db
  BY <1>1 DEF CreateDispute
<1>8. \A k, st, c : UpdateDispute(s, k, st, c) => db' = db
  BY <1>1 DEF UpdateDispute
<1>9. \A d, a : RefundDeposit(s, d, a) => db' = db
  BY <1>1 DEF RefundDeposit
<1>10. \A k, a : RefundPayment(s, k, a) => db' = db
  BY <1>1 DEF RefundPayment
<1>. QED
  BY <1>2, <1>3, <1>4, <1>5, <1>6, <1>7, <1>8, <1>9, <1>10 DEF Request

\* BillingInv is inductive.
LEMMA NextInv ==
  ASSUME BillingInv, [Next]_vars
  PROVE  BillingInv'
<1>1. CASE UNCHANGED vars
  BY <1>1 DEF vars, BillingInv, TypeOK, TransfersMatchDeposits, RefundsCovered, PendingGrounded,
              Grounded, Disjoint, Transfer, Invoices
<1>2. ASSUME NEW s \in Sessions, Request(s) \/ Commit(s) \/ Rollback(s)
      PROVE  BillingInv'
  BY <1>2, RequestInv, CommitInv, RollbackInv
<1>. QED
  BY <1>1, <1>2 DEF Next

\* What every proof below starts from.
LEMMA SpecInv == Spec => []BillingInv
<1>1. BillingInv /\ [Next]_vars => BillingInv'
  BY NextInv
<1>. QED
  BY <1>1, InitInv, PTL DEF Spec

\* The committed rows are always complete, well-typed and without dangling
\* references, and idle sessions have no pending writes, for any number of
\* concurrent requests.
THEOREM TypeCorrect == Spec => []TypeOK
<1>1. BillingInv => TypeOK
  BY DEF BillingInv
<1>. QED
  BY <1>1, SpecInv, PTL

\* create_invoice and any interleaving of other requests: a deposit linked to an
\* invoice was credited there, and a transfer is always for the deposit's amount.
THEOREM TransfersCorrect == Spec => []TransfersMatchDeposits
<1>1. BillingInv => TransfersMatchDeposits
  BY DEF BillingInv
<1>. QED
  BY <1>1, SpecInv, PTL

\* refund_payment and refund_deposit never record more than was collected, however
\* many refunds of the same row race.
THEOREM RefundsCorrect == Spec => []RefundsCovered
<1>1. BillingInv => RefundsCovered
  BY DEF BillingInv
<1>. QED
  BY <1>1, SpecInv, PTL

\* The writes computed before other requests committed still fit the rows.
THEOREM PendingCorrect == Spec => []PendingGrounded
<1>1. BillingInv => PendingGrounded
  BY DEF BillingInv
<1>. QED
  BY <1>1, SpecInv, PTL

\* The commit that inserts an invoice inserts its transfers.
LEMMA CommitCreates ==
  ASSUME BillingInv, NEW s \in Sessions, Commit(s),
         NEW k \in DOMAIN db'.paid \ DOMAIN db.paid, k.origin = "deposit_transfer"
  PROVE  k.inv \notin Invoices
<1>1. Grounded(txn[s])
  BY DEF BillingInv, PendingGrounded
<1>2. txn[s].created \cap Invoices = {}
  BY DEF Commit, UniqueInvoice
<1>. QED
  BY <1>1, <1>2, CommitKeeps DEF Grounded

\* The unique constraint makes create_invoice's check-then-insert safe: a transfer
\* reaches an invoice only in the commit that inserts the invoice.
THEOREM InvoiceCreatedOnceCorrect == Spec => InvoiceCreatedOnce
<1>. DEFINE A == \A k \in DOMAIN db'.paid \ DOMAIN db.paid :
                   k.origin = "deposit_transfer" => k.inv \notin Invoices
<1>1. BillingInv /\ [Next]_vars => [A]_vars
  BY CommitCreates, RequestReads DEF Next, vars, Rollback
<1>. QED
  BY <1>1, SpecInv, PTL DEF Spec, InvoiceCreatedOnce
=============================================================================
