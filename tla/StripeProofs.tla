---------------------------- MODULE StripeProofs ----------------------------
(***************************************************************************)
(* Theorems about Stripe, for every value of its constants: that what the  *)
(* webhook records and what refunds give back has its counterpart at       *)
(* Stripe, under any interleaving of requests and deliveries; and when     *)
(* requests run one after another, that the webhook records no checkout    *)
(* the books have a payment of, that deposits and balances stay as Billing *)
(* has them, and that the rows are a ledger.                               *)
(***************************************************************************)
EXTENDS StripeLedger, BillingSerialProofs

----------------------------------------------------------------------------
(* The inductive invariant: the one of Billing, and that the payments the   *)
(* webhook records and the refunds of charges, committed or pending, are    *)
(* backed.                                                                  *)

StripeInv == BillingInv /\ StripeTypeOK /\ PaymentsBacked /\ RefundsBacked

\* An empty database and no checkouts satisfy it.
LEMMA InitStripeInv == StripeInit => StripeInv
<1>. SUFFICES ASSUME StripeInit PROVE StripeInv
  OBVIOUS
<1>1. BillingInv
  BY InitInv DEF StripeInit
<1>2. DOMAIN checkout = {} /\ IsColumn(checkout, 1 .. MaxCheckouts, CheckoutRow)
  BY EmptyColumn DEF StripeInit, Empty
<1>3. StripeTypeOK
  BY <1>1, <1>2 DEF StripeInit, StripeTypeOK, BillingInv, Checkouts
<1>4. DOMAIN db.paid = {} /\ DOMAIN db.refunded = {}
  BY DEF StripeInit, Init, Empty
<1>5. \A s \in Sessions : DOMAIN txn[s].paid = {} /\ DOMAIN txn[s].refunded = {}
  BY DEF StripeInit, Init, NoWrites, Empty
<1>. QED
  BY <1>1, <1>2, <1>3, <1>4, <1>5
  DEF StripeInv, PaymentsBacked, RefundsBacked, PaidAtStripe, ReturnedAtStripe, Checkouts

\* A step creates checkouts, completes them and adds refunds; what they are for stays.
CheckoutsKept ==
  \A c \in Checkouts :
    /\ c \in DOMAIN checkout'
    /\ checkout'[c].inv = checkout[c].inv /\ checkout'[c].amount = checkout[c].amount
    /\ checkout[c].complete => checkout'[c].complete
    /\ checkout'[c].returned \in Nat /\ checkout'[c].returned >= checkout[c].returned

\* The payments and refunds of d are backed after the step.
BackedAfter(d) ==
  /\ \A k \in DOMAIN d.paid : k.origin = "webhook" =>
       /\ k.session \in DOMAIN checkout' /\ checkout'[k.session].complete
       /\ checkout'[k.session].inv = k.inv
       /\ checkout'[k.session].amount = d.paid[k]
  /\ \A k \in DOMAIN d.refunded : ChargeOf(k) \in 1 .. MaxCheckouts =>
       /\ ChargeOf(k) \in DOMAIN checkout'
       /\ d.refunded[k] <= checkout'[ChargeOf(k)].returned

\* Whatever is backed stays backed.
LEMMA BackedStays ==
  ASSUME StripeInv, CheckoutsKept
  PROVE  BackedAfter(db) /\ \A s \in Sessions : BackedAfter(txn[s])
<1>1. \A c \in Checkouts : checkout[c].returned \in Nat
  BY DEF StripeInv, StripeTypeOK, IsColumn, CheckoutRow, Checkouts
<1>2. \A k \in DOMAIN db.refunded : db.refunded[k] \in Nat
  BY DEF StripeInv, StripeTypeOK, TypeOK, IsDatabase, IsColumn
<1>3. \A s \in Sessions : \A k \in DOMAIN txn[s].refunded : txn[s].refunded[k] \in Nat
  BY DEF StripeInv, StripeTypeOK, TypeOK, IsDatabase, IsColumn
<1>4. BackedAfter(db)
  BY <1>1, <1>2 DEF StripeInv, PaymentsBacked, RefundsBacked, PaidAtStripe, ReturnedAtStripe,
                    CheckoutsKept, BackedAfter
<1>5. \A s \in Sessions : BackedAfter(txn[s])
  BY <1>1, <1>3 DEF StripeInv, PaymentsBacked, RefundsBacked, PaidAtStripe, ReturnedAtStripe,
                    CheckoutsKept, BackedAfter
<1>. QED
  BY <1>4, <1>5

\* Backed rows and pending writes are what the two properties say.
LEMMA BackedNext ==
  ASSUME BackedAfter(db'), \A s \in Sessions : BackedAfter(txn'[s]),
         \A c \in DOMAIN checkout' : checkout'[c].returned <= checkout'[c].amount
  PROVE  PaymentsBacked' /\ RefundsBacked'
BY DEF BackedAfter, PaymentsBacked, RefundsBacked, PaidAtStripe, ReturnedAtStripe, Checkouts

\* A step that leaves checkouts alone keeps them and their types.
LEMMA CheckoutsUnchanged ==
  ASSUME StripeInv, checkout' = checkout
  PROVE  /\ CheckoutsKept
         /\ \A c \in DOMAIN checkout' : checkout'[c].returned <= checkout'[c].amount
BY DEF StripeInv, StripeTypeOK, IsColumn, CheckoutRow, CheckoutsKept, Checkouts, RefundsBacked

\* A session without writes has nothing to back.
LEMMA NoWritesBacked == BackedAfter(NoWrites)
BY DEF BackedAfter, NoWrites, Empty

----------------------------------------------------------------------------
(* Requests.                                                               *)

\* A request that begins with backed writes.
LEMMA BeginBacked ==
  ASSUME StripeInv, BillingInv', NEW s \in Sessions, NEW W, Begin(s, W),
         CheckoutsKept, BackedAfter(W),
         IsColumn(checkout', 1 .. MaxCheckouts, CheckoutRow),
         DOMAIN checkout' = Checkouts,
         \A c \in DOMAIN checkout' : checkout'[c].returned <= checkout'[c].amount,
         UNCHANGED unacked,
         handles' \in [Sessions -> Checkouts \cup {0}]
  PROVE  StripeInv'
<1>1. BillingInv'
  OBVIOUS
<1>2. db' = db /\ DOMAIN txn = Sessions /\ txn' = [txn EXCEPT ![s] = W]
  BY DEF Begin, StripeInv, StripeTypeOK, TypeOK
<1>3. StripeTypeOK'
  BY <1>1, <1>2 DEF StripeInv, StripeTypeOK, BillingInv, CheckoutsKept, Checkouts, Invoices
<1>4. BackedAfter(db') /\ \A r \in Sessions : BackedAfter(txn'[r])
  <2>1. BackedAfter(db) /\ \A r \in Sessions : BackedAfter(txn[r])
    BY BackedStays
  <2>2. \A r \in Sessions : txn'[r] = W \/ txn'[r] = txn[r]
    BY <1>2
  <2>. HIDE DEF BackedAfter
  <2>. QED
    BY <1>2, <2>1, <2>2
<1>5. PaymentsBacked' /\ RefundsBacked'
  BY <1>4, BackedNext
<1>. QED
  BY <1>1, <1>3, <1>5 DEF StripeInv

\* The handlers of Billing record nothing for the webhook and refund without Stripe.
Offline(W) ==
  /\ \A k \in DOMAIN W.paid : k.origin # "webhook"
  /\ \A k \in DOMAIN W.refunded : ChargeOf(k) = 0

\* A transaction that writes neither payments nor refunds.
LEMMA PlainWritesOffline ==
  ASSUME NEW W, W.paid = Empty, W.refunded = Empty
  PROVE  Offline(W)
BY DEF Offline, Empty

\* Any request of Billing.
LEMMA RequestOffline ==
  ASSUME NEW s \in Sessions, Request(s)
  PROVE  \E W : Begin(s, W) /\ Offline(W)
<1>1. ASSUME NEW w, NEW st, UpdateWorkOrder(s, w, st)
      PROVE  \E W : Begin(s, W) /\ Offline(W)
  BY <1>1, PlainWritesOffline DEF UpdateWorkOrder, NoWrites
<1>2. ASSUME NEW w, NEW st, NEW due, NEW credit, UpdateInvoice(s, w, st, due, credit)
      PROVE  \E W : Begin(s, W) /\ Offline(W)
  BY <1>2, PlainWritesOffline DEF UpdateInvoice, NoWrites
<1>3. ASSUME NEW w, NEW n, CreateDispute(s, w, n)
      PROVE  \E W : Begin(s, W) /\ Offline(W)
  BY <1>3, PlainWritesOffline DEF CreateDispute, NoWrites
<1>4. ASSUME NEW k, NEW st, NEW c, UpdateDispute(s, k, st, c)
      PROVE  \E W : Begin(s, W) /\ Offline(W)
  BY <1>4, PlainWritesOffline DEF UpdateDispute, NoWrites
<1>5. ASSUME NEW d, NEW q, NEW w, NEW a, NEW st, CreateDeposit(s, d, q, w, a, st)
      PROVE  \E W : Begin(s, W) /\ Offline(W)
  BY <1>5, PlainWritesOffline DEF CreateDeposit, NoWrites
<1>6. ASSUME NEW d, NEW a, RefundDeposit(s, d, a)
      PROVE  \E W : Begin(s, W) /\ Offline(W)
  BY <1>6, PlainWritesOffline DEF RefundDeposit, NoWrites
<1>7. ASSUME NEW w, NEW n, NEW a, NEW ids, CreatePayment(s, w, n, a, ids)
      PROVE  \E W : Begin(s, W) /\ Offline(W)
  <2>. DEFINE k == Posted(w, n, ids)
              status == IF Balance(w) - a <= 0 THEN Update(db.status, w, "paid") ELSE Empty
              W == [NoWrites EXCEPT !.paid = At(k, a), !.status = status]
  <2>1. Begin(s, W)
    BY <1>7 DEF CreatePayment
  <2>2. Offline(W)
    <3>. HIDE DEF status
    <3>. QED
      BY DEF Offline, NoWrites, Empty, At, Posted
  <2>. QED
    BY <2>1, <2>2
<1>8. ASSUME NEW w, NEW due, NEW st, CreateInvoice(s, w, due, st)
      PROVE  \E W : Begin(s, W) /\ Offline(W)
  <2>. DEFINE D == ApplicableDeposits(w)
              T == TransfersTo(w)
              status == IF due - SumFunction(T) <= 0 THEN "paid" ELSE st
              W == [NoWrites EXCEPT !.created = {w}, !.status = At(w, status),
                                    !.due = At(w, due), !.paid = T,
                                    !.depStatus = [d \in D |-> "applied"],
                                    !.depInvoice = [d \in D |-> w]]
  <2>1. Begin(s, W)
    BY <1>8 DEF CreateInvoice
  <2>2. \A k \in DOMAIN T : k.origin = "deposit_transfer"
    BY DEF TransfersTo, Transfer
  <2>3. Offline(W)
    <3>. HIDE DEF D, T, status
    <3>. QED
      BY <2>2 DEF Offline, NoWrites, Empty
  <2>. QED
    BY <2>1, <2>3
<1>9. ASSUME NEW k, NEW a, RefundPayment(s, k, a)
      PROVE  \E W : Begin(s, W) /\ Offline(W)
  <2>. DEFINE status == IF Owed(k.inv) > Net(k.inv) - a
                        THEN Update(db.status, k.inv, "issued") ELSE Empty
              W == [NoWrites EXCEPT !.refunded = At(k, a), !.status = status]
  <2>1. Begin(s, W) /\ ChargeOf(k) = 0
    BY <1>9 DEF RefundPayment, RefundWrites
  <2>2. Offline(W)
    <3>. HIDE DEF status
    <3>. QED
      BY <2>1 DEF Offline, NoWrites, Empty, At
  <2>. QED
    BY <2>1, <2>2
<1>. QED
  BY <1>1, <1>2, <1>3, <1>4, <1>5, <1>6, <1>7, <1>8, <1>9 DEF Request

\* A request of Billing keeps the invariant.
LEMMA RequestBacked ==
  ASSUME StripeInv, NEW s \in Sessions, Request(s), UNCHANGED stripeVars
  PROVE  StripeInv'
<1>1. PICK W : Begin(s, W) /\ Offline(W)
  BY RequestOffline
<1>2. BillingInv'
  BY RequestInv DEF StripeInv
<1>3. BackedAfter(W)
  BY <1>1 DEF BackedAfter, Offline
<1>4. checkout' = checkout /\ unacked' = unacked /\ handles' = handles
  BY DEF stripeVars
<1>5. /\ IsColumn(checkout, 1 .. MaxCheckouts, CheckoutRow)
      /\ handles \in [Sessions -> Checkouts \cup {0}]
  BY DEF StripeInv, StripeTypeOK
<1>. QED
  BY <1>1, <1>2, <1>3, <1>4, <1>5, CheckoutsUnchanged, BeginBacked DEF Checkouts

\* The row number of a new payment is a number.
LEMMA RecordNumbersType == RecordNumbers \subseteq Nat
<1>1. Cardinality(Sessions) \in Nat
  BY StripeAssumption, FS_CardinalityType
<1>. QED
  BY <1>1 DEF RecordNumbers

\* The webhook records a payment under a name no row has, for an invoice that exists.
LEMMA RecordSound ==
  ASSUME StripeInv, NEW s \in Sessions, NEW c \in Checkouts, NEW n \in RecordNumbers,
         NEW k, k = Recorded(c, n),
         NEW W, W = [NoWrites EXCEPT !.paid = At(k, Collected(c)),
                                     !.status = StatusAfterCheckout(k.inv, Collected(c))],
         FreshRecord(c, n)
  PROVE  Sound(s, W) /\ W.paid = At(k, Collected(c)) /\ W.refunded = Empty
<1>. DEFINE status == StatusAfterCheckout(k.inv, Collected(c))
<1>1. /\ checkout[c].inv \in WorkOrders /\ checkout[c].inv \in Invoices
      /\ Collected(c) \in Nat /\ c \in Nat
  BY StripeAssumption DEF StripeInv, StripeTypeOK, IsColumn, CheckoutRow, Checkouts, Collected
<1>2. k \in PaymentKey /\ k.inv = checkout[c].inv /\ k.origin = "webhook" /\ IsFor(k, c) /\ k.n = n
  BY <1>1, RecordNumbersType DEF PaymentKey, Recorded, IsFor
<1>3. IsColumn(status, WorkOrders, InvoiceStatus) /\ DOMAIN status \subseteq {k.inv}
  BY <1>1, <1>2, EmptyColumn, UpdateTyped, UpdateRow DEF InvoiceStatus, StatusAfterCheckout
<1>4. IsColumn(At(k, Collected(c)), PaymentKey, Nat) /\ DOMAIN At(k, Collected(c)) = {k}
  BY <1>1, <1>2, AtColumn, UpdateRow
<1>. HIDE DEF status
<1>5. /\ W.paid = At(k, Collected(c)) /\ W.status = status
      /\ W.created = {} /\ W.woStatus = Empty /\ W.due = Empty /\ W.credit = Empty
      /\ W.refunded = Empty /\ W.deposit = Empty /\ W.depStatus = Empty
      /\ W.depInvoice = Empty /\ W.depRefund = Empty /\ W.dispute = Empty /\ DOMAIN Empty = {}
  BY DEF NoWrites, Empty, status
<1>6. IsDatabase(W)
  BY <1>3, <1>4, <1>5, EmptyColumn DEF IsDatabase
<1>7. /\ k \notin DOMAIN db.paid
      /\ \A r \in open : k \notin DOMAIN txn[r].paid
  BY <1>2 DEF FreshRecord
<1>8. Grounded(W)
  BY <1>1, <1>2, <1>3, <1>4, <1>5, <1>7 DEF Grounded
<1>9. ASSUME NEW r \in Sessions \ {s}
      PROVE  Disjoint(W, txn[r])
  <2>1. k \notin DOMAIN txn[r].paid
    BY <1>5, <1>7, PendingIsOpen DEF StripeInv
  <2>. QED
    BY <1>4, <1>5, <2>1 DEF Disjoint
<1>. QED
  BY <1>5, <1>6, <1>8, <1>9 DEF Sound

\* A delivery of checkout.session.completed keeps the invariant.
LEMMA HandleBacked ==
  ASSUME StripeInv, NEW s \in Sessions, NEW c \in Checkouts, HandleCheckoutCompleted(s, c)
  PROVE  StripeInv'
<1>1. /\ c \in unacked /\ handles' = [handles EXCEPT ![s] = c]
      /\ checkout' = checkout /\ unacked' = unacked
  BY DEF HandleCheckoutCompleted
<1>2. /\ IsColumn(checkout', 1 .. MaxCheckouts, CheckoutRow) /\ DOMAIN checkout' = Checkouts
      /\ handles' \in [Sessions -> Checkouts \cup {0}]
  BY <1>1 DEF StripeInv, StripeTypeOK, Checkouts
<1>3. ASSUME NEW W, Begin(s, W), Sound(s, W), BackedAfter(W)
      PROVE  StripeInv'
  <2>1. BillingInv'
    BY <1>3, BeginInv DEF StripeInv
  <2>. QED
    BY <1>1, <1>2, <1>3, <2>1, CheckoutsUnchanged, BeginBacked
<1>4. CASE Begin(s, NoWrites)
  BY <1>3, <1>4, NoWritesSound, NoWritesBacked
<1>5. ASSUME NEW n \in RecordNumbers, FreshRecord(c, n),
             NEW k, k = Recorded(c, n),
             NEW W, W = [NoWrites EXCEPT !.paid = At(k, Collected(c)),
                                         !.status = StatusAfterCheckout(k.inv, Collected(c))],
             Begin(s, W)
      PROVE  StripeInv'
  <2>1. Sound(s, W) /\ W.paid = At(k, Collected(c)) /\ W.refunded = Empty
    BY <1>5, RecordSound
  <2>2. checkout[c].complete
    BY <1>1 DEF StripeInv, StripeTypeOK
  <2>3. k.session = c /\ k.inv = checkout[c].inv /\ DOMAIN Empty = {}
        /\ DOMAIN W.paid = {k} /\ W.paid[k] = checkout[c].amount
    BY <1>5, <2>1 DEF At, Empty, Collected, Recorded
  <2>4. BackedAfter(W)
    BY <1>1, <2>1, <2>2, <2>3 DEF BackedAfter, Checkouts
  <2>. QED
    BY <1>3, <1>5, <2>1, <2>4
<1>6. CASE Unrecorded(c) /\ ~ Begin(s, NoWrites)
  <2>. DEFINE Writes(n) == [NoWrites EXCEPT
                              !.paid = At(Recorded(c, n), Collected(c)),
                              !.status = StatusAfterCheckout(checkout[c].inv, Collected(c))]
  <2>1. PICK n \in RecordNumbers : FreshRecord(c, n) /\ Begin(s, Writes(n))
    BY <1>6 DEF HandleCheckoutCompleted
  <2>2. Recorded(c, n).inv = checkout[c].inv
    BY DEF Recorded
  <2>. QED
    BY <1>5, <2>1, <2>2
<1>. QED
  BY <1>4, <1>6 DEF HandleCheckoutCompleted

\* A refund that Stripe makes of a charge raises what its checkout returned.
LEMMA ReturnBacked ==
  ASSUME StripeInv, NEW c, NEW a \in Nat, RefundAtStripe(c, a)
  PROVE  /\ CheckoutsKept
         /\ IsColumn(checkout', 1 .. MaxCheckouts, CheckoutRow) /\ DOMAIN checkout' = Checkouts
         /\ \A b \in DOMAIN checkout' : checkout'[b].returned <= checkout'[b].amount
         /\ c \in 1 .. MaxCheckouts => c \in Checkouts /\ a <= checkout'[c].returned
<1>1. CASE c \notin 1 .. MaxCheckouts /\ checkout' = checkout
  BY <1>1, CheckoutsUnchanged DEF StripeInv, StripeTypeOK, Checkouts
<1>2. CASE /\ c \in Checkouts
           /\ checkout[c].returned + a <= checkout[c].amount
           /\ checkout' = [checkout EXCEPT ![c].returned = @ + a]
  <2>1. /\ \A b \in Checkouts : checkout[b] \in CheckoutRow
        /\ Checkouts \subseteq 1 .. MaxCheckouts
    BY DEF StripeInv, StripeTypeOK, IsColumn, Checkouts
  <2>2. /\ DOMAIN checkout' = Checkouts
        /\ checkout'[c] = [checkout[c] EXCEPT !.returned = @ + a]
        /\ \A b \in Checkouts \ {c} : checkout'[b] = checkout[b]
    BY <1>2 DEF Checkouts
  <2>3. /\ checkout'[c].inv = checkout[c].inv /\ checkout'[c].amount = checkout[c].amount
        /\ checkout'[c].complete = checkout[c].complete
        /\ checkout'[c].returned = checkout[c].returned + a /\ checkout'[c] \in CheckoutRow
    BY <1>2, <2>1, <2>2 DEF CheckoutRow
  <2>4. CheckoutsKept
    BY <1>2, <2>1, <2>2, <2>3 DEF CheckoutsKept, CheckoutRow
  <2>5. IsColumn(checkout', 1 .. MaxCheckouts, CheckoutRow)
    <3>1. \A b \in Checkouts : checkout'[b] \in CheckoutRow
      BY <2>1, <2>2, <2>3
    <3>2. checkout' = [b \in DOMAIN checkout' |-> checkout'[b]]
      BY <1>2 DEF StripeInv, StripeTypeOK, IsColumn
    <3>. QED
      BY <2>1, <2>2, <3>1, <3>2 DEF IsColumn
  <2>6. \A b \in DOMAIN checkout' : checkout'[b].returned <= checkout'[b].amount
    BY <1>2, <2>2, <2>3 DEF StripeInv, RefundsBacked
  <2>7. a <= checkout'[c].returned
    BY <1>2, <2>1, <2>3 DEF CheckoutRow
  <2>. QED
    BY <1>2, <2>2, <2>4, <2>5, <2>6, <2>7
<1>. QED
  BY <1>1, <1>2 DEF RefundAtStripe

\* A refund by Stripe is recorded with what Stripe returned for it.
LEMMA RefundBacked ==
  ASSUME StripeInv, NEW s \in Sessions, NEW k \in DOMAIN db.paid, NEW a \in Nat,
         RefundStripePayment(s, k, a)
  PROVE  StripeInv'
<1>. DEFINE c == ChargeOf(k)
            W == RefundWrites(k, a)
<1>1. /\ a <= db.paid[k] /\ RefundAtStripe(c, a)
      /\ Begin(s, W) /\ unacked' = unacked /\ handles' = handles
  BY DEF RefundStripePayment, PaymentRefundable
<1>2. /\ CheckoutsKept
      /\ IsColumn(checkout', 1 .. MaxCheckouts, CheckoutRow) /\ DOMAIN checkout' = Checkouts
      /\ \A b \in DOMAIN checkout' : checkout'[b].returned <= checkout'[b].amount
      /\ c \in 1 .. MaxCheckouts => c \in Checkouts /\ a <= checkout'[c].returned
  <2>. HIDE DEF c
  <2>. QED
    BY <1>1, ReturnBacked
<1>3. BackedAfter(W)
  <2>1. W.paid = Empty /\ W.refunded = At(k, a)
    BY DEF RefundWrites, NoWrites
  <2>2. DOMAIN W.paid = {} /\ DOMAIN W.refunded = {k} /\ W.refunded[k] = a
    BY <2>1 DEF Empty, At
  <2>. HIDE DEF W
  <2>. QED
    BY <1>2, <2>2 DEF BackedAfter
<1>4. BillingInv'
  BY <1>1, RefundWritesSound, BeginInv DEF StripeInv
<1>5. handles' \in [Sessions -> Checkouts \cup {0}]
  BY <1>1 DEF StripeInv, StripeTypeOK
<1>. HIDE DEF W, c
<1>. QED
  BY <1>1, <1>2, <1>3, <1>4, <1>5, BeginBacked

----------------------------------------------------------------------------
(* The end of a request, and Stripe's own steps.                           *)

\* A request that ends, with success or not.
LEMMA EndBacked ==
  ASSUME StripeInv, NEW s \in Sessions, StripeCommit(s) \/ StripeRollback(s)
  PROVE  StripeInv'
<1>1. BillingInv'
  BY CommitInv, RollbackInv DEF StripeInv, StripeCommit, StripeRollback
<1>2. /\ checkout' = checkout /\ unacked' \subseteq unacked
      /\ handles' = [handles EXCEPT ![s] = 0]
      /\ Commit(s) \/ Rollback(s)
  BY DEF StripeCommit, StripeRollback
<1>3. Invoices \subseteq Invoices'
  BY <1>2, CommitKeeps DEF StripeInv, Rollback, Invoices
<1>4. StripeTypeOK'
  <2>1. TypeOK'
    BY <1>1 DEF BillingInv
  <2>2. handles' \in [Sessions -> Checkouts \cup {0}]
    BY <1>2 DEF StripeInv, StripeTypeOK
  <2>3. IsColumn(checkout', 1 .. MaxCheckouts, CheckoutRow)
    BY <1>2 DEF StripeInv, StripeTypeOK
  <2>. QED
    BY <1>2, <1>3, <2>1, <2>2, <2>3 DEF StripeInv, StripeTypeOK, Checkouts
<1>5. BackedAfter(db) /\ \A r \in Sessions : BackedAfter(txn[r])
  BY <1>2, BackedStays, CheckoutsUnchanged
<1>6. BackedAfter(db')
  <2>1. CASE Commit(s)
    <3>1. /\ db'.paid = Overlay(txn[s].paid, db.paid)
          /\ db'.refunded = Overlay(txn[s].refunded, db.refunded)
      BY <2>1 DEF Commit
    <3>. QED
      BY <1>5, <3>1 DEF BackedAfter, Overlay
  <2>2. CASE Rollback(s)
    BY <1>5, <2>2 DEF Rollback
  <2>. QED
    BY <1>2, <2>1, <2>2
<1>7. \A r \in Sessions : BackedAfter(txn'[r])
  <2>1. \A r \in Sessions : txn'[r] = NoWrites \/ txn'[r] = txn[r]
    BY <1>2 DEF Commit, Rollback, End, StripeInv, StripeTypeOK, TypeOK
  <2>. QED
    BY <1>5, <2>1, NoWritesBacked
<1>. QED
  BY <1>1, <1>2, <1>4, <1>6, <1>7, CheckoutsUnchanged, BackedNext DEF StripeInv

\* A step of Stripe that leaves the database alone.
LEMMA GatewayBacked ==
  ASSUME StripeInv, UNCHANGED vars, UNCHANGED handles, CheckoutsKept,
         IsColumn(checkout', 1 .. MaxCheckouts, CheckoutRow),
         \A c \in DOMAIN checkout' : checkout'[c].inv \in Invoices,
         \A c \in DOMAIN checkout' : checkout'[c].returned <= checkout'[c].amount,
         unacked' \subseteq {c \in DOMAIN checkout' : checkout'[c].complete}
  PROVE  StripeInv'
<1>1. db' = db /\ open' = open /\ txn' = txn /\ handles' = handles
  BY DEF vars
<1>2. BillingInv'
  BY NextInv DEF StripeInv
<1>3. Checkouts \subseteq DOMAIN checkout'
  BY DEF CheckoutsKept
<1>4. StripeTypeOK'
  BY <1>1, <1>2, <1>3 DEF StripeInv, StripeTypeOK, BillingInv, Checkouts, Invoices
<1>5. BackedAfter(db') /\ \A r \in Sessions : BackedAfter(txn'[r])
  BY <1>1, BackedStays
<1>. QED
  BY <1>2, <1>4, <1>5, BackedNext DEF StripeInv

\* A new checkout is for an invoice that exists and has returned nothing.
LEMMA CreateCheckoutBacked ==
  ASSUME StripeInv, NEW w \in WorkOrders, NEW c \in 1 .. MaxCheckouts,
         CreateCheckoutSession(w, c)
  PROVE  StripeInv'
<1>. DEFINE row == [inv |-> w, amount |-> Balance(w), complete |-> FALSE, returned |-> 0]
<1>1. /\ c \notin Checkouts /\ w \in Invoices /\ Balance(w) \in 1 .. db.due[w]
      /\ checkout' = Overlay(At(c, row), checkout)
      /\ UNCHANGED vars /\ UNCHANGED handles /\ unacked' = unacked
  BY DEF CreateCheckoutSession
<1>2. db.due[w] \in Nat
  BY <1>1 DEF StripeInv, StripeTypeOK, TypeOK, IsDatabase, IsColumn, Invoices
<1>3. row \in CheckoutRow
  BY <1>1, <1>2 DEF CheckoutRow
<1>4. row.inv = w /\ row.returned = 0 /\ row.amount \in Nat
  BY <1>3 DEF CheckoutRow
<1>. HIDE DEF row
<1>5. IsColumn(checkout', 1 .. MaxCheckouts, CheckoutRow)
  BY <1>1, <1>3, AtColumn, OverlayColumn DEF StripeInv, StripeTypeOK
<1>6. /\ DOMAIN checkout' = Checkouts \cup {c} /\ checkout'[c] = row
      /\ \A b \in Checkouts : checkout'[b] = checkout[b]
  BY <1>1 DEF Overlay, At, Checkouts
<1>7. CheckoutsKept
  BY <1>6, CheckoutsUnchanged DEF StripeInv, StripeTypeOK, IsColumn, CheckoutRow, CheckoutsKept,
                                  Checkouts
<1>8. \A b \in DOMAIN checkout' : checkout'[b].inv \in Invoices
  BY <1>1, <1>4, <1>6 DEF StripeInv, StripeTypeOK
<1>9. \A b \in DOMAIN checkout' : checkout'[b].returned <= checkout'[b].amount
  BY <1>4, <1>6 DEF StripeInv, RefundsBacked
<1>10. unacked' \subseteq {b \in DOMAIN checkout' : checkout'[b].complete}
  BY <1>1, <1>6 DEF StripeInv, StripeTypeOK
<1>. QED
  BY <1>1, <1>5, <1>7, <1>8, <1>9, <1>10, GatewayBacked

\* A checkout that completes stays what it is for.
LEMMA CompleteCheckoutBacked ==
  ASSUME StripeInv, NEW c \in Checkouts, CompleteCheckout(c)
  PROVE  StripeInv'
<1>1. /\ checkout' = [checkout EXCEPT ![c].complete = TRUE]
      /\ UNCHANGED vars /\ UNCHANGED handles /\ unacked' = unacked \cup {c}
  BY DEF CompleteCheckout
<1>2. \A b \in Checkouts : checkout[b] \in CheckoutRow
  BY DEF StripeInv, StripeTypeOK, IsColumn, Checkouts
<1>3. /\ DOMAIN checkout' = Checkouts
      /\ checkout'[c] = [checkout[c] EXCEPT !.complete = TRUE]
      /\ \A b \in Checkouts \ {c} : checkout'[b] = checkout[b]
  BY <1>1 DEF Checkouts
<1>4. /\ checkout'[c].inv = checkout[c].inv /\ checkout'[c].amount = checkout[c].amount
      /\ checkout'[c].complete = TRUE
      /\ checkout'[c].returned = checkout[c].returned /\ checkout'[c] \in CheckoutRow
  BY <1>2, <1>3 DEF CheckoutRow
<1>5. IsColumn(checkout', 1 .. MaxCheckouts, CheckoutRow)
  <2>1. \A b \in Checkouts : checkout'[b] \in CheckoutRow
    BY <1>2, <1>3, <1>4
  <2>2. Checkouts \subseteq 1 .. MaxCheckouts
    BY DEF StripeInv, StripeTypeOK, IsColumn, Checkouts
  <2>3. checkout' = [b \in DOMAIN checkout' |-> checkout'[b]]
    BY <1>1 DEF StripeInv, StripeTypeOK, IsColumn
  <2>. QED
    BY <1>3, <2>1, <2>2, <2>3 DEF IsColumn
<1>6. CheckoutsKept
  BY <1>2, <1>3, <1>4 DEF CheckoutsKept, CheckoutRow
<1>7. \A b \in DOMAIN checkout' : checkout'[b].inv \in Invoices
  BY <1>3, <1>4 DEF StripeInv, StripeTypeOK
<1>8. \A b \in DOMAIN checkout' : checkout'[b].returned <= checkout'[b].amount
  BY <1>3, <1>4 DEF StripeInv, RefundsBacked
<1>9. unacked' \subseteq {b \in DOMAIN checkout' : checkout'[b].complete}
  BY <1>1, <1>3, <1>4 DEF StripeInv, StripeTypeOK
<1>. QED
  BY <1>1, <1>5, <1>6, <1>7, <1>8, <1>9, GatewayBacked

\* StripeInv is inductive.
LEMMA NextStripeInv ==
  ASSUME StripeInv, [StripeNext]_allVars
  PROVE  StripeInv'
<1>1. CASE UNCHANGED allVars
  <2>1. /\ UNCHANGED vars /\ UNCHANGED handles /\ checkout' = checkout /\ unacked' = unacked
    BY <1>1 DEF allVars, stripeVars
  <2>2. /\ IsColumn(checkout', 1 .. MaxCheckouts, CheckoutRow)
        /\ \A c \in DOMAIN checkout' : checkout'[c].inv \in Invoices
        /\ unacked' \subseteq {c \in DOMAIN checkout' : checkout'[c].complete}
    BY <2>1 DEF StripeInv, StripeTypeOK, Checkouts
  <2>. QED
    BY <2>1, <2>2, CheckoutsUnchanged, GatewayBacked
<1>2. CASE \E w \in WorkOrders, c \in 1 .. MaxCheckouts : CreateCheckoutSession(w, c)
  BY <1>2, CreateCheckoutBacked
<1>3. CASE \E c \in Checkouts : CompleteCheckout(c)
  BY <1>3, CompleteCheckoutBacked
<1>4. ASSUME NEW s \in Sessions, Request(s), UNCHANGED stripeVars
      PROVE  StripeInv'
  BY <1>4, RequestBacked
<1>5. ASSUME NEW s \in Sessions, NEW c \in Checkouts, HandleCheckoutCompleted(s, c)
      PROVE  StripeInv'
  BY <1>5, HandleBacked
<1>6. ASSUME NEW s \in Sessions, NEW k \in DOMAIN db.paid, NEW a \in Amounts,
             RefundStripePayment(s, k, a)
      PROVE  StripeInv'
  BY <1>6, RefundBacked, BillingAssumption
<1>7. ASSUME NEW s \in Sessions, StripeCommit(s) \/ StripeRollback(s)
      PROVE  StripeInv'
  BY <1>7, EndBacked
<1>. QED
  BY <1>1, <1>2, <1>3, <1>4, <1>5, <1>6, <1>7 DEF StripeNext

\* Only a commit changes the rows.
LEMMA StripeReads ==
  ASSUME [StripeNext]_allVars
  PROVE  db' = db \/ \E s \in Sessions : Commit(s)
<1>1. ASSUME NEW s \in Sessions,
             \/ Request(s)
             \/ \E c \in Checkouts : HandleCheckoutCompleted(s, c)
             \/ \E k \in DOMAIN db.paid, a \in Amounts : RefundStripePayment(s, k, a)
      PROVE  db' = db
  BY <1>1, RequestReads DEF HandleCheckoutCompleted, RefundStripePayment, Begin
<1>. QED
  BY <1>1 DEF StripeNext, StripeCommit, StripeRollback, Rollback, CreateCheckoutSession,
     CompleteCheckout, vars, allVars

\* What the theorems below start from.
LEMMA SpecStripeInv == StripeSpec => []StripeInv
<1>1. StripeInv /\ [StripeNext]_allVars => StripeInv'
  BY NextStripeInv
<1>. QED
  BY <1>1, InitStripeInv, PTL DEF StripeSpec

\* Checkouts, events and handlers in flight are well-typed and refer to invoices
\* that exist, and so do the rows of Billing beside them.
THEOREM StripeTypeCorrect == StripeSpec => []StripeTypeOK
<1>1. StripeInv => StripeTypeOK
  BY DEF StripeInv
<1>. QED
  BY <1>1, SpecStripeInv, PTL

\* handle_checkout_completed, whatever races with it: what the webhook records is always
\* money that a customer paid, the same amount for the same invoice.  (What users post with
\* ids of Stripe is outside the theorem: create_payment stores it unseen.)
THEOREM PaymentsBackedCorrect == StripeSpec => []PaymentsBacked
<1>1. StripeInv => PaymentsBacked
  BY DEF StripeInv
<1>. QED
  BY <1>1, SpecStripeInv, PTL

\* refund_payment through create_refund, whatever races with it and whoever wrote the
\* payment: the books never hold a refund of a checkout's charge that Stripe did not make,
\* and Stripe never returns more than the checkout collected.
THEOREM RefundsBackedCorrect == StripeSpec => []RefundsBacked
<1>1. StripeInv => RefundsBacked
  BY DEF StripeInv
<1>. QED
  BY <1>1, SpecStripeInv, PTL

\* Whatever interleaves with deliveries and refunds by Stripe: deposits are transferred in
\* full and linked, no refund exceeds its payment, and what is in flight may commit.
THEOREM StripeRowsGrounded ==
  StripeSpec => [](TransfersMatchDeposits /\ RefundsCovered /\ PendingGrounded)
<1>1. StripeInv => TransfersMatchDeposits /\ RefundsCovered /\ PendingGrounded
  BY DEF StripeInv, BillingInv
<1>. QED
  BY <1>1, SpecStripeInv, PTL

\* Whatever interleaves: beside deliveries, too, a transfer reaches an invoice only in the
\* commit that inserts the invoice.
THEOREM StripeInvoiceCreatedOnce == StripeSpec => InvoiceCreatedOnce
<1>. DEFINE A == \A k \in DOMAIN db'.paid \ DOMAIN db.paid :
                   k.origin = "deposit_transfer" => k.inv \notin Invoices
<1>1. StripeInv /\ [StripeNext]_allVars => [A]_vars
  BY CommitCreates, StripeReads DEF StripeInv
<1>. QED
  BY <1>1, SpecStripeInv, PTL DEF StripeSpec, InvoiceCreatedOnce

----------------------------------------------------------------------------
(* Requests one after another: a delivery that finds no payment for its      *)
(* checkout is the only one in flight, so none is there when it commits.    *)

\* What the webhook is about to record: one payment for a checkout that has none.
NewRecords(paid) ==
  \A j \in DOMAIN paid : j.origin = "webhook" =>
    /\ \A k \in DOMAIN db.paid : ~ IsFor(k, j.session)
    /\ \A k \in DOMAIN paid : IsFor(k, j.session) => j = k

RecordedInv == StripeInv /\ \A s \in Sessions : NewRecords(txn[s].paid)

\* No session has anything to record at first.
LEMMA InitRecordedInv == StripeInit => RecordedInv
<1>1. ASSUME StripeInit
      PROVE  \A s \in Sessions : NewRecords(txn[s].paid)
  BY <1>1 DEF StripeInit, Init, NewRecords, NoWrites, Empty
<1>. QED
  BY <1>1, InitStripeInv DEF RecordedInv

\* Only a delivery begins with something to record, for a checkout that has no payment.
LEMMA BeginRecords ==
  ASSUME RecordedInv, NEW s \in Sessions,
         \/ Request(s)
         \/ \E c \in Checkouts : HandleCheckoutCompleted(s, c)
         \/ \E k \in DOMAIN db.paid, a \in Amounts : RefundStripePayment(s, k, a)
  PROVE  \E W : Begin(s, W) /\ NewRecords(W.paid)
<1>1. CASE Request(s)
  <2>1. PICK W : Begin(s, W) /\ Offline(W)
    BY <1>1, RequestOffline
  <2>2. NewRecords(W.paid)
    BY <2>1 DEF Offline, NewRecords
  <2>. QED
    BY <2>1, <2>2
<1>2. ASSUME NEW c \in Checkouts, HandleCheckoutCompleted(s, c)
      PROVE  \E W : Begin(s, W) /\ NewRecords(W.paid)
  <2>. DEFINE status == StatusAfterCheckout(checkout[c].inv, Collected(c))
              Writes(n) == [NoWrites EXCEPT !.paid = At(Recorded(c, n), Collected(c)),
                                            !.status = status]
  <2>1. CASE Begin(s, NoWrites)
    BY <2>1 DEF NewRecords, NoWrites, Empty
  <2>2. ASSUME NEW n \in RecordNumbers, Unrecorded(c), Begin(s, Writes(n))
        PROVE  \E W : Begin(s, W) /\ NewRecords(W.paid)
    <3>1. DOMAIN Writes(n).paid = {Recorded(c, n)}
      <4>. HIDE DEF status
      <4>. QED
        BY DEF NoWrites, At
    <3>2. \A k \in DOMAIN db.paid : ~ IsFor(k, Recorded(c, n).session)
      BY <2>2 DEF Unrecorded, RecordsOf, Recorded
    <3>3. NewRecords(Writes(n).paid)
      <4>. HIDE DEF Writes
      <4>. QED
        BY <3>1, <3>2 DEF NewRecords
    <3>. QED
      BY <2>2, <3>3
  <2>. QED
    BY <1>2, <2>1, <2>2 DEF HandleCheckoutCompleted
<1>3. ASSUME NEW k \in DOMAIN db.paid, NEW a \in Amounts, RefundStripePayment(s, k, a)
      PROVE  \E W : Begin(s, W) /\ NewRecords(W.paid)
  <2>1. DOMAIN RefundWrites(k, a).paid = {}
    BY DEF RefundWrites, NoWrites, Empty
  <2>2. NewRecords(RefundWrites(k, a).paid)
    BY <2>1 DEF NewRecords
  <2>. QED
    BY <1>3, <2>2 DEF RefundStripePayment
<1>. QED
  BY <1>1, <1>2, <1>3

\* RecordedInv is inductive when no two sessions are open together.
LEMMA NextRecordedInv ==
  ASSUME Serial, RecordedInv, [StripeNext]_allVars
  PROVE  RecordedInv'
<1>1. StripeInv'
  BY NextStripeInv DEF RecordedInv
<1>2. DOMAIN txn = Sessions
  BY DEF RecordedInv, StripeInv, StripeTypeOK, TypeOK
<1>3. CASE UNCHANGED vars
  <2>1. \A s \in Sessions : NewRecords(txn[s].paid)'
    BY <1>3 DEF RecordedInv, NewRecords, IsFor, vars
  <2>. QED
    BY <1>1, <2>1 DEF RecordedInv
<1>4. ASSUME NEW s \in Sessions, NEW W, Begin(s, W), NewRecords(W.paid)
      PROVE  RecordedInv'
  <2>1. db' = db /\ txn'[s] = W
    BY <1>2, <1>4 DEF Begin
  <2>2. NewRecords(txn[s].paid)'
    BY <1>4, <2>1 DEF NewRecords, IsFor
  <2>. QED
    BY <1>1, <2>2 DEF RecordedInv, Serial
<1>5. ASSUME NEW s \in Sessions, StripeCommit(s) \/ StripeRollback(s)
      PROVE  RecordedInv'
  <2>1. txn'[s] = NoWrites
    BY <1>2, <1>5 DEF StripeCommit, StripeRollback, Commit, Rollback, End
  <2>2. NewRecords(txn[s].paid)'
    BY <2>1 DEF NewRecords, NoWrites, Empty
  <2>. QED
    BY <1>1, <2>2 DEF RecordedInv, Serial
<1>6. CASE \E w \in WorkOrders, c \in 1 .. MaxCheckouts : CreateCheckoutSession(w, c)
  BY <1>3, <1>6 DEF CreateCheckoutSession
<1>7. CASE \E c \in Checkouts : CompleteCheckout(c)
  BY <1>3, <1>7 DEF CompleteCheckout
<1>8. CASE \E s \in Sessions :
             \/ Request(s)
             \/ \E c \in Checkouts : HandleCheckoutCompleted(s, c)
             \/ \E k \in DOMAIN db.paid, a \in Amounts : RefundStripePayment(s, k, a)
  BY <1>4, <1>8, BeginRecords
<1>. QED
  BY <1>3, <1>5, <1>6, <1>7, <1>8 DEF StripeNext, allVars

\* What a commit brings into the books for the webhook is its checkout's only payment.
LEMMA CommitRecords ==
  ASSUME RecordedInv, NEW s \in Sessions, Commit(s),
         NEW k \in DOMAIN db'.paid \ DOMAIN db.paid, k.origin = "webhook"
  PROVE  RecordsOf(k.session)' = {k}
<1>1. DOMAIN db'.paid = DOMAIN txn[s].paid \cup DOMAIN db.paid
  BY DEF Commit, Overlay
<1>2. NewRecords(txn[s].paid) /\ k \in DOMAIN txn[s].paid
  BY <1>1 DEF RecordedInv
<1>3. IsFor(k, k.session)
  BY DEF IsFor
<1>4. \A j \in DOMAIN db'.paid : IsFor(j, k.session) => j = k
  BY <1>1, <1>2 DEF NewRecords
<1>. QED
  BY <1>3, <1>4 DEF RecordsOf, IsFor

\* Requests one after another: what the webhook records is the only payment of its
\* checkout in the books, posted ones included, however often the event is delivered and
\* whatever requests roll back.
THEOREM RecordedOnceCorrect ==
  ASSUME Serial
  PROVE  StripeSpec => RecordedOnce
<1>. DEFINE A == \A k \in DOMAIN db'.paid \ DOMAIN db.paid : k.origin = "webhook" =>
                   RecordsOf(k.session)' = {k}
<1>1. RecordedInv /\ [StripeNext]_allVars => RecordedInv'
  BY NextRecordedInv
<1>2. RecordedInv /\ [StripeNext]_allVars => A
  <2>1. ASSUME db' = db PROVE A
    BY <2>1
  <2>. QED
    BY <2>1, CommitRecords, StripeReads
<1>. QED
  BY <1>1, <1>2, InitRecordedInv, PTL DEF StripeSpec, RecordedOnce

----------------------------------------------------------------------------
(* Requests one after another: deliveries and refunds by Stripe settle no    *)
(* deposit and rewrite no refund.                                            *)

StripeSerialInv == StripeInv /\ SerialInv

\* A delivery records a payment that is no transfer, a refund is the first of its payment.
LEMMA StripeCurrent ==
  ASSUME StripeSerialInv, NEW s \in Sessions,
         \/ \E c \in Checkouts : HandleCheckoutCompleted(s, c)
         \/ \E k \in DOMAIN db.paid, a \in Amounts : RefundStripePayment(s, k, a)
  PROVE  \E W : Begin(s, W) /\ Current(W)
<1>1. ASSUME NEW c \in Checkouts, HandleCheckoutCompleted(s, c)
      PROVE  \E W : Begin(s, W) /\ Current(W)
  <2>. DEFINE status == StatusAfterCheckout(checkout[c].inv, Collected(c))
              Writes(n) == [NoWrites EXCEPT !.paid = At(Recorded(c, n), Collected(c)),
                                            !.status = status]
  <2>1. Current(NoWrites)
    BY PlainWritesCurrent DEF NoWrites
  <2>2. ASSUME NEW n
        PROVE  Current(Writes(n))
    <3>1. \A k \in DOMAIN Writes(n).paid : k.origin = "webhook"
      <4>. HIDE DEF status
      <4>. QED
        BY DEF NoWrites, At, Recorded
    <3>2. /\ DOMAIN Writes(n).refunded = {} /\ DOMAIN Writes(n).depStatus = {}
          /\ DOMAIN Writes(n).depInvoice = {} /\ DOMAIN Writes(n).depRefund = {}
      <4>. HIDE DEF status
      <4>. QED
        BY DEF NoWrites, Empty
    <3>. HIDE DEF Writes
    <3>. QED
      BY <3>1, <3>2 DEF Current
  <2>. QED
    BY <1>1, <2>1, <2>2 DEF HandleCheckoutCompleted
<1>2. ASSUME NEW k \in DOMAIN db.paid, NEW a \in Amounts, RefundStripePayment(s, k, a)
      PROVE  \E W : Begin(s, W) /\ Current(W)
  BY <1>2, RefundWritesCurrent DEF RefundStripePayment, PaymentRefundable
<1>. QED
  BY <1>1, <1>2

\* StripeSerialInv is inductive when no two sessions are open together.
LEMMA NextStripeSerialInv ==
  ASSUME Serial, StripeSerialInv, [StripeNext]_allVars
  PROVE  StripeSerialInv'
<1>1. StripeInv' /\ BillingInv'
  BY NextStripeInv DEF StripeSerialInv, StripeInv
<1>2. CASE UNCHANGED vars
  BY <1>1, <1>2, NextSerialInv DEF StripeSerialInv
<1>3. ASSUME NEW s \in Sessions, NEW W, Begin(s, W), Current(W)
      PROVE  StripeSerialInv'
  BY <1>1, <1>3, BeginCurrent DEF StripeSerialInv
<1>4. ASSUME NEW s \in Sessions, StripeCommit(s) \/ StripeRollback(s)
      PROVE  StripeSerialInv'
  BY <1>1, <1>4, EndCurrent DEF StripeSerialInv, StripeCommit, StripeRollback
<1>5. ASSUME NEW s \in Sessions,
             \/ Request(s)
             \/ \E c \in Checkouts : HandleCheckoutCompleted(s, c)
             \/ \E k \in DOMAIN db.paid, a \in Amounts : RefundStripePayment(s, k, a)
      PROVE  StripeSerialInv'
  BY <1>3, <1>5, RequestCurrent, StripeCurrent DEF StripeSerialInv
<1>. QED
  BY <1>2, <1>4, <1>5 DEF StripeNext, CreateCheckoutSession, CompleteCheckout, allVars

\* What the theorems below start from.
LEMMA SpecStripeSerialInv ==
  ASSUME Serial
  PROVE  StripeSpec => []StripeSerialInv
<1>1. StripeInit => StripeSerialInv
  BY InitStripeInv, InitSerialInv DEF StripeInit, StripeSerialInv
<1>2. StripeSerialInv /\ [StripeNext]_allVars => StripeSerialInv'
  BY NextStripeSerialInv
<1>. QED
  BY <1>1, <1>2, PTL DEF StripeSpec

\* Requests one after another, webhook deliveries among them: a deposit is credited to one
\* invoice, and never both credited and paid back.
THEOREM StripeDepositsSettledOnce ==
  ASSUME Serial
  PROVE  StripeSpec => [](DepositsCreditedOnce /\ AppliedXorRefunded)
<1>1. StripeSerialInv => DepositsCreditedOnce /\ AppliedXorRefunded
  BY DEF StripeSerialInv, SerialInv, SettledRows, AppliedXorRefunded
<1>. QED
  BY <1>1, SpecStripeSerialInv, PTL

\* Requests one after another: of the refunds of one payment, through Stripe or not, the
\* books hold the first and never rewrite it.
THEOREM StripeRefundRecordedOnce ==
  ASSUME Serial
  PROVE  StripeSpec => RefundRecordedOnce
<1>. DEFINE A == /\ \A k \in DOMAIN db.refunded : db'.refunded[k] = db.refunded[k]
                 /\ \A d \in DOMAIN db.depRefund : db'.depRefund[d] = db.depRefund[d]
<1>1. StripeSerialInv /\ [StripeNext]_allVars => [A]_vars
  BY CommitKeepsRefunds, StripeReads DEF StripeSerialInv
<1>. QED
  BY <1>1, SpecStripeSerialInv, PTL DEF StripeSpec, RefundRecordedOnce

----------------------------------------------------------------------------
(* Requests one after another: what the webhook records and what Stripe      *)
(* pays back moves the balance of an invoice as create_payment and           *)
(* refund_payment do.                                                        *)

StripeBalanceInv == StripeInv /\ BalanceInv

\* A delivery begins with nothing, or with a payment and the status that follows.
LEMMA HandleKeeps ==
  ASSUME StripeBalanceInv, NEW s \in Sessions, NEW c \in Checkouts, HandleCheckoutCompleted(s, c)
  PROVE  \E W : Begin(s, W) /\ Keeps(db, W)
<1>. DEFINE w == checkout[c].inv
            a == Collected(c)
            Writes(n) == [NoWrites EXCEPT !.paid = At(Recorded(c, n), a),
                                          !.status = StatusAfterCheckout(w, a)]
<1>1. CASE Begin(s, NoWrites)
  <2>1. Keeps(db, NoWrites)
    BY NoWritesKeeps DEF StripeBalanceInv, BalanceInv, BillingInv, TypeOK
  <2>. QED
    BY <1>1, <2>1
<1>2. ASSUME NEW n \in RecordNumbers, FreshRecord(c, n), Begin(s, Writes(n))
      PROVE  \E W : Begin(s, W) /\ Keeps(db, W)
  <2>. DEFINE k == Recorded(c, n)
  <2>1. k.inv = w /\ k.origin = "webhook" /\ k.session = c /\ k.n = n
    BY DEF Recorded
  <2>2. w \in Invoices /\ a \in Nat
    BY DEF StripeBalanceInv, StripeInv, StripeTypeOK, IsColumn, CheckoutRow, Checkouts, Collected
  <2>3. k \notin DOMAIN db.paid
    BY <1>2, <2>1 DEF FreshRecord, IsFor
  <2>4. Writes(n) = PaymentWrites(k, a)
    BY <2>1 DEF PaymentWrites, StatusAfterCheckout
  <2>5. Sound(s, PaymentWrites(k, a))
    <3>1. /\ k = Recorded(c, n)
          /\ PaymentWrites(k, a) = [NoWrites EXCEPT !.paid = At(k, Collected(c)),
                                      !.status = StatusAfterCheckout(k.inv, Collected(c))]
      BY DEF PaymentWrites, StatusAfterCheckout
    <3>. HIDE DEF k, a
    <3>. QED
      BY <1>2, <3>1, RecordSound DEF StripeBalanceInv
  <2>6. Keeps(db, PaymentWrites(k, a))
    <3>. HIDE DEF k, a, w
    <3>. QED
      BY <2>1, <2>2, <2>3, <2>5, PaymentKeeps DEF Sound, StripeBalanceInv
  <2>. QED
    BY <1>2, <2>4, <2>6
<1>. QED
  BY <1>1, <1>2 DEF HandleCheckoutCompleted

\* A refund through Stripe is recorded as any other.
LEMMA RefundStripeKeeps ==
  ASSUME StripeBalanceInv, NEW s \in Sessions, NEW k \in DOMAIN db.paid, NEW a \in Amounts,
         RefundStripePayment(s, k, a)
  PROVE  \E W : Begin(s, W) /\ Keeps(db, W)
<1>1. Begin(s, RefundWrites(k, a)) /\ k \notin DOMAIN db.refunded /\ a <= db.paid[k] /\ a \in Nat
  BY BillingAssumption DEF RefundStripePayment, PaymentRefundable
<1>2. Sound(s, RefundWrites(k, a))
  BY <1>1, RefundWritesSound DEF StripeBalanceInv, BalanceInv
<1>3. k.inv \in Invoices
  BY DEF StripeBalanceInv, BalanceInv, BillingInv, TypeOK
<1>. QED
  BY <1>1, <1>2, <1>3, RefundKeeps DEF Sound, StripeBalanceInv

\* StripeBalanceInv is inductive when no two sessions are open together.
LEMMA NextStripeBalanceInv ==
  ASSUME Serial, StripeBalanceInv, [StripeNext]_allVars
  PROVE  StripeBalanceInv'
<1>1. StripeInv' /\ BillingInv'
  BY NextStripeInv DEF StripeBalanceInv, StripeInv
<1>2. CASE UNCHANGED vars
  BY <1>1, <1>2, NextBalanceInv DEF StripeBalanceInv
<1>3. ASSUME NEW s \in Sessions, NEW W, Begin(s, W), Keeps(db, W)
      PROVE  StripeBalanceInv'
  BY <1>1, <1>3, BeginKeeps DEF StripeBalanceInv
<1>4. ASSUME NEW s \in Sessions, StripeCommit(s) \/ StripeRollback(s)
      PROVE  StripeBalanceInv'
  BY <1>1, <1>4, EndKeeps DEF StripeBalanceInv, StripeCommit, StripeRollback
<1>5. CASE \E w \in WorkOrders, c \in 1 .. MaxCheckouts : CreateCheckoutSession(w, c)
  BY <1>2, <1>5 DEF CreateCheckoutSession
<1>6. CASE \E c \in Checkouts : CompleteCheckout(c)
  BY <1>2, <1>6 DEF CompleteCheckout
<1>7. ASSUME NEW s \in Sessions,
             \/ Request(s)
             \/ \E c \in Checkouts : HandleCheckoutCompleted(s, c)
             \/ \E k \in DOMAIN db.paid, a \in Amounts : RefundStripePayment(s, k, a)
      PROVE  StripeBalanceInv'
  BY <1>3, <1>7, RequestKeeps, HandleKeeps, RefundStripeKeeps DEF StripeBalanceInv
<1>. QED
  BY <1>2, <1>4, <1>5, <1>6, <1>7 DEF StripeNext, allVars

\* What the theorems below start from.
LEMMA SpecStripeBalanceInv ==
  ASSUME Serial
  PROVE  StripeSpec => []StripeBalanceInv
<1>1. StripeInit => StripeBalanceInv
  BY InitStripeInv, InitBalanceInv DEF StripeInit, StripeBalanceInv
<1>2. StripeBalanceInv /\ [StripeNext]_allVars => StripeBalanceInv'
  BY NextStripeBalanceInv
<1>. QED
  BY <1>1, <1>2, PTL DEF StripeSpec

\* Every step is a fair one.
LEMMA StripeStepFair ==
  ASSUME StripeBalanceInv, StripeBalanceInv', [StripeNext]_allVars
  PROVE  FairStep
<1>1. ASSUME NEW s \in Sessions, Commit(s)
      PROVE  \A w \in WorkOrders : Fair(db, db', w)
  BY <1>1, CommitAfter DEF StripeBalanceInv, BalanceInv, Keeps
<1>. QED
  BY <1>1, StripeReads DEF FairStep, StripeBalanceInv

\* Requests one after another, webhook deliveries among them: an issued invoice is never
\* covered by what was paid on it, posted, from deposits or at Stripe.
THEOREM StripeIssuedStillOwes ==
  ASSUME Serial
  PROVE  StripeSpec => []IssuedStillOwes
<1>1. StripeBalanceInv => IssuedStillOwes
  BY BalanceOf, AccountType DEF StripeBalanceInv, BalanceInv, StillOwes, IssuedStillOwes
<1>. QED
  BY <1>1, SpecStripeBalanceInv, PTL

\* Requests one after another, webhook deliveries among them: create_payment never takes
\* more than is owed after what was paid at Stripe.
THEOREM StripeNoOverpayment ==
  ASSUME Serial
  PROVE  StripeSpec => NoOverpayment
<1>. DEFINE A == \A k \in DOMAIN db'.paid \ DOMAIN db.paid : k.origin = "posted" =>
                   Gross(k.inv)' <= Owed(k.inv)'
<1>1. StripeBalanceInv /\ StripeBalanceInv' /\ [StripeNext]_allVars => [A]_vars
  BY StripeStepFair, FairNoOverpayment
<1>. QED
  BY <1>1, SpecStripeBalanceInv, PTL DEF StripeSpec, NoOverpayment

\* Requests one after another, by staff who do not set 'paid' by hand: the webhook, like
\* every other handler, sets an invoice to 'paid' only when what was paid covers it.
THEOREM StripePaidOnlyWhenSettled ==
  ASSUME Serial, "paid" \notin StaffStatuses
  PROVE  StripeSpec => PaidOnlyWhenSettled
<1>. DEFINE A == \A w \in DOMAIN db'.status :
                   db'.status[w] = "paid" /\ ~(w \in Invoices /\ db.status[w] = "paid") =>
                     Balance(w)' <= 0
<1>1. StripeBalanceInv /\ StripeBalanceInv' /\ [StripeNext]_allVars => [A]_vars
  BY StripeStepFair, FairPaidOnlyWhenSettled
<1>. QED
  BY <1>1, SpecStripeBalanceInv, PTL DEF StripeSpec, PaidOnlyWhenSettled

\* Requests one after another: a late delivery, or a refund by Stripe that leaves it
\* covered, never reopens a paid invoice.
THEOREM StripePaidIsFinal ==
  ASSUME Serial
  PROVE  StripeSpec => PaidIsFinal
<1>. DEFINE A == \A w \in Invoices : db.status[w] = "paid" =>
                   /\ db'.due[w] = db.due[w]
                   /\ \/ db'.status[w] = "paid"
                      \/ \E k \in DOMAIN db'.dispute : k.inv = w /\ db'.dispute[k] # "under_review"
                           /\ (k \notin DOMAIN db.dispute \/ db'.dispute[k] # db.dispute[k])
                      \/ RefundsOf(w)' # RefundsOf(w) /\ Owed(w)' > Net(w)'
<1>1. StripeBalanceInv /\ StripeBalanceInv' /\ [StripeNext]_allVars => [A]_vars
  BY StripeStepFair, FairPaidIsFinal
<1>. QED
  BY <1>1, SpecStripeBalanceInv, PTL DEF StripeSpec, PaidIsFinal

----------------------------------------------------------------------------
(* Requests one after another: what is in flight, a delivery or a refund by  *)
(* Stripe included, is at most one entry of the ledger.  A checkout collects *)
(* at most what staff may have set as due.                                   *)

DuesOf(d) == \A w \in DOMAIN d.due : d.due[w] \in Dues

StripeEntryInv ==
  /\ StripeInv
  /\ DuesOf(db)
  /\ \A c \in Checkouts : Collected(c) \in StripeAmount
  /\ \A s \in Sessions : DuesOf(txn[s]) /\ EntryOf(StripePayment, StripeAmount, txn[s])

\* An empty database and no checkouts satisfy it.
LEMMA InitStripeEntry == StripeInit => StripeEntryInv
<1>. SUFFICES ASSUME StripeInit PROVE StripeEntryInv
  OBVIOUS
<1>1. /\ db.due = Empty /\ Checkouts = {}
      /\ \A s \in Sessions : txn[s] = NoWrites
  BY DEF StripeInit, Init, Checkouts, Empty
<1>2. DuesOf(db) /\ DuesOf(NoWrites)
  BY <1>1 DEF DuesOf, NoWrites, Empty
<1>. QED
  BY <1>1, <1>2, InitStripeInv, NoWritesEntry DEF StripeEntryInv

\* Writes that leave the amounts of invoices alone.
LEMMA PlainWritesDues ==
  ASSUME NEW W, W.due = Empty
  PROVE  DuesOf(W)
BY DEF DuesOf, Empty

\* Staff set the amount of an invoice in create_invoice and update_invoice.
LEMMA RequestDues ==
  ASSUME DuesOf(db), TypeOK, NEW s \in Sessions, Request(s)
  PROVE  \E W : Begin(s, W) /\ DuesOf(W)
<1>1. ASSUME NEW w, NEW st, UpdateWorkOrder(s, w, st)
      PROVE  \E W : Begin(s, W) /\ DuesOf(W)
  BY <1>1, PlainWritesDues DEF UpdateWorkOrder, NoWrites
<1>2. ASSUME NEW w \in WorkOrders, NEW due \in Dues, NEW st, CreateInvoice(s, w, due, st)
      PROVE  \E W : Begin(s, W) /\ DuesOf(W)
  <2>. DEFINE D == ApplicableDeposits(w)
              T == TransfersTo(w)
              status == IF due - SumFunction(T) <= 0 THEN "paid" ELSE st
              W == [NoWrites EXCEPT !.created = {w}, !.status = At(w, status),
                                    !.due = At(w, due), !.paid = T,
                                    !.depStatus = [d \in D |-> "applied"],
                                    !.depInvoice = [d \in D |-> w]]
  <2>1. Begin(s, W)
    BY <1>2 DEF CreateInvoice
  <2>2. W.due = At(w, due)
    <3>. HIDE DEF D, T, status
    <3>. QED
      BY DEF NoWrites
  <2>3. DuesOf(W)
    <3>. HIDE DEF W
    <3>. QED
      BY <2>2 DEF DuesOf, At
  <2>. QED
    BY <2>1, <2>3
<1>3. ASSUME NEW w \in Invoices, NEW st, NEW due \in Dues \cup {db.due[w]}, NEW credit,
             UpdateInvoice(s, w, st, due, credit)
      PROVE  \E W : Begin(s, W) /\ DuesOf(W)
  <2>. DEFINE status == IF st # "paid" /\ due - credit - Gross(w) = 0 THEN "paid" ELSE st
              credits == IF credit = Credit(w) THEN Empty ELSE At(w, credit)
              W == [NoWrites EXCEPT !.status = Update(db.status, w, status),
                                    !.due = Update(db.due, w, due),
                                    !.credit = credits]
  <2>1. Begin(s, W) /\ due \in Dues
    BY <1>3 DEF UpdateInvoice, DuesOf, TypeOK
  <2>2. W.due = Update(db.due, w, due)
    <3>. HIDE DEF status, credits
    <3>. QED
      BY DEF NoWrites
  <2>3. DuesOf(W)
    <3>. HIDE DEF W
    <3>. QED
      BY <2>1, <2>2 DEF DuesOf, Update, At, Empty
  <2>. QED
    BY <2>1, <2>3
<1>4. ASSUME NEW d, NEW q, NEW w, NEW a, NEW st, CreateDeposit(s, d, q, w, a, st)
      PROVE  \E W : Begin(s, W) /\ DuesOf(W)
  BY <1>4, PlainWritesDues DEF CreateDeposit, NoWrites
<1>5. ASSUME NEW w, NEW n, NEW a, NEW ids, CreatePayment(s, w, n, a, ids)
      PROVE  \E W : Begin(s, W) /\ DuesOf(W)
  BY <1>5, PlainWritesDues DEF CreatePayment, NoWrites
<1>6. ASSUME NEW w, NEW n, CreateDispute(s, w, n)
      PROVE  \E W : Begin(s, W) /\ DuesOf(W)
  BY <1>6, PlainWritesDues DEF CreateDispute, NoWrites
<1>7. ASSUME NEW k, NEW st, NEW c, UpdateDispute(s, k, st, c)
      PROVE  \E W : Begin(s, W) /\ DuesOf(W)
  BY <1>7, PlainWritesDues DEF UpdateDispute, NoWrites
<1>8. ASSUME NEW d, NEW a, RefundDeposit(s, d, a)
      PROVE  \E W : Begin(s, W) /\ DuesOf(W)
  BY <1>8, PlainWritesDues DEF RefundDeposit, NoWrites
<1>9. ASSUME NEW k, NEW a, RefundPayment(s, k, a)
      PROVE  \E W : Begin(s, W) /\ DuesOf(W)
  BY <1>9, PlainWritesDues DEF RefundPayment, RefundWrites, NoWrites
<1>. QED
  BY <1>1, <1>2, <1>3, <1>4, <1>5, <1>6, <1>7, <1>8, <1>9 DEF Request

\* What Billing's ledger permits, Stripe's permits, too.
LEMMA WiderEntry ==
  ASSUME NEW W, Entry(W)
  PROVE  EntryOf(StripePayment, StripeAmount, W)
BY DEF Entry, EntryOf, StripePayment, StripeAmount

\* A delivery takes one payment of its checkout, or does nothing.
LEMMA HandleEntry ==
  ASSUME StripeEntryInv, NEW s \in Sessions, NEW c \in Checkouts, HandleCheckoutCompleted(s, c)
  PROVE  \E W : Begin(s, W) /\ DuesOf(W) /\ EntryOf(StripePayment, StripeAmount, W)
<1>. DEFINE w == checkout[c].inv
            a == Collected(c)
            status == StatusAfterCheckout(w, a)
            Writes(n) == [NoWrites EXCEPT !.paid = At(Recorded(c, n), a), !.status = status]
<1>1. DuesOf(NoWrites) /\ EntryOf(StripePayment, StripeAmount, NoWrites)
  BY PlainWritesDues, NoWritesEntry DEF NoWrites
<1>2. ASSUME NEW n \in RecordNumbers, FreshRecord(c, n), Begin(s, Writes(n))
      PROVE  \E W : Begin(s, W) /\ DuesOf(W) /\ EntryOf(StripePayment, StripeAmount, W)
  <2>. DEFINE k == Recorded(c, n)
              W == Writes(n)
  <2>1. k.inv = w /\ k.origin = "webhook" /\ k.session = c /\ k.n = n
    BY DEF Recorded
  <2>2. w \in Invoices /\ w \in WorkOrders /\ c \in 1 .. MaxCheckouts /\ a \in StripeAmount
    BY DEF StripeEntryInv, StripeInv, StripeTypeOK, IsColumn, CheckoutRow, Checkouts
  <2>3. k \in StripePayment
    BY <2>2 DEF StripePayment, Recorded
  <2>4. k \notin DOMAIN db.paid
    BY <1>2, <2>1 DEF FreshRecord, IsFor
  <2>5. DOMAIN status \subseteq {w}
    BY UpdateRow DEF StatusAfterCheckout
  <2>6. /\ W.paid = At(k, a) /\ W.status = status /\ W.due = Empty
        /\ W.deposit = Empty /\ W.depStatus = Empty /\ W.refunded = Empty /\ W.depRefund = Empty
    <3>. HIDE DEF a, status
    <3>. QED
      BY DEF NoWrites
  <2>7. DuesOf(W) /\ EntryOf(StripePayment, StripeAmount, W)
    <3>. HIDE DEF k, a, status, w, W
    <3>1. PaymentEntry(W, k, a)
      BY <2>1, <2>2, <2>4, <2>5, <2>6 DEF PaymentEntry
    <3>. QED
      BY <2>2, <2>3, <2>6, <3>1, PlainWritesDues DEF EntryOf
  <2>. QED
    BY <1>2, <2>7
<1>. QED
  BY <1>1, <1>2 DEF HandleCheckoutCompleted

\* A refund by Stripe returns a payment that was not returned.
LEMMA RefundStripeEntry ==
  ASSUME StripeEntryInv, NEW s \in Sessions, NEW k \in DOMAIN db.paid, NEW a \in Amounts,
         RefundStripePayment(s, k, a)
  PROVE  \E W : Begin(s, W) /\ DuesOf(W) /\ EntryOf(StripePayment, StripeAmount, W)
<1>. DEFINE status == IF Owed(k.inv) > Net(k.inv) - a
                      THEN Update(db.status, k.inv, "issued") ELSE Empty
            W == [NoWrites EXCEPT !.refunded = At(k, a), !.status = status]
<1>1. Begin(s, W) /\ k \notin DOMAIN db.refunded /\ a <= db.paid[k]
  BY DEF RefundStripePayment, RefundWrites, PaymentRefundable
<1>2. DOMAIN status \subseteq {k.inv} /\ k.inv \in Invoices /\ a \in StripeAmount
  BY UpdateRow DEF StripeEntryInv, StripeInv, StripeTypeOK, TypeOK, StripeAmount
<1>3. ReturnEntry(W, k, a) /\ W.due = Empty
  <2>. HIDE DEF status
  <2>. QED
    BY <1>1, <1>2 DEF ReturnEntry, NoWrites
<1>4. DuesOf(W) /\ EntryOf(StripePayment, StripeAmount, W)
  <2>. HIDE DEF W
  <2>. QED
    BY <1>2, <1>3, PlainWritesDues DEF EntryOf
<1>. QED
  BY <1>1, <1>4

\* Whatever begins is at most one entry.
LEMMA BeginEntry ==
  ASSUME StripeEntryInv, NEW s \in Sessions,
         \/ Request(s)
         \/ \E c \in Checkouts : HandleCheckoutCompleted(s, c)
         \/ \E k \in DOMAIN db.paid, a \in Amounts : RefundStripePayment(s, k, a)
  PROVE  \E W : Begin(s, W) /\ DuesOf(W) /\ EntryOf(StripePayment, StripeAmount, W)
<1>1. CASE Request(s)
  <2>1. TypeOK /\ DuesOf(db)
    BY DEF StripeEntryInv, StripeInv, StripeTypeOK
  <2>2. PICK V : Begin(s, V) /\ Entry(V)
    BY <1>1, <2>1, RequestEntry
  <2>3. PICK W : Begin(s, W) /\ DuesOf(W)
    BY <1>1, <2>1, RequestDues
  <2>4. V = W
    BY <2>1, <2>2, <2>3 DEF Begin, TypeOK
  <2>. QED
    BY <2>2, <2>3, <2>4, WiderEntry
<1>. QED
  BY <1>1, HandleEntry, RefundStripeEntry

\* What a checkout collects does not change once it is created, and then it is the
\* balance, at most what is due.
LEMMA CheckoutAmounts ==
  ASSUME StripeEntryInv, [StripeNext]_allVars
  PROVE  \A c \in DOMAIN checkout' : checkout'[c].amount \in StripeAmount
<1>1. \A c \in Checkouts : checkout[c].amount \in StripeAmount
  BY DEF StripeEntryInv, Collected
<1>2. ASSUME NEW w \in WorkOrders, NEW n \in 1 .. MaxCheckouts, CreateCheckoutSession(w, n)
      PROVE  \A c \in DOMAIN checkout' : checkout'[c].amount \in StripeAmount
  <2>1. db.due[w] \in Dues
    BY <1>2 DEF CreateCheckoutSession, StripeEntryInv, StripeInv, StripeTypeOK, TypeOK, DuesOf
  <2>2. Balance(w) \in StripeAmount
    BY <1>2, <2>1 DEF CreateCheckoutSession, StripeAmount
  <2>. QED
    BY <1>1, <1>2, <2>2 DEF CreateCheckoutSession, Overlay, At, Checkouts
<1>3. CASE checkout' = checkout
  BY <1>1, <1>3 DEF Checkouts
<1>4. ASSUME NEW n \in Checkouts, CompleteCheckout(n)
      PROVE  \A c \in DOMAIN checkout' : checkout'[c].amount \in StripeAmount
  BY <1>1, <1>4 DEF CompleteCheckout, Checkouts, StripeEntryInv, StripeInv, StripeTypeOK,
     IsColumn, CheckoutRow
<1>5. ASSUME NEW s \in Sessions, NEW k \in DOMAIN db.paid, NEW a \in Amounts,
             RefundStripePayment(s, k, a)
      PROVE  \A c \in DOMAIN checkout' : checkout'[c].amount \in StripeAmount
  BY <1>1, <1>5 DEF RefundStripePayment, RefundAtStripe, Checkouts, StripeEntryInv, StripeInv,
     StripeTypeOK, IsColumn, CheckoutRow
<1>. QED
  BY <1>2, <1>3, <1>4, <1>5 DEF StripeNext, StripeCommit, StripeRollback,
     HandleCheckoutCompleted, stripeVars, allVars

\* StripeEntryInv is inductive when no two sessions are open together.
LEMMA NextStripeEntry ==
  ASSUME Serial, StripeEntryInv, [StripeNext]_allVars
  PROVE  StripeEntryInv'
<1>1. StripeInv' /\ \A c \in DOMAIN checkout' : Collected(c)' \in StripeAmount
  BY NextStripeInv, CheckoutAmounts DEF StripeEntryInv, Collected
<1>2. DOMAIN txn = Sessions
  BY DEF StripeEntryInv, StripeInv, StripeTypeOK, TypeOK
<1>3. ASSUME NEW W, db' = db, DuesOf(W), EntryOf(StripePayment, StripeAmount, W)
      PROVE  DuesOf(db)' /\ DuesOf(W)' /\ EntryOf(StripePayment, StripeAmount, W)'
  BY <1>3, EntryStays DEF StripeEntryInv, DuesOf
<1>4. CASE UNCHANGED vars
  <2>1. db' = db /\ txn' = txn
    BY <1>4 DEF vars
  <2>2. \A s \in Sessions : DuesOf(db)' /\ DuesOf(txn[s])' /\
                            EntryOf(StripePayment, StripeAmount, txn[s])'
    BY <1>3, <2>1 DEF StripeEntryInv
  <2>3. DuesOf(db)'
    BY <2>1 DEF StripeEntryInv, DuesOf
  <2>. QED
    BY <1>1, <2>2, <2>3 DEF StripeEntryInv, Checkouts
<1>5. ASSUME NEW s \in Sessions, NEW W, Begin(s, W), DuesOf(W),
             EntryOf(StripePayment, StripeAmount, W)
      PROVE  StripeEntryInv'
  <2>1. db' = db /\ txn'[s] = W
    BY <1>2, <1>5 DEF Begin
  <2>2. DuesOf(db)' /\ DuesOf(txn[s])' /\ EntryOf(StripePayment, StripeAmount, txn[s])'
    BY <1>3, <1>5, <2>1
  <2>. QED
    BY <1>1, <2>2 DEF StripeEntryInv, Serial, Checkouts
<1>6. ASSUME NEW s \in Sessions, Commit(s) \/ Rollback(s)
      PROVE  StripeEntryInv'
  <2>1. txn'[s] = NoWrites
    BY <1>2, <1>6 DEF Commit, Rollback, End
  <2>2. DuesOf(txn[s])' /\ EntryOf(StripePayment, StripeAmount, txn[s])'
    BY <2>1, NoWritesEntry DEF DuesOf, NoWrites, Empty
  <2>3. DuesOf(db)'
    BY <1>6 DEF Commit, Rollback, DuesOf, Overlay, StripeEntryInv
  <2>. QED
    BY <1>1, <2>2, <2>3 DEF StripeEntryInv, Serial, Checkouts
<1>. QED
  BY <1>4, <1>5, <1>6, BeginEntry DEF StripeNext, StripeCommit, StripeRollback,
     CreateCheckoutSession, CompleteCheckout, allVars

\* Requests one after another: the rows are a ledger, with the payments that the webhook
\* records and the refunds that Stripe makes among its entries.
THEOREM StripeLedgerKeptCorrect ==
  ASSUME Serial
  PROVE  StripeSpec => StripeLedgerKept
<1>1. StripeInit => SL!Init
  BY DEF StripeInit, Init, SL!Init, Invoices, Empty
<1>2. StripeEntryInv /\ [StripeNext]_allVars => StripeEntryInv'
  BY NextStripeEntry
<1>3. StripeEntryInv /\ [StripeNext]_allVars => [SL!Next]_(SL!ledger)
  <2>. SUFFICES ASSUME StripeEntryInv, [StripeNext]_allVars
                PROVE  [SL!Next]_(SL!ledger)
    OBVIOUS
  <2>1. CASE db' = db
    BY <2>1 DEF SL!ledger, Invoices
  <2>2. ASSUME NEW s \in Sessions, Commit(s)
        PROVE  [SL!Next]_(SL!ledger)
    <3>1. EntryStep(StripePayment, StripeAmount) \/ UNCHANGED L!ledger
      BY <2>2, CommitEntry DEF StripeEntryInv, StripeInv, StripeTypeOK
    <3>2. CASE UNCHANGED L!ledger
      BY <3>2 DEF L!ledger, SL!ledger
    <3>3. CASE EntryStep(StripePayment, StripeAmount)
      BY <3>3 DEF EntryStep, SL!Next, Held, L!TakeDeposit, SL!TakeDeposit, L!MakeInvoice,
         SL!MakeInvoice, L!TakePayment, SL!TakePayment, L!ReturnPayment, SL!ReturnPayment,
         L!RepayDeposit, SL!RepayDeposit, L!Enter, SL!Enter, L!Transfer, SL!Transfer
    <3>. QED
      BY <3>1, <3>2, <3>3
  <2>. QED
    BY <2>1, <2>2, StripeReads
<1>. QED
  BY <1>1, <1>2, <1>3, InitStripeEntry, PTL DEF StripeSpec, StripeLedgerKept, SL!Spec
=============================================================================
