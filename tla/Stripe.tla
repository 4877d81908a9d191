------------------------------- MODULE Stripe -------------------------------
(***************************************************************************)
(* Stripe: checkout sessions, the webhook that records their payments and  *)
(* refunds by Stripe, beside the requests of Billing.                      *)
(*                                                                         *)
(* A call to Stripe takes effect at once and for good, a write to the      *)
(* database only when the request commits.  Stripe sends the event         *)
(* checkout.session.completed until one delivery is answered with success; *)
(* it may deliver an event again before, while or after it is handled.     *)
(*                                                                         *)
(* A checkout is a number, and so are its session and its charge.  Other   *)
(* numbers are ids of Stripe that no checkout of the shop has.             *)
(***************************************************************************)
EXTENDS Billing

CONSTANT MaxCheckouts     \* bound: checkout sessions

ASSUME StripeAssumption == MaxCheckouts \in Nat /\ IsFiniteSet(Sessions)

VARIABLES
  checkout,   \* the checkout sessions at Stripe, numbered as they are created
  unacked,    \* the completed checkouts whose event Stripe still delivers
  handles     \* the checkout whose event a database session handles, 0 for none

stripeVars == <<checkout, unacked, handles>>
allVars == <<vars, stripeVars>>

CheckoutRow == [inv : WorkOrders, amount : Nat, complete : BOOLEAN, returned : Nat]
Checkouts == DOMAIN checkout

\* Type invariant: a checkout is for an invoice that exists, Stripe delivers events of
\* completed checkouts only.
StripeTypeOK ==
  /\ TypeOK
  /\ IsColumn(checkout, 1 .. MaxCheckouts, CheckoutRow)
  /\ \A c \in Checkouts : checkout[c].inv \in Invoices
  /\ unacked \subseteq {c \in Checkouts : checkout[c].complete}
  /\ handles \in [Sessions -> Checkouts \cup {0}]

----------------------------------------------------------------------------
(* What the handlers compute.                                              *)

\* Payment.stripe_checkout_session_id == session_id, whoever wrote the payment.
IsFor(k, c) == k.origin # "deposit_transfer" /\ k.session = c
RecordsOf(c) == {k \in DOMAIN db.paid : IsFor(k, c)}

Recorded(c, n) ==
  [inv |-> checkout[c].inv, origin |-> "webhook", n |-> n, session |-> c, charge |-> c]
\* A number for what the webhook records of a checkout: no two sessions hold the same, so
\* there are never more than sessions.
RecordNumbers == 1 .. Cardinality(Sessions) + 1
FreshRecord(c, n) ==
  LET rows == DOMAIN db.paid \cup UNION {DOMAIN txn[s].paid : s \in open}
      used == {k.n : k \in {j \in rows : j.origin = "webhook" /\ IsFor(j, c)}}
  IN  n \notin used /\ 1 .. n - 1 \subseteq used

\* Fault: the webhook records the event whether or not it has a payment.
AlwaysRecords(c) == TRUE
Unrecorded(c) == RecordsOf(c) = {}

\* Fault: the webhook records the balance of the invoice, not what was charged.
CollectsBalance(c) == Balance(checkout[c].inv)
Collected(c) == checkout[c].amount

\* Fault: the webhook leaves the status to staff.
KeepsStatus(w, a) == Empty
StatusAfterCheckout(w, a) ==
  IF Balance(w) - a <= 0 THEN Update(db.status, w, "paid") ELSE Empty

\* stripe.Refund.create: Stripe refuses to return more than it charged, and what is not
\* charged yet; a charge that is no checkout's is not followed.
\* Fault: the refund is recorded and Stripe is not called.
NoRefundAtStripe(c, a) == UNCHANGED checkout
RefundAtStripe(c, a) ==
  \/ /\ c \in Checkouts
     /\ checkout[c].complete
     /\ checkout[c].returned + a <= checkout[c].amount
     /\ checkout' = [checkout EXCEPT ![c].returned = @ + a]
  \/ /\ c \notin 1 .. MaxCheckouts
     /\ UNCHANGED checkout

----------------------------------------------------------------------------

StripeInit ==
  /\ Init
  /\ checkout = Empty
  /\ unacked = {}
  /\ handles = [s \in Sessions |-> 0]

\* POST /invoices/{id}/pay: a checkout, with the next number, of the whole balance.
\* Nothing tells whether another checkout of this balance is open.  (The Stripe customer
\* that the request may link to the customer's row is left out.)
CreateCheckoutSession(w, c) ==
  /\ c \notin Checkouts /\ 1 .. c - 1 \subseteq Checkouts
  /\ w \in Invoices
  /\ db.status[w] \notin {"paid", "voided", "credited"}
  /\ Balance(w) \in 1 .. db.due[w]     \* > 0; it is never above the amount due
  /\ checkout' = Overlay(At(c, [inv |-> w, amount |-> Balance(w),
                                complete |-> FALSE, returned |-> 0]), checkout)
  /\ UNCHANGED <<vars, unacked, handles>>

\* The customer pays on Stripe's page; a checkout never completed expires.
CompleteCheckout(c) ==
  /\ ~checkout[c].complete
  /\ checkout' = [checkout EXCEPT ![c].complete = TRUE]
  /\ unacked' = unacked \cup {c}
  /\ UNCHANGED <<vars, handles>>

\* POST /stripe/webhook.  A payment with the id of the session, posted or recorded, stands
\* for the event, whatever its invoice and amount.  An event whose checkout has two
\* raises MultipleResultsFound in scalar_one_or_none: nothing changes, it is delivered again.
\* The status and the balance of the invoice are not conditions for recording.
HandleCheckoutCompleted(s, c) ==
  LET w == checkout[c].inv IN
  /\ c \in unacked
  /\ \/ /\ Unrecorded(c)
        /\ \E n \in RecordNumbers :
             /\ FreshRecord(c, n)
             /\ Begin(s, [NoWrites EXCEPT
                            !.paid = At(Recorded(c, n), Collected(c)),
                            !.status = StatusAfterCheckout(w, Collected(c))])
     \/ /\ Cardinality(RecordsOf(c)) = 1
        /\ Begin(s, NoWrites)
  /\ handles' = [handles EXCEPT ![s] = c]
  /\ UNCHANGED <<checkout, unacked>>

\* The refund of a payment with a charge: Stripe pays back before the request commits.
RefundStripePayment(s, k, a) ==
  /\ ChargeOf(k) # 0
  /\ PaymentRefundable(k, a)
  /\ RefundAtStripe(ChargeOf(k), a)
  /\ Begin(s, RefundWrites(k, a))
  /\ UNCHANGED <<unacked, handles>>

\* The webhook answers after the commit; the answer may be lost.
StripeCommit(s) ==
  /\ Commit(s)
  /\ handles' = [handles EXCEPT ![s] = 0]
  /\ unacked' \in {unacked, unacked \ {handles[s]}}
  /\ UNCHANGED checkout

\* Fault: the webhook swallows the exception and answers success.
RollbackAnswersSuccess(s) ==
  /\ Rollback(s)
  /\ handles' = [handles EXCEPT ![s] = 0]
  /\ unacked' = unacked \ {handles[s]}
  /\ UNCHANGED checkout
StripeRollback(s) ==
  /\ Rollback(s)
  /\ handles' = [handles EXCEPT ![s] = 0]
  /\ UNCHANGED <<checkout, unacked>>

\* Who posts a payment has the ids from Stripe: a checkout's, once it exists.
PostsKnownIds(s) ==
  \A k \in DOMAIN txn'[s].paid : k.origin = "posted" =>
    {k.session, k.charge} \cap (1 .. MaxCheckouts) \subseteq Checkouts

StripeNext ==
  \/ \E w \in WorkOrders, c \in 1 .. MaxCheckouts : CreateCheckoutSession(w, c)
  \/ \E c \in Checkouts : CompleteCheckout(c)
  \/ \E s \in Sessions :
       \/ Request(s) /\ PostsKnownIds(s) /\ UNCHANGED stripeVars
       \/ \E c \in Checkouts : HandleCheckoutCompleted(s, c)
       \/ \E k \in DOMAIN db.paid, a \in Amounts : RefundStripePayment(s, k, a)
       \/ StripeCommit(s)
       \/ StripeRollback(s)

StripeSpec == StripeInit /\ [][StripeNext]_allVars

----------------------------------------------------------------------------
(* Fairness.                                                               *)

EndRequest(s) == StripeCommit(s) \/ StripeRollback(s)

\* A request in flight ends.  Stripe repeats a delivery until it is answered with
\* success and the connection pool serves every request in the end, so an event that
\* can be delivered again and again is delivered; the database does not fail the
\* handler of an event for ever.
Fairness ==
  /\ \A s \in Sessions : WF_allVars(EndRequest(s))
  /\ \A c \in 1 .. MaxCheckouts :
       /\ SF_allVars(c \in Checkouts /\ \E s \in Sessions : HandleCheckoutCompleted(s, c))
       /\ SF_allVars(\E s \in Sessions : handles[s] = c /\ StripeCommit(s))

FairStripeSpec == StripeSpec /\ Fairness

----------------------------------------------------------------------------
(* Properties that hold however requests interleave.                       *)

\* A payment that the webhook records, in the books or about to be, is money a customer
\* paid: its checkout is complete, for the same invoice and the same amount.  (A posted
\* payment with the ids of Stripe is a claim of the user who posts it, and may be neither.)
PaidAtStripe(paid) ==
  \A k \in DOMAIN paid : k.origin = "webhook" =>
    /\ k.session \in Checkouts /\ checkout[k.session].complete
    /\ checkout[k.session].inv = k.inv
    /\ checkout[k.session].amount = paid[k]
PaymentsBacked == PaidAtStripe(db.paid) /\ \A s \in Sessions : PaidAtStripe(txn[s].paid)

\* A refund of a payment, recorded or posted, with the charge of a checkout was paid back
\* by Stripe, be it in the books or about to be, and Stripe never pays back more than the
\* checkout collected, however many payments name its charge.
ReturnedAtStripe(refunded) ==
  \A k \in DOMAIN refunded : ChargeOf(k) \in 1 .. MaxCheckouts =>
    ChargeOf(k) \in Checkouts /\ refunded[k] <= checkout[ChargeOf(k)].returned
RefundsBacked ==
  /\ ReturnedAtStripe(db.refunded) /\ \A s \in Sessions : ReturnedAtStripe(txn[s].refunded)
  /\ \A c \in Checkouts : checkout[c].returned <= checkout[c].amount

----------------------------------------------------------------------------
(* Properties of requests that run one after another (one session).        *)

\* The webhook never records a checkout that the books have a payment of, however often
\* Stripe delivers its event: what it records is the checkout's only payment ("avoid
\* duplicate payment creation (idempotency)").  (Payments with the session's id that are
\* posted later are not the webhook's.)
RecordedOnce ==
  [][\A k \in DOMAIN db'.paid \ DOMAIN db.paid : k.origin = "webhook" =>
       RecordsOf(k.session)' = {k}]_allVars

\* Stripe pays a payment back once ("Payment has already been refunded.").
RefundedOnce ==
  [][\A c \in Checkouts : checkout'[c].returned # checkout[c].returned =>
       checkout[c].returned = 0]_allVars

\* What a customer paid on Stripe's page is in the books in the end, though answers are lost
\* and requests fail: recorded by the webhook, or posted with the id of the session.
CompletedIsRecorded ==
  \A c \in 1 .. MaxCheckouts :
    (c \in Checkouts /\ checkout[c].complete) ~> (RecordsOf(c) # {})
=============================================================================
