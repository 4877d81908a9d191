------------------------------- MODULE Ledger -------------------------------
(***************************************************************************)
(* What billing promises about money: a ledger whose entries are made one  *)
(* at a time and never changed.  A deposit is held until it is credited to *)
(* one new invoice or repaid; a payment may be returned once.  There are   *)
(* no statuses, no credits and no transactions here; that the handlers of  *)
(* Billing keep such a ledger is the subject of BillingLedger.             *)
(***************************************************************************)
EXTENDS Integers

CONSTANTS Invoice, Payment, Deposit, Amount

VARIABLES
  invoices,    \* the invoices that were made
  payments,    \* the amount of each payment, transfers of deposits included
  deposits,    \* the amount of each deposit
  held,        \* the deposits that may still be credited or repaid
  returned,    \* what was returned of a payment
  repaid       \* what was repaid of a deposit

ledger == <<invoices, payments, deposits, held, returned, repaid>>

\* The account with a new entry.
Enter(k, amount, account) ==
  [j \in DOMAIN account \cup {k} |-> IF j = k THEN amount ELSE account[j]]

\* The payment that credits a deposit to an invoice.
Transfer(w, d) == [inv |-> w, origin |-> "deposit_transfer", n |-> d]

Init ==
  /\ invoices = {} /\ held = {}
  /\ DOMAIN payments = {} /\ DOMAIN deposits = {}
  /\ DOMAIN returned = {} /\ DOMAIN repaid = {}

\* A deposit may be entered as one that is settled already.
TakeDeposit(d, a) ==
  /\ d \notin DOMAIN deposits
  /\ deposits' = Enter(d, a, deposits)
  /\ held' \in {held, held \cup {d}}
  /\ UNCHANGED <<invoices, payments, returned, repaid>>

\* A new invoice with the deposits D credited to it in full.
MakeInvoice(w, D) ==
  /\ w \notin invoices
  /\ invoices' = invoices \cup {w}
  /\ payments' = [k \in DOMAIN payments \cup {Transfer(w, d) : d \in D} |->
                    IF k \in DOMAIN payments THEN payments[k] ELSE deposits[k.n]]
  /\ held' = held \ D
  /\ UNCHANGED <<deposits, returned, repaid>>

TakePayment(k, a) ==
  /\ k \notin DOMAIN payments
  /\ k.inv \in invoices
  /\ payments' = Enter(k, a, payments)
  /\ UNCHANGED <<invoices, deposits, held, returned, repaid>>

ReturnPayment(k, a) ==
  /\ k \notin DOMAIN returned
  /\ a <= payments[k]
  /\ returned' = Enter(k, a, returned)
  /\ UNCHANGED <<invoices, payments, deposits, held, repaid>>

RepayDeposit(d, a) ==
  /\ a <= deposits[d]
  /\ held' = held \ {d}
  /\ repaid' = Enter(d, a, repaid)
  /\ UNCHANGED <<invoices, payments, deposits, returned>>

Next ==
  \/ \E d \in Deposit, a \in Amount : TakeDeposit(d, a)
  \/ \E w \in Invoice, D \in SUBSET held : MakeInvoice(w, D)
  \/ \E k \in Payment, a \in Amount : TakePayment(k, a)
  \/ \E k \in DOMAIN payments, a \in Amount : ReturnPayment(k, a)
  \/ \E d \in held, a \in Amount : RepayDeposit(d, a)

Spec == Init /\ [][Next]_ledger
----------------------------------------------------------------------------

\* What follows for whoever keeps such a ledger: a payment belongs to an invoice, a
\* transfer carries a deposit in full, no deposit is credited twice, or credited and
\* repaid, and nothing is given back that was not taken.
CreditedOnce ==
  \A k \in DOMAIN payments :
    /\ k.inv \in invoices
    /\ k.origin = "deposit_transfer" =>
         /\ k.n \in DOMAIN deposits \ (held \cup DOMAIN repaid)
         /\ payments[k] = deposits[k.n]
         /\ \A j \in DOMAIN payments : j.origin = "deposit_transfer" /\ j.n = k.n => j = k
ReturnsCovered ==
  /\ \A k \in DOMAIN returned : k \in DOMAIN payments /\ returned[k] <= payments[k]
  /\ \A d \in DOMAIN repaid : d \in DOMAIN deposits \ held /\ repaid[d] <= deposits[d]
Balanced == held \subseteq DOMAIN deposits /\ CreditedOnce /\ ReturnsCovered
=============================================================================
