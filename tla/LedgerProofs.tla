---------------------------- MODULE LedgerProofs ----------------------------
(***************************************************************************)
(* What holds of every ledger.                                             *)
(***************************************************************************)
EXTENDS Ledger, TLAPS

\* A new deposit is no transfer's and was never repaid.
LEMMA TakeDepositBalanced ==
  ASSUME Balanced, NEW d, NEW a, TakeDeposit(d, a)
  PROVE  Balanced'
<1>1. /\ d \notin DOMAIN deposits
      /\ DOMAIN deposits' = DOMAIN deposits \cup {d}
      /\ \A e \in DOMAIN deposits : deposits'[e] = deposits[e]
      /\ held' \subseteq held \cup {d}
      /\ invoices' = invoices /\ payments' = payments
      /\ returned' = returned /\ repaid' = repaid
  BY DEF TakeDeposit, Enter
<1>2. \A k \in DOMAIN payments : k.origin = "deposit_transfer" => k.n # d
  BY <1>1 DEF Balanced, CreditedOnce
<1>3. held' \subseteq DOMAIN deposits'
  BY <1>1 DEF Balanced
<1>4. CreditedOnce'
  BY <1>1, <1>2 DEF Balanced, CreditedOnce
<1>5. ReturnsCovered'
  BY <1>1 DEF Balanced, ReturnsCovered
<1>. QED
  BY <1>3, <1>4, <1>5 DEF Balanced

\* The deposits credited to a new invoice were held: no other transfer has them, and
\* they were not repaid.
LEMMA MakeInvoiceBalanced ==
  ASSUME Balanced, NEW w, NEW D \in SUBSET held, MakeInvoice(w, D)
  PROVE  Balanced'
<1>. DEFINE new == {Transfer(w, d) : d \in D}
<1>1. /\ w \notin invoices /\ invoices' = invoices \cup {w}
      /\ held' = held \ D
      /\ deposits' = deposits /\ returned' = returned /\ repaid' = repaid
  BY DEF MakeInvoice
<1>2. \A k \in new : /\ k.inv = w /\ k.origin = "deposit_transfer" /\ k.n \in D
                     /\ k = Transfer(w, k.n) /\ k \notin DOMAIN payments
  BY <1>1 DEF Transfer, Balanced, CreditedOnce
<1>3. /\ DOMAIN payments' = DOMAIN payments \cup new
      /\ \A k \in DOMAIN payments : payments'[k] = payments[k]
      /\ \A k \in new : payments'[k] = deposits[k.n]
  BY <1>2 DEF MakeInvoice
<1>. HIDE DEF new
<1>4. ASSUME NEW k \in DOMAIN payments'
      PROVE  /\ k.inv \in invoices'
             /\ k.origin = "deposit_transfer" =>
                  /\ k.n \in DOMAIN deposits' \ (held' \cup DOMAIN repaid')
                  /\ payments'[k] = deposits'[k.n]
                  /\ \A j \in DOMAIN payments' :
                       j.origin = "deposit_transfer" /\ j.n = k.n => j = k
  <2>1. CASE k \in new
    BY <1>1, <1>2, <1>3, <2>1 DEF Balanced, CreditedOnce, ReturnsCovered
  <2>2. CASE k \in DOMAIN payments
    BY <1>1, <1>2, <1>3, <2>2 DEF Balanced, CreditedOnce
  <2>. QED
    BY <1>3, <2>1, <2>2
<1>5. held' \subseteq DOMAIN deposits'
  BY <1>1 DEF Balanced
<1>6. ReturnsCovered'
  BY <1>1, <1>3 DEF Balanced, ReturnsCovered
<1>. QED
  BY <1>4, <1>5, <1>6 DEF Balanced, CreditedOnce

\* A payment that is taken is no transfer.
LEMMA TakePaymentBalanced ==
  ASSUME Balanced, NEW k, NEW a, k.origin # "deposit_transfer", TakePayment(k, a)
  PROVE  Balanced'
<1>1. /\ k \notin DOMAIN payments /\ k.inv \in invoices
      /\ DOMAIN payments' = DOMAIN payments \cup {k}
      /\ \A j \in DOMAIN payments : payments'[j] = payments[j]
      /\ invoices' = invoices /\ deposits' = deposits /\ held' = held
      /\ returned' = returned /\ repaid' = repaid
  BY DEF TakePayment, Enter
<1>2. held' \subseteq DOMAIN deposits'
  BY <1>1 DEF Balanced
<1>3. CreditedOnce'
  BY <1>1 DEF Balanced, CreditedOnce
<1>4. ReturnsCovered'
  BY <1>1 DEF Balanced, ReturnsCovered
<1>. QED
  BY <1>2, <1>3, <1>4 DEF Balanced

\* What is returned is covered by the payment.
LEMMA ReturnPaymentBalanced ==
  ASSUME Balanced, NEW k \in DOMAIN payments, NEW a, ReturnPayment(k, a)
  PROVE  Balanced'
<1>1. /\ a <= payments[k]
      /\ DOMAIN returned' = DOMAIN returned \cup {k}
      /\ returned'[k] = a
      /\ \A j \in DOMAIN returned \ {k} : returned'[j] = returned[j]
      /\ invoices' = invoices /\ payments' = payments /\ deposits' = deposits
      /\ held' = held /\ repaid' = repaid
  BY DEF ReturnPayment, Enter
<1>2. held' \subseteq DOMAIN deposits'
  BY <1>1 DEF Balanced
<1>3. CreditedOnce'
  BY <1>1 DEF Balanced, CreditedOnce
<1>4. ReturnsCovered'
  BY <1>1 DEF Balanced, ReturnsCovered
<1>. QED
  BY <1>2, <1>3, <1>4 DEF Balanced

\* What is repaid is covered by a deposit that no transfer credited.
LEMMA RepayDepositBalanced ==
  ASSUME Balanced, NEW d \in held, NEW a, RepayDeposit(d, a)
  PROVE  Balanced'
<1>1. /\ a <= deposits[d] /\ held' = held \ {d}
      /\ DOMAIN repaid' = DOMAIN repaid \cup {d}
      /\ repaid'[d] = a
      /\ \A e \in DOMAIN repaid \ {d} : repaid'[e] = repaid[e]
      /\ invoices' = invoices /\ payments' = payments /\ deposits' = deposits
      /\ returned' = returned
  BY DEF RepayDeposit, Enter
<1>2. held' \subseteq DOMAIN deposits'
  BY <1>1 DEF Balanced
<1>3. CreditedOnce'
  BY <1>1 DEF Balanced, CreditedOnce
<1>4. ReturnsCovered'
  BY <1>1 DEF Balanced, ReturnsCovered
<1>. QED
  BY <1>2, <1>3, <1>4 DEF Balanced

\* Whoever keeps a ledger credits each deposit once and in full, never both credits
\* and repays one, and gives back no more than was taken.
THEOREM LedgerBalanced ==
  ASSUME \A k \in Payment : k.origin # "deposit_transfer"
  PROVE  Spec => []Balanced
<1>1. Init => Balanced
  BY DEF Init, Balanced, CreditedOnce, ReturnsCovered
<1>2. Balanced /\ [Next]_ledger => Balanced'
  <2>. SUFFICES ASSUME Balanced, [Next]_ledger PROVE Balanced'
    OBVIOUS
  <2>1. CASE UNCHANGED ledger
    BY <2>1 DEF ledger, Balanced, CreditedOnce, ReturnsCovered
  <2>. QED
    BY <2>1, TakeDepositBalanced, MakeInvoiceBalanced, TakePaymentBalanced,
       ReturnPaymentBalanced, RepayDepositBalanced DEF Next
<1>. QED
  BY <1>1, <1>2, PTL DEF Spec
=============================================================================
