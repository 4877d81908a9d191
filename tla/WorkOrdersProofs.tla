-------------------------- MODULE WorkOrdersProofs --------------------------
(***************************************************************************)
(* Theorems about WorkOrders, for every load: those of the first part for  *)
(* any number of sessions, those of the second for requests that run one   *)
(* after another.                                                          *)
(***************************************************************************)
EXTENDS WorkOrders, ColumnsProofs

\* A field of a payload writes the row it is for, or nothing.
LEMMA AssignColumn ==
  ASSUME NEW S, NEW T, NEW column, NEW k \in S, NEW v \in T \cup {Null}
  PROVE  /\ IsColumn(Assign(column, k, v), S, T)
         /\ DOMAIN Assign(column, k, v) \subseteq {k}
BY EmptyColumn, EmptyRows, UpdateColumn DEF Assign

\* A request that begins adds its writes to those in flight.
LEMMA BeginTxn ==
  ASSUME NEW s, NEW W, Begin(s, W)
  PROVE  /\ s \in load.sessions \ DOMAIN txn
         /\ DOMAIN txn' = DOMAIN txn \cup {s} /\ txn'[s] = W
         /\ \A r \in DOMAIN txn : txn'[r] = txn[r]
         /\ db' = db /\ load' = load
BY DEF Begin, Overlay, At

----------------------------------------------------------------------------
(* The inductive invariant.  A commit keeps OneWorkOrderPerQuote because   *)
(* the constraint compares its work order with the rows it meets, and no   *)
(* request writes two.  It keeps ApproversAuthorize because a request      *)
(* without an approver authorizes only the work order that it inserts, and *)
(* two requests in flight never insert the same one.                       *)

ShopColumns ==
  {"quoteStatus", "quoteTotal", "woQuote", "woStatus", "authorized", "mode", "price",
   "itemStatus", "labor", "passed", "coItem", "coDelta", "coStatus", "partItem", "warranty",
   "claim", "service", "invoice", "covered"}

\* Somebody who may approve is among those who send requests.
Approvers == load.roles \cap {"manager", "customer"} # {}

\* Writes that a request may begin with.
Sound(s, W) ==
  /\ IsShop(W) /\ CompleteRows(W, db) /\ RowsExist(W, db)
  /\ \A v, w \in DOMAIN W.woQuote : v = w
  /\ DOMAIN W.woQuote \cap DOMAIN db.woQuote = {}
  /\ \A r \in DOMAIN txn \ {s} : DOMAIN W.woQuote \cap DOMAIN txn[r].woQuote = {}
  /\ Approvers \/ DOMAIN W.authorized \subseteq DOMAIN W.woQuote

ShopInv ==
  /\ load \in WorkOrderLoads
  /\ DOMAIN db = ShopColumns
  /\ IsShop(db) /\ SameRows(db) /\ RowsExist(db, db)
  /\ DOMAIN txn \subseteq load.sessions
  /\ \A s \in DOMAIN txn : Sound(s, txn[s])
  /\ OneWorkOrderPerQuote

\* W writes to no columns but those of C.
Only(W, C) == \A c \in ShopColumns \ C : W[c] = Empty

\* What the load gives requests is well-typed.
LEMMA ShopLoad ==
  ASSUME ShopInv
  PROVE  /\ load.roles \subseteq Role
         /\ load.quotes \in Nat /\ load.workOrders \in Nat /\ load.items \in Nat
         /\ load.changeOrders \in Nat /\ load.services \in Nat /\ load.parts \in Nat
         /\ load.claims \in Nat
         /\ load.totals \subseteq Nat /\ load.prices \subseteq Nat /\ load.deltas \subseteq Int
         /\ load.quoteStatuses \subseteq QuoteStatus /\ load.woStatuses \subseteq WorkOrderStatus
         /\ load.itemStatuses \subseteq ItemStatus
         /\ load.invoiceStatuses \subseteq InvoiceStatus /\ load.modes \subseteq Mode
<1>1. IsWorkOrderLoad(load)
  BY WorkOrderAssumption DEF ShopInv
<1>. QED
  BY <1>1 DEF IsWorkOrderLoad

\* The keys of committed rows, and the rows that belong to them.
LEMMA ShopKeys ==
  ASSUME ShopInv
  PROVE  /\ DOMAIN db.quoteStatus \subseteq Nat /\ DOMAIN db.woQuote \subseteq Nat
         /\ DOMAIN db.price \subseteq Numbered /\ DOMAIN db.coItem \subseteq Numbered
         /\ DOMAIN db.claim \subseteq Numbered /\ DOMAIN db.invoice \subseteq Nat
         /\ DOMAIN db.service \subseteq Nat /\ DOMAIN db.warranty \subseteq Nat
         /\ DOMAIN db.quoteTotal = DOMAIN db.quoteStatus
         /\ DOMAIN db.woStatus = DOMAIN db.woQuote /\ DOMAIN db.authorized = DOMAIN db.woQuote
         /\ DOMAIN db.mode = DOMAIN db.price /\ DOMAIN db.itemStatus = DOMAIN db.price
         /\ DOMAIN db.coDelta = DOMAIN db.coItem /\ DOMAIN db.coStatus = DOMAIN db.coItem
         /\ DOMAIN db.invoice \subseteq DOMAIN db.woQuote
         /\ DOMAIN db.warranty \subseteq DOMAIN db.woQuote
         /\ \A c \in DOMAIN db.coItem : c.wo \in DOMAIN db.woQuote /\ db.coDelta[c] \in Int
         /\ \A c \in DOMAIN db.claim : c.wo \in DOMAIN db.woQuote
         /\ \A w \in DOMAIN db.woQuote :
              /\ db.woQuote[w] \in DOMAIN db.quoteStatus
              /\ db.woStatus[w] \in WorkOrderStatus /\ db.authorized[w] \in Nat
         /\ \A q \in DOMAIN db.quoteStatus : db.quoteTotal[q] \in Nat
<1>1. /\ QuoteTable(db) /\ WorkOrderTable(db) /\ LineItemTable(db) /\ ChangeOrderTable(db)
      /\ ClaimTable(db) /\ InvoiceTable(db) /\ MenuTable(db) /\ WarrantyTable(db)
      /\ SameRows(db) /\ RowsExist(db, db)
  BY DEF ShopInv, IsShop
<1>2. /\ DOMAIN db.quoteStatus \subseteq Nat /\ DOMAIN db.woQuote \subseteq Nat
      /\ DOMAIN db.price \subseteq Numbered /\ DOMAIN db.coItem \subseteq Numbered
      /\ DOMAIN db.claim \subseteq Numbered /\ DOMAIN db.invoice \subseteq Nat
      /\ DOMAIN db.service \subseteq Nat /\ DOMAIN db.warranty \subseteq Nat
  BY <1>1 DEF QuoteTable, WorkOrderTable, LineItemTable, ChangeOrderTable, ClaimTable,
              InvoiceTable, MenuTable, WarrantyTable, IsColumn
<1>3. /\ DOMAIN db.quoteTotal = DOMAIN db.quoteStatus
      /\ DOMAIN db.woStatus = DOMAIN db.woQuote /\ DOMAIN db.authorized = DOMAIN db.woQuote
      /\ DOMAIN db.mode = DOMAIN db.price /\ DOMAIN db.itemStatus = DOMAIN db.price
      /\ DOMAIN db.coDelta = DOMAIN db.coItem /\ DOMAIN db.coStatus = DOMAIN db.coItem
  BY <1>1 DEF SameRows
<1>4. /\ DOMAIN db.invoice \subseteq DOMAIN db.woQuote
      /\ DOMAIN db.warranty \subseteq DOMAIN db.woQuote
      /\ \A c \in DOMAIN db.coItem : c.wo \in DOMAIN db.woQuote
      /\ \A c \in DOMAIN db.claim : c.wo \in DOMAIN db.woQuote
      /\ \A w \in DOMAIN db.woQuote : db.woQuote[w] \in DOMAIN db.quoteStatus
  BY <1>1 DEF RowsExist, Range
<1>5. /\ \A c \in DOMAIN db.coDelta : db.coDelta[c] \in Int
      /\ \A w \in DOMAIN db.woStatus : db.woStatus[w] \in WorkOrderStatus
      /\ \A w \in DOMAIN db.authorized : db.authorized[w] \in Nat
      /\ \A q \in DOMAIN db.quoteTotal : db.quoteTotal[q] \in Nat
  BY <1>1 DEF QuoteTable, WorkOrderTable, ChangeOrderTable, IsColumn
<1>. QED
  BY <1>2, <1>3, <1>4, <1>5

\* Writes to well-typed columns only.
LEMMA OnlyTyped ==
  ASSUME NEW W, NEW C, Only(W, C),
         "quoteStatus" \in C => IsColumn(W.quoteStatus, Nat, QuoteStatus),
         "quoteTotal" \in C => IsColumn(W.quoteTotal, Nat, Nat),
         "woQuote" \in C => IsColumn(W.woQuote, Nat, Nat),
         "woStatus" \in C => IsColumn(W.woStatus, Nat, WorkOrderStatus),
         "authorized" \in C => IsColumn(W.authorized, Nat, Nat),
         "mode" \in C => IsColumn(W.mode, Numbered, Mode),
         "price" \in C => IsColumn(W.price, Numbered, Nat),
         "itemStatus" \in C => IsColumn(W.itemStatus, Numbered, ItemStatus),
         "labor" \in C => IsColumn(W.labor, Numbered, {TRUE}),
         "passed" \in C => IsColumn(W.passed, Numbered, {TRUE}),
         "coItem" \in C => IsColumn(W.coItem, Numbered, Numbered),
         "coDelta" \in C => IsColumn(W.coDelta, Numbered, Int),
         "coStatus" \in C => IsColumn(W.coStatus, Numbered, ApprovalStatus),
         "partItem" \in C => IsColumn(W.partItem, Nat, Numbered),
         "warranty" \in C => IsColumn(W.warranty, Nat, {TRUE}),
         "claim" \in C => IsColumn(W.claim, Numbered, ClaimStatus),
         "service" \in C => IsColumn(W.service, Nat, [mode : Mode, price : Nat]),
         "invoice" \in C => IsColumn(W.invoice, Nat, InvoiceStatus),
         "covered" \in C => IsColumn(W.covered, Nat, {TRUE})
  PROVE  IsShop(W)
<1>1. \A S, T : IsColumn(Empty, S, T)
  BY EmptyColumn
<1>2. QuoteTable(W) /\ WorkOrderTable(W)
  BY <1>1 DEF Only, ShopColumns, QuoteTable, WorkOrderTable
<1>3. LineItemTable(W)
  BY <1>1 DEF Only, ShopColumns, LineItemTable
<1>4. LaborTable(W) /\ QualityTable(W) /\ PartTable(W)
  BY <1>1 DEF Only, ShopColumns, LaborTable, QualityTable, PartTable
<1>5. ChangeOrderTable(W)
  BY <1>1 DEF Only, ShopColumns, ChangeOrderTable
<1>6. WarrantyTable(W) /\ ClaimTable(W) /\ MenuTable(W) /\ InvoiceTable(W)
  BY <1>1 DEF Only, ShopColumns, WarrantyTable, ClaimTable, MenuTable, InvoiceTable
<1>. QED
  BY <1>2, <1>3, <1>4, <1>5, <1>6 DEF IsShop

\* Writes that insert no work order and, without approvers, authorize nothing.
LEMMA SoundWrites ==
  ASSUME NEW s, NEW W, IsShop(W), CompleteRows(W, db), RowsExist(W, db),
         W.woQuote = Empty, Approvers \/ W.authorized = Empty
  PROVE  Sound(s, W)
BY EmptyRows DEF Sound

\* Writes to columns of rows that exist are complete.
LEMMA ExistingRows ==
  ASSUME ShopInv, NEW W, NEW C,
         C \subseteq {"quoteStatus", "woStatus", "authorized", "mode", "price", "itemStatus",
                      "coStatus", "labor", "passed", "service"},
         Only(W, C),
         "quoteStatus" \in C => DOMAIN W.quoteStatus \subseteq DOMAIN db.quoteStatus,
         "woStatus" \in C => DOMAIN W.woStatus \subseteq DOMAIN db.woQuote,
         "authorized" \in C => DOMAIN W.authorized \subseteq DOMAIN db.woQuote,
         "mode" \in C => DOMAIN W.mode \subseteq DOMAIN db.price,
         "price" \in C => DOMAIN W.price \subseteq DOMAIN db.price,
         "itemStatus" \in C => DOMAIN W.itemStatus \subseteq DOMAIN db.price,
         "coStatus" \in C => DOMAIN W.coStatus \subseteq DOMAIN db.coItem,
         "labor" \in C => DOMAIN W.labor \subseteq DOMAIN db.price,
         "passed" \in C => DOMAIN W.passed \subseteq DOMAIN db.price
  PROVE  CompleteRows(W, db) /\ RowsExist(W, db)
<1>1. /\ W.quoteTotal = Empty /\ W.woQuote = Empty /\ W.coItem = Empty /\ W.coDelta = Empty
      /\ W.partItem = Empty /\ W.warranty = Empty /\ W.claim = Empty /\ W.invoice = Empty
      /\ W.covered = Empty
  BY DEF Only, ShopColumns
<1>2. /\ DOMAIN W.quoteStatus \subseteq DOMAIN db.quoteStatus
      /\ DOMAIN W.woStatus \subseteq DOMAIN db.woQuote
      /\ DOMAIN W.authorized \subseteq DOMAIN db.woQuote
      /\ DOMAIN W.mode \subseteq DOMAIN db.price
      /\ DOMAIN W.price \subseteq DOMAIN db.price
      /\ DOMAIN W.itemStatus \subseteq DOMAIN db.price
      /\ DOMAIN W.coStatus \subseteq DOMAIN db.coItem
      /\ DOMAIN W.labor \subseteq DOMAIN db.price
      /\ DOMAIN W.passed \subseteq DOMAIN db.price
  BY EmptyRows DEF Only, ShopColumns
<1>3. DOMAIN db.quoteTotal = DOMAIN db.quoteStatus
  BY ShopKeys
<1>4. CompleteRows(W, db)
  BY <1>1, <1>2, <1>3, EmptyRows DEF CompleteRows
<1>5. \A k \in DOMAIN db.price : k.wo \in DOMAIN db.woQuote
  BY DEF ShopInv, RowsExist
<1>6. RowsExist(W, db)
  BY <1>1, <1>2, <1>5, EmptyRows DEF RowsExist, Range
<1>. QED
  BY <1>4, <1>6

\* No writes to begin with.
LEMMA NoWritesEmpty == DOMAIN NoWrites = ShopColumns /\ \A c \in ShopColumns : NoWrites[c] = Empty
BY DEF NoWrites, ShopColumns

----------------------------------------------------------------------------
(* Every handler begins with sound writes.                                 *)

LEMMA PostQuoteSound ==
  ASSUME ShopInv, NEW s, NEW role, NEW q \in 1 .. load.quotes, NEW p \in QuoteCreate,
         PostQuote(s, role, q, p)
  PROVE  \E W : Begin(s, W) /\ Sound(s, W)
<1>. DEFINE W == [NoWrites EXCEPT !.quoteStatus = At(q, p.status), !.quoteTotal = At(q, p.total)]
<1>1. Begin(s, W)
  BY DEF PostQuote
<1>2. q \in Nat /\ p.status \in QuoteStatus /\ p.total \in Nat
  BY ShopLoad DEF QuoteCreate
<1>3. /\ W.quoteStatus = At(q, p.status) /\ W.quoteTotal = At(q, p.total)
      /\ Only(W, {"quoteStatus", "quoteTotal"})
  BY NoWritesEmpty DEF Only, ShopColumns
<1>. HIDE DEF W
<1>4. IsShop(W)
  BY <1>2, <1>3, AtColumn, OnlyTyped
<1>5. DOMAIN W.quoteStatus = {q} /\ DOMAIN W.quoteTotal = {q}
  BY <1>3, AtRow
<1>6. CompleteRows(W, db)
  BY <1>3, <1>5, EmptyRows DEF CompleteRows, Only, ShopColumns
<1>7. RowsExist(W, db)
  BY <1>3, EmptyRows DEF RowsExist, Range, Only, ShopColumns
<1>. QED
  BY <1>1, <1>3, <1>4, <1>6, <1>7, SoundWrites DEF Only, ShopColumns

\* Only an approver approves, and only an approval authorizes.
LEMMA PutQuoteSound ==
  ASSUME ShopInv, NEW s, NEW role \in load.roles, NEW q \in DOMAIN db.quoteStatus,
         NEW st \in load.quoteStatuses, PutQuote(s, role, q, st)
  PROVE  \E W : Begin(s, W) /\ Sound(s, W)
<1>. DEFINE status == Update(db.quoteStatus, q, st)
            woStatus == IF st = "approved" THEN [w \in Activates(q) |-> "active"] ELSE Empty
            authorized == IF st = "approved"
                          THEN [w \in Activates(q) |-> db.quoteTotal[q]] ELSE Empty
            W == [NoWrites EXCEPT !.quoteStatus = status, !.woStatus = woStatus,
                                  !.authorized = authorized]
<1>1. Begin(s, W)
  BY DEF PutQuote, UpdateQuote
<1>2. IsColumn(status, Nat, QuoteStatus) /\ DOMAIN status \subseteq DOMAIN db.quoteStatus
  <2>1. q \in Nat /\ st \in QuoteStatus
    BY ShopKeys, ShopLoad
  <2>. QED
    BY <2>1, UpdateColumn
<1>3. Activates(q) \subseteq DOMAIN db.woQuote /\ Activates(q) \subseteq Nat /\ db.quoteTotal[q] \in Nat
  BY ShopKeys DEF Activates
<1>4. IsColumn(woStatus, Nat, WorkOrderStatus) /\ DOMAIN woStatus \subseteq DOMAIN db.woQuote
  BY <1>3, EmptyColumn, EmptyRows DEF IsColumn, WorkOrderStatus
<1>5. IsColumn(authorized, Nat, Nat) /\ DOMAIN authorized \subseteq DOMAIN db.woQuote
  BY <1>3, EmptyColumn, EmptyRows DEF IsColumn
<1>6. Approvers \/ authorized = Empty
  BY DEF PutQuote, Approvers
<1>. HIDE DEF status, woStatus, authorized
<1>7. /\ W.quoteStatus = status /\ W.woStatus = woStatus /\ W.authorized = authorized
      /\ Only(W, {"quoteStatus", "woStatus", "authorized"})
  BY NoWritesEmpty DEF Only, ShopColumns
<1>. HIDE DEF W
<1>8. IsShop(W)
  BY <1>2, <1>4, <1>5, <1>7, OnlyTyped
<1>9. CompleteRows(W, db) /\ RowsExist(W, db)
  BY <1>2, <1>4, <1>5, <1>7, ExistingRows
<1>. QED
  BY <1>1, <1>6, <1>7, <1>8, <1>9, SoundWrites DEF Only, ShopColumns

\* The new work order has no row yet, committed or in flight.
LEMMA PostWorkOrderSound ==
  ASSUME ShopInv, NEW s, NEW role, NEW w \in 1 .. load.workOrders, NEW p \in WorkOrderCreate,
         Fresh(w, Used("woQuote")), PostWorkOrder(s, role, w, p)
  PROVE  \E W : Begin(s, W) /\ Sound(s, W)
<1>. DEFINE W == [NoWrites EXCEPT !.woQuote = At(w, p.quote), !.woStatus = At(w, p.status),
                                  !.authorized = At(w, p.authorized)]
<1>1. Begin(s, W)
  BY DEF PostWorkOrder, CreateWorkOrder, CreateAnyWorkOrder
<1>2. /\ w \in Nat /\ p.quote \in DOMAIN db.quoteStatus /\ p.quote \in Nat
      /\ p.status \in WorkOrderStatus /\ p.authorized \in Nat
  BY ShopLoad, ShopKeys DEF WorkOrderCreate
<1>3. w \notin DOMAIN db.woQuote /\ \A r \in DOMAIN txn : w \notin DOMAIN txn[r].woQuote
  BY DEF Fresh, Used
<1>4. /\ W.woQuote = At(w, p.quote) /\ W.woStatus = At(w, p.status)
      /\ W.authorized = At(w, p.authorized)
      /\ Only(W, {"woQuote", "woStatus", "authorized"})
  BY NoWritesEmpty DEF Only, ShopColumns
<1>. HIDE DEF W
<1>5. IsShop(W)
  BY <1>2, <1>4, AtColumn, OnlyTyped
<1>6. DOMAIN W.woQuote = {w} /\ DOMAIN W.authorized = {w} /\ DOMAIN W.woStatus = {w}
  BY <1>4, AtRow
<1>7. Range(W.woQuote) = {p.quote}
  BY <1>4 DEF Range, At
<1>8. CompleteRows(W, db)
  BY <1>4, <1>6, EmptyRows DEF CompleteRows, Only, ShopColumns
<1>9. RowsExist(W, db)
  BY <1>2, <1>4, <1>7, EmptyRows DEF RowsExist, Range, Only, ShopColumns
<1>. QED
  BY <1>1, <1>3, <1>5, <1>6, <1>8, <1>9 DEF Sound

\* PutWorkOrder and the listener on Deposit set the status.
LEMMA StatusSound ==
  ASSUME ShopInv, NEW s, NEW w \in DOMAIN db.woStatus, NEW st \in WorkOrderStatus,
         Begin(s, [NoWrites EXCEPT !.woStatus = Update(db.woStatus, w, st)])
  PROVE  \E W : Begin(s, W) /\ Sound(s, W)
<1>. DEFINE status == Update(db.woStatus, w, st)
            W == [NoWrites EXCEPT !.woStatus = status]
<1>1. IsColumn(status, Nat, WorkOrderStatus) /\ DOMAIN status \subseteq DOMAIN db.woQuote
  <2>1. w \in Nat /\ w \in DOMAIN db.woQuote
    BY ShopKeys
  <2>2. IsColumn(status, Nat, WorkOrderStatus) /\ DOMAIN status \subseteq {w}
    BY <2>1, UpdateColumn
  <2>. QED
    BY <2>1, <2>2
<1>. HIDE DEF status
<1>2. W.woStatus = status /\ Only(W, {"woStatus"})
  BY NoWritesEmpty DEF Only, ShopColumns
<1>. HIDE DEF W
<1>3. IsShop(W)
  BY <1>1, <1>2, OnlyTyped
<1>4. CompleteRows(W, db) /\ RowsExist(W, db)
  BY <1>1, <1>2, ExistingRows
<1>5. Sound(s, W)
  BY <1>2, <1>3, <1>4, SoundWrites DEF Only, ShopColumns
<1>. QED
  BY <1>5 DEF W, status

\* A new line item, by itself or from the menu.
LEMMA NewItemSound ==
  ASSUME ShopInv, NEW s, NEW w \in DOMAIN db.woStatus, NEW n \in 1 .. load.items,
         NEW p, p.mode \in Mode, p.price \in Nat, p.status \in ItemStatus,
         Begin(s, NewItem([wo |-> w, n |-> n], p))
  PROVE  \E W : Begin(s, W) /\ Sound(s, W)
<1>. DEFINE k == [wo |-> w, n |-> n]
            W == NewItem(k, p)
<1>1. k \in Numbered /\ k.wo \in DOMAIN db.woQuote
  BY ShopLoad, ShopKeys DEF Numbered
<1>. HIDE DEF k
<1>2. /\ W.mode = At(k, p.mode) /\ W.price = At(k, p.price) /\ W.itemStatus = At(k, p.status)
      /\ Only(W, {"mode", "price", "itemStatus"})
  BY NoWritesEmpty DEF NewItem, Only, ShopColumns
<1>. HIDE DEF W
<1>3. IsShop(W)
  BY <1>1, <1>2, AtColumn, OnlyTyped
<1>4. DOMAIN W.mode = {k} /\ DOMAIN W.price = {k} /\ DOMAIN W.itemStatus = {k}
  BY <1>2, AtRow
<1>5. CompleteRows(W, db)
  BY <1>2, <1>4, EmptyRows DEF CompleteRows, Only, ShopColumns
<1>6. RowsExist(W, db)
  BY <1>1, <1>2, <1>4, EmptyRows DEF RowsExist, Range, Only, ShopColumns
<1>7. Sound(s, W)
  BY <1>2, <1>3, <1>5, <1>6, SoundWrites DEF Only, ShopColumns
<1>. QED
  BY <1>7 DEF W, k

LEMMA ApplyToWorkOrderSound ==
  ASSUME ShopInv, NEW s, NEW role, NEW w \in DOMAIN db.woStatus, NEW n \in 1 .. load.items,
         NEW m \in DOMAIN db.service, ApplyToWorkOrder(s, role, [wo |-> w, n |-> n], m)
  PROVE  \E W : Begin(s, W) /\ Sound(s, W)
<1>. DEFINE p == [mode |-> db.service[m].mode, price |-> db.service[m].price,
                  status |-> "not_started"]
<1>1. db.service[m] \in [mode : Mode, price : Nat]
  BY DEF ShopInv, IsShop, MenuTable, IsColumn
<1>2. p.mode \in Mode /\ p.price \in Nat /\ p.status \in ItemStatus
  BY <1>1 DEF ItemStatus
<1>3. Begin(s, NewItem([wo |-> w, n |-> n], p))
  BY DEF ApplyToWorkOrder
<1>. HIDE DEF p
<1>. QED
  BY <1>2, <1>3, NewItemSound

LEMMA PutLineItemSound ==
  ASSUME ShopInv, NEW s, NEW role, NEW k \in DOMAIN db.price, NEW p \in LineItemUpdate,
         PutLineItem(s, role, k, p)
  PROVE  \E W : Begin(s, W) /\ Sound(s, W)
<1>. DEFINE mode == Assign(db.mode, k, p.mode)
            price == Assign(db.price, k, p.price)
            status == IF p.price = Null THEN Empty ELSE Update(db.itemStatus, k, p.status)
            W == [NoWrites EXCEPT !.mode = mode, !.price = price, !.itemStatus = status]
<1>1. Begin(s, W)
  BY DEF PutLineItem, UpdateLineItem
<1>2. /\ k \in Numbered /\ p.mode \in Mode \cup {Null} /\ p.price \in Nat \cup {Null}
      /\ p.price # Null => p.status \in ItemStatus
  BY ShopLoad, ShopKeys DEF LineItemUpdate, PutLineItem, UpdateLineItem, Repriceable
<1>3. /\ IsColumn(mode, Numbered, Mode) /\ DOMAIN mode \subseteq {k}
      /\ IsColumn(price, Numbered, Nat) /\ DOMAIN price \subseteq {k}
  BY <1>2, AssignColumn, ZenonT(60)
<1>4. IsColumn(status, Numbered, ItemStatus) /\ DOMAIN status \subseteq {k}
  <2>1. CASE p.price = Null
    BY <2>1, EmptyColumn, EmptyRows
  <2>2. CASE p.price # Null
    BY <1>2, <2>2, UpdateColumn
  <2>. QED
    BY <2>1, <2>2
<1>. HIDE DEF mode, price, status
<1>5. /\ W.mode = mode /\ W.price = price /\ W.itemStatus = status
      /\ Only(W, {"mode", "price", "itemStatus"})
  BY NoWritesEmpty DEF Only, ShopColumns
<1>. HIDE DEF W
<1>6. IsShop(W)
  BY <1>3, <1>4, <1>5, OnlyTyped
<1>7. CompleteRows(W, db) /\ RowsExist(W, db)
  BY <1>3, <1>4, <1>5, ExistingRows
<1>. QED
  BY <1>1, <1>5, <1>6, <1>7, SoundWrites DEF Only, ShopColumns

\* Labor entries and passed checks.
LEMMA MarkSound ==
  ASSUME ShopInv, NEW s, NEW k \in DOMAIN db.price,
         \/ Begin(s, [NoWrites EXCEPT !.labor = Update(db.labor, k, TRUE)])
         \/ Begin(s, [NoWrites EXCEPT !.passed = Update(db.passed, k, TRUE)])
  PROVE  \E W : Begin(s, W) /\ Sound(s, W)
<1>. DEFINE labor == Update(db.labor, k, TRUE)
            passed == Update(db.passed, k, TRUE)
            L == [NoWrites EXCEPT !.labor = labor]
            P == [NoWrites EXCEPT !.passed = passed]
<1>1. /\ IsColumn(labor, Numbered, {TRUE}) /\ DOMAIN labor \subseteq {k}
      /\ IsColumn(passed, Numbered, {TRUE}) /\ DOMAIN passed \subseteq {k}
  BY ShopKeys, UpdateColumn
<1>. HIDE DEF labor, passed
<1>2. L.labor = labor /\ Only(L, {"labor"}) /\ P.passed = passed /\ Only(P, {"passed"})
  BY NoWritesEmpty DEF Only, ShopColumns
<1>. HIDE DEF L, P
<1>3. IsShop(L) /\ IsShop(P)
  BY <1>1, <1>2, OnlyTyped
<1>4. /\ CompleteRows(L, db) /\ RowsExist(L, db)
      /\ CompleteRows(P, db) /\ RowsExist(P, db)
  BY <1>1, <1>2, ExistingRows
<1>5. Sound(s, L) /\ Sound(s, P)
  BY <1>2, <1>3, <1>4, SoundWrites DEF Only, ShopColumns
<1>. QED
  BY <1>5 DEF L, P, labor, passed

\* A failed check.
LEMMA FailedCheckSound ==
  ASSUME ShopInv, NEW s, NEW k \in DOMAIN db.price,
         Begin(s, [NoWrites EXCEPT !.itemStatus = At(k, "in_progress")])
  PROVE  \E W : Begin(s, W) /\ Sound(s, W)
<1>. DEFINE W == [NoWrites EXCEPT !.itemStatus = At(k, "in_progress")]
<1>1. W.itemStatus = At(k, "in_progress") /\ Only(W, {"itemStatus"})
  BY NoWritesEmpty DEF Only, ShopColumns
<1>. HIDE DEF W
<1>2. k \in Numbered /\ "in_progress" \in ItemStatus
  BY ShopKeys DEF ItemStatus
<1>3. IsShop(W)
  BY <1>1, <1>2, AtColumn, OnlyTyped
<1>4. CompleteRows(W, db) /\ RowsExist(W, db)
  <2>1. DOMAIN W.itemStatus \subseteq DOMAIN db.price
    BY <1>1 DEF At
  <2>. QED
    BY <1>1, <2>1, ExistingRows
<1>5. Sound(s, W)
  BY <1>1, <1>3, <1>4, SoundWrites DEF Only, ShopColumns
<1>. QED
  BY <1>5 DEF W

LEMMA LinkPartSound ==
  ASSUME ShopInv, NEW s, NEW n \in 1 .. load.parts, NEW k \in DOMAIN db.price, LinkPart(s, n, k)
  PROVE  \E W : Begin(s, W) /\ Sound(s, W)
<1>. DEFINE part == Update(db.partItem, n, k)
            W == [NoWrites EXCEPT !.partItem = part]
<1>1. Begin(s, W)
  BY DEF LinkPart
<1>2. n \in Nat /\ k \in Numbered
  BY ShopLoad, ShopKeys
<1>3. IsColumn(part, Nat, Numbered)
  BY <1>2, UpdateColumn
<1>8. Range(part) \subseteq {k}
  BY DEF Update, Range, At, Empty
<1>. HIDE DEF part
<1>4. W.partItem = part /\ Only(W, {"partItem"})
  BY NoWritesEmpty DEF Only, ShopColumns
<1>. HIDE DEF W
<1>5. IsShop(W)
  BY <1>3, <1>4, OnlyTyped
<1>6. CompleteRows(W, db)
  BY <1>4, EmptyRows DEF CompleteRows, Only, ShopColumns
<1>7. RowsExist(W, db)
  BY <1>8, <1>4, EmptyRows DEF RowsExist, Range, Only, ShopColumns
<1>. QED
  BY <1>1, <1>4, <1>5, <1>6, <1>7, SoundWrites DEF Only, ShopColumns

LEMMA CreateChangeOrderSound ==
  ASSUME ShopInv, NEW s, NEW w \in DOMAIN db.woStatus, NEW n \in 1 .. load.changeOrders,
         NEW p \in ChangeOrderCreate, CreateChangeOrder(s, [wo |-> w, n |-> n], p)
  PROVE  \E W : Begin(s, W) /\ Sound(s, W)
<1>. DEFINE c == [wo |-> w, n |-> n]
            W == [NoWrites EXCEPT !.coItem = At(c, p.item), !.coDelta = At(c, p.delta),
                                  !.coStatus = At(c, p.status)]
<1>1. Begin(s, W)
  BY DEF CreateChangeOrder
<1>2. c \in Numbered /\ c.wo \in DOMAIN db.woQuote
  BY ShopLoad, ShopKeys DEF Numbered
<1>3. /\ p.item \in DOMAIN db.price /\ p.item \in Numbered /\ p.delta \in Int
      /\ p.status \in ApprovalStatus
  BY ShopLoad, ShopKeys DEF ChangeOrderCreate
<1>. HIDE DEF c
<1>4. /\ W.coItem = At(c, p.item) /\ W.coDelta = At(c, p.delta) /\ W.coStatus = At(c, p.status)
      /\ Only(W, {"coItem", "coDelta", "coStatus"})
  BY NoWritesEmpty DEF Only, ShopColumns
<1>. HIDE DEF W
<1>5. IsShop(W)
  BY <1>2, <1>3, <1>4, AtColumn, OnlyTyped
<1>6. DOMAIN W.coItem = {c} /\ DOMAIN W.coDelta = {c} /\ DOMAIN W.coStatus = {c}
  BY <1>4, AtRow
<1>7. Range(W.coItem) = {p.item}
  BY <1>4 DEF Range, At
<1>8. CompleteRows(W, db)
  BY <1>4, <1>6, EmptyRows DEF CompleteRows, Only, ShopColumns
<1>9. RowsExist(W, db)
  <2>1. Range(W.woQuote) = {} /\ Range(W.partItem) = {}
    BY <1>4, EmptyRows DEF Range, Only, ShopColumns
  <2>2. /\ DOMAIN W.price = {} /\ DOMAIN W.claim = {} /\ DOMAIN W.labor = {}
        /\ DOMAIN W.passed = {} /\ DOMAIN W.warranty = {} /\ DOMAIN W.invoice = {}
        /\ DOMAIN W.covered = {}
    BY <1>4, EmptyRows DEF Only, ShopColumns
  <2>. QED
    BY <1>2, <1>3, <1>6, <1>7, <2>1, <2>2 DEF RowsExist
<1>. QED
  BY <1>1, <1>4, <1>5, <1>8, <1>9, SoundWrites DEF Only, ShopColumns

\* Only an approver approves, and only a new approval changes the authorized amount.
LEMMA PutChangeOrderSound ==
  ASSUME ShopInv, NEW s, NEW role \in load.roles, NEW c \in DOMAIN db.coStatus,
         NEW st \in ApprovalStatus, PutChangeOrder(s, role, c, st)
  PROVE  \E W : Begin(s, W) /\ Sound(s, W)
<1>. DEFINE status == Update(db.coStatus, c, st)
            authorized == IF NewlyApproved(c, st)
                          THEN Update(db.authorized, c.wo, AmountWith(c)) ELSE Empty
            W == [NoWrites EXCEPT !.coStatus = status, !.authorized = authorized]
<1>1. Begin(s, W)
  BY DEF PutChangeOrder, UpdateChangeOrder
<1>2. c \in Numbered /\ c \in DOMAIN db.coItem /\ c.wo \in DOMAIN db.woQuote /\ c.wo \in Nat
  BY ShopKeys
<1>3. IsColumn(status, Numbered, ApprovalStatus) /\ DOMAIN status \subseteq {c}
  BY <1>2, UpdateColumn
<1>4. IsColumn(authorized, Nat, Nat) /\ DOMAIN authorized \subseteq {c.wo}
  <2>1. CASE NewlyApproved(c, st)
    <3>1. AmountWith(c) \in Nat
      BY <1>2, <2>1, ShopKeys DEF PutChangeOrder, UpdateChangeOrder, ValidAmount, AmountWith
    <3>. QED
      BY <1>2, <2>1, <3>1, UpdateColumn
  <2>2. CASE ~NewlyApproved(c, st)
    BY <2>2, EmptyColumn, EmptyRows
  <2>. QED
    BY <2>1, <2>2
<1>5. Approvers \/ authorized = Empty
  BY DEF PutChangeOrder, Approvers, NewlyApproved
<1>. HIDE DEF status, authorized
<1>6. /\ W.coStatus = status /\ W.authorized = authorized
      /\ Only(W, {"coStatus", "authorized"})
  BY NoWritesEmpty DEF Only, ShopColumns
<1>. HIDE DEF W
<1>7. IsShop(W)
  BY <1>3, <1>4, <1>6, OnlyTyped
<1>8. CompleteRows(W, db) /\ RowsExist(W, db)
  <2>1. DOMAIN W.coStatus \subseteq DOMAIN db.coItem /\ DOMAIN W.authorized \subseteq DOMAIN db.woQuote
    BY <1>2, <1>3, <1>4, <1>6
  <2>. QED
    BY <1>6, <2>1, ExistingRows
<1>. QED
  BY <1>1, <1>5, <1>6, <1>7, <1>8, SoundWrites DEF Only, ShopColumns

\* The service menu.
LEMMA MenuRequestSound ==
  ASSUME ShopInv, NEW s, NEW role, MenuRequest(s, role)
  PROVE  \E W : Begin(s, W) /\ Sound(s, W)
<1>1. PICK service :
        /\ Begin(s, [NoWrites EXCEPT !.service = service])
        /\ IsColumn(service, Nat, [mode : Mode, price : Nat])
  <2>1. CannedServiceCreate \subseteq [mode : Mode, price : Nat]
    BY ShopLoad DEF CannedServiceCreate
  <2>2. ASSUME NEW m \in 1 .. load.services, NEW p \in CannedServiceCreate,
               CreateCannedService(s, role, m, p)
        PROVE  /\ Begin(s, [NoWrites EXCEPT !.service = At(m, p)])
               /\ IsColumn(At(m, p), Nat, [mode : Mode, price : Nat])
    <3>1. m \in Nat /\ p \in [mode : Mode, price : Nat]
      BY <2>1, ShopLoad
    <3>. QED
      BY <2>2, <3>1, AtColumn DEF CreateCannedService
  <2>3. ASSUME NEW m \in DOMAIN db.service, NEW p \in CannedServiceCreate,
               UpdateCannedService(s, role, m, p)
        PROVE  /\ Begin(s, [NoWrites EXCEPT !.service = Update(db.service, m, p)])
               /\ IsColumn(Update(db.service, m, p), Nat, [mode : Mode, price : Nat])
    <3>1. m \in Nat /\ p \in [mode : Mode, price : Nat]
      BY <2>1, ShopKeys
    <3>. QED
      BY <2>3, <3>1, UpdateColumn, ZenonT(60) DEF UpdateCannedService
  <2>. QED
    BY <2>2, <2>3 DEF MenuRequest
<1>. DEFINE W == [NoWrites EXCEPT !.service = service]
<1>2. W.service = service /\ Only(W, {"service"})
  BY NoWritesEmpty DEF Only, ShopColumns
<1>. HIDE DEF W
<1>3. IsShop(W)
  BY <1>1, <1>2, OnlyTyped
<1>4. CompleteRows(W, db) /\ RowsExist(W, db)
  BY <1>2, ExistingRows
<1>5. Sound(s, W)
  BY <1>2, <1>3, <1>4, SoundWrites DEF Only, ShopColumns
<1>. QED
  BY <1>1, <1>5 DEF W

\* A warranty, with the link to the invoice of its work order.
LEMMA CreateWarrantySound ==
  ASSUME ShopInv, NEW s, NEW role, NEW w \in DOMAIN db.woStatus, CreateWarranty(s, role, w)
  PROVE  \E W : Begin(s, W) /\ Sound(s, W)
<1>. DEFINE covered == [v \in {w} \cap DOMAIN db.invoice |-> TRUE]
            W == [NoWrites EXCEPT !.warranty = At(w, TRUE), !.covered = covered]
<1>1. Begin(s, W)
  BY DEF CreateWarranty
<1>2. w \in Nat /\ w \in DOMAIN db.woQuote
  BY ShopKeys
<1>3. IsColumn(covered, Nat, {TRUE}) /\ DOMAIN covered \subseteq DOMAIN db.invoice
  BY <1>2 DEF IsColumn
<1>. HIDE DEF covered
<1>4. /\ W.warranty = At(w, TRUE) /\ W.covered = covered
      /\ Only(W, {"warranty", "covered"})
  BY NoWritesEmpty DEF Only, ShopColumns
<1>. HIDE DEF W
<1>5. IsShop(W)
  <2>1. IsColumn(At(w, TRUE), Nat, {TRUE})
    BY <1>2 DEF IsColumn, At
  <2>. QED
    BY <1>3, <1>4, <2>1, OnlyTyped
<1>6. DOMAIN W.warranty = {w}
  BY <1>4, AtRow
<1>7. CompleteRows(W, db)
  BY <1>4, EmptyRows DEF CompleteRows, Only, ShopColumns
<1>8. RowsExist(W, db)
  BY <1>2, <1>3, <1>4, <1>6, EmptyRows DEF RowsExist, Range, Only, ShopColumns
<1>. QED
  BY <1>1, <1>4, <1>5, <1>7, <1>8, SoundWrites DEF Only, ShopColumns

\* A claim, filed or answered.
LEMMA ClaimSound ==
  ASSUME ShopInv, NEW s, NEW c \in Numbered, c.wo \in DOMAIN db.woQuote, NEW claim,
         IsColumn(claim, Numbered, ClaimStatus), DOMAIN claim \subseteq {c},
         Begin(s, [NoWrites EXCEPT !.claim = claim])
  PROVE  \E W : Begin(s, W) /\ Sound(s, W)
<1>. DEFINE W == [NoWrites EXCEPT !.claim = claim]
<1>1. W.claim = claim /\ Only(W, {"claim"})
  BY NoWritesEmpty DEF Only, ShopColumns
<1>. HIDE DEF W
<1>2. IsShop(W)
  BY <1>1, OnlyTyped
<1>3. CompleteRows(W, db)
  BY <1>1, EmptyRows DEF CompleteRows, Only, ShopColumns
<1>4. RowsExist(W, db)
  BY <1>1, EmptyRows DEF RowsExist, Range, Only, ShopColumns
<1>5. Sound(s, W)
  BY <1>1, <1>2, <1>3, <1>4, SoundWrites DEF Only, ShopColumns
<1>. QED
  BY <1>5 DEF W

LEMMA WarrantyRequestSound ==
  ASSUME ShopInv, NEW s, NEW role, WarrantyRequest(s, role)
  PROVE  \E W : Begin(s, W) /\ Sound(s, W)
<1>1. ASSUME NEW w \in DOMAIN db.warranty, NEW n \in 1 .. load.claims,
             CreateWarrantyClaim(s, role, [wo |-> w, n |-> n])
      PROVE  \E W : Begin(s, W) /\ Sound(s, W)
  <2>. DEFINE c == [wo |-> w, n |-> n]
  <2>1. c \in Numbered /\ c.wo \in DOMAIN db.woQuote /\ "filed" \in ClaimStatus
    BY ShopLoad, ShopKeys DEF Numbered, ClaimStatus
  <2>2. Begin(s, [NoWrites EXCEPT !.claim = At(c, "filed")])
    BY <1>1 DEF CreateWarrantyClaim
  <2>. HIDE DEF c
  <2>3. IsColumn(At(c, "filed"), Numbered, ClaimStatus) /\ DOMAIN At(c, "filed") \subseteq {c}
    BY <2>1, AtColumn DEF At
  <2>. QED
    BY <2>1, <2>2, <2>3, ClaimSound
<1>2. ASSUME NEW c \in DOMAIN db.claim, NEW st \in ClaimStatus,
             UpdateWarrantyClaim(s, role, c, st)
      PROVE  \E W : Begin(s, W) /\ Sound(s, W)
  <2>1. c \in Numbered /\ c.wo \in DOMAIN db.woQuote
    BY ShopKeys
  <2>2. Begin(s, [NoWrites EXCEPT !.claim = Update(db.claim, c, st)])
    BY <1>2 DEF UpdateWarrantyClaim
  <2>3. /\ IsColumn(Update(db.claim, c, st), Numbered, ClaimStatus)
        /\ DOMAIN Update(db.claim, c, st) \subseteq {c}
    BY <2>1, UpdateColumn
  <2>. QED
    BY <2>1, <2>2, <2>3, ClaimSound
<1>. QED
  BY <1>1, <1>2, CreateWarrantySound DEF WarrantyRequest

\* An invoice of a work order, made or changed.
LEMMA InvoiceSound ==
  ASSUME ShopInv, NEW s, NEW w \in DOMAIN db.woQuote, NEW st \in InvoiceStatus,
         \/ Begin(s, [NoWrites EXCEPT !.invoice = At(w, st)])
         \/ Begin(s, [NoWrites EXCEPT !.invoice = Update(db.invoice, w, st)])
  PROVE  \E W : Begin(s, W) /\ Sound(s, W)
<1>1. PICK invoice \in {At(w, st), Update(db.invoice, w, st)} :
        Begin(s, [NoWrites EXCEPT !.invoice = invoice])
  OBVIOUS
<1>2. w \in Nat
  BY ShopKeys
<1>3. IsColumn(invoice, Nat, InvoiceStatus) /\ DOMAIN invoice \subseteq {w}
  <2>1. IsColumn(At(w, st), Nat, InvoiceStatus) /\ DOMAIN At(w, st) \subseteq {w}
    BY <1>2, AtColumn DEF At
  <2>2. /\ IsColumn(Update(db.invoice, w, st), Nat, InvoiceStatus)
        /\ DOMAIN Update(db.invoice, w, st) \subseteq {w}
    BY <1>2, UpdateColumn
  <2>. QED
    BY <2>1, <2>2
<1>. DEFINE W == [NoWrites EXCEPT !.invoice = invoice]
<1>4. W.invoice = invoice /\ Only(W, {"invoice"})
  BY NoWritesEmpty DEF Only, ShopColumns
<1>. HIDE DEF W
<1>5. IsShop(W)
  BY <1>3, <1>4, OnlyTyped
<1>6. CompleteRows(W, db)
  BY <1>4, EmptyRows DEF CompleteRows, Only, ShopColumns
<1>7. RowsExist(W, db)
  BY <1>3, <1>4, EmptyRows DEF RowsExist, Range, Only, ShopColumns
<1>8. Sound(s, W)
  BY <1>4, <1>5, <1>6, <1>7, SoundWrites DEF Only, ShopColumns
<1>. QED
  BY <1>1, <1>8 DEF W

LEMMA WorkOrderRequestSound ==
  ASSUME ShopInv, NEW s, NEW role \in load.roles, WorkOrderRequest(s, role)
  PROVE  \E W : Begin(s, W) /\ Sound(s, W)
<1>1. CASE \E w \in 1 .. load.workOrders, p \in WorkOrderCreate :
             Fresh(w, Used("woQuote")) /\ PostWorkOrder(s, role, w, p)
  BY <1>1, PostWorkOrderSound
<1>2. CASE \E w \in DOMAIN db.woStatus, st \in load.woStatuses : PutWorkOrder(s, role, w, st)
  BY <1>2, ShopLoad, StatusSound DEF PutWorkOrder, UpdateWorkOrder
<1>3. CASE \E w \in DOMAIN db.woStatus : Reschedule(s, w)
  <2>1. "scheduled" \in WorkOrderStatus
    BY DEF WorkOrderStatus
  <2>. QED
    BY <1>3, <2>1, StatusSound DEF Reschedule
<1>4. CASE \E w \in DOMAIN db.woStatus, st \in load.invoiceStatuses : CreateInvoice(s, w, st)
  <2>1. PICK w \in DOMAIN db.woStatus, st \in load.invoiceStatuses :
          Begin(s, [NoWrites EXCEPT !.invoice = At(w, st)])
    BY <1>4 DEF CreateInvoice
  <2>2. w \in DOMAIN db.woQuote /\ st \in InvoiceStatus
    BY ShopLoad, ShopKeys
  <2>. QED
    BY <2>1, <2>2, InvoiceSound
<1>5. CASE \E w \in DOMAIN db.invoice, st \in load.invoiceStatuses : UpdateInvoice(s, w, st)
  <2>1. PICK w \in DOMAIN db.invoice, st \in load.invoiceStatuses :
          Begin(s, [NoWrites EXCEPT !.invoice = Update(db.invoice, w, st)])
    BY <1>5 DEF UpdateInvoice
  <2>2. w \in DOMAIN db.woQuote /\ st \in InvoiceStatus
    BY ShopLoad, ShopKeys
  <2>. QED
    BY <2>1, <2>2, InvoiceSound
<1>. QED
  BY <1>1, <1>2, <1>3, <1>4, <1>5 DEF WorkOrderRequest

LEMMA ItemRequestSound ==
  ASSUME ShopInv, NEW s, NEW role \in load.roles, ItemRequest(s, role)
  PROVE  \E W : Begin(s, W) /\ Sound(s, W)
<1>1. ASSUME NEW w \in DOMAIN db.woStatus, NEW n \in 1 .. load.items, NEW p \in LineItemCreate,
             PostLineItem(s, role, [wo |-> w, n |-> n], p)
      PROVE  \E W : Begin(s, W) /\ Sound(s, W)
  <2>1. p.mode \in Mode /\ p.price \in Nat /\ p.status \in ItemStatus
    BY ShopLoad DEF LineItemCreate
  <2>2. Begin(s, NewItem([wo |-> w, n |-> n], p))
    BY <1>1 DEF PostLineItem, CreateLineItem
  <2>. QED
    BY <2>1, <2>2, NewItemSound
<1>2. CASE \E k \in DOMAIN db.price : role # "customer" /\ CreateLaborEntry(s, k)
  BY <1>2, MarkSound DEF CreateLaborEntry
<1>3. ASSUME NEW k \in DOMAIN db.price, NEW result, PostQualityCheck(s, role, k, result)
      PROVE  \E W : Begin(s, W) /\ Sound(s, W)
  BY <1>3, MarkSound, FailedCheckSound DEF PostQualityCheck, CreateQualityCheck
<1>. QED
  BY <1>1, <1>2, <1>3, ApplyToWorkOrderSound, PutLineItemSound, LinkPartSound DEF ItemRequest

\* Every request begins with sound writes.
LEMMA RequestSound ==
  ASSUME ShopInv, NEW s, NEW role \in load.roles,
         \/ QuoteRequest(s, role) \/ WorkOrderRequest(s, role) \/ ItemRequest(s, role)
         \/ ChangeOrderRequest(s, role) \/ MenuRequest(s, role) \/ WarrantyRequest(s, role)
  PROVE  \E W : Begin(s, W) /\ Sound(s, W)
<1>1. CASE QuoteRequest(s, role)
  BY <1>1, PostQuoteSound, PutQuoteSound DEF QuoteRequest
<1>2. CASE ChangeOrderRequest(s, role)
  BY <1>2, CreateChangeOrderSound, PutChangeOrderSound DEF ChangeOrderRequest
<1>. QED
  BY <1>1, <1>2, WorkOrderRequestSound, ItemRequestSound, MenuRequestSound, WarrantyRequestSound

----------------------------------------------------------------------------
(* The steps.                                                              *)

LEMMA ShopInitInv == WorkOrdersInit => ShopInv
<1>. SUFFICES ASSUME WorkOrdersInit PROVE ShopInv
  OBVIOUS
<1>1. Only(db, {}) /\ DOMAIN db = ShopColumns
  BY NoWritesEmpty DEF WorkOrdersInit, Only
<1>2. IsShop(db)
  BY <1>1, OnlyTyped
<1>3. SameRows(db)
  BY <1>1 DEF SameRows, Only, ShopColumns
<1>4. RowsExist(db, db)
  BY <1>1, EmptyRows DEF RowsExist, Range, Only, ShopColumns
<1>5. OneWorkOrderPerQuote
  BY <1>1, EmptyRows DEF OneWorkOrderPerQuote, Only, ShopColumns
<1>6. DOMAIN txn = {}
  BY EmptyRows DEF WorkOrdersInit
<1>. QED
  BY <1>1, <1>2, <1>3, <1>4, <1>5, <1>6 DEF ShopInv, WorkOrdersInit

\* The tables say nothing of writes in flight.
LEMMA SameShop ==
  ASSUME db' = db, load' = load
  PROVE  /\ IsShop(db)' <=> IsShop(db)
         /\ SameRows(db)' <=> SameRows(db)
         /\ RowsExist(db, db)' <=> RowsExist(db, db)
         /\ OneWorkOrderPerQuote' <=> OneWorkOrderPerQuote
         /\ Approvers' <=> Approvers
BY DEF IsShop, QuoteTable, WorkOrderTable, LineItemTable, LaborTable, QualityTable,
       ChangeOrderTable, PartTable, WarrantyTable, ClaimTable, MenuTable, InvoiceTable,
       SameRows, RowsExist, OneWorkOrderPerQuote, Approvers

LEMMA ShopBeginInv ==
  ASSUME ShopInv, NEW s \in load.sessions, NEW W, Begin(s, W), Sound(s, W)
  PROVE  ShopInv'
<1>1. /\ s \notin DOMAIN txn /\ DOMAIN txn' = DOMAIN txn \cup {s} /\ txn'[s] = W
      /\ \A r \in DOMAIN txn : txn'[r] = txn[r]
      /\ db' = db /\ load' = load
  BY BeginTxn
<1>2. ASSUME NEW r \in DOMAIN txn' PROVE Sound(r, txn[r])'
  <2>. DEFINE X == txn'[r]
  <2>1. Sound(r, X)
    BY <1>1 DEF ShopInv
  <2>2. IsShop(X) /\ CompleteRows(X, db') /\ RowsExist(X, db')
    BY <1>1, <2>1 DEF Sound
  <2>3. \A q \in DOMAIN txn' \ {r} : DOMAIN X.woQuote \cap DOMAIN txn'[q].woQuote = {}
    <3>1. CASE r = s
      BY <1>1, <2>1, <3>1 DEF Sound
    <3>2. CASE r # s
      BY <1>1, <2>1, <3>2 DEF Sound
    <3>. QED
      BY <3>1, <3>2
  <2>4. Approvers' \/ DOMAIN X.authorized \subseteq DOMAIN X.woQuote
    BY <1>1, <2>1 DEF Sound, Approvers
  <2>. QED
    BY <1>1, <2>1, <2>2, <2>3, <2>4 DEF Sound
<1>. QED
  BY <1>1, <1>2, SameShop DEF ShopInv

LEMMA ShopRollbackInv ==
  ASSUME ShopInv, NEW s, Rollback(s)
  PROVE  ShopInv'
<1>1. /\ DOMAIN txn' = DOMAIN txn \ {s} /\ \A r \in DOMAIN txn' : txn'[r] = txn[r]
      /\ db' = db /\ load' = load
  BY DEF End, Rollback
<1>2. ASSUME NEW r \in DOMAIN txn' PROVE Sound(r, txn[r])'
  <2>1. Sound(r, txn'[r])
    BY <1>1 DEF ShopInv
  <2>. QED
    BY <1>1, <2>1 DEF Sound, Approvers
<1>. QED
  BY <1>1, <1>2, SameShop DEF ShopInv

\* What a commit of W makes of the columns.
Applied(W) ==
  /\ DOMAIN db' = ShopColumns
  /\ \A c \in ShopColumns :
       /\ db'[c] = Overlay(W[c], db[c])
       /\ DOMAIN db'[c] = DOMAIN W[c] \cup DOMAIN db[c]

LEMMA CommitApplied ==
  ASSUME ShopInv, NEW s, Commit(s, Permitted(txn[s]))
  PROVE  /\ s \in DOMAIN txn /\ Sound(s, txn[s]) /\ Permitted(txn[s]) /\ Applied(txn[s])
         /\ DOMAIN txn' = DOMAIN txn \ {s} /\ load' = load
         /\ \A r \in DOMAIN txn' : txn'[r] = txn[r]
<1>1. End(s) /\ Permitted(txn[s])
  BY DEF Commit
<1>2. \A f, g : DOMAIN Overlay(f, g) = DOMAIN f \cup DOMAIN g
  BY DEF Overlay
<1>3. DOMAIN db' = ShopColumns /\ \A c \in ShopColumns : db'[c] = Overlay(txn[s][c], db[c])
  BY DEF Commit, ShopInv
<1>. QED
  BY <1>1, <1>2, <1>3 DEF End, ShopInv, Applied

LEMMA CommitTyped ==
  ASSUME ShopInv, NEW W, IsShop(W), Applied(W)
  PROVE  IsShop(db')
<1>1. IsShop(W) /\ IsShop(db)
  BY DEF ShopInv
<1>2. \A c \in ShopColumns : db'[c] = Overlay(W[c], db[c])
  BY DEF Applied
<1>3. QuoteTable(db') /\ WorkOrderTable(db')
  BY <1>1, <1>2, OverlayColumn DEF ShopColumns, IsShop, QuoteTable, WorkOrderTable
<1>4. LineItemTable(db') /\ PartTable(db')
  BY <1>1, <1>2, OverlayColumn DEF ShopColumns, IsShop, LineItemTable, PartTable
<1>5. LaborTable(db') /\ QualityTable(db')
  BY <1>1, <1>2, OverlayColumn DEF ShopColumns, IsShop, LaborTable, QualityTable
<1>6. ChangeOrderTable(db')
  BY <1>1, <1>2, OverlayColumn DEF ShopColumns, IsShop, ChangeOrderTable
<1>7. WarrantyTable(db') /\ ClaimTable(db') /\ MenuTable(db')
  BY <1>1, <1>2, OverlayColumn DEF ShopColumns, IsShop, WarrantyTable, ClaimTable, MenuTable
<1>8. InvoiceTable(db')
  BY <1>1, <1>2, OverlayColumn DEF ShopColumns, IsShop, InvoiceTable
<1>. QED
  BY <1>3, <1>4, <1>5, <1>6, <1>7, <1>8 DEF IsShop

\* Rows that writes belong to or refer to are not lost.
LEMMA CommitKeeps ==
  ASSUME ShopInv, NEW W, Applied(W), NEW X, CompleteRows(X, db), RowsExist(X, db)
  PROVE  CompleteRows(X, db') /\ RowsExist(X, db')
<1>1. /\ DOMAIN db.quoteTotal \subseteq DOMAIN db'.quoteTotal
      /\ DOMAIN db.quoteStatus \subseteq DOMAIN db'.quoteStatus
      /\ DOMAIN db.woQuote \subseteq DOMAIN db'.woQuote
      /\ DOMAIN db.price \subseteq DOMAIN db'.price
      /\ DOMAIN db.coItem \subseteq DOMAIN db'.coItem
      /\ DOMAIN db.invoice \subseteq DOMAIN db'.invoice
  BY DEF Applied, ShopColumns
<1>2. CompleteRows(X, db')
  BY <1>1 DEF CompleteRows
<1>3. RowsExist(X, db')
  BY <1>1 DEF RowsExist
<1>. QED
  BY <1>2, <1>3

LEMMA CommitSameRows ==
  ASSUME ShopInv, NEW W, Applied(W), CompleteRows(W, db)
  PROVE  SameRows(db')
<1>1. /\ DOMAIN db'.quoteStatus = DOMAIN W.quoteStatus \cup DOMAIN db.quoteStatus
      /\ DOMAIN db'.quoteTotal = DOMAIN W.quoteTotal \cup DOMAIN db.quoteTotal
      /\ DOMAIN db'.woQuote = DOMAIN W.woQuote \cup DOMAIN db.woQuote
      /\ DOMAIN db'.woStatus = DOMAIN W.woStatus \cup DOMAIN db.woStatus
      /\ DOMAIN db'.authorized = DOMAIN W.authorized \cup DOMAIN db.authorized
  BY DEF Applied, ShopColumns
<1>2. /\ DOMAIN db'.mode = DOMAIN W.mode \cup DOMAIN db.mode
      /\ DOMAIN db'.price = DOMAIN W.price \cup DOMAIN db.price
      /\ DOMAIN db'.itemStatus = DOMAIN W.itemStatus \cup DOMAIN db.itemStatus
      /\ DOMAIN db'.coItem = DOMAIN W.coItem \cup DOMAIN db.coItem
      /\ DOMAIN db'.coDelta = DOMAIN W.coDelta \cup DOMAIN db.coDelta
      /\ DOMAIN db'.coStatus = DOMAIN W.coStatus \cup DOMAIN db.coStatus
  BY DEF Applied, ShopColumns
<1>3. SameRows(db)
  BY DEF ShopInv
<1>4. DOMAIN db'.quoteTotal = DOMAIN db'.quoteStatus
  BY <1>1, <1>3 DEF SameRows, CompleteRows
<1>5. DOMAIN db'.woStatus = DOMAIN db'.woQuote /\ DOMAIN db'.authorized = DOMAIN db'.woQuote
  BY <1>1, <1>3 DEF SameRows, CompleteRows
<1>6. DOMAIN db'.mode = DOMAIN db'.price /\ DOMAIN db'.itemStatus = DOMAIN db'.price
  BY <1>2, <1>3 DEF SameRows, CompleteRows
<1>7. DOMAIN db'.coDelta = DOMAIN db'.coItem /\ DOMAIN db'.coStatus = DOMAIN db'.coItem
  BY <1>2, <1>3 DEF SameRows, CompleteRows
<1>. QED
  BY <1>4, <1>5, <1>6, <1>7 DEF SameRows

LEMMA CommitRowsExist ==
  ASSUME ShopInv, NEW W, Applied(W), RowsExist(W, db)
  PROVE  RowsExist(db', db')
<1>1. \A f, g : Range(Overlay(f, g)) \subseteq Range(f) \cup Range(g)
  BY DEF Range, Overlay
<1>2. /\ Range(db'.woQuote) \subseteq Range(W.woQuote) \cup Range(db.woQuote)
      /\ Range(db'.coItem) \subseteq Range(W.coItem) \cup Range(db.coItem)
      /\ Range(db'.partItem) \subseteq Range(W.partItem) \cup Range(db.partItem)
  BY <1>1 DEF Applied, ShopColumns
<1>3. /\ DOMAIN db'.price = DOMAIN W.price \cup DOMAIN db.price
      /\ DOMAIN db'.coItem = DOMAIN W.coItem \cup DOMAIN db.coItem
      /\ DOMAIN db'.claim = DOMAIN W.claim \cup DOMAIN db.claim
      /\ DOMAIN db'.labor = DOMAIN W.labor \cup DOMAIN db.labor
      /\ DOMAIN db'.passed = DOMAIN W.passed \cup DOMAIN db.passed
      /\ DOMAIN db'.warranty = DOMAIN W.warranty \cup DOMAIN db.warranty
      /\ DOMAIN db'.invoice = DOMAIN W.invoice \cup DOMAIN db.invoice
      /\ DOMAIN db'.covered = DOMAIN W.covered \cup DOMAIN db.covered
      /\ DOMAIN db'.woQuote = DOMAIN W.woQuote \cup DOMAIN db.woQuote
      /\ DOMAIN db'.quoteStatus = DOMAIN W.quoteStatus \cup DOMAIN db.quoteStatus
  BY DEF Applied, ShopColumns
<1>4. RowsExist(db, db)
  BY DEF ShopInv
<1>. QED
  BY <1>2, <1>3, <1>4 DEF RowsExist

\* The constraint compares the new work order with the rows it meets.
LEMMA CommitUnique ==
  ASSUME ShopInv, NEW s, NEW W, Applied(W), Sound(s, W), UniqueQuote(W)
  PROVE  OneWorkOrderPerQuote'
<1>1. db'.woQuote = Overlay(W.woQuote, db.woQuote)
  BY DEF Applied, ShopColumns
<1>2. ASSUME NEW v \in DOMAIN db'.woQuote, NEW w \in DOMAIN db'.woQuote,
             db'.woQuote[v] = db'.woQuote[w]
      PROVE  v = w
  BY <1>1, <1>2 DEF Overlay, Sound, UniqueQuote, ShopInv, OneWorkOrderPerQuote
<1>. QED
  BY <1>2 DEF OneWorkOrderPerQuote

LEMMA ShopCommitInv ==
  ASSUME ShopInv, NEW s, Commit(s, Permitted(txn[s]))
  PROVE  ShopInv'
<1>. DEFINE W == txn[s]
<1>1. /\ s \in DOMAIN txn /\ Sound(s, W) /\ Permitted(W) /\ Applied(W)
      /\ DOMAIN txn' = DOMAIN txn \ {s} /\ load' = load
      /\ \A r \in DOMAIN txn' : txn'[r] = txn[r]
  BY CommitApplied
<1>2. IsShop(W) /\ CompleteRows(W, db) /\ RowsExist(W, db) /\ UniqueQuote(W)
  BY <1>1 DEF Sound, Permitted
<1>3. IsShop(db') /\ SameRows(db') /\ RowsExist(db', db')
  BY <1>1, <1>2, CommitTyped, CommitSameRows, CommitRowsExist
<1>4. OneWorkOrderPerQuote'
  BY <1>1, <1>2, CommitUnique
<1>5. ASSUME NEW r \in DOMAIN txn' PROVE Sound(r, txn[r])'
  <2>. DEFINE X == txn[r]
  <2>1. txn'[r] = X /\ Sound(r, X) /\ r # s /\ r \in DOMAIN txn
    BY <1>1 DEF ShopInv
  <2>2. DOMAIN db'.woQuote = DOMAIN W.woQuote \cup DOMAIN db.woQuote
    BY <1>1 DEF Applied, ShopColumns
  <2>3. DOMAIN X.woQuote \cap DOMAIN db'.woQuote = {}
    BY <1>1, <2>1, <2>2 DEF Sound
  <2>4. \A q \in DOMAIN txn' \ {r} : DOMAIN X.woQuote \cap DOMAIN txn'[q].woQuote = {}
    BY <1>1, <2>1 DEF Sound
  <2>5. CompleteRows(X, db') /\ RowsExist(X, db')
    BY <1>1, <2>1, CommitKeeps DEF Sound
  <2>6. IsShop(X) /\ (\A v, w \in DOMAIN X.woQuote : v = w)
    BY <2>1 DEF Sound
  <2>7. Approvers' \/ DOMAIN X.authorized \subseteq DOMAIN X.woQuote
    BY <1>1, <2>1 DEF Sound, Approvers
  <2>. HIDE DEF X
  <2>. QED
    BY <2>1, <2>3, <2>4, <2>5, <2>6, <2>7 DEF Sound
<1>6. DOMAIN db' = ShopColumns
  BY <1>1 DEF Applied
<1>. QED
  BY <1>1, <1>3, <1>4, <1>5, <1>6 DEF ShopInv

LEMMA ShopNextInv == ShopInv /\ [WorkOrdersNext]_vars => ShopInv'
<1>. SUFFICES ASSUME ShopInv, [WorkOrdersNext]_vars PROVE ShopInv'
  OBVIOUS
<1>1. CASE UNCHANGED vars
  <2>1. db' = db /\ txn' = txn /\ load' = load
    BY <1>1 DEF vars
  <2>2. ASSUME NEW r \in DOMAIN txn' PROVE Sound(r, txn[r])'
    BY <2>1 DEF ShopInv, Sound, Approvers
  <2>. QED
    BY <2>1, <2>2, SameShop DEF ShopInv
<1>2. CASE WorkOrdersNext
  <2>1. PICK s \in load.sessions :
          \/ \E role \in load.roles :
               \/ QuoteRequest(s, role) \/ WorkOrderRequest(s, role) \/ ItemRequest(s, role)
               \/ ChangeOrderRequest(s, role) \/ MenuRequest(s, role) \/ WarrantyRequest(s, role)
          \/ Commit(s, Permitted(txn[s]))
          \/ Rollback(s)
    BY <1>2 DEF WorkOrdersNext
  <2>2. ASSUME NEW role \in load.roles,
               \/ QuoteRequest(s, role) \/ WorkOrderRequest(s, role) \/ ItemRequest(s, role)
               \/ ChangeOrderRequest(s, role) \/ MenuRequest(s, role) \/ WarrantyRequest(s, role)
        PROVE  ShopInv'
    <3>1. PICK W : Begin(s, W) /\ Sound(s, W)
      BY <2>2, RequestSound
    <3>. QED
      BY <3>1, ShopBeginInv
  <2>. QED
    BY <2>1, <2>2, ShopCommitInv, ShopRollbackInv
<1>. QED
  BY <1>1, <1>2

----------------------------------------------------------------------------

\* Work orders and what belongs to them are whole and well-typed, whatever requests run
\* together: no authorized amount is ever negative, and no row refers to a missing one.
THEOREM WorkOrdersTypeCorrect == WorkOrdersSpec => []WorkOrdersTypeOK
<1>1. ShopInv => WorkOrdersTypeOK
  BY DEF ShopInv, Sound, WorkOrdersTypeOK
<1>. QED
  BY <1>1, ShopInitInv, ShopNextInv, PTL DEF WorkOrdersSpec

\* A quote never has two work orders, however many requests look for one at once.
THEOREM QuotesOrderedOnce == WorkOrdersSpec => []OneWorkOrderPerQuote
<1>1. ShopInv => OneWorkOrderPerQuote
  BY DEF ShopInv
<1>. QED
  BY <1>1, ShopInitInv, ShopNextInv, PTL DEF WorkOrdersSpec

\* A step without approvers leaves the authorized amounts of the work orders that exist.
LEMMA StepAuthorizes ==
  ASSUME ShopInv, WorkOrdersNext, ~Approvers, NEW w \in DOMAIN db.authorized
  PROVE  db'.authorized[w] = db.authorized[w]
<1>1. PICK s \in load.sessions :
        \/ \E role \in load.roles :
             \/ QuoteRequest(s, role) \/ WorkOrderRequest(s, role) \/ ItemRequest(s, role)
             \/ ChangeOrderRequest(s, role) \/ MenuRequest(s, role) \/ WarrantyRequest(s, role)
        \/ Commit(s, Permitted(txn[s]))
        \/ Rollback(s)
  BY DEF WorkOrdersNext
<1>2. ASSUME NEW role \in load.roles,
             \/ QuoteRequest(s, role) \/ WorkOrderRequest(s, role) \/ ItemRequest(s, role)
             \/ ChangeOrderRequest(s, role) \/ MenuRequest(s, role) \/ WarrantyRequest(s, role)
      PROVE  db' = db
  <2>1. PICK W : Begin(s, W)
    BY <1>2, RequestSound
  <2>. QED
    BY <2>1, BeginTxn
<1>3. CASE Commit(s, Permitted(txn[s]))
  <2>1. Sound(s, txn[s]) /\ Applied(txn[s])
    BY <1>3, CommitApplied
  <2>2. db'.authorized = Overlay(txn[s].authorized, db.authorized)
    BY <2>1 DEF Applied, ShopColumns
  <2>3. w \notin DOMAIN txn[s].authorized
    BY <2>1, ShopKeys DEF Sound
  <2>. QED
    BY <2>2, <2>3 DEF Overlay
<1>. QED
  BY <1>1, <1>2, <1>3 DEF Rollback

\* Advisors and technicians never change what a work order may cost, whatever they send
\* and however their requests interleave.
THEOREM OnlyApproversAuthorize == WorkOrdersSpec => ApproversAuthorize
<1>1. ShopInv /\ [WorkOrdersNext]_vars =>
        [load.roles \cap {"manager", "customer"} = {} =>
           \A w \in DOMAIN db.authorized : db'.authorized[w] = db.authorized[w]]_vars
  BY StepAuthorizes DEF Approvers
<1>. QED
  BY <1>1, ShopInitInv, ShopNextInv, PTL DEF WorkOrdersSpec, ApproversAuthorize

----------------------------------------------------------------------------
(* Requests that run one after another.  A property of a step cannot be    *)
(* read off the step, for a commit applies what an earlier one decided.     *)
(* The invariant says of the request in flight that what it decided is      *)
(* right for the rows as they are: nothing commits in between.              *)

\* What it closes is finished, and it changes no item.
ClosesChecked(W) ==
  \A w \in DOMAIN W.woStatus : W.woStatus[w] = "closed" =>
    Completed(w) /\ Checked(w) /\ W.price = Empty /\ W.itemStatus = Empty

\* Another authorized amount is that of an approved quote or change order.
Explains(W) ==
  \A w \in DOMAIN W.authorized \cap DOMAIN db.authorized :
    \/ /\ db.woStatus[w] = "created" /\ w \in DOMAIN W.woStatus /\ W.woStatus[w] = "active"
       /\ Overlay(W.quoteStatus, db.quoteStatus)[db.woQuote[w]] = "approved"
       /\ W.authorized[w] = db.quoteTotal[db.woQuote[w]]
    \/ \E c \in DOMAIN W.coStatus \cap DOMAIN db.coStatus :
         /\ c.wo = w /\ db.coStatus[c] # "approved" /\ W.coStatus[c] = "approved"
         /\ W.authorized[w] = db.authorized[w] + db.coDelta[c]

\* What the work order of the item k costs when its price is a.
CostWith(k, a) ==
  IF k \in DOMAIN db.price THEN TotalCost(k.wo) - db.price[k] + a ELSE TotalCost(k.wo) + a

\* It prices one item, within the authorized amount, and changes no such amount.
StaysWithin(W) ==
  \A k \in DOMAIN W.price :
    /\ DOMAIN W.price = {k} /\ W.authorized = Empty
    /\ CostWith(k, W.price[k]) <= db.authorized[k.wo]

Decided(W) ==
  /\ ClosesChecked(W) /\ Explains(W)
  /\ load.services = 0 => StaysWithin(W) /\ W.service = Empty

DecidedInv ==
  /\ ShopInv
  /\ Serial =>
       /\ load.services = 0 => IsFiniteSet(DOMAIN db.price) /\ DOMAIN db.service = {}
       /\ \A s \in DOMAIN txn : Decided(txn[s])

\* The items of w in a column.
ItemsIn(f, w) == {k \in DOMAIN f : k.wo = w}

\* The cost of a work order whose items keep their prices.
LEMMA CostElsewhere ==
  ASSUME NEW f, NEW new, NEW g, g = Overlay(new, f), NEW w, IsFiniteSet(DOMAIN f),
         \A k \in DOMAIN new : k.wo # w
  PROVE  SumFunctionOnSet(g, ItemsIn(g, w)) = SumFunctionOnSet(f, ItemsIn(f, w))
<1>. DEFINE S == ItemsIn(f, w)
<1>1. ItemsIn(g, w) = S
  BY DEF ItemsIn, Overlay
<1>2. IsFiniteSet(S)
  BY FS_Subset DEF ItemsIn
<1>3. \A k \in S : g[k] = f[k]
  BY DEF ItemsIn, Overlay
<1>. HIDE DEF S
<1>4. SumFunctionOnSet(g, S) = SumFunctionOnSet(f, S)
  BY <1>2, <1>3, SumSame
<1>. QED
  BY <1>1, <1>4 DEF S

\* The cost of a work order one of whose items gets a price, the others keeping theirs.
LEMMA CostPriced ==
  ASSUME NEW W, NEW k, DOMAIN W.price = {k}, W.price[k] \in Nat,
         db'.price = Overlay(W.price, db.price),
         IsFiniteSet(DOMAIN db.price), \A j \in DOMAIN db.price : db.price[j] \in Nat
  PROVE  TotalCost(k.wo)' = CostWith(k, W.price[k])
<1>. DEFINE f == db.price
            g == db'.price
            a == W.price[k]
            S == ItemsIn(f, k.wo) \ {k}
<1>1. /\ DOMAIN g = DOMAIN f \cup {k} /\ g[k] = a /\ a \in Nat
      /\ \A j \in DOMAIN f \ {k} : g[j] = f[j]
  BY DEF Overlay
<1>2. /\ TotalCost(k.wo)' = SumFunctionOnSet(g, ItemsIn(g, k.wo))
      /\ TotalCost(k.wo) = SumFunctionOnSet(f, ItemsIn(f, k.wo))
      /\ CostWith(k, a) = IF k \in DOMAIN f THEN TotalCost(k.wo) - f[k] + a
                                            ELSE TotalCost(k.wo) + a
  BY DEF TotalCost, ItemsOf, ItemsIn, CostWith
<1>3. IsFiniteSet(DOMAIN f) /\ \A j \in DOMAIN f : f[j] \in Nat
  OBVIOUS
<1>. HIDE DEF f, g
<1>4. IsFiniteSet(S) /\ k \notin S /\ ItemsIn(g, k.wo) = S \cup {k}
  <2>1. S \subseteq DOMAIN f /\ ItemsIn(g, k.wo) = S \cup {k}
    BY <1>1 DEF ItemsIn
  <2>. QED
    BY <1>3, <2>1, FS_Subset
<1>5. \A j \in S : g[j] = f[j] /\ f[j] \in Nat
  BY <1>1, <1>3 DEF ItemsIn
<1>6. /\ k \notin DOMAIN f => ItemsIn(f, k.wo) = S
      /\ k \in DOMAIN f => ItemsIn(f, k.wo) = S \cup {k}
  BY DEF ItemsIn
<1>. HIDE DEF S, a
<1>7. SumFunctionOnSet(f, S) \in Nat /\ SumFunctionOnSet(g, S) = SumFunctionOnSet(f, S)
  BY <1>4, <1>5, SumNat, SumSame
<1>8. SumFunctionOnSet(g, S \cup {k}) = a + SumFunctionOnSet(g, S)
  <2>1. \A j \in S \cup {k} : g[j] \in Nat
    BY <1>1, <1>5
  <2>. QED
    BY <1>1, <1>4, <2>1, SumAdd
<1>9. CASE k \notin DOMAIN f
  <2>1. TotalCost(k.wo)' = CostWith(k, a)
    BY <1>1, <1>2, <1>4, <1>6, <1>7, <1>8, <1>9
  <2>. QED
    BY <2>1 DEF a
<1>10. CASE k \in DOMAIN f
  <2>1. \A j \in S \cup {k} : f[j] \in Nat
    BY <1>3, <1>5, <1>10
  <2>2. SumFunctionOnSet(f, S \cup {k}) = f[k] + SumFunctionOnSet(f, S) /\ f[k] \in Nat
    BY <1>4, <1>10, <2>1, SumAdd
  <2>3. SumFunctionOnSet(g, S \cup {k}) = SumFunctionOnSet(f, S \cup {k}) - f[k] + a
    BY <1>1, <1>7, <1>8, <2>2
  <2>4. TotalCost(k.wo)' = CostWith(k, a)
    BY <1>2, <1>4, <1>6, <1>10, <2>3
  <2>. QED
    BY <2>4 DEF a
<1>. QED
  BY <1>9, <1>10

\* Writes that leave these four columns alone decide nothing.
LEMMA NothingDecided ==
  ASSUME NEW W, W.woStatus = Empty, W.authorized = Empty, W.price = Empty, W.service = Empty
  PROVE  Decided(W)
BY EmptyRows DEF Decided, ClosesChecked, Explains, StaysWithin

\* A work order that has no row has no items.
LEMMA NewWithoutItems ==
  ASSUME ShopInv, NEW w, w \notin DOMAIN db.woQuote
  PROVE  ItemsOf(w) = {}
BY DEF ShopInv, RowsExist, ItemsOf

\* Approval authorizes the total of the quote that it approves, for work not yet begun.
LEMMA PutQuoteDecided ==
  ASSUME ShopInv, NEW s, NEW role, NEW q, NEW st, PutQuote(s, role, q, st)
  PROVE  \E W : Begin(s, W) /\ Decided(W)
<1>. DEFINE status == Update(db.quoteStatus, q, st)
            woStatus == IF st = "approved" THEN [w \in Activates(q) |-> "active"] ELSE Empty
            authorized == IF st = "approved"
                          THEN [w \in Activates(q) |-> db.quoteTotal[q]] ELSE Empty
            W == [NoWrites EXCEPT !.quoteStatus = status, !.woStatus = woStatus,
                                  !.authorized = authorized]
<1>1. Begin(s, W)
  BY DEF PutQuote, UpdateQuote
<1>2. /\ W.quoteStatus = status /\ W.woStatus = woStatus /\ W.authorized = authorized
      /\ Only(W, {"quoteStatus", "woStatus", "authorized"})
  <2>. HIDE DEF status, woStatus, authorized
  <2>. QED
    BY NoWritesEmpty DEF Only, ShopColumns
<1>3. W.price = Empty /\ W.service = Empty /\ DOMAIN W.price = {}
  BY <1>2, EmptyRows DEF Only, ShopColumns
<1>. HIDE DEF W
<1>4. ClosesChecked(W)
  BY <1>2, EmptyRows DEF ClosesChecked
<1>5. Explains(W)
  <2>. SUFFICES ASSUME NEW w \in DOMAIN W.authorized
                PROVE  /\ db.woStatus[w] = "created" /\ w \in DOMAIN W.woStatus
                       /\ W.woStatus[w] = "active"
                       /\ Overlay(W.quoteStatus, db.quoteStatus)[db.woQuote[w]] = "approved"
                       /\ W.authorized[w] = db.quoteTotal[db.woQuote[w]]
    BY DEF Explains
  <2>1. st = "approved" /\ w \in Activates(q)
    BY <1>2, EmptyRows
  <2>2. db.woQuote[w] = q /\ db.woStatus[w] = "created" /\ q \in DOMAIN db.quoteStatus
    <3>1. w \in DOMAIN db.woQuote /\ db.woQuote[w] = q /\ db.woStatus[w] = "created"
      BY <2>1 DEF Activates
    <3>. QED
      BY <3>1, ShopKeys
  <2>3. Overlay(status, db.quoteStatus)[q] = "approved"
    BY <2>1, <2>2 DEF Overlay, Update, Empty, At
  <2>. QED
    BY <1>2, <2>1, <2>2, <2>3
<1>. QED
  BY <1>1, <1>3, <1>4, <1>5 DEF Decided, StaysWithin

\* A new work order has no items yet.
LEMMA PostWorkOrderDecided ==
  ASSUME ShopInv, NEW s, NEW role, NEW w, NEW p,
         Fresh(w, Used("woQuote")), PostWorkOrder(s, role, w, p)
  PROVE  \E W : Begin(s, W) /\ Decided(W)
<1>. DEFINE W == [NoWrites EXCEPT !.woQuote = At(w, p.quote), !.woStatus = At(w, p.status),
                                  !.authorized = At(w, p.authorized)]
<1>1. Begin(s, W)
  BY DEF PostWorkOrder, CreateWorkOrder, CreateAnyWorkOrder
<1>2. w \notin DOMAIN db.woQuote /\ w \notin DOMAIN db.authorized
  BY ShopKeys DEF Fresh, Used
<1>3. /\ W.woStatus = At(w, p.status) /\ W.authorized = At(w, p.authorized)
      /\ Only(W, {"woQuote", "woStatus", "authorized"})
  BY NoWritesEmpty DEF Only, ShopColumns
<1>4. W.price = Empty /\ W.itemStatus = Empty /\ W.service = Empty /\ DOMAIN W.price = {}
  BY <1>3, EmptyRows DEF Only, ShopColumns
<1>. HIDE DEF W
<1>5. DOMAIN W.woStatus = {w} /\ DOMAIN W.authorized = {w}
  BY <1>3 DEF At
<1>6. Completed(w) /\ Checked(w)
  BY <1>2, NewWithoutItems DEF Completed, Checked
<1>7. ClosesChecked(W)
  BY <1>4, <1>5, <1>6 DEF ClosesChecked
<1>8. Explains(W)
  BY <1>2, <1>5 DEF Explains
<1>. QED
  BY <1>1, <1>4, <1>7, <1>8 DEF Decided, StaysWithin

\* A work order is closed by hand when its items are completed and checked.
LEMMA StatusDecided ==
  ASSUME NEW s, NEW w, NEW st, st = "closed" => MayClose(w),
         Begin(s, [NoWrites EXCEPT !.woStatus = Update(db.woStatus, w, st)])
  PROVE  \E W : Begin(s, W) /\ Decided(W)
<1>. DEFINE status == Update(db.woStatus, w, st)
            W == [NoWrites EXCEPT !.woStatus = status]
<1>1. DOMAIN status \subseteq {w} /\ \A v \in DOMAIN status : status[v] = st
  BY DEF Update, Empty, At
<1>. HIDE DEF status
<1>2. W.woStatus = status /\ Only(W, {"woStatus"})
  BY NoWritesEmpty DEF Only, ShopColumns
<1>3. /\ W.price = Empty /\ W.itemStatus = Empty /\ W.service = Empty /\ W.authorized = Empty
      /\ DOMAIN W.price = {} /\ DOMAIN W.authorized = {}
  BY <1>2, EmptyRows DEF Only, ShopColumns
<1>. HIDE DEF W
<1>4. ClosesChecked(W)
  BY <1>1, <1>2, <1>3 DEF ClosesChecked, MayClose
<1>5. Explains(W)
  BY <1>3 DEF Explains
<1>6. Decided(W)
  BY <1>3, <1>4, <1>5 DEF Decided, StaysWithin
<1>. QED
  BY <1>6 DEF W, status

\* A new item is paid from what the others leave of the authorized amount; an item from the
\* menu is not compared, but where the menu is empty there is none.
LEMMA NewItemDecided ==
  ASSUME NEW s, NEW k, k \notin DOMAIN db.price, NEW p, Begin(s, NewItem(k, p)),
         load.services = 0 => TotalCost(k.wo) + p.price <= db.authorized[k.wo]
  PROVE  \E W : Begin(s, W) /\ Decided(W)
<1>. DEFINE W == NewItem(k, p)
<1>1. W.price = At(k, p.price) /\ Only(W, {"mode", "price", "itemStatus"})
  BY NoWritesEmpty DEF NewItem, Only, ShopColumns
<1>2. /\ W.woStatus = Empty /\ W.authorized = Empty /\ W.service = Empty
      /\ DOMAIN W.woStatus = {} /\ DOMAIN W.authorized = {}
  BY <1>1, EmptyRows DEF Only, ShopColumns
<1>. HIDE DEF W
<1>3. DOMAIN W.price = {k} /\ W.price[k] = p.price
  BY <1>1 DEF At
<1>4. load.services = 0 => StaysWithin(W)
  BY <1>2, <1>3 DEF StaysWithin, CostWith
<1>5. ClosesChecked(W) /\ Explains(W)
  BY <1>2 DEF ClosesChecked, Explains
<1>6. Decided(W)
  BY <1>2, <1>4, <1>5 DEF Decided
<1>. QED
  BY <1>6 DEF W

\* A change of price is compared with what the others leave.
LEMMA PutLineItemDecided ==
  ASSUME NEW s, NEW role, NEW k \in DOMAIN db.price, NEW p, PutLineItem(s, role, k, p)
  PROVE  \E W : Begin(s, W) /\ Decided(W)
<1>. DEFINE mode == Assign(db.mode, k, p.mode)
            price == Assign(db.price, k, p.price)
            status == IF p.price = Null THEN Empty ELSE Update(db.itemStatus, k, p.status)
            W == [NoWrites EXCEPT !.mode = mode, !.price = price, !.itemStatus = status]
<1>1. Begin(s, W)
  BY DEF PutLineItem, UpdateLineItem
<1>2. /\ DOMAIN price \subseteq {k}
      /\ k \in DOMAIN price => p.price # Null /\ price[k] = p.price
  BY DEF Assign, Update, Empty, At
<1>3. p.price # Null => TotalCost(k.wo) - db.price[k] + p.price <= db.authorized[k.wo]
  BY DEF PutLineItem, UpdateLineItem, Repriceable
<1>. HIDE DEF mode, price, status
<1>4. W.price = price /\ Only(W, {"mode", "price", "itemStatus"})
  BY NoWritesEmpty DEF Only, ShopColumns
<1>5. /\ W.woStatus = Empty /\ W.authorized = Empty /\ W.service = Empty
      /\ DOMAIN W.woStatus = {} /\ DOMAIN W.authorized = {}
  BY <1>4, EmptyRows DEF Only, ShopColumns
<1>. HIDE DEF W
<1>6. StaysWithin(W)
  <2>. SUFFICES ASSUME NEW j \in DOMAIN W.price
                PROVE  /\ DOMAIN W.price = {j} /\ W.authorized = Empty
                       /\ CostWith(j, W.price[j]) <= db.authorized[j.wo]
    BY DEF StaysWithin
  <2>1. j = k /\ DOMAIN W.price = {k} /\ W.price[k] = p.price /\ p.price # Null
    BY <1>2, <1>4
  <2>. QED
    BY <1>3, <1>5, <2>1 DEF CostWith
<1>7. ClosesChecked(W) /\ Explains(W)
  BY <1>5 DEF ClosesChecked, Explains
<1>. QED
  BY <1>1, <1>5, <1>6, <1>7 DEF Decided

\* A change order adds its amount when it becomes approved.
LEMMA PutChangeOrderDecided ==
  ASSUME NEW s, NEW role, NEW c \in DOMAIN db.coStatus, NEW st, PutChangeOrder(s, role, c, st)
  PROVE  \E W : Begin(s, W) /\ Decided(W)
<1>. DEFINE status == Update(db.coStatus, c, st)
            authorized == IF NewlyApproved(c, st)
                          THEN Update(db.authorized, c.wo, AmountWith(c)) ELSE Empty
            W == [NoWrites EXCEPT !.coStatus = status, !.authorized = authorized]
<1>1. Begin(s, W)
  BY DEF PutChangeOrder, UpdateChangeOrder
<1>2. \A w \in DOMAIN authorized :
        NewlyApproved(c, st) /\ w = c.wo /\ authorized[w] = AmountWith(c)
  BY DEF Update, Empty, At
<1>3. NewlyApproved(c, st) =>
        db.coStatus[c] # "approved" /\ c \in DOMAIN status /\ status[c] = "approved"
  BY DEF NewlyApproved, Update, At
<1>. HIDE DEF status, authorized
<1>4. /\ W.coStatus = status /\ W.authorized = authorized /\ Only(W, {"coStatus", "authorized"})
  BY NoWritesEmpty DEF Only, ShopColumns
<1>5. /\ W.woStatus = Empty /\ W.price = Empty /\ W.service = Empty
      /\ DOMAIN W.woStatus = {} /\ DOMAIN W.price = {}
  BY <1>4, EmptyRows DEF Only, ShopColumns
<1>. HIDE DEF W
<1>6. Explains(W)
  BY <1>2, <1>3, <1>4 DEF Explains, AmountWith
<1>. QED
  BY <1>1, <1>5, <1>6 DEF Decided, ClosesChecked, StaysWithin

\* The number of a new item is that of no item of its work order.
LEMMA FreshItem ==
  ASSUME NEW w, NEW n, Fresh(n, Numbers("price", w))
  PROVE  [wo |-> w, n |-> n] \notin DOMAIN db.price
<1>. SUFFICES ASSUME [wo |-> w, n |-> n] \in DOMAIN db.price PROVE FALSE
  OBVIOUS
<1>. DEFINE k == [wo |-> w, n |-> n]
<1>1. k \in Used("price") /\ k.wo = w /\ k.n = n
  BY DEF Used
<1>2. n \in Numbers("price", w)
  <2>. HIDE DEF k
  <2>. QED
    BY <1>1 DEF Numbers
<1>. QED
  BY <1>2 DEF Fresh

\* Writes to one or more of the columns that decisions are not about.
LEMMA OtherDecided ==
  ASSUME NEW s, NEW W, Begin(s, W),
         Only(W, ShopColumns \ {"woStatus", "authorized", "price", "service"})
  PROVE  \E V : Begin(s, V) /\ Decided(V)
BY NothingDecided DEF Only, ShopColumns

LEMMA WorkOrderRequestDecided ==
  ASSUME ShopInv, NEW s, NEW role,
         QuoteRequest(s, role) \/ WorkOrderRequest(s, role) \/ ChangeOrderRequest(s, role)
  PROVE  \E W : Begin(s, W) /\ Decided(W)
<1>. DEFINE C == ShopColumns \ {"woStatus", "authorized", "price", "service"}
<1>1. ASSUME NEW q \in 1 .. load.quotes, NEW p \in QuoteCreate, PostQuote(s, role, q, p)
      PROVE  \E W : Begin(s, W) /\ Decided(W)
  <2>. DEFINE W == [NoWrites EXCEPT !.quoteStatus = At(q, p.status),
                                    !.quoteTotal = At(q, p.total)]
  <2>1. Begin(s, W) /\ Only(W, C)
    BY <1>1, NoWritesEmpty DEF PostQuote, Only, ShopColumns
  <2>. QED
    BY <2>1, OtherDecided
<1>2. CASE QuoteRequest(s, role)
  BY <1>1, <1>2, PutQuoteDecided DEF QuoteRequest
<1>3. ASSUME NEW w \in DOMAIN db.woStatus, NEW st, PutWorkOrder(s, role, w, st)
      PROVE  \E W : Begin(s, W) /\ Decided(W)
  BY <1>3, StatusDecided DEF PutWorkOrder, UpdateWorkOrder
<1>4. ASSUME NEW w \in DOMAIN db.woStatus, Reschedule(s, w)
      PROVE  \E W : Begin(s, W) /\ Decided(W)
  BY <1>4, StatusDecided DEF Reschedule
<1>5. ASSUME NEW w, NEW st, CreateInvoice(s, w, st) \/ UpdateInvoice(s, w, st)
      PROVE  \E W : Begin(s, W) /\ Decided(W)
  <2>1. PICK f : Begin(s, [NoWrites EXCEPT !.invoice = f])
    BY <1>5 DEF CreateInvoice, UpdateInvoice
  <2>2. Only([NoWrites EXCEPT !.invoice = f], C)
    BY NoWritesEmpty DEF Only, ShopColumns
  <2>. QED
    BY <2>1, <2>2, OtherDecided
<1>6. CASE WorkOrderRequest(s, role)
  BY <1>3, <1>4, <1>5, <1>6, PostWorkOrderDecided DEF WorkOrderRequest
<1>7. ASSUME NEW c, NEW p, CreateChangeOrder(s, c, p)
      PROVE  \E W : Begin(s, W) /\ Decided(W)
  <2>. DEFINE W == [NoWrites EXCEPT !.coItem = At(c, p.item), !.coDelta = At(c, p.delta),
                                    !.coStatus = At(c, p.status)]
  <2>1. Begin(s, W) /\ Only(W, C)
    BY <1>7, NoWritesEmpty DEF CreateChangeOrder, Only, ShopColumns
  <2>. QED
    BY <2>1, OtherDecided
<1>8. CASE ChangeOrderRequest(s, role)
  BY <1>7, <1>8, PutChangeOrderDecided DEF ChangeOrderRequest
<1>. QED
  BY <1>2, <1>6, <1>8

LEMMA ItemRequestDecided ==
  ASSUME ShopInv, load.services = 0 => DOMAIN db.service = {}, NEW s, NEW role,
         ItemRequest(s, role)
  PROVE  \E W : Begin(s, W) /\ Decided(W)
<1>. DEFINE C == ShopColumns \ {"woStatus", "authorized", "price", "service"}
<1>1. ASSUME NEW w, NEW n, Fresh(n, Numbers("price", w)), NEW p,
             PostLineItem(s, role, [wo |-> w, n |-> n], p)
      PROVE  \E W : Begin(s, W) /\ Decided(W)
  <2>. DEFINE k == [wo |-> w, n |-> n]
  <2>1. k \notin DOMAIN db.price
    BY <1>1, FreshItem
  <2>2. Begin(s, NewItem(k, p)) /\ TotalCost(k.wo) + p.price <= db.authorized[k.wo]
    BY <1>1 DEF PostLineItem, CreateLineItem
  <2>. HIDE DEF k
  <2>. QED
    BY <2>1, <2>2, NewItemDecided
<1>2. ASSUME NEW w, NEW n, Fresh(n, Numbers("price", w)), NEW m \in DOMAIN db.service,
             ApplyToWorkOrder(s, role, [wo |-> w, n |-> n], m)
      PROVE  \E W : Begin(s, W) /\ Decided(W)
  <2>. DEFINE k == [wo |-> w, n |-> n]
              p == [mode |-> db.service[m].mode, price |-> db.service[m].price,
                    status |-> "not_started"]
  <2>1. k \notin DOMAIN db.price
    BY <1>2, FreshItem
  <2>2. Begin(s, NewItem(k, p))
    BY <1>2 DEF ApplyToWorkOrder
  <2>3. load.services # 0
    OBVIOUS
  <2>. HIDE DEF k, p
  <2>. QED
    BY <2>1, <2>2, <2>3, NewItemDecided
<1>3. ASSUME NEW k, CreateLaborEntry(s, k) PROVE \E W : Begin(s, W) /\ Decided(W)
  <2>. DEFINE labor == Update(db.labor, k, TRUE)
  <2>1. Begin(s, [NoWrites EXCEPT !.labor = labor])
    BY <1>3 DEF CreateLaborEntry
  <2>2. Only([NoWrites EXCEPT !.labor = labor], C)
    BY NoWritesEmpty DEF Only, ShopColumns
  <2>. QED
    BY <2>1, <2>2, OtherDecided
<1>4. ASSUME NEW k, NEW result, PostQualityCheck(s, role, k, result)
      PROVE  \E W : Begin(s, W) /\ Decided(W)
  <2>. DEFINE P == [NoWrites EXCEPT !.passed = Update(db.passed, k, TRUE)]
              F == [NoWrites EXCEPT !.itemStatus = At(k, "in_progress")]
  <2>1. Begin(s, P) \/ Begin(s, F)
    BY <1>4 DEF PostQualityCheck, CreateQualityCheck
  <2>2. Only(P, C) /\ Only(F, C)
    BY NoWritesEmpty DEF Only, ShopColumns
  <2>. HIDE DEF P, F
  <2>. QED
    BY <2>1, <2>2, OtherDecided
<1>5. ASSUME NEW n, NEW k, LinkPart(s, n, k) PROVE \E W : Begin(s, W) /\ Decided(W)
  <2>. DEFINE part == Update(db.partItem, n, k)
  <2>1. Begin(s, [NoWrites EXCEPT !.partItem = part])
    BY <1>5 DEF LinkPart
  <2>2. Only([NoWrites EXCEPT !.partItem = part], C)
    BY NoWritesEmpty DEF Only, ShopColumns
  <2>. QED
    BY <2>1, <2>2, OtherDecided
<1>. QED
  BY <1>1, <1>2, <1>3, <1>4, <1>5, PutLineItemDecided DEF ItemRequest

LEMMA OfficeRequestDecided ==
  ASSUME ShopInv, load.services = 0 => DOMAIN db.service = {}, NEW s, NEW role,
         MenuRequest(s, role) \/ WarrantyRequest(s, role)
  PROVE  \E W : Begin(s, W) /\ Decided(W)
<1>. DEFINE C == ShopColumns \ {"woStatus", "authorized", "price", "service"}
<1>1. CASE MenuRequest(s, role)
  <2>1. PICK service : Begin(s, [NoWrites EXCEPT !.service = service])
    BY <1>1 DEF MenuRequest, CreateCannedService, UpdateCannedService
  <2>2. load.services # 0
    BY <1>1 DEF MenuRequest
  <2>. DEFINE W == [NoWrites EXCEPT !.service = service]
  <2>3. Only(W, {"service"})
    BY NoWritesEmpty DEF Only, ShopColumns
  <2>4. W.woStatus = Empty /\ W.authorized = Empty
    BY <2>3 DEF Only, ShopColumns
  <2>5. Decided(W)
    <3>. HIDE DEF W
    <3>. QED
      BY <2>2, <2>4, EmptyRows DEF Decided, ClosesChecked, Explains
  <2>. QED
    BY <2>1, <2>5
<1>2. ASSUME NEW w, CreateWarranty(s, role, w) PROVE \E W : Begin(s, W) /\ Decided(W)
  <2>. DEFINE covered == [v \in {w} \cap DOMAIN db.invoice |-> TRUE]
              W == [NoWrites EXCEPT !.warranty = At(w, TRUE), !.covered = covered]
  <2>1. Begin(s, W)
    BY <1>2 DEF CreateWarranty
  <2>2. Only(W, C)
    <3>. HIDE DEF covered
    <3>. QED
      BY NoWritesEmpty DEF Only, ShopColumns
  <2>. QED
    BY <2>1, <2>2, OtherDecided
<1>3. ASSUME NEW claim, Begin(s, [NoWrites EXCEPT !.claim = claim])
      PROVE  \E W : Begin(s, W) /\ Decided(W)
  <2>1. Only([NoWrites EXCEPT !.claim = claim], C)
    BY NoWritesEmpty DEF Only, ShopColumns
  <2>. QED
    BY <1>3, <2>1, OtherDecided
<1>4. CASE WarrantyRequest(s, role)
  BY <1>2, <1>3, <1>4 DEF WarrantyRequest, CreateWarrantyClaim, UpdateWarrantyClaim
<1>. QED
  BY <1>1, <1>4

\* A request that begins has decided on the rows as they are.
LEMMA RequestDecided ==
  ASSUME ShopInv, load.services = 0 => DOMAIN db.service = {}, NEW s, NEW role \in load.roles,
         \/ QuoteRequest(s, role) \/ WorkOrderRequest(s, role) \/ ItemRequest(s, role)
         \/ ChangeOrderRequest(s, role) \/ MenuRequest(s, role) \/ WarrantyRequest(s, role)
  PROVE  \E W : Begin(s, W) /\ Sound(s, W) /\ Decided(W)
<1>1. PICK W : Begin(s, W) /\ Sound(s, W)
  BY RequestSound
<1>2. PICK V : Begin(s, V) /\ Decided(V)
  BY WorkOrderRequestDecided, ItemRequestDecided, OfficeRequestDecided
<1>3. V = W
  <2>1. txn'[s] = W
    BY <1>1, BeginTxn
  <2>2. txn'[s] = V
    BY <1>2, BeginTxn
  <2>. QED
    BY <2>1, <2>2
<1>. QED
  BY <1>1, <1>2, <1>3

----------------------------------------------------------------------------
(* Every step keeps the decisions right.                                   *)

\* The rows are as they were.
LEMMA DecidedAgain ==
  ASSUME db' = db, load' = load, NEW r, NEW W, txn'[r] = W, Decided(W)
  PROVE  Decided(txn[r])'
<1>1. ClosesChecked(txn[r])'
  BY DEF Decided, ClosesChecked, Completed, Checked, ItemsOf
<1>2. Explains(txn[r])'
  BY DEF Decided, Explains
<1>3. (load.services = 0 => StaysWithin(txn[r]) /\ txn[r].service = Empty)'
  BY DEF Decided, StaysWithin, CostWith, TotalCost, ItemsOf
<1>. QED
  BY <1>1, <1>2, <1>3 DEF Decided

LEMMA DecidedInitInv == WorkOrdersInit => DecidedInv
<1>. SUFFICES ASSUME WorkOrdersInit PROVE DecidedInv
  OBVIOUS
<1>1. DOMAIN db.price = {} /\ DOMAIN db.service = {} /\ DOMAIN txn = {}
  BY EmptyRows, NoWritesEmpty DEF WorkOrdersInit, ShopColumns
<1>2. IsFiniteSet(DOMAIN db.price)
  BY <1>1, FS_EmptySet
<1>. QED
  BY <1>1, <1>2, ShopInitInv DEF DecidedInv

LEMMA DecidedBeginInv ==
  ASSUME DecidedInv, NEW s \in load.sessions, NEW W, Begin(s, W), Sound(s, W),
         Serial => Decided(W)
  PROVE  DecidedInv'
<1>1. /\ DOMAIN txn' = DOMAIN txn \cup {s} /\ txn'[s] = W
      /\ \A r \in DOMAIN txn : txn'[r] = txn[r]
      /\ db' = db /\ load' = load
  BY BeginTxn
<1>2. ShopInv'
  BY ShopBeginInv DEF DecidedInv
<1>3. ASSUME Serial, NEW r \in DOMAIN txn' PROVE Decided(txn[r])'
  <2>1. txn'[r] = IF r = s THEN W ELSE txn[r]
    BY <1>1, <1>3
  <2>2. Decided(txn'[r])
    BY <1>1, <1>3, <2>1 DEF DecidedInv
  <2>. QED
    BY <1>1, <2>2, DecidedAgain
<1>. QED
  BY <1>1, <1>2, <1>3 DEF DecidedInv, Serial

LEMMA DecidedRollbackInv ==
  ASSUME DecidedInv, NEW s, Rollback(s)
  PROVE  DecidedInv'
<1>1. /\ DOMAIN txn' \subseteq DOMAIN txn /\ \A r \in DOMAIN txn' : txn'[r] = txn[r]
      /\ db' = db /\ load' = load
  BY DEF Rollback, End
<1>2. ShopInv'
  BY ShopRollbackInv DEF DecidedInv
<1>3. ASSUME Serial, NEW r \in DOMAIN txn' PROVE Decided(txn[r])'
  <2>1. Decided(txn[r]) /\ txn'[r] = txn[r]
    BY <1>1, <1>3 DEF DecidedInv
  <2>. QED
    BY <1>1, <2>1, DecidedAgain
<1>. QED
  BY <1>1, <1>2, <1>3 DEF DecidedInv, Serial

\* With one session a commit leaves nothing in flight.
LEMMA DecidedCommitInv ==
  ASSUME DecidedInv, NEW s, Commit(s, Permitted(txn[s]))
  PROVE  DecidedInv'
<1>1. ShopInv /\ ShopInv'
  BY ShopCommitInv DEF DecidedInv
<1>2. /\ s \in DOMAIN txn /\ Applied(txn[s]) /\ load' = load
      /\ DOMAIN txn' = DOMAIN txn \ {s}
  BY <1>1, CommitApplied
<1>3. SUFFICES ASSUME Serial
               PROVE  /\ load.services = 0 => IsFiniteSet(DOMAIN db'.price) /\ DOMAIN db'.service = {}
                      /\ DOMAIN txn' = {}
  BY <1>1, <1>2 DEF DecidedInv, Serial
<1>4. DOMAIN txn' = {}
  BY <1>1, <1>2, <1>3 DEF ShopInv, Serial
<1>5. ASSUME load.services = 0 PROVE IsFiniteSet(DOMAIN db'.price) /\ DOMAIN db'.service = {}
  <2>1. StaysWithin(txn[s]) /\ DOMAIN txn[s].service = {}
    BY <1>2, <1>3, <1>5, EmptyRows DEF DecidedInv, Decided
  <2>2. /\ db'.price = Overlay(txn[s].price, db.price)
        /\ DOMAIN db'.service = DOMAIN txn[s].service \cup DOMAIN db.service
    BY <1>2 DEF Applied, ShopColumns
  <2>3. IsFiniteSet(DOMAIN txn[s].price)
    <3>1. CASE DOMAIN txn[s].price = {}
      BY <3>1, FS_EmptySet
    <3>2. ASSUME NEW k \in DOMAIN txn[s].price PROVE IsFiniteSet(DOMAIN txn[s].price)
      BY <2>1, FewRows DEF StaysWithin
    <3>. QED
      BY <3>1, <3>2
  <2>4. IsFiniteSet(DOMAIN db.price) /\ DOMAIN db.service = {}
    BY <1>3, <1>5 DEF DecidedInv
  <2>5. IsFiniteSet(DOMAIN db'.price)
    BY <2>2, <2>3, <2>4, OverlayFinite
  <2>. QED
    BY <2>1, <2>2, <2>4, <2>5
<1>. QED
  BY <1>4, <1>5

LEMMA DecidedNextInv == DecidedInv /\ [WorkOrdersNext]_vars => DecidedInv'
<1>. SUFFICES ASSUME DecidedInv, [WorkOrdersNext]_vars PROVE DecidedInv'
  OBVIOUS
<1>1. CASE UNCHANGED vars
  <2>1. db' = db /\ txn' = txn /\ load' = load
    BY <1>1 DEF vars
  <2>2. ASSUME Serial, NEW r \in DOMAIN txn' PROVE Decided(txn[r])'
    <3>1. Decided(txn[r]) /\ txn'[r] = txn[r]
      BY <2>1, <2>2 DEF DecidedInv
    <3>. QED
      BY <2>1, <3>1, DecidedAgain
  <2>3. ShopInv'
    BY ShopNextInv DEF DecidedInv
  <2>. QED
    BY <2>1, <2>2, <2>3 DEF DecidedInv, Serial
<1>2. CASE WorkOrdersNext
  <2>1. PICK s \in load.sessions :
          \/ \E role \in load.roles :
               \/ QuoteRequest(s, role) \/ WorkOrderRequest(s, role) \/ ItemRequest(s, role)
               \/ ChangeOrderRequest(s, role) \/ MenuRequest(s, role) \/ WarrantyRequest(s, role)
          \/ Commit(s, Permitted(txn[s]))
          \/ Rollback(s)
    BY <1>2 DEF WorkOrdersNext
  <2>2. ASSUME NEW role \in load.roles,
               \/ QuoteRequest(s, role) \/ WorkOrderRequest(s, role) \/ ItemRequest(s, role)
               \/ ChangeOrderRequest(s, role) \/ MenuRequest(s, role) \/ WarrantyRequest(s, role)
        PROVE  DecidedInv'
    <3>1. ShopInv /\ (Serial => (load.services = 0 => DOMAIN db.service = {}))
      BY DEF DecidedInv
    <3>2. PICK W : Begin(s, W) /\ Sound(s, W) /\ (Serial => Decided(W))
      <4>1. CASE Serial
        BY <2>2, <3>1, <4>1, RequestDecided
      <4>2. CASE ~Serial
        BY <2>2, <3>1, <4>2, RequestSound
      <4>. QED
        BY <4>1, <4>2
    <3>. QED
      BY <3>2, DecidedBeginInv
  <2>. QED
    BY <2>1, <2>2, DecidedCommitInv, DecidedRollbackInv
<1>. QED
  BY <1>1, <1>2

\* Only commits change rows: each applies what the request in flight has decided.
LEMMA StepApplies ==
  ASSUME DecidedInv, [WorkOrdersNext]_vars, Serial
  PROVE  \/ db' = db
         \/ \E W : Applied(W) /\ IsShop(W) /\ RowsExist(W, db) /\ Decided(W)
<1>1. CASE UNCHANGED vars
  BY <1>1 DEF vars
<1>2. CASE WorkOrdersNext
  <2>1. PICK s \in load.sessions :
          \/ \E role \in load.roles :
               \/ QuoteRequest(s, role) \/ WorkOrderRequest(s, role) \/ ItemRequest(s, role)
               \/ ChangeOrderRequest(s, role) \/ MenuRequest(s, role) \/ WarrantyRequest(s, role)
          \/ Commit(s, Permitted(txn[s]))
          \/ Rollback(s)
    BY <1>2 DEF WorkOrdersNext
  <2>2. ASSUME NEW role \in load.roles,
               \/ QuoteRequest(s, role) \/ WorkOrderRequest(s, role) \/ ItemRequest(s, role)
               \/ ChangeOrderRequest(s, role) \/ MenuRequest(s, role) \/ WarrantyRequest(s, role)
        PROVE  db' = db
    <3>1. PICK W : Begin(s, W)
      BY <2>2, RequestSound DEF DecidedInv
    <3>. QED
      BY <3>1, BeginTxn
  <2>3. CASE Commit(s, Permitted(txn[s]))
    <3>1. s \in DOMAIN txn /\ Sound(s, txn[s]) /\ Applied(txn[s])
      BY <2>3, CommitApplied DEF DecidedInv
    <3>. QED
      BY <3>1 DEF DecidedInv, Sound
  <2>. QED
    BY <2>1, <2>2, <2>3 DEF Rollback
<1>. QED
  BY <1>1, <1>2

\* No way to 'closed' avoids the checks: whichever handler sets the status, every item is
\* completed and has passed a quality check by then.
THEOREM ClosedAfterChecks == WorkOrdersSpec => ClosedWasChecked
<1>1. ASSUME DecidedInv, [WorkOrdersNext]_vars, Serial, NEW w \in DOMAIN db'.woStatus,
             db'.woStatus[w] = "closed", ~(w \in DOMAIN db.woStatus /\ db.woStatus[w] = "closed")
      PROVE  (Completed(w) /\ Checked(w))'
  <2>1. PICK W : Applied(W) /\ IsShop(W) /\ ClosesChecked(W)
    BY <1>1, StepApplies DEF Decided
  <2>2. /\ db'.woStatus = Overlay(W.woStatus, db.woStatus)
        /\ db'.price = Overlay(W.price, db.price)
        /\ db'.itemStatus = Overlay(W.itemStatus, db.itemStatus)
        /\ DOMAIN db.passed \subseteq DOMAIN db'.passed
    BY <2>1 DEF Applied, ShopColumns, Overlay
  <2>3. w \in DOMAIN W.woStatus /\ W.woStatus[w] = "closed"
    BY <1>1, <2>2 DEF Overlay
  <2>4. Completed(w) /\ Checked(w) /\ W.price = Empty /\ W.itemStatus = Empty
    BY <2>1, <2>3 DEF ClosesChecked
  <2>5. db'.price = db.price /\ db'.itemStatus = db.itemStatus
    <3>1. LineItemTable(db)
      BY <1>1 DEF DecidedInv, ShopInv, IsShop
    <3>. QED
      BY <2>2, <2>4, <3>1, OverlayEmpty DEF LineItemTable
  <2>. QED
    BY <2>2, <2>4, <2>5 DEF Completed, Checked, ItemsOf
<1>2. DecidedInv /\ [WorkOrdersNext]_vars =>
        [Serial => \A w \in DOMAIN db'.woStatus :
           db'.woStatus[w] = "closed" /\ ~(w \in DOMAIN db.woStatus /\ db.woStatus[w] = "closed")
             => (Completed(w) /\ Checked(w))']_vars
  BY <1>1
<1>. QED
  BY <1>2, DecidedInitInv, DecidedNextInv, PTL DEF WorkOrdersSpec, ClosedWasChecked

\* Every change of an authorized amount is the approval of a quote, which starts the work, or
\* of a change order that was not approved.
THEOREM AuthorizationIsExplained == WorkOrdersSpec => AuthorizationExplained
<1>1. ASSUME DecidedInv, [WorkOrdersNext]_vars, Serial, NEW w \in DOMAIN db.authorized,
             db'.authorized[w] # db.authorized[w]
      PROVE  \/ /\ db.woStatus[w] = "created" /\ db'.woStatus[w] = "active"
                /\ db'.quoteStatus[db.woQuote[w]] = "approved"
                /\ db'.authorized[w] = db.quoteTotal[db.woQuote[w]]
             \/ \E c \in DOMAIN db.coStatus :
                  /\ c.wo = w /\ db.coStatus[c] # "approved" /\ db'.coStatus[c] = "approved"
                  /\ db'.authorized[w] = db.authorized[w] + db.coDelta[c]
  <2>1. PICK W : Applied(W) /\ Explains(W)
    BY <1>1, StepApplies DEF Decided
  <2>2. /\ db'.woStatus = Overlay(W.woStatus, db.woStatus)
        /\ db'.quoteStatus = Overlay(W.quoteStatus, db.quoteStatus)
        /\ db'.coStatus = Overlay(W.coStatus, db.coStatus)
        /\ db'.authorized = Overlay(W.authorized, db.authorized)
    BY <2>1 DEF Applied, ShopColumns
  <2>3. w \in DOMAIN W.authorized /\ db'.authorized[w] = W.authorized[w]
    BY <1>1, <2>2 DEF Overlay
  <2>4. /\ \A v \in DOMAIN W.woStatus : db'.woStatus[v] = W.woStatus[v]
        /\ \A c \in DOMAIN W.coStatus : db'.coStatus[c] = W.coStatus[c]
    BY <2>2 DEF Overlay
  <2>. QED
    BY <1>1, <2>1, <2>2, <2>3, <2>4 DEF Explains
<1>2. DecidedInv /\ [WorkOrdersNext]_vars =>
        [Serial => \A w \in DOMAIN db.authorized : db'.authorized[w] # db.authorized[w] =>
           \/ /\ db.woStatus[w] = "created" /\ db'.woStatus[w] = "active"
              /\ db'.quoteStatus[db.woQuote[w]] = "approved"
              /\ db'.authorized[w] = db.quoteTotal[db.woQuote[w]]
           \/ \E c \in DOMAIN db.coStatus :
                /\ c.wo = w /\ db.coStatus[c] # "approved" /\ db'.coStatus[c] = "approved"
                /\ db'.authorized[w] = db.authorized[w] + db.coDelta[c]]_vars
  BY <1>1
<1>. QED
  BY <1>2, DecidedInitInv, DecidedNextInv, PTL DEF WorkOrdersSpec, AuthorizationExplained

\* What the commit of a priced item leaves of the authorized amount.
LEMMA CommitWithin ==
  ASSUME DecidedInv, load.services = 0, IsFiniteSet(DOMAIN db.price),
         NEW W, Applied(W), IsShop(W), StaysWithin(W),
         NEW w \in DOMAIN db.woStatus, TotalCost(w)' > TotalCost(w)
  PROVE  TotalCost(w)' <= db'.authorized[w]
<1>1. /\ db'.price = Overlay(W.price, db.price)
      /\ db'.authorized = Overlay(W.authorized, db.authorized)
  BY DEF Applied, ShopColumns
<1>2. /\ \A j \in DOMAIN db.price : db.price[j] \in Nat
      /\ \A j \in DOMAIN W.price : W.price[j] \in Nat
      /\ IsColumn(db.authorized, Nat, Nat)
  BY DEF DecidedInv, ShopInv, IsShop, LineItemTable, WorkOrderTable, IsColumn
<1>3. /\ TotalCost(w) = SumFunctionOnSet(db.price, ItemsIn(db.price, w))
      /\ TotalCost(w)' = SumFunctionOnSet(db'.price, ItemsIn(db'.price, w))
  BY DEF TotalCost, ItemsOf, ItemsIn
<1>4. TotalCost(w) \in Nat
  <2>1. IsFiniteSet(ItemsIn(db.price, w)) /\ \A j \in ItemsIn(db.price, w) : db.price[j] \in Nat
    BY <1>2, FS_Subset DEF ItemsIn
  <2>. QED
    BY <1>3, <2>1, SumNat
<1>5. PICK k \in DOMAIN W.price : k.wo = w
  <2>1. SUFFICES ASSUME \A k \in DOMAIN W.price : k.wo # w PROVE FALSE
    OBVIOUS
  <2>2. TotalCost(w)' = TotalCost(w)
    BY <1>1, <1>3, <2>1, CostElsewhere
  <2>. QED
    BY <1>4, <2>2
<1>6. /\ DOMAIN W.price = {k} /\ W.authorized = Empty /\ W.price[k] \in Nat
      /\ CostWith(k, W.price[k]) <= db.authorized[w]
  BY <1>2, <1>5 DEF StaysWithin
<1>7. TotalCost(w)' = CostWith(k, W.price[k])
  BY <1>1, <1>2, <1>5, <1>6, CostPriced
<1>8. db'.authorized = db.authorized
  BY <1>1, <1>2, <1>6, OverlayEmpty
<1>. QED
  BY <1>6, <1>7, <1>8

\* Whatever raises the cost of a work order, in a shop without a service menu, leaves it
\* within the amount its customer authorized.
THEOREM CostsStayAuthorized == WorkOrdersSpec => WithinAuthorized
<1>1. ASSUME DecidedInv, [WorkOrdersNext]_vars, Serial, load.services = 0,
             NEW w \in DOMAIN db.woStatus, TotalCost(w)' > TotalCost(w)
      PROVE  TotalCost(w)' <= db'.authorized[w]
  <2>1. IsFiniteSet(DOMAIN db.price)
    BY <1>1 DEF DecidedInv
  <2>2. CASE db' = db
    <3>1. TotalCost(w)' = TotalCost(w)
      BY <2>2 DEF TotalCost, ItemsOf
    <3>2. TotalCost(w) \in Nat
      <4>1. IsFiniteSet(ItemsOf(w)) /\ \A k \in ItemsOf(w) : db.price[k] \in Nat
        BY <1>1, <2>1, FS_Subset DEF ItemsOf, DecidedInv, ShopInv, IsShop, LineItemTable, IsColumn
      <4>. QED
        BY <4>1, SumNat DEF TotalCost
    <3>. QED
      BY <1>1, <3>1, <3>2
  <2>3. ASSUME NEW W, Applied(W), IsShop(W), Decided(W)
        PROVE  TotalCost(w)' <= db'.authorized[w]
    BY <1>1, <2>1, <2>3, CommitWithin DEF Decided
  <2>. QED
    BY <1>1, <2>2, <2>3, StepApplies
<1>2. DecidedInv /\ [WorkOrdersNext]_vars =>
        [Serial /\ load.services = 0 => \A w \in DOMAIN db.woStatus :
           TotalCost(w)' > TotalCost(w) => TotalCost(w)' <= db'.authorized[w]]_vars
  BY <1>1
<1>. QED
  BY <1>2, DecidedInitInv, DecidedNextInv, PTL DEF WorkOrdersSpec, WithinAuthorized
=============================================================================
