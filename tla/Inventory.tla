------------------------------ MODULE Inventory ------------------------------
(***************************************************************************)
(* Parts, purchase orders and the physical parts they bring:               *)
(* routers/inventory.py and services/inventory_service.py.                 *)
(*                                                                         *)
(* Ordering creates one part instance per ordered unit; the instances then *)
(* move through their statuses one by one, in any order, and the quantity  *)
(* on hand of the part follows some of those moves.  Linking an instance   *)
(* to a line item is in module WorkOrders.                                 *)
(***************************************************************************)
EXTENDS Transactions

CONSTANT InventoryLoads

InstanceStatus ==
  {"ordered", "shipped", "received", "inspected", "rejected", "returned", "installed"}

OrderLine == [po : Nat, line : Nat]
Instance == [po : Nat, line : Nat, n : Nat]

\* The load: roles that send requests; how many parts, and orders with how many lines,
\* they insert; quantities of new parts, by-hand quantities of parts, ordered ones; limit
\* bounds the quantity, which grows each time an inspected part is received again.
IsInventoryLoad(l) ==
  /\ l.roles \subseteq Role
  /\ {l.parts, l.orders, l.lines, l.limit} \subseteq Nat
  /\ l.stock \cup l.counted \subseteq Nat /\ l.ordered \subseteq Int
  /\ l.statuses \subseteq InstanceStatus

ASSUME InventoryAssumption == \A l \in InventoryLoads : IsInventoryLoad(l)

----------------------------------------------------------------------------

PartStock(d) == IsColumn(d.quantity, Nat, Nat)        \* part.quantity_on_hand
OrderLines(d) ==
  /\ IsColumn(d.ordered, OrderLine, Nat \ {0})        \* po_line_item.qty_ordered
  /\ IsColumn(d.orderedPart, OrderLine, Nat)          \* po_line_item.part_id
Instances(d) == IsColumn(d.instance, Instance, InstanceStatus)

NoParts == [quantity |-> Empty, ordered |-> Empty, orderedPart |-> Empty, instance |-> Empty]

LineOf(i) == [po |-> i.po, line |-> i.line]
PartOf(i) == db.orderedPart[LineOf(i)]

CreatePart(s, role, p, q) ==
  role \in {"manager", "advisor"} /\ Begin(s, [NoParts EXCEPT !.quantity = At(p, q)])
UpdatePart(s, role, p, q) ==
  /\ role \in {"manager", "advisor"}
  /\ Begin(s, [NoParts EXCEPT !.quantity = Update(db.quantity, p, q)])

\* An order for what each line of the payload asks: lines is a sequence of parts and
\* quantities.  A quantity of 0 or less breaks po_line_item_qty_ordered_check.
\* Fault: one unit too many, "range" from 0 to the quantity.
UnitsAndOne(po, lines) ==
  UNION {{[po |-> po, line |-> l, n |-> n] : n \in 0 .. lines[l].qty} : l \in DOMAIN lines}
UnitsOf(po, lines) ==
  UNION {{[po |-> po, line |-> l, n |-> n] : n \in 1 .. lines[l].qty} : l \in DOMAIN lines}
CreatePurchaseOrder(s, role, po, lines) ==
  /\ role = "manager"
  /\ \A l \in DOMAIN lines : lines[l].qty > 0
  /\ LET rows == [po : {po}, line : DOMAIN lines]
     IN Begin(s, [NoParts EXCEPT
          !.ordered = [r \in rows |-> lines[r.line].qty],
          !.orderedPart = [r \in rows |-> lines[r.line].part],
          !.instance = [i \in UnitsOf(po, lines) |-> "ordered"]])

\* What a change of status does to the quantity on hand.  An inspected part is not
\* taken from stock when it is installed or sent back.
\* Fault: every part leaves the stock when it is installed.
StockAlways(old, new, q) ==
  IF new = "received" /\ old # "received" THEN q + 1
  ELSE IF new \in {"installed", "rejected", "returned"} /\ old # new /\ q > 0 THEN q - 1
  ELSE q
StockAfter(old, new, q) ==
  IF new = "received" /\ old # "received" THEN q + 1
  ELSE IF new \in {"installed", "rejected", "returned"} /\ old = "received" /\ q > 0 THEN q - 1
  ELSE q
UpdatePartInstance(s, role, i, st) ==
  LET q == StockAfter(db.instance[i], st, db.quantity[PartOf(i)])
  IN /\ role # "customer"
     /\ q <= load.limit
     /\ Begin(s, [NoParts EXCEPT !.instance = Update(db.instance, i, st),
                                 !.quantity = Update(db.quantity, PartOf(i), q)])

InventoryInit == load \in InventoryLoads /\ db = NoParts /\ txn = Empty

InventoryNext ==
  \E s \in load.sessions :
    \/ \E role \in load.roles :
         \/ \E p \in 1 .. load.parts, q \in load.stock :
              Fresh(p, Used("quantity")) /\ CreatePart(s, role, p, q)
         \/ \E p \in DOMAIN db.quantity, q \in load.counted : UpdatePart(s, role, p, q)
         \/ \E po \in 1 .. load.orders :
              /\ Fresh(po, {k.po : k \in Used("ordered")})
              /\ \E n \in 0 .. load.lines :
                   \E lines \in [1 .. n -> [part : DOMAIN db.quantity, qty : load.ordered]] :
                     CreatePurchaseOrder(s, role, po, lines)
         \/ \E i \in DOMAIN db.instance, st \in load.statuses : UpdatePartInstance(s, role, i, st)
    \/ s \in DOMAIN txn /\ Commit(s, TRUE)
    \/ Rollback(s)

InventorySpec == InventoryInit /\ [][InventoryNext]_vars
----------------------------------------------------------------------------

\* Type invariant: quantities are never negative (part_quantity_on_hand_check), and an
\* order line, committed or in flight, has its part and exactly the units it orders.
OrdersWhole(W, d) ==
  /\ DOMAIN W.orderedPart = DOMAIN W.ordered /\ Range(W.orderedPart) \subseteq DOMAIN d.quantity
  /\ \A k \in DOMAIN W.ordered :
       {i \in DOMAIN W.instance : LineOf(i) = k} = [po : {k.po}, line : {k.line}, n : 1 .. W.ordered[k]]
InventoryTypeOK ==
  load \in InventoryLoads =>
    /\ PartStock(db) /\ OrderLines(db) /\ Instances(db) /\ OrdersWhole(db, db)
    /\ \A s \in DOMAIN txn :
         /\ PartStock(txn[s]) /\ OrderLines(txn[s]) /\ Instances(txn[s])
         /\ OrdersWhole(txn[s], db)
         /\ \A i \in DOMAIN txn[s].instance : LineOf(i) \in DOMAIN db.ordered \cup DOMAIN txn[s].ordered

\* A part that was received and has not moved on is in stock: while nobody sets
\* quantities by hand, the quantity on hand of a part covers its received units,
\* whichever way each of them came to be received.
ReceivedIsCounted ==
  load \in InventoryLoads /\ Serial /\ load.counted = {} =>
    \A p \in DOMAIN db.quantity :
      db.quantity[p] >=
        Cardinality({i \in DOMAIN db.instance : PartOf(i) = p /\ db.instance[i] = "received"})
=============================================================================
