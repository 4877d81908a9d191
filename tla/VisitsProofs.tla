---------------------------- MODULE VisitsProofs ----------------------------
(***************************************************************************)
(* Theorems about Visits, for every load and any number of sessions.       *)
(***************************************************************************)
EXTENDS Visits, ColumnsProofs

\* A field of a payload writes the row it is for, or nothing.
LEMMA AssignColumn ==
  ASSUME NEW S, NEW T, NEW column, NEW k \in S, NEW v \in T \cup {Null}
  PROVE  /\ IsColumn(Assign(column, k, v), S, T)
         /\ DOMAIN Assign(column, k, v) \subseteq {k}
BY EmptyColumn, EmptyRows, UpdateColumn DEF Assign

\* A request that begins adds its writes to those in flight.
LEMMA BeginTxn ==
  ASSUME NEW s, NEW W, Begin(s, W)
  PROVE  /\ s \in load.sessions \ DOMAIN txn
         /\ DOMAIN txn' = DOMAIN txn \cup {s} /\ txn'[s] = W
         /\ \A r \in DOMAIN txn : txn'[r] = txn[r]
         /\ db' = db /\ load' = load
BY DEF Begin, Overlay, At

----------------------------------------------------------------------------
(* The inductive invariant of the types: no row is ever deleted, so writes *)
(* that were whole and referred to rows that exist when their request      *)
(* began still are and do when it commits, whatever commits before.        *)

FloorColumns ==
  {"appointmentStatus", "appointmentVehicle", "appointmentBay", "visitStatus", "visitVehicle",
   "checkedOut", "bayStatus", "held", "reportStatus", "reportVisit", "recommended",
   "quoteStatus", "quoteVisit", "woQuote", "woVisit", "pending", "paid", "priced"}

\* Writes that a request may begin with.
Sound(W) == IsFloor(W) /\ CompleteRows(W, db) /\ RowsExist(W, db)

FloorInv ==
  /\ load \in VisitLoads
  /\ DOMAIN db = FloorColumns
  /\ IsFloor(db) /\ CompleteRows(db, NoWrites) /\ RowsExist(db, db)
  /\ DOMAIN txn \subseteq load.sessions
  /\ \A s \in DOMAIN txn : Sound(txn[s])

\* W writes to no columns but those of C.
Only(W, C) == \A c \in FloorColumns \ C : W[c] = Empty

\* No writes to begin with.
LEMMA NoWritesEmpty == DOMAIN NoWrites = FloorColumns /\ \A c \in FloorColumns : NoWrites[c] = Empty
BY DEF NoWrites, FloorColumns

\* What the load gives requests is well-typed.
LEMMA FloorLoad ==
  ASSUME FloorInv
  PROVE  /\ Cardinality(load.sessions) \in Nat
         /\ load.roles \subseteq Role /\ load.vehicles \subseteq Vehicle
         /\ load.flags \subseteq BOOLEAN
         /\ load.appointments \in Nat /\ load.visits \in Nat /\ load.bays \in Nat
         /\ load.reports \in Nat /\ load.findings \in Nat /\ load.quotes \in Nat
         /\ load.workOrders \in Nat /\ load.seeded \in Nat
         /\ load.appointmentStatuses \subseteq AppointmentStatus
         /\ load.newVisits \subseteq VisitStatus /\ load.visitStatuses \subseteq VisitStatus
         /\ load.bayStatuses \subseteq BayStatus /\ load.quoteStatuses \subseteq QuoteStatus
<1>1. IsVisitLoad(load)
  BY VisitAssumption DEF FloorInv
<1>2. Cardinality(load.sessions) \in Nat
  BY <1>1, FS_CardinalityType DEF IsVisitLoad
<1>. QED
  BY <1>1, <1>2 DEF IsVisitLoad

\* The keys of committed rows, and the rows that they refer to.
LEMMA FloorKeys ==
  ASSUME FloorInv
  PROVE  /\ DOMAIN db.appointmentStatus \subseteq Nat /\ DOMAIN db.visitStatus \subseteq Nat
         /\ DOMAIN db.bayStatus \subseteq Nat /\ DOMAIN db.reportStatus \subseteq Nat
         /\ DOMAIN db.recommended \subseteq Finding /\ DOMAIN db.quoteStatus \subseteq Draft
         /\ DOMAIN db.woQuote \subseteq Draft /\ DOMAIN db.priced \subseteq Item
         /\ DOMAIN db.appointmentVehicle = DOMAIN db.appointmentStatus
         /\ DOMAIN db.visitVehicle = DOMAIN db.visitStatus
         /\ DOMAIN db.reportVisit = DOMAIN db.reportStatus
         /\ DOMAIN db.quoteVisit = DOMAIN db.quoteStatus
         /\ DOMAIN db.woVisit = DOMAIN db.woQuote
         /\ \A r \in DOMAIN db.reportVisit : db.reportVisit[r] \in DOMAIN db.visitStatus
         /\ \A q \in DOMAIN db.quoteVisit : db.quoteVisit[q] \in DOMAIN db.visitStatus
         /\ \A i \in DOMAIN db.priced : i.wo \in DOMAIN db.woQuote
         /\ \A v \in DOMAIN db.visitStatus :
              db.visitStatus[v] \in VisitStatus /\ db.visitVehicle[v] \in Vehicle
         /\ \A f \in DOMAIN db.recommended : f.report \in DOMAIN db.reportStatus
<1>1. /\ AppointmentTable(db) /\ VisitTable(db) /\ BayTable(db) /\ ReportTable(db)
      /\ FindingTable(db) /\ QuoteTable(db) /\ WorkOrderTable(db) /\ ItemTable(db)
      /\ CompleteRows(db, NoWrites) /\ RowsExist(db, db)
  BY DEF FloorInv, IsFloor
<1>2. /\ DOMAIN db.appointmentStatus \subseteq Nat /\ DOMAIN db.visitStatus \subseteq Nat
      /\ DOMAIN db.bayStatus \subseteq Nat /\ DOMAIN db.reportStatus \subseteq Nat
      /\ DOMAIN db.recommended \subseteq Finding /\ DOMAIN db.quoteStatus \subseteq Draft
      /\ DOMAIN db.woQuote \subseteq Draft /\ DOMAIN db.priced \subseteq Item
  BY <1>1 DEF AppointmentTable, VisitTable, BayTable, ReportTable, FindingTable, QuoteTable,
              WorkOrderTable, ItemTable, IsColumn
<1>3. /\ NoWrites.appointmentStatus = Empty /\ NoWrites.visitStatus = Empty
      /\ NoWrites.reportStatus = Empty /\ NoWrites.quoteStatus = Empty
  BY NoWritesEmpty DEF FloorColumns
<1>4. /\ DOMAIN db.appointmentVehicle = DOMAIN db.appointmentStatus
      /\ DOMAIN db.visitVehicle = DOMAIN db.visitStatus
      /\ DOMAIN db.reportVisit = DOMAIN db.reportStatus
      /\ DOMAIN db.quoteVisit = DOMAIN db.quoteStatus
      /\ DOMAIN db.woVisit = DOMAIN db.woQuote
  BY <1>1, <1>3, EmptyRows DEF CompleteRows, Partial
<1>5. /\ \A r \in DOMAIN db.reportVisit : db.reportVisit[r] \in DOMAIN db.visitStatus
      /\ \A q \in DOMAIN db.quoteVisit : db.quoteVisit[q] \in DOMAIN db.visitStatus
      /\ \A i \in DOMAIN db.priced : i.wo \in DOMAIN db.woQuote
      /\ \A f \in DOMAIN db.recommended : f.report \in DOMAIN db.reportStatus
  BY <1>1 DEF RowsExist, Range
<1>6. \A v \in DOMAIN db.visitStatus :
        db.visitStatus[v] \in VisitStatus /\ db.visitVehicle[v] \in Vehicle
  BY <1>1, <1>4 DEF VisitTable, IsColumn
<1>. QED
  BY <1>2, <1>4, <1>5, <1>6

\* Writes to well-typed columns only.
LEMMA OnlyTyped ==
  ASSUME NEW W, NEW C, Only(W, C),
         "appointmentStatus" \in C => IsColumn(W.appointmentStatus, Nat, AppointmentStatus),
         "appointmentVehicle" \in C => IsColumn(W.appointmentVehicle, Nat, Vehicle),
         "appointmentBay" \in C => IsColumn(W.appointmentBay, Nat, Nat),
         "visitStatus" \in C => IsColumn(W.visitStatus, Nat, VisitStatus),
         "visitVehicle" \in C => IsColumn(W.visitVehicle, Nat, Vehicle),
         "checkedOut" \in C => IsColumn(W.checkedOut, Nat, {TRUE}),
         "bayStatus" \in C => IsColumn(W.bayStatus, Nat, BayStatus),
         "held" \in C => IsColumn(W.held, Nat, BOOLEAN),
         "reportStatus" \in C => IsColumn(W.reportStatus, Nat, ReportStatus),
         "reportVisit" \in C => IsColumn(W.reportVisit, Nat, Nat),
         "recommended" \in C => IsColumn(W.recommended, Finding, BOOLEAN),
         "quoteStatus" \in C => IsColumn(W.quoteStatus, Draft, QuoteStatus),
         "quoteVisit" \in C => IsColumn(W.quoteVisit, Draft, Nat),
         "woQuote" \in C => IsColumn(W.woQuote, Draft, Draft),
         "woVisit" \in C => IsColumn(W.woVisit, Draft, Nat),
         "pending" \in C => IsColumn(W.pending, Draft, BOOLEAN),
         "paid" \in C => IsColumn(W.paid, Draft, BOOLEAN),
         "priced" \in C => IsColumn(W.priced, Item, BOOLEAN)
  PROVE  IsFloor(W)
<1>1. \A S, T : IsColumn(Empty, S, T)
  BY EmptyColumn
<1>2. AppointmentTable(W) /\ VisitTable(W)
  BY <1>1 DEF Only, FloorColumns, AppointmentTable, VisitTable
<1>3. BayTable(W) /\ ReportTable(W) /\ FindingTable(W)
  BY <1>1 DEF Only, FloorColumns, BayTable, ReportTable, FindingTable
<1>4. QuoteTable(W) /\ WorkOrderTable(W) /\ ItemTable(W)
  BY <1>1 DEF Only, FloorColumns, QuoteTable, WorkOrderTable, ItemTable
<1>. QED
  BY <1>2, <1>3, <1>4 DEF IsFloor

----------------------------------------------------------------------------
(* The steps of transactions keep the types.                               *)

LEMMA FloorInitInv == VisitsInit => FloorInv
<1>. SUFFICES ASSUME VisitsInit PROVE FloorInv
  OBVIOUS
<1>1. Only(db, {}) /\ DOMAIN db = FloorColumns
  BY NoWritesEmpty DEF VisitsInit, Only
<1>2. IsFloor(db)
  BY <1>1, OnlyTyped
<1>3. CompleteRows(db, NoWrites)
  BY <1>1, EmptyRows DEF CompleteRows, Partial, Only, FloorColumns
<1>4. RowsExist(db, db)
  BY <1>1, EmptyRows DEF RowsExist, Range, Only, FloorColumns
<1>5. DOMAIN txn = {}
  BY EmptyRows DEF VisitsInit
<1>. QED
  BY <1>1, <1>2, <1>3, <1>4, <1>5 DEF FloorInv, VisitsInit

\* The tables say nothing of writes in flight.
LEMMA SameFloor ==
  ASSUME db' = db
  PROVE  /\ IsFloor(db)' <=> IsFloor(db)
         /\ CompleteRows(db, NoWrites)' <=> CompleteRows(db, NoWrites)
         /\ RowsExist(db, db)' <=> RowsExist(db, db)
BY DEF IsFloor, AppointmentTable, VisitTable, BayTable, ReportTable, FindingTable, QuoteTable,
       WorkOrderTable, ItemTable, CompleteRows, RowsExist

LEMMA FloorBeginInv ==
  ASSUME FloorInv, NEW s, NEW W, Begin(s, W), Sound(W)
  PROVE  FloorInv'
<1>1. /\ s \in load.sessions /\ DOMAIN txn' = DOMAIN txn \cup {s} /\ txn'[s] = W
      /\ \A r \in DOMAIN txn : txn'[r] = txn[r]
      /\ db' = db /\ load' = load
  BY BeginTxn
<1>2. ASSUME NEW r \in DOMAIN txn' PROVE Sound(txn[r])'
  <2>1. Sound(txn'[r])
    BY <1>1 DEF FloorInv
  <2>. QED
    BY <1>1, <2>1 DEF Sound
<1>. QED
  BY <1>1, <1>2, SameFloor DEF FloorInv

LEMMA FloorRollbackInv ==
  ASSUME FloorInv, NEW s, Rollback(s)
  PROVE  FloorInv'
<1>1. /\ DOMAIN txn' = DOMAIN txn \ {s} /\ \A r \in DOMAIN txn' : txn'[r] = txn[r]
      /\ db' = db /\ load' = load
  BY DEF End, Rollback
<1>2. ASSUME NEW r \in DOMAIN txn' PROVE Sound(txn[r])'
  <2>1. Sound(txn'[r])
    BY <1>1 DEF FloorInv
  <2>. QED
    BY <1>1, <2>1 DEF Sound
<1>. QED
  BY <1>1, <1>2, SameFloor DEF FloorInv

\* What a commit of W makes of the columns.
Applied(W) ==
  /\ DOMAIN db' = FloorColumns
  /\ \A c \in FloorColumns :
       /\ db'[c] = Overlay(W[c], db[c])
       /\ DOMAIN db'[c] = DOMAIN W[c] \cup DOMAIN db[c]

LEMMA CommitApplied ==
  ASSUME FloorInv, NEW s, Commit(s, Permitted(txn[s]))
  PROVE  /\ s \in DOMAIN txn /\ Sound(txn[s]) /\ Applied(txn[s])
         /\ DOMAIN txn' = DOMAIN txn \ {s} /\ load' = load
         /\ \A r \in DOMAIN txn' : txn'[r] = txn[r]
<1>1. End(s)
  BY DEF Commit
<1>2. \A f, g : DOMAIN Overlay(f, g) = DOMAIN f \cup DOMAIN g
  BY DEF Overlay
<1>3. DOMAIN db' = FloorColumns /\ \A c \in FloorColumns : db'[c] = Overlay(txn[s][c], db[c])
  BY DEF Commit, FloorInv
<1>. QED
  BY <1>1, <1>2, <1>3 DEF End, FloorInv, Applied

LEMMA CommitTyped ==
  ASSUME FloorInv, NEW W, IsFloor(W), Applied(W)
  PROVE  IsFloor(db')
<1>1. IsFloor(W) /\ IsFloor(db)
  BY DEF FloorInv
<1>2. \A c \in FloorColumns : db'[c] = Overlay(W[c], db[c])
  BY DEF Applied
<1>3. AppointmentTable(db')
  BY <1>1, <1>2, OverlayColumn DEF FloorColumns, IsFloor, AppointmentTable
<1>4. VisitTable(db')
  BY <1>1, <1>2, OverlayColumn DEF FloorColumns, IsFloor, VisitTable
<1>5. BayTable(db')
  BY <1>1, <1>2, OverlayColumn DEF FloorColumns, IsFloor, BayTable
<1>6. ReportTable(db') /\ FindingTable(db')
  BY <1>1, <1>2, OverlayColumn DEF FloorColumns, IsFloor, ReportTable, FindingTable
<1>7. QuoteTable(db')
  BY <1>1, <1>2, OverlayColumn DEF FloorColumns, IsFloor, QuoteTable
<1>8. WorkOrderTable(db') /\ ItemTable(db')
  BY <1>1, <1>2, OverlayColumn DEF FloorColumns, IsFloor, WorkOrderTable, ItemTable
<1>. QED
  BY <1>3, <1>4, <1>5, <1>6, <1>7, <1>8 DEF IsFloor

\* Rows that writes belong to or refer to are not lost.
LEMMA CommitKeeps ==
  ASSUME FloorInv, NEW W, Applied(W), NEW X, CompleteRows(X, db), RowsExist(X, db)
  PROVE  CompleteRows(X, db') /\ RowsExist(X, db')
<1>1. /\ DOMAIN db.appointmentStatus \subseteq DOMAIN db'.appointmentStatus
      /\ DOMAIN db.visitStatus \subseteq DOMAIN db'.visitStatus
      /\ DOMAIN db.bayStatus \subseteq DOMAIN db'.bayStatus
      /\ DOMAIN db.reportStatus \subseteq DOMAIN db'.reportStatus
      /\ DOMAIN db.quoteStatus \subseteq DOMAIN db'.quoteStatus
      /\ DOMAIN db.woQuote \subseteq DOMAIN db'.woQuote
  BY DEF Applied, FloorColumns
<1>2. CompleteRows(X, db')
  BY <1>1 DEF CompleteRows
<1>3. RowsExist(X, db')
  BY <1>1 DEF RowsExist
<1>. QED
  BY <1>2, <1>3

LEMMA CommitComplete ==
  ASSUME FloorInv, NEW W, Applied(W), CompleteRows(W, db)
  PROVE  CompleteRows(db', NoWrites)
<1>1. \A c \in FloorColumns : DOMAIN db'[c] = DOMAIN W[c] \cup DOMAIN db[c]
  BY DEF Applied
<1>2. \A c \in FloorColumns : DOMAIN NoWrites[c] = {}
  BY NoWritesEmpty, EmptyRows
<1>3. CompleteRows(db, NoWrites)
  BY DEF FloorInv
<1>4. Partial(DOMAIN db'.appointmentStatus, DOMAIN db'.appointmentVehicle) = {}
  BY <1>1, <1>2, <1>3 DEF CompleteRows, Partial, FloorColumns
<1>5. Partial(DOMAIN db'.visitStatus, DOMAIN db'.visitVehicle) = {}
  BY <1>1, <1>2, <1>3 DEF CompleteRows, Partial, FloorColumns
<1>6. Partial(DOMAIN db'.bayStatus, DOMAIN db'.held) = {}
  BY <1>1, <1>2, <1>3 DEF CompleteRows, Partial, FloorColumns
<1>7. Partial(DOMAIN db'.reportStatus, DOMAIN db'.reportVisit) = {}
  BY <1>1, <1>2, <1>3 DEF CompleteRows, Partial, FloorColumns
<1>8. Partial(DOMAIN db'.quoteStatus, DOMAIN db'.quoteVisit) = {}
  BY <1>1, <1>2, <1>3 DEF CompleteRows, Partial, FloorColumns
<1>9. /\ DOMAIN db'.woQuote = DOMAIN db'.woVisit
      /\ DOMAIN db'.appointmentBay \subseteq DOMAIN db'.appointmentStatus
      /\ DOMAIN db'.checkedOut \subseteq DOMAIN db'.visitStatus
  BY <1>1, <1>2, <1>3 DEF CompleteRows, FloorColumns
<1>. QED
  BY <1>4, <1>5, <1>6, <1>7, <1>8, <1>9 DEF CompleteRows

LEMMA CommitRowsExist ==
  ASSUME FloorInv, NEW W, Applied(W), RowsExist(W, db)
  PROVE  RowsExist(db', db')
<1>1. \A f, g : Range(Overlay(f, g)) \subseteq Range(f) \cup Range(g)
  BY DEF Range, Overlay
<1>2. /\ Range(db'.appointmentBay) \subseteq Range(W.appointmentBay) \cup Range(db.appointmentBay)
      /\ Range(db'.reportVisit) \subseteq Range(W.reportVisit) \cup Range(db.reportVisit)
      /\ Range(db'.quoteVisit) \subseteq Range(W.quoteVisit) \cup Range(db.quoteVisit)
      /\ Range(db'.woVisit) \subseteq Range(W.woVisit) \cup Range(db.woVisit)
      /\ Range(db'.woQuote) \subseteq Range(W.woQuote) \cup Range(db.woQuote)
  BY <1>1 DEF Applied, FloorColumns
<1>3. /\ DOMAIN db'.bayStatus = DOMAIN W.bayStatus \cup DOMAIN db.bayStatus
      /\ DOMAIN db'.visitStatus = DOMAIN W.visitStatus \cup DOMAIN db.visitStatus
      /\ DOMAIN db'.recommended = DOMAIN W.recommended \cup DOMAIN db.recommended
      /\ DOMAIN db'.reportStatus = DOMAIN W.reportStatus \cup DOMAIN db.reportStatus
      /\ DOMAIN db'.quoteStatus = DOMAIN W.quoteStatus \cup DOMAIN db.quoteStatus
      /\ DOMAIN db'.priced = DOMAIN W.priced \cup DOMAIN db.priced
      /\ DOMAIN db'.pending = DOMAIN W.pending \cup DOMAIN db.pending
      /\ DOMAIN db'.paid = DOMAIN W.paid \cup DOMAIN db.paid
      /\ DOMAIN db'.woQuote = DOMAIN W.woQuote \cup DOMAIN db.woQuote
  BY DEF Applied, FloorColumns
<1>4. RowsExist(db, db)
  BY DEF FloorInv
<1>. QED
  BY <1>2, <1>3, <1>4 DEF RowsExist

LEMMA FloorCommitInv ==
  ASSUME FloorInv, NEW s, Commit(s, Permitted(txn[s]))
  PROVE  FloorInv'
<1>. DEFINE W == txn[s]
<1>1. /\ s \in DOMAIN txn /\ Sound(W) /\ Applied(W)
      /\ DOMAIN txn' = DOMAIN txn \ {s} /\ load' = load
      /\ \A r \in DOMAIN txn' : txn'[r] = txn[r]
  BY CommitApplied
<1>2. IsFloor(db') /\ CompleteRows(db', NoWrites) /\ RowsExist(db', db')
  BY <1>1, CommitTyped, CommitComplete, CommitRowsExist DEF Sound
<1>3. ASSUME NEW r \in DOMAIN txn' PROVE Sound(txn[r])'
  <2>1. txn'[r] = txn[r] /\ Sound(txn[r])
    BY <1>1 DEF FloorInv
  <2>2. CompleteRows(txn[r], db') /\ RowsExist(txn[r], db')
    BY <1>1, <2>1, CommitKeeps DEF Sound
  <2>. QED
    BY <2>1, <2>2 DEF Sound
<1>. QED
  BY <1>1, <1>2, <1>3 DEF FloorInv, Applied

----------------------------------------------------------------------------
(* What the decisions of a request are worth while the rows are still the  *)
(* ones it read, as they are when requests run one after another.          *)

\* The visits that W inserts and updates: at most one new one, whose vehicle has no
\* other that is not completed; a completed one is not reopened.
OneVisitWrites(W) ==
  /\ \A v \in DOMAIN W.visitVehicle :
       /\ DOMAIN W.visitStatus = {v} /\ v \notin DOMAIN db.visitStatus
       /\ \A u \in DOMAIN db.visitStatus :
            db.visitVehicle[u] = W.visitVehicle[v] => db.visitStatus[u] = "completed"
  /\ \A v \in DOMAIN W.visitStatus \cap DOMAIN db.visitStatus :
       W.visitStatus[v] # "completed" => db.visitStatus[v] # "completed"

\* No visit goes back to inspection, and the draft of a report takes its visit out of it.
DraftWrites(W) ==
  /\ \A v \in DOMAIN W.visitStatus \cap DOMAIN db.visitStatus :
       W.visitStatus[v] \in Inspectable => db.visitStatus[v] \in Inspectable
  /\ \A k \in DOMAIN W.quoteVisit :
       /\ DOMAIN W.quoteVisit = {k}
       /\ k.report # 0 =>
            /\ db.visitStatus[W.quoteVisit[k]] \in Inspectable
            /\ W.quoteVisit[k] \in DOMAIN W.visitStatus
            /\ W.visitStatus[W.quoteVisit[k]] \notin Inspectable

\* A visit that W sends to service has a work order, or W approves its quote.
ServiceWrites(W) ==
  \A v \in DOMAIN W.visitStatus \cap DOMAIN db.visitStatus :
    W.visitStatus[v] = "in_service" /\ db.visitStatus[v] # "in_service" =>
      \/ WorkOrders(v) # {}
      \/ /\ db.visitStatus[v] = "awaiting_quote"
         /\ \E q \in DOMAIN db.quoteVisit :
              /\ db.quoteVisit[q] = v
              /\ db.quoteStatus[q] # "approved" =>
                   q \in DOMAIN W.quoteStatus /\ W.quoteStatus[q] = "approved"

\* A visit that W checks out is paid for, completed, and its open quotes expire.
CheckOutWrites(W) ==
  \A v \in DOMAIN W.checkedOut :
    /\ v \in DOMAIN db.visitStatus
    /\ \A w \in WorkOrders(v) \cap DOMAIN db.paid : db.paid[w]
    /\ OpenQuotes(v) \subseteq DOMAIN W.quoteStatus
    /\ \A q \in DOMAIN W.quoteStatus : W.quoteStatus[q] = "expired"
    /\ W.quoteVisit = Empty
    /\ IF v \in DOMAIN W.visitStatus THEN W.visitStatus[v] = "completed"
       ELSE db.visitStatus[v] = "completed"

Decided(W) == OneVisitWrites(W) /\ DraftWrites(W) /\ ServiceWrites(W) /\ CheckOutWrites(W)

\* The request that session s begins.
SoundRequest(s) == \E W : Begin(s, W) /\ Sound(W) /\ Decided(W)

\* Writes that concern no visit are nothing to decide about.
LEMMA NoDecision ==
  ASSUME NEW W, W.visitStatus = Empty, W.visitVehicle = Empty, W.quoteVisit = Empty,
         W.checkedOut = Empty
  PROVE  Decided(W)
BY EmptyRows DEF Decided, OneVisitWrites, DraftWrites, ServiceWrites, CheckOutWrites

\* Writes to columns of rows that exist are complete.
LEMMA ExistingRows ==
  ASSUME FloorInv, NEW W, NEW C, Only(W, C),
         C \subseteq {"appointmentStatus", "appointmentVehicle", "appointmentBay", "visitStatus",
                      "checkedOut", "bayStatus", "held", "reportStatus", "recommended",
                      "quoteStatus", "pending", "paid", "priced"},
         \A c \in C \cap {"appointmentStatus", "appointmentVehicle", "appointmentBay"} :
           DOMAIN W[c] \subseteq DOMAIN db.appointmentStatus,
         "appointmentBay" \in C => IsColumn(W.appointmentBay, Nat, DOMAIN db.bayStatus),
         \A c \in C \cap {"visitStatus", "checkedOut"} : DOMAIN W[c] \subseteq DOMAIN db.visitStatus,
         \A c \in C \cap {"bayStatus", "held"} : DOMAIN W[c] \subseteq DOMAIN db.bayStatus,
         \A c \in C \cap {"pending", "paid"} : DOMAIN W[c] \subseteq DOMAIN db.woQuote,
         \A c \in C \cap {"reportStatus", "recommended", "quoteStatus", "priced"} :
           DOMAIN W[c] \subseteq DOMAIN db[c]
  PROVE  CompleteRows(W, db) /\ RowsExist(W, db)
<1>1. /\ W.visitVehicle = Empty /\ W.reportVisit = Empty /\ W.quoteVisit = Empty
      /\ W.woQuote = Empty /\ W.woVisit = Empty
  BY DEF Only, FloorColumns
<1>2. /\ DOMAIN W.appointmentStatus \subseteq DOMAIN db.appointmentStatus
      /\ DOMAIN W.appointmentVehicle \subseteq DOMAIN db.appointmentStatus
      /\ DOMAIN W.appointmentBay \subseteq DOMAIN db.appointmentStatus
  BY EmptyRows DEF Only, FloorColumns
<1>3. /\ DOMAIN W.visitStatus \subseteq DOMAIN db.visitStatus
      /\ DOMAIN W.checkedOut \subseteq DOMAIN db.visitStatus
      /\ DOMAIN W.bayStatus \subseteq DOMAIN db.bayStatus
      /\ DOMAIN W.held \subseteq DOMAIN db.bayStatus
  BY EmptyRows DEF Only, FloorColumns
<1>4. /\ DOMAIN W.reportStatus \subseteq DOMAIN db.reportStatus
      /\ DOMAIN W.recommended \subseteq DOMAIN db.recommended
      /\ DOMAIN W.quoteStatus \subseteq DOMAIN db.quoteStatus
      /\ DOMAIN W.priced \subseteq DOMAIN db.priced
  BY EmptyRows DEF Only, FloorColumns
<1>5. /\ DOMAIN W.pending \subseteq DOMAIN db.woQuote
      /\ DOMAIN W.paid \subseteq DOMAIN db.woQuote
  BY EmptyRows DEF Only, FloorColumns
<1>6. CompleteRows(W, db)
  BY <1>1, <1>2, <1>3, <1>4, EmptyRows DEF CompleteRows, Partial
<1>7. Range(W.appointmentBay) \subseteq DOMAIN db.bayStatus
  BY EmptyRows DEF Range, IsColumn, Only, FloorColumns
<1>8. RowsExist(W, db)
  <2>1. Range(W.reportVisit) = {} /\ Range(W.quoteVisit) = {} /\ Range(W.woVisit) = {}
        /\ Range(W.woQuote) = {}
    BY <1>1, EmptyRows DEF Range
  <2>. QED
    BY <1>4, <1>5, <1>7, <2>1, FloorKeys DEF RowsExist
<1>. QED
  BY <1>6, <1>8

----------------------------------------------------------------------------
(* Every handler begins with sound writes: appointments and bays.          *)

LEMMA PostAppointmentSound ==
  ASSUME FloorInv, NEW s, NEW role, NEW a \in 1 .. load.appointments, NEW p \in AppointmentCreate,
         PostAppointment(s, role, a, p)
  PROVE  SoundRequest(s)
<1>. DEFINE bay == Assign(db.appointmentBay, a, p.bay)
            W == [NoWrites EXCEPT !.appointmentStatus = At(a, p.status),
                                  !.appointmentVehicle = At(a, p.vehicle), !.appointmentBay = bay]
<1>1. Begin(s, W)
  BY DEF PostAppointment, CreateAppointment
<1>2. /\ a \in Nat /\ p.status \in AppointmentStatus /\ p.vehicle \in Vehicle
      /\ p.bay \in DOMAIN db.bayStatus \cup {Null}
  BY FloorLoad DEF AppointmentCreate
<1>3. IsColumn(bay, Nat, DOMAIN db.bayStatus) /\ DOMAIN bay \subseteq {a}
  BY <1>2, AssignColumn
<1>4. IsColumn(bay, Nat, Nat)
  BY <1>3, FloorKeys DEF IsColumn
<1>. HIDE DEF bay
<1>5. /\ W.appointmentStatus = At(a, p.status) /\ W.appointmentVehicle = At(a, p.vehicle)
      /\ W.appointmentBay = bay
      /\ Only(W, {"appointmentStatus", "appointmentVehicle", "appointmentBay"})
  BY NoWritesEmpty DEF Only, FloorColumns
<1>. HIDE DEF W
<1>6. IsFloor(W)
  BY <1>2, <1>4, <1>5, AtColumn, OnlyTyped
<1>7. DOMAIN W.appointmentStatus = {a} /\ DOMAIN W.appointmentVehicle = {a}
  BY <1>5, AtRow
<1>8. CompleteRows(W, db)
  BY <1>3, <1>5, <1>7, EmptyRows DEF CompleteRows, Partial, Only, FloorColumns
<1>9. RowsExist(W, db)
  BY <1>3, <1>5, EmptyRows DEF RowsExist, Range, IsColumn, Only, FloorColumns
<1>10. Decided(W)
  BY <1>5, NoDecision DEF Only, FloorColumns
<1>. QED
  BY <1>1, <1>6, <1>8, <1>9, <1>10 DEF Sound, SoundRequest

LEMMA PutAppointmentSound ==
  ASSUME FloorInv, NEW s, NEW role, NEW a \in DOMAIN db.appointmentStatus,
         NEW p \in AppointmentUpdate, PutAppointment(s, role, a, p)
  PROVE  SoundRequest(s)
<1>. DEFINE status == Assign(db.appointmentStatus, a, p.status)
            vehicle == Assign(db.appointmentVehicle, a, p.vehicle)
            bay == Assign(db.appointmentBay, a, p.bay)
            W == [NoWrites EXCEPT !.appointmentStatus = status, !.appointmentVehicle = vehicle,
                                  !.appointmentBay = bay]
<1>1. Begin(s, W)
  BY DEF PutAppointment, UpdateAppointment
<1>2. /\ a \in Nat /\ p.status \in AppointmentStatus \cup {Null} /\ p.vehicle \in Vehicle \cup {Null}
      /\ p.bay \in DOMAIN db.bayStatus \cup {Null}
  BY FloorLoad, FloorKeys DEF AppointmentUpdate
<1>3. IsColumn(status, Nat, AppointmentStatus) /\ DOMAIN status \subseteq {a}
  BY <1>2, AssignColumn
<1>4. IsColumn(vehicle, Nat, Vehicle) /\ DOMAIN vehicle \subseteq {a}
  BY <1>2, AssignColumn
<1>5. IsColumn(bay, Nat, DOMAIN db.bayStatus) /\ DOMAIN bay \subseteq {a}
  BY <1>2, AssignColumn
<1>6. IsColumn(bay, Nat, Nat)
  BY <1>5, FloorKeys DEF IsColumn
<1>. HIDE DEF status, vehicle, bay
<1>7. /\ W.appointmentStatus = status /\ W.appointmentVehicle = vehicle /\ W.appointmentBay = bay
      /\ Only(W, {"appointmentStatus", "appointmentVehicle", "appointmentBay"})
  BY NoWritesEmpty DEF Only, FloorColumns
<1>. HIDE DEF W
<1>8. IsFloor(W)
  BY <1>3, <1>4, <1>6, <1>7, OnlyTyped
<1>9. CompleteRows(W, db) /\ RowsExist(W, db)
  BY <1>3, <1>4, <1>5, <1>7, ExistingRows
<1>10. Decided(W)
  BY <1>7, NoDecision DEF Only, FloorColumns
<1>. QED
  BY <1>1, <1>8, <1>9, <1>10 DEF Sound, SoundRequest

\* Writes to the rows of bays.
LEMMA BaySound ==
  ASSUME FloorInv, NEW s, NEW status, NEW held,
         IsColumn(status, Nat, BayStatus), IsColumn(held, Nat, BOOLEAN),
         \/ DOMAIN status = DOMAIN held
         \/ DOMAIN status \cup DOMAIN held \subseteq DOMAIN db.bayStatus,
         Begin(s, [NoWrites EXCEPT !.bayStatus = status, !.held = held])
  PROVE  SoundRequest(s)
<1>. DEFINE W == [NoWrites EXCEPT !.bayStatus = status, !.held = held]
<1>1. W.bayStatus = status /\ W.held = held /\ Only(W, {"bayStatus", "held"}) /\ Begin(s, W)
  BY NoWritesEmpty DEF Only, FloorColumns
<1>. HIDE DEF W
<1>2. IsFloor(W)
  BY <1>1, OnlyTyped
<1>3. CompleteRows(W, db)
  BY <1>1, EmptyRows DEF CompleteRows, Partial, Only, FloorColumns
<1>4. RowsExist(W, db)
  BY <1>1, EmptyRows DEF RowsExist, Range, Only, FloorColumns
<1>5. Decided(W)
  BY <1>1, NoDecision DEF Only, FloorColumns
<1>. QED
  BY <1>1, <1>2, <1>3, <1>4, <1>5 DEF Sound, SoundRequest

LEMMA BayRequestSound ==
  ASSUME FloorInv, NEW s, NEW role, BayRequest(s, role)
  PROVE  SoundRequest(s)
<1>1. ASSUME NEW b \in 1 .. load.bays, NEW p \in BayCreate, CreateBay(s, role, b, p)
      PROVE  SoundRequest(s)
  <2>1. b \in Nat /\ p.status \in BayStatus /\ p.held \in BOOLEAN
    BY FloorLoad DEF BayCreate
  <2>2. IsColumn(At(b, p.status), Nat, BayStatus) /\ IsColumn(At(b, p.held), Nat, BOOLEAN)
    BY <2>1, AtColumn, Zenon
  <2>3. DOMAIN At(b, p.status) = DOMAIN At(b, p.held)
    BY DEF At
  <2>. QED
    BY <1>1, <2>2, <2>3, BaySound DEF CreateBay
<1>2. ASSUME NEW b \in DOMAIN db.bayStatus, NEW p \in BayUpdate, UpdateBay(s, role, b, p)
      PROVE  SoundRequest(s)
  <2>. DEFINE status == Assign(db.bayStatus, b, p.status)
              held == Assign(db.held, b, p.held)
  <2>1. b \in Nat /\ p.status \in BayStatus \cup {Null} /\ p.held \in BOOLEAN \cup {Null}
    BY FloorLoad, FloorKeys DEF BayUpdate
  <2>2. IsColumn(status, Nat, BayStatus) /\ DOMAIN status \subseteq {b}
    BY <2>1, AssignColumn
  <2>3. IsColumn(held, Nat, BOOLEAN) /\ DOMAIN held \subseteq {b}
    BY <2>1, AssignColumn, Zenon
  <2>4. DOMAIN status \cup DOMAIN held \subseteq DOMAIN db.bayStatus
    BY <2>2, <2>3
  <2>5. Begin(s, [NoWrites EXCEPT !.bayStatus = status, !.held = held])
    BY <1>2 DEF UpdateBay
  <2>. HIDE DEF status, held
  <2>. QED
    BY <2>2, <2>3, <2>4, <2>5, BaySound
<1>3. ASSUME ListBays(s, role) PROVE SoundRequest(s)
  <2>1. PICK expired \in SUBSET DOMAIN db.bayStatus :
          Begin(s, [NoWrites EXCEPT !.bayStatus = [b \in expired |-> "available"],
                                    !.held = [b \in expired |-> FALSE]])
    BY <1>3 DEF ListBays
  <2>2. /\ IsColumn([b \in expired |-> "available"], Nat, BayStatus)
        /\ IsColumn([b \in expired |-> FALSE], Nat, BOOLEAN)
    BY FloorKeys DEF IsColumn, BayStatus
  <2>3. DOMAIN [b \in expired |-> "available"] = DOMAIN [b \in expired |-> FALSE]
    OBVIOUS
  <2>. QED
    BY <2>1, <2>2, <2>3, BaySound
<1>. QED
  BY <1>1, <1>2, <1>3 DEF BayRequest
----------------------------------------------------------------------------
(* Visits.                                                                 *)

\* A visit that changes its status was not completed, and does not return.
LEMMA Transitions ==
  ASSUME NEW old \in VisitStatus, NEW new \in ValidTransitions[old]
  PROVE  /\ old # "completed" /\ new # "checked_in"
         /\ new = "in_diagnosis" => old = "checked_in"
BY DEF VisitStatus, ValidTransitions

LEMMA PostVisitSound ==
  ASSUME FloorInv, NEW s, NEW role, NEW v \in 1 .. load.visits, NEW p \in VisitCreate,
         Fresh(v, Used("visitStatus")), PostVisit(s, role, v, p)
  PROVE  SoundRequest(s)
<1>1. PICK claimed \in Claimable(p) :
        Begin(s, [NoWrites EXCEPT
          !.visitStatus = At(v, p.status), !.visitVehicle = At(v, p.vehicle),
          !.appointmentStatus = [a \in claimed |-> "checked_in"]])
  BY DEF PostVisit, CreateVisit
<1>. DEFINE appointment == [a \in claimed |-> "checked_in"]
            W == [NoWrites EXCEPT !.visitStatus = At(v, p.status), !.visitVehicle = At(v, p.vehicle),
                                  !.appointmentStatus = appointment]
<1>2. Begin(s, W)
  BY <1>1
<1>3. /\ v \in Nat /\ p.status \in VisitStatus /\ p.vehicle \in Vehicle
      /\ p.appointment \in DOMAIN db.appointmentStatus \cup {Null}
  BY FloorLoad DEF VisitCreate
<1>4. claimed \subseteq DOMAIN db.appointmentStatus
  BY <1>3 DEF Claimable
<1>5. /\ IsColumn(appointment, Nat, AppointmentStatus)
      /\ DOMAIN appointment \subseteq DOMAIN db.appointmentStatus
  BY <1>4, FloorKeys DEF IsColumn, AppointmentStatus
<1>6. v \notin DOMAIN db.visitStatus
  BY DEF Fresh, Used
<1>7. \A u \in DOMAIN db.visitStatus :
        db.visitVehicle[u] = p.vehicle => db.visitStatus[u] = "completed"
  BY FloorKeys DEF PostVisit, CreateVisit
<1>. HIDE DEF appointment
<1>8. /\ W.visitStatus = At(v, p.status) /\ W.visitVehicle = At(v, p.vehicle)
      /\ W.appointmentStatus = appointment
      /\ Only(W, {"visitStatus", "visitVehicle", "appointmentStatus"})
  BY NoWritesEmpty DEF Only, FloorColumns
<1>. HIDE DEF W
<1>9. IsFloor(W)
  BY <1>3, <1>5, <1>8, AtColumn, OnlyTyped
<1>10. DOMAIN W.visitStatus = {v} /\ DOMAIN W.visitVehicle = {v} /\ W.visitVehicle[v] = p.vehicle
  BY <1>8, AtRow
<1>11. CompleteRows(W, db)
  BY <1>5, <1>8, <1>10, EmptyRows DEF CompleteRows, Partial, Only, FloorColumns
<1>12. RowsExist(W, db)
  BY <1>8, EmptyRows DEF RowsExist, Range, Only, FloorColumns
<1>13. OneVisitWrites(W)
  BY <1>6, <1>7, <1>10 DEF OneVisitWrites
<1>14. DraftWrites(W) /\ ServiceWrites(W) /\ CheckOutWrites(W)
  BY <1>6, <1>8, <1>10, EmptyRows
     DEF DraftWrites, ServiceWrites, CheckOutWrites, Only, FloorColumns
<1>. QED
  BY <1>2, <1>9, <1>11, <1>12, <1>13, <1>14 DEF Sound, Decided, SoundRequest

LEMMA PutVisitSound ==
  ASSUME FloorInv, NEW s, NEW role, NEW v \in DOMAIN db.visitStatus, NEW p \in VisitUpdate,
         PutVisit(s, role, v, p)
  PROVE  SoundRequest(s)
<1>. DEFINE old == db.visitStatus[v]
            st == IF p.status = Null THEN old ELSE p.status
            new == IF p.out THEN "completed" ELSE st
            status == Update(db.visitStatus, v, new)
            out == IF p.out THEN Update(db.checkedOut, v, TRUE) ELSE Empty
            quotes == IF p.out THEN [q \in OpenQuotes(v) |-> "expired"] ELSE Empty
            W == [NoWrites EXCEPT !.visitStatus = status, !.checkedOut = out,
                                  !.quoteStatus = quotes]
<1>1. /\ Begin(s, W)
      /\ p.status # Null => Transition(v, p.status)
      /\ p.out => CheckOut(v, st)
  BY DEF PutVisit, UpdateVisit
<1>2. /\ v \in Nat /\ old \in VisitStatus /\ p.status \in VisitStatus \cup {Null}
      /\ new \in VisitStatus
  BY FloorLoad, FloorKeys DEF VisitUpdate, VisitStatus
<1>3. IsColumn(status, Nat, VisitStatus) /\ DOMAIN status \subseteq {v}
  <2>. HIDE DEF new
  <2>. QED
    BY <1>2, UpdateColumn
<1>4. v \in DOMAIN status => status[v] = new /\ old # new
  BY AtRow, EmptyRows DEF Update
<1>5. v \notin DOMAIN status => old = new
  <2>1. DOMAIN At(v, new) = {v}
    BY DEF At
  <2>. HIDE DEF new
  <2>. QED
    BY <2>1 DEF Update
<1>6. IsColumn(out, Nat, {TRUE}) /\ DOMAIN out \subseteq {v}
  <2>1. IsColumn(Update(db.checkedOut, v, TRUE), Nat, {TRUE})
        /\ DOMAIN Update(db.checkedOut, v, TRUE) \subseteq {v}
    BY <1>2, UpdateColumn, Zenon
  <2>. QED
    BY <2>1, EmptyColumn, EmptyRows
<1>7. OpenQuotes(v) \subseteq DOMAIN db.quoteStatus
  BY FloorKeys DEF OpenQuotes
<1>8. IsColumn(quotes, Draft, QuoteStatus) /\ DOMAIN quotes \subseteq DOMAIN db.quoteStatus
  <2>1. CASE p.out
    BY <1>7, <2>1, FloorKeys DEF IsColumn, QuoteStatus
  <2>2. CASE ~p.out
    BY <2>2, EmptyColumn, EmptyRows
  <2>. QED
    BY <2>1, <2>2
<1>9. /\ p.out => new = "completed" /\ quotes = [q \in OpenQuotes(v) |-> "expired"]
      /\ ~p.out => out = Empty
  OBVIOUS
<1>10. ~p.out /\ old # new => p.status # Null /\ new = p.status
  OBVIOUS
<1>. HIDE DEF old, st, new, status, out, quotes
<1>11. /\ W.visitStatus = status /\ W.checkedOut = out /\ W.quoteStatus = quotes
       /\ Only(W, {"visitStatus", "checkedOut", "quoteStatus"})
  BY NoWritesEmpty DEF Only, FloorColumns
<1>. HIDE DEF W
<1>12. IsFloor(W)
  BY <1>3, <1>6, <1>8, <1>11, OnlyTyped
<1>13. CompleteRows(W, db) /\ RowsExist(W, db)
  BY <1>3, <1>6, <1>8, <1>11, ExistingRows
<1>14. W.visitVehicle = Empty /\ W.quoteVisit = Empty
  BY <1>11 DEF Only, FloorColumns
<1>15. v \in DOMAIN status /\ ~p.out =>
         /\ old # "completed" /\ (new \in Inspectable => old \in Inspectable)
         /\ new = "in_service" => WorkOrders(v) # {}
  <2>. SUFFICES ASSUME v \in DOMAIN status, ~p.out
                PROVE  /\ old # "completed" /\ (new \in Inspectable => old \in Inspectable)
                       /\ new = "in_service" => WorkOrders(v) # {}
    OBVIOUS
  <2>1. Transition(v, new) /\ old # new
    BY <1>1, <1>4, <1>10
  <2>2. new \in ValidTransitions[old] /\ (new = "in_service" => WorkOrders(v) # {})
    BY <2>1 DEF Transition, old
  <2>. QED
    BY <1>2, <2>2, Transitions DEF Inspectable
<1>16. OneVisitWrites(W)
  BY <1>3, <1>4, <1>9, <1>11, <1>14, <1>15, EmptyRows DEF OneVisitWrites, old
<1>17. DraftWrites(W)
  BY <1>3, <1>4, <1>9, <1>11, <1>14, <1>15, EmptyRows DEF DraftWrites, Inspectable, old
<1>18. ServiceWrites(W)
  BY <1>3, <1>4, <1>9, <1>11, <1>14, <1>15, EmptyRows DEF ServiceWrites, old
<1>19. CheckOutWrites(W)
  <2>1. p.out => \A w \in WorkOrders(v) \cap DOMAIN db.paid : db.paid[w]
    BY <1>1 DEF CheckOut
  <2>2. ASSUME NEW u \in DOMAIN W.checkedOut PROVE u = v /\ p.out
    BY <1>6, <1>9, <1>11, EmptyRows
  <2>3. p.out => IF v \in DOMAIN status THEN status[v] = "completed" ELSE old = "completed"
    BY <1>4, <1>5, <1>9
  <2>. QED
    BY <1>9, <1>11, <1>14, <2>1, <2>2, <2>3 DEF CheckOutWrites, old
<1>. QED
  BY <1>1, <1>12, <1>13, <1>16, <1>17, <1>18, <1>19 DEF Sound, Decided, SoundRequest

LEMMA FrontDeskRequestSound ==
  ASSUME FloorInv, NEW s, NEW role, FrontDeskRequest(s, role)
  PROVE  SoundRequest(s)
BY PostAppointmentSound, PutAppointmentSound, PostVisitSound, PutVisitSound DEF FrontDeskRequest
----------------------------------------------------------------------------
(* Inspections.                                                            *)

LEMMA CreateDiagnosticSound ==
  ASSUME FloorInv, NEW s, NEW role, NEW r \in 1 .. load.reports, NEW v \in DOMAIN db.visitStatus,
         CreateDiagnostic(s, role, r, v)
  PROVE  SoundRequest(s)
<1>. DEFINE findings == [f \in [report : {r}, n : 1 .. load.seeded] |-> FALSE]
            status == Update(db.visitStatus, v, "in_diagnosis")
            W == [NoWrites EXCEPT !.reportStatus = At(r, "in_progress"), !.reportVisit = At(r, v),
                                  !.recommended = findings, !.visitStatus = status]
<1>1. Begin(s, W) /\ db.visitStatus[v] \in Inspectable
  BY DEF CreateDiagnostic
<1>2. r \in Nat /\ v \in Nat /\ "in_progress" \in ReportStatus /\ "in_diagnosis" \in VisitStatus
  BY FloorLoad, FloorKeys DEF ReportStatus, VisitStatus
<1>3. /\ IsColumn(findings, Finding, BOOLEAN)
      /\ \A f \in DOMAIN findings : f.report = r
  BY <1>2, FloorLoad DEF IsColumn, Finding
<1>4. IsColumn(status, Nat, VisitStatus) /\ DOMAIN status \subseteq {v}
  BY <1>2, UpdateColumn
<1>5. v \in DOMAIN status => status[v] = "in_diagnosis"
  BY AtRow, EmptyRows DEF Update
<1>. HIDE DEF findings, status
<1>6. /\ W.reportStatus = At(r, "in_progress") /\ W.reportVisit = At(r, v)
      /\ W.recommended = findings /\ W.visitStatus = status
      /\ Only(W, {"reportStatus", "reportVisit", "recommended", "visitStatus"})
  BY NoWritesEmpty DEF Only, FloorColumns
<1>. HIDE DEF W
<1>7. IsFloor(W)
  BY <1>2, <1>3, <1>4, <1>6, AtColumn, OnlyTyped
<1>8. /\ DOMAIN W.reportStatus = {r} /\ DOMAIN W.reportVisit = {r}
      /\ Range(W.reportVisit) = {v}
  BY <1>6 DEF Range, At
<1>9. CompleteRows(W, db)
  BY <1>4, <1>6, <1>8, EmptyRows DEF CompleteRows, Partial, Only, FloorColumns
<1>10. RowsExist(W, db)
  BY <1>3, <1>6, <1>8, EmptyRows DEF RowsExist, Range, Only, FloorColumns
<1>11. W.visitVehicle = Empty /\ W.quoteVisit = Empty /\ W.checkedOut = Empty
  BY <1>6 DEF Only, FloorColumns
<1>12. OneVisitWrites(W) /\ DraftWrites(W)
  BY <1>1, <1>4, <1>5, <1>6, <1>11, EmptyRows DEF OneVisitWrites, DraftWrites, Inspectable
<1>13. ServiceWrites(W) /\ CheckOutWrites(W)
  BY <1>4, <1>5, <1>6, <1>11, EmptyRows DEF ServiceWrites, CheckOutWrites
<1>. QED
  BY <1>1, <1>7, <1>9, <1>10, <1>12, <1>13 DEF Sound, Decided, SoundRequest

\* Findings are added to a report and changed.
LEMMA FindingSound ==
  ASSUME FloorInv, NEW s, NEW findings, IsColumn(findings, Finding, BOOLEAN),
         \A f \in DOMAIN findings : f.report \in DOMAIN db.reportStatus,
         Begin(s, [NoWrites EXCEPT !.recommended = findings])
  PROVE  SoundRequest(s)
<1>. DEFINE W == [NoWrites EXCEPT !.recommended = findings]
<1>1. W.recommended = findings /\ Only(W, {"recommended"}) /\ Begin(s, W)
  BY NoWritesEmpty DEF Only, FloorColumns
<1>. HIDE DEF W
<1>2. IsFloor(W)
  BY <1>1, OnlyTyped
<1>3. CompleteRows(W, db)
  BY <1>1, EmptyRows DEF CompleteRows, Partial, Only, FloorColumns
<1>4. RowsExist(W, db)
  BY <1>1, EmptyRows DEF RowsExist, Range, Only, FloorColumns
<1>5. Decided(W)
  BY <1>1, NoDecision DEF Only, FloorColumns
<1>. QED
  BY <1>1, <1>2, <1>3, <1>4, <1>5 DEF Sound, SoundRequest

\* A report is marked as completed and nothing else: its visit has left inspection.
LEMMA CompleteOnlySound ==
  ASSUME FloorInv, NEW s, NEW r \in DOMAIN db.reportStatus, NEW k, CompleteOnly(s, r, k)
  PROVE  SoundRequest(s)
<1>. DEFINE W == Completion(r)
<1>1. W.reportStatus = At(r, "completed") /\ Only(W, {"reportStatus"}) /\ Begin(s, W)
  BY NoWritesEmpty DEF Only, FloorColumns, Completion, CompleteOnly
<1>. HIDE DEF W
<1>2. r \in Nat /\ "completed" \in ReportStatus
  BY FloorKeys DEF ReportStatus
<1>3. IsFloor(W)
  BY <1>1, <1>2, AtColumn, OnlyTyped
<1>4. CompleteRows(W, db) /\ RowsExist(W, db)
  <2>1. DOMAIN W.reportStatus \subseteq DOMAIN db.reportStatus
    BY <1>1 DEF At
  <2>. QED
    BY <1>1, <2>1, ExistingRows
<1>5. Decided(W)
  BY <1>1, NoDecision DEF Only, FloorColumns
<1>. QED
  BY <1>1, <1>3, <1>4, <1>5 DEF Sound, SoundRequest

\* The first completion drafts the quote and the work order of the visit and moves it on.
LEMMA CompleteAndDraftSound ==
  ASSUME FloorInv, NEW s, NEW r \in DOMAIN db.reportStatus,
         NEW n \in 1 .. Cardinality(load.sessions),
         CompleteAndDraft(s, r, [report |-> r, n |-> n])
  PROVE  SoundRequest(s)
<1>. DEFINE k == [report |-> r, n |-> n]
            v == db.reportVisit[r]
            items == {[wo |-> k, n |-> f.n] : f \in
                        {g \in DOMAIN db.recommended : g.report = r /\ db.recommended[g]}}
            priced == [i \in items |-> FALSE]
            W == [Completion(r) EXCEPT !.visitStatus = At(v, "awaiting_quote"),
                    !.quoteStatus = At(k, "draft"), !.quoteVisit = At(k, v),
                    !.woQuote = At(k, k), !.woVisit = At(k, v), !.priced = priced]
<1>1. Begin(s, W) /\ db.visitStatus[v] \in Inspectable
  BY DEF CompleteAndDraft
<1>2. r \in Nat /\ n \in Nat /\ k \in Draft /\ v \in DOMAIN db.visitStatus /\ v \in Nat
  BY FloorLoad, FloorKeys DEF Draft
<1>3. /\ "completed" \in ReportStatus /\ "awaiting_quote" \in VisitStatus
      /\ "draft" \in QuoteStatus
  BY DEF ReportStatus, VisitStatus, QuoteStatus
<1>4. IsColumn(priced, Item, BOOLEAN) /\ \A i \in DOMAIN priced : i.wo = k
  <2>1. \A f \in DOMAIN db.recommended : f.n \in Nat
    BY FloorKeys DEF Finding
  <2>. HIDE DEF k
  <2>2. items \subseteq Item /\ \A i \in items : i.wo = k
    BY <1>2, <2>1 DEF Item
  <2>. HIDE DEF items
  <2>. QED
    BY <2>2 DEF IsColumn
<1>. HIDE DEF k, v, priced
<1>5. /\ W.reportStatus = At(r, "completed") /\ W.visitStatus = At(v, "awaiting_quote")
      /\ W.quoteStatus = At(k, "draft") /\ W.quoteVisit = At(k, v)
      /\ W.woQuote = At(k, k) /\ W.woVisit = At(k, v) /\ W.priced = priced
      /\ Only(W, {"reportStatus", "visitStatus", "quoteStatus", "quoteVisit", "woQuote", "woVisit",
                  "priced"})
  BY NoWritesEmpty DEF Only, FloorColumns, Completion
<1>. HIDE DEF W
<1>6. IsFloor(W)
  <2>1. /\ IsColumn(W.reportStatus, Nat, ReportStatus) /\ IsColumn(W.visitStatus, Nat, VisitStatus)
        /\ IsColumn(W.quoteStatus, Draft, QuoteStatus) /\ IsColumn(W.quoteVisit, Draft, Nat)
        /\ IsColumn(W.woQuote, Draft, Draft) /\ IsColumn(W.woVisit, Draft, Nat)
    BY <1>2, <1>3, <1>5, AtColumn
  <2>. QED
    BY <1>4, <1>5, <2>1, OnlyTyped
<1>7. /\ DOMAIN W.reportStatus = {r} /\ DOMAIN W.visitStatus = {v}
      /\ DOMAIN W.quoteStatus = {k} /\ DOMAIN W.quoteVisit = {k}
      /\ DOMAIN W.woQuote = {k} /\ DOMAIN W.woVisit = {k}
      /\ W.visitStatus[v] = "awaiting_quote" /\ W.quoteVisit[k] = v
  BY <1>5 DEF At
<1>8. Range(W.quoteVisit) = {v} /\ Range(W.woVisit) = {v} /\ Range(W.woQuote) = {k}
  BY <1>5 DEF Range, At
<1>9. CompleteRows(W, db)
  BY <1>2, <1>5, <1>7, EmptyRows DEF CompleteRows, Partial, Only, FloorColumns
<1>10. RowsExist(W, db)
  BY <1>2, <1>4, <1>5, <1>7, <1>8, EmptyRows DEF RowsExist, Range, Only, FloorColumns
<1>11. W.visitVehicle = Empty /\ W.checkedOut = Empty
  BY <1>5 DEF Only, FloorColumns
<1>12. OneVisitWrites(W) /\ DraftWrites(W)
  BY <1>1, <1>7, <1>11, EmptyRows DEF OneVisitWrites, DraftWrites, Inspectable
<1>13. ServiceWrites(W) /\ CheckOutWrites(W)
  BY <1>7, <1>11, EmptyRows DEF ServiceWrites, CheckOutWrites
<1>. QED
  BY <1>1, <1>6, <1>9, <1>10, <1>12, <1>13 DEF Sound, Decided, SoundRequest

LEMMA InspectionRequestSound ==
  ASSUME FloorInv, NEW s, NEW role, InspectionRequest(s, role)
  PROVE  SoundRequest(s)
<1>1. ASSUME NEW r \in DOMAIN db.reportStatus, NEW n \in 1 .. load.findings, NEW rec \in BOOLEAN,
             AddDiagnosticFinding(s, role, [report |-> r, n |-> n], rec)
      PROVE  SoundRequest(s)
  <2>. DEFINE f == [report |-> r, n |-> n]
  <2>1. f \in Finding /\ f.report = r
    BY FloorLoad, FloorKeys DEF Finding
  <2>2. Begin(s, [NoWrites EXCEPT !.recommended = At(f, rec)])
    BY <1>1 DEF AddDiagnosticFinding
  <2>. HIDE DEF f
  <2>3. IsColumn(At(f, rec), Finding, BOOLEAN)
    BY <2>1, AtColumn, Zenon
  <2>4. DOMAIN At(f, rec) = {f}
    BY DEF At
  <2>. QED
    BY <2>1, <2>2, <2>3, <2>4, FindingSound
<1>2. ASSUME NEW f \in DOMAIN db.recommended, NEW rec \in BOOLEAN,
             UpdateDiagnosticFinding(s, role, f, rec)
      PROVE  SoundRequest(s)
  <2>. DEFINE findings == Update(db.recommended, f, rec)
  <2>1. f \in Finding /\ f.report \in DOMAIN db.reportStatus
    BY FloorKeys
  <2>2. IsColumn(findings, Finding, BOOLEAN) /\ DOMAIN findings \subseteq {f}
    BY <2>1, UpdateColumn, Zenon
  <2>3. Begin(s, [NoWrites EXCEPT !.recommended = findings])
    BY <1>2 DEF UpdateDiagnosticFinding
  <2>. HIDE DEF findings
  <2>. QED
    BY <2>1, <2>2, <2>3, FindingSound
<1>3. ASSUME NEW r \in DOMAIN db.reportStatus, NEW n \in 1 .. Cardinality(load.sessions),
             CompleteDiagnostic(s, role, r, [report |-> r, n |-> n])
      PROVE  SoundRequest(s)
  BY <1>3, CompleteOnlySound, CompleteAndDraftSound DEF CompleteDiagnostic
<1>. QED
  BY <1>1, <1>2, <1>3, CreateDiagnosticSound DEF InspectionRequest

----------------------------------------------------------------------------
(* Quotes, work orders and what belongs to them.                           *)

LEMMA CreateQuoteSound ==
  ASSUME FloorInv, NEW s, NEW n \in 1 .. load.quotes, NEW v \in DOMAIN db.visitStatus,
         NEW st \in load.quoteStatuses, CreateQuote(s, [report |-> 0, n |-> n], v, st)
  PROVE  SoundRequest(s)
<1>. DEFINE k == [report |-> 0, n |-> n]
            W == [NoWrites EXCEPT !.quoteStatus = At(k, st), !.quoteVisit = At(k, v)]
<1>1. Begin(s, W)
  BY DEF CreateQuote
<1>2. k \in Draft /\ k.report = 0 /\ v \in Nat /\ st \in QuoteStatus
  BY FloorLoad, FloorKeys DEF Draft
<1>. HIDE DEF k
<1>3. /\ W.quoteStatus = At(k, st) /\ W.quoteVisit = At(k, v)
      /\ Only(W, {"quoteStatus", "quoteVisit"})
  BY NoWritesEmpty DEF Only, FloorColumns
<1>. HIDE DEF W
<1>4. IsFloor(W)
  BY <1>2, <1>3, AtColumn, OnlyTyped
<1>5. DOMAIN W.quoteStatus = {k} /\ DOMAIN W.quoteVisit = {k} /\ Range(W.quoteVisit) = {v}
  BY <1>3 DEF Range, At
<1>6. CompleteRows(W, db)
  BY <1>3, <1>5, EmptyRows DEF CompleteRows, Partial, Only, FloorColumns
<1>7. RowsExist(W, db)
  BY <1>3, <1>5, EmptyRows DEF RowsExist, Range, Only, FloorColumns
<1>8. W.visitStatus = Empty /\ W.visitVehicle = Empty /\ W.checkedOut = Empty
  BY <1>3 DEF Only, FloorColumns
<1>9. Decided(W)
  BY <1>2, <1>5, <1>8, EmptyRows
     DEF Decided, OneVisitWrites, DraftWrites, ServiceWrites, CheckOutWrites
<1>. QED
  BY <1>1, <1>4, <1>6, <1>7, <1>9 DEF Sound, SoundRequest

\* Approval sends to service only the visit that awaits the quote.
LEMMA UpdateQuoteSound ==
  ASSUME FloorInv, NEW s, NEW q \in DOMAIN db.quoteStatus, NEW st \in load.quoteStatuses,
         UpdateQuote(s, q, st)
  PROVE  SoundRequest(s)
<1>. DEFINE quote == Update(db.quoteStatus, q, st)
            status == IF st = "approved" THEN [v \in Serviced(q) |-> "in_service"] ELSE Empty
            W == [NoWrites EXCEPT !.quoteStatus = quote, !.visitStatus = status]
<1>1. Begin(s, W)
  BY DEF UpdateQuote
<1>2. q \in Draft /\ st \in QuoteStatus /\ q \in DOMAIN db.quoteVisit
  BY FloorLoad, FloorKeys
<1>3. IsColumn(quote, Draft, QuoteStatus) /\ DOMAIN quote \subseteq {q}
  BY <1>2, UpdateColumn
<1>4. st = "approved" /\ db.quoteStatus[q] # "approved" =>
        q \in DOMAIN quote /\ quote[q] = "approved"
  <2>1. DOMAIN At(q, st) = {q} /\ At(q, st)[q] = st
    BY AtRow
  <2>. QED
    BY <2>1 DEF Update
<1>5. Serviced(q) \subseteq DOMAIN db.visitStatus /\ Serviced(q) \subseteq Nat
  BY <1>2, FloorKeys DEF Serviced
<1>6. IsColumn(status, Nat, VisitStatus) /\ DOMAIN status \subseteq DOMAIN db.visitStatus
  BY <1>5, EmptyColumn, EmptyRows DEF IsColumn, VisitStatus
<1>7. \A v \in DOMAIN status :
        /\ st = "approved" /\ status[v] = "in_service"
        /\ v = db.quoteVisit[q] /\ db.visitStatus[v] = "awaiting_quote"
  BY EmptyRows DEF Serviced
<1>. HIDE DEF quote, status
<1>8. /\ W.quoteStatus = quote /\ W.visitStatus = status
      /\ Only(W, {"quoteStatus", "visitStatus"})
  BY NoWritesEmpty DEF Only, FloorColumns
<1>. HIDE DEF W
<1>9. IsFloor(W)
  BY <1>3, <1>6, <1>8, OnlyTyped
<1>10. CompleteRows(W, db) /\ RowsExist(W, db)
  BY <1>3, <1>6, <1>8, ExistingRows
<1>11. W.visitVehicle = Empty /\ W.quoteVisit = Empty /\ W.checkedOut = Empty
  BY <1>8 DEF Only, FloorColumns
<1>12. OneVisitWrites(W) /\ DraftWrites(W) /\ CheckOutWrites(W)
  BY <1>7, <1>8, <1>11, EmptyRows DEF OneVisitWrites, DraftWrites, CheckOutWrites, Inspectable
<1>13. ServiceWrites(W)
  BY <1>2, <1>4, <1>7, <1>8 DEF ServiceWrites
<1>. QED
  BY <1>1, <1>9, <1>10, <1>12, <1>13 DEF Sound, Decided, SoundRequest

LEMMA CreateWorkOrderSound ==
  ASSUME FloorInv, NEW s, NEW n \in 1 .. load.workOrders, NEW q \in DOMAIN db.quoteStatus,
         NEW v \in DOMAIN db.visitStatus, CreateWorkOrder(s, [report |-> 0, n |-> n], q, v)
  PROVE  SoundRequest(s)
<1>. DEFINE w == [report |-> 0, n |-> n]
            W == [NoWrites EXCEPT !.woQuote = At(w, q), !.woVisit = At(w, v)]
<1>1. Begin(s, W)
  BY DEF CreateWorkOrder
<1>2. w \in Draft /\ q \in Draft /\ v \in Nat
  BY FloorLoad, FloorKeys DEF Draft
<1>. HIDE DEF w
<1>3. /\ W.woQuote = At(w, q) /\ W.woVisit = At(w, v) /\ Only(W, {"woQuote", "woVisit"})
  BY NoWritesEmpty DEF Only, FloorColumns
<1>. HIDE DEF W
<1>4. IsFloor(W)
  BY <1>2, <1>3, AtColumn, OnlyTyped
<1>5. /\ DOMAIN W.woQuote = {w} /\ DOMAIN W.woVisit = {w}
      /\ Range(W.woQuote) = {q} /\ Range(W.woVisit) = {v}
  BY <1>3 DEF Range, At
<1>6. CompleteRows(W, db)
  BY <1>3, <1>5, EmptyRows DEF CompleteRows, Partial, Only, FloorColumns
<1>7. RowsExist(W, db)
  BY <1>3, <1>5, EmptyRows DEF RowsExist, Range, Only, FloorColumns
<1>8. Decided(W)
  BY <1>3, NoDecision DEF Only, FloorColumns
<1>. QED
  BY <1>1, <1>4, <1>6, <1>7, <1>8 DEF Sound, SoundRequest

\* Prices, change orders and invoices, each a column of flags.
LEMMA FlagSound ==
  ASSUME FloorInv, NEW s, NEW c, NEW flags, NEW k, c \in {"priced", "pending", "paid"},
         c = "priced" => k \in DOMAIN db.priced,
         c # "priced" => k \in DOMAIN db.woQuote,
         IsColumn(flags, {k}, BOOLEAN), Begin(s, [NoWrites EXCEPT ![c] = flags])
  PROVE  SoundRequest(s)
<1>. DEFINE W == [NoWrites EXCEPT ![c] = flags]
<1>1. W[c] = flags /\ Only(W, {c}) /\ Begin(s, W)
  BY NoWritesEmpty DEF Only, FloorColumns
<1>. HIDE DEF W
<1>2. DOMAIN flags \subseteq {k} /\ \A S : k \in S => IsColumn(flags, S, BOOLEAN)
  BY DEF IsColumn
<1>3. IsFloor(W)
  BY <1>1, <1>2, FloorKeys, OnlyTyped
<1>4. CompleteRows(W, db) /\ RowsExist(W, db)
  BY <1>1, <1>2, ExistingRows
<1>5. Decided(W)
  BY <1>1, NoDecision DEF Only, FloorColumns
<1>. QED
  BY <1>1, <1>3, <1>4, <1>5 DEF Sound, SoundRequest

LEMMA OrderRequestSound ==
  ASSUME FloorInv, NEW s, OrderRequest(s)
  PROVE  SoundRequest(s)
<1>1. ASSUME NEW column, NEW k, NEW flag \in BOOLEAN
      PROVE  IsColumn(Update(column, k, flag), {k}, BOOLEAN)
  BY UpdateColumn, Zenon
<1>2. ASSUME NEW i \in DOMAIN db.priced, UpdateLineItem(s, i) PROVE SoundRequest(s)
  <2>. DEFINE flags == Update(db.priced, i, TRUE)
  <2>1. Begin(s, [NoWrites EXCEPT !["priced"] = flags])
    BY <1>2 DEF UpdateLineItem
  <2>2. IsColumn(flags, {i}, BOOLEAN)
    BY <1>1
  <2>. HIDE DEF flags
  <2>. QED
    BY <2>1, <2>2, FlagSound
<1>3. ASSUME NEW w \in DOMAIN db.woQuote, NEW flag \in load.flags, UpdateChangeOrder(s, w, flag)
      PROVE  SoundRequest(s)
  <2>. DEFINE flags == Update(db.pending, w, flag)
  <2>1. Begin(s, [NoWrites EXCEPT !["pending"] = flags])
    BY <1>3 DEF UpdateChangeOrder
  <2>2. IsColumn(flags, {w}, BOOLEAN)
    BY <1>1, FloorLoad
  <2>. HIDE DEF flags
  <2>. QED
    BY <2>1, <2>2, FlagSound
<1>4. ASSUME NEW w \in DOMAIN db.woQuote, NEW flag \in load.flags, UpdateInvoice(s, w, flag)
      PROVE  SoundRequest(s)
  <2>. DEFINE flags == Update(db.paid, w, flag)
  <2>1. Begin(s, [NoWrites EXCEPT !["paid"] = flags])
    BY <1>4 DEF UpdateInvoice
  <2>2. IsColumn(flags, {w}, BOOLEAN)
    BY <1>1, FloorLoad
  <2>. HIDE DEF flags
  <2>. QED
    BY <2>1, <2>2, FlagSound
<1>. QED
  BY <1>2, <1>3, <1>4, CreateQuoteSound, UpdateQuoteSound, CreateWorkOrderSound DEF OrderRequest
----------------------------------------------------------------------------
(* The inductive invariant of requests that run one after another.         *)

\* A visit whose quote was drafted by a report has left inspection for good: what keeps
\* another report of the visit from drafting a second one.
DraftsMoved ==
  \A q \in DOMAIN db.quoteVisit :
    q.report # 0 => db.visitStatus[db.quoteVisit[q]] \notin Inspectable

VisitsInv ==
  /\ FloorInv /\ OneActiveVisit /\ DraftedOnce
  /\ Serial => DraftsMoved /\ \A s \in DOMAIN txn : Decided(txn[s])

LEMMA VisitsInitInv == VisitsInit => VisitsInv
<1>. SUFFICES ASSUME VisitsInit PROVE VisitsInv
  OBVIOUS
<1>1. /\ DOMAIN db.visitStatus = {} /\ DOMAIN db.quoteVisit = {} /\ DOMAIN txn = {}
  BY NoWritesEmpty, EmptyRows DEF VisitsInit, FloorColumns
<1>. QED
  BY <1>1, FloorInitInv DEF VisitsInv, OneActiveVisit, DraftedOnce, DraftsMoved

\* Rows that stay and sessions that stay.
LEMMA SameVisits ==
  ASSUME db' = db, load' = load
  PROVE  /\ OneActiveVisit' <=> OneActiveVisit
         /\ DraftedOnce' <=> DraftedOnce
         /\ DraftsMoved' <=> DraftsMoved
         /\ Serial' <=> Serial
         /\ \A W : Decided(W)' <=> Decided(W)
BY DEF OneActiveVisit, DraftedOnce, DraftsMoved, Serial, Decided, OneVisitWrites, DraftWrites,
       ServiceWrites, CheckOutWrites, WorkOrders, OpenQuotes

LEMMA VisitsBeginInv ==
  ASSUME VisitsInv, NEW s \in load.sessions, SoundRequest(s)
  PROVE  VisitsInv'
<1>1. PICK W : Begin(s, W) /\ Sound(W) /\ Decided(W)
  BY DEF SoundRequest
<1>2. /\ s \notin DOMAIN txn /\ DOMAIN txn' = DOMAIN txn \cup {s} /\ txn'[s] = W
      /\ \A r \in DOMAIN txn : txn'[r] = txn[r]
      /\ db' = db /\ load' = load
  BY <1>1, BeginTxn
<1>3. FloorInv'
  BY <1>1, FloorBeginInv DEF VisitsInv
<1>4. ASSUME Serial, NEW r \in DOMAIN txn' PROVE Decided(txn[r])'
  <2>1. Decided(txn'[r])
    BY <1>1, <1>2, <1>4 DEF VisitsInv
  <2>. QED
    BY <1>2, <2>1 DEF Decided, OneVisitWrites, DraftWrites, ServiceWrites, CheckOutWrites,
                      WorkOrders, OpenQuotes
<1>. QED
  BY <1>2, <1>3, <1>4, SameVisits DEF VisitsInv

LEMMA VisitsRollbackInv ==
  ASSUME VisitsInv, NEW s, Rollback(s)
  PROVE  VisitsInv'
<1>1. /\ DOMAIN txn' = DOMAIN txn \ {s} /\ \A r \in DOMAIN txn' : txn'[r] = txn[r]
      /\ db' = db /\ load' = load
  BY DEF End, Rollback
<1>2. FloorInv'
  BY FloorRollbackInv DEF VisitsInv
<1>3. ASSUME Serial, NEW r \in DOMAIN txn' PROVE Decided(txn[r])'
  <2>1. Decided(txn'[r])
    BY <1>1, <1>3 DEF VisitsInv
  <2>. QED
    BY <1>1, <2>1 DEF Decided, OneVisitWrites, DraftWrites, ServiceWrites, CheckOutWrites,
                      WorkOrders, OpenQuotes
<1>. QED
  BY <1>1, <1>2, <1>3, SameVisits DEF VisitsInv

\* What a commit of W makes of the rows of visits and quotes.
LEMMA CommittedVisits ==
  ASSUME FloorInv, NEW W, Applied(W), Sound(W)
  PROVE  /\ DOMAIN db'.visitStatus = DOMAIN W.visitStatus \cup DOMAIN db.visitStatus
         /\ DOMAIN db'.quoteVisit = DOMAIN W.quoteVisit \cup DOMAIN db.quoteVisit
         /\ \A v \in DOMAIN db'.visitStatus :
              /\ db'.visitStatus[v] = IF v \in DOMAIN W.visitStatus THEN W.visitStatus[v]
                                      ELSE db.visitStatus[v]
              /\ db'.visitVehicle[v] = IF v \in DOMAIN W.visitVehicle THEN W.visitVehicle[v]
                                       ELSE db.visitVehicle[v]
              /\ v \notin DOMAIN db.visitStatus => v \in DOMAIN W.visitVehicle
         /\ \A q \in DOMAIN db'.quoteVisit :
              db'.quoteVisit[q] = IF q \in DOMAIN W.quoteVisit THEN W.quoteVisit[q]
                                  ELSE db.quoteVisit[q]
         /\ \A q \in DOMAIN W.quoteVisit : W.quoteVisit[q] \in DOMAIN db.visitStatus
<1>1. /\ db'.visitStatus = Overlay(W.visitStatus, db.visitStatus)
      /\ db'.visitVehicle = Overlay(W.visitVehicle, db.visitVehicle)
      /\ db'.quoteVisit = Overlay(W.quoteVisit, db.quoteVisit)
  BY DEF Applied, FloorColumns
<1>2. CompleteRows(W, db) /\ RowsExist(W, db) /\ DOMAIN db.visitVehicle = DOMAIN db.visitStatus
  BY FloorKeys DEF Sound
<1>3. DOMAIN W.visitStatus \subseteq DOMAIN W.visitVehicle \cup DOMAIN db.visitStatus
      /\ DOMAIN W.visitVehicle \subseteq DOMAIN W.visitStatus \cup DOMAIN db.visitStatus
  BY <1>2 DEF CompleteRows, Partial
<1>4. \A q \in DOMAIN W.quoteVisit : W.quoteVisit[q] \in DOMAIN db.visitStatus
  BY <1>2 DEF RowsExist, Range
<1>. QED
  BY <1>1, <1>2, <1>3, <1>4 DEF Overlay

LEMMA CommitOneActive ==
  ASSUME FloorInv, NEW W, Applied(W), Sound(W), OneVisitWrites(W),
         \A u, v \in DOMAIN db.visitStatus :
           /\ db.visitVehicle[u] = db.visitVehicle[v]
           /\ db.visitStatus[u] # "completed" /\ db.visitStatus[v] # "completed"
           => u = v
  PROVE  OneActiveVisit'
<1>1. ASSUME NEW u \in DOMAIN db'.visitStatus, NEW v \in DOMAIN db'.visitStatus,
             db'.visitVehicle[u] = db'.visitVehicle[v],
             db'.visitStatus[u] # "completed", db'.visitStatus[v] # "completed"
      PROVE  u = v
  <2>1. CASE u \in DOMAIN db.visitStatus /\ v \in DOMAIN db.visitStatus
    BY <1>1, <2>1, CommittedVisits DEF OneVisitWrites
  <2>2. CASE u \notin DOMAIN db.visitStatus
    BY <1>1, <2>2, CommittedVisits DEF OneVisitWrites
  <2>3. CASE v \notin DOMAIN db.visitStatus
    BY <1>1, <2>3, CommittedVisits DEF OneVisitWrites
  <2>. QED
    BY <2>1, <2>2, <2>3
<1>. QED
  BY <1>1 DEF OneActiveVisit

LEMMA CommitDrafts ==
  ASSUME FloorInv, NEW W, Applied(W), Sound(W), DraftWrites(W), DraftsMoved,
         \A p, q \in DOMAIN db.quoteVisit :
           p.report # 0 /\ q.report # 0 /\ db.quoteVisit[p] = db.quoteVisit[q] => p = q
  PROVE  DraftsMoved' /\ DraftedOnce'
<1>1. \A q \in DOMAIN db.quoteVisit : db.quoteVisit[q] \in DOMAIN db.visitStatus
  BY FloorKeys
<1>2. ASSUME NEW q \in DOMAIN db'.quoteVisit, q.report # 0
      PROVE  db'.visitStatus[db'.quoteVisit[q]] \notin Inspectable
  BY <1>1, <1>2, CommittedVisits DEF DraftWrites, DraftsMoved
<1>3. ASSUME NEW p \in DOMAIN db'.quoteVisit, NEW q \in DOMAIN db'.quoteVisit,
             p.report # 0, q.report # 0, db'.quoteVisit[p] = db'.quoteVisit[q]
      PROVE  p = q
  BY <1>1, <1>3, CommittedVisits DEF DraftWrites, DraftsMoved
<1>. QED
  BY <1>2, <1>3 DEF DraftsMoved, DraftedOnce

LEMMA VisitsCommitInv ==
  ASSUME VisitsInv, NEW s \in load.sessions, Commit(s, Permitted(txn[s]))
  PROVE  VisitsInv'
<1>. DEFINE W == txn[s]
<1>1. /\ s \in DOMAIN txn /\ Sound(W) /\ Applied(W)
      /\ DOMAIN txn' = DOMAIN txn \ {s} /\ load' = load
  BY CommitApplied DEF VisitsInv
<1>2. FloorInv'
  BY FloorCommitInv DEF VisitsInv
<1>3. CASE Serial
  <2>1. DOMAIN txn' = {} /\ Decided(W)
    BY <1>1, <1>3 DEF VisitsInv, FloorInv, Serial
  <2>2. OneActiveVisit' /\ DraftsMoved' /\ DraftedOnce'
    BY <1>1, <1>3, <2>1, CommitOneActive, CommitDrafts
       DEF VisitsInv, OneActiveVisit, DraftedOnce, Decided
  <2>. QED
    BY <1>2, <2>1, <2>2 DEF VisitsInv
<1>4. CASE ~Serial
  BY <1>1, <1>2, <1>4 DEF VisitsInv, Serial, OneActiveVisit, DraftedOnce
<1>. QED
  BY <1>3, <1>4

\* A step is a request that begins with sound writes, a commit, or a rollback.
LEMMA VisitsStep ==
  ASSUME FloorInv, VisitsNext
  PROVE  \E s \in load.sessions :
           SoundRequest(s) \/ Commit(s, Permitted(txn[s])) \/ Rollback(s)
BY FrontDeskRequestSound, BayRequestSound, InspectionRequestSound, OrderRequestSound DEF VisitsNext

LEMMA VisitsNextInv == VisitsInv /\ [VisitsNext]_vars => VisitsInv'
<1>. SUFFICES ASSUME VisitsInv, [VisitsNext]_vars PROVE VisitsInv'
  OBVIOUS
<1>1. CASE UNCHANGED vars
  <2>1. db' = db /\ txn' = txn /\ load' = load
    BY <1>1 DEF vars
  <2>2. FloorInv'
    <3>1. ASSUME NEW r \in DOMAIN txn' PROVE Sound(txn[r])'
      BY <2>1 DEF VisitsInv, FloorInv, Sound
    <3>. QED
      BY <2>1, <3>1, SameFloor DEF VisitsInv, FloorInv
  <2>3. ASSUME Serial, NEW r \in DOMAIN txn' PROVE Decided(txn[r])'
    <3>1. Decided(txn'[r])
      BY <2>1, <2>3 DEF VisitsInv
    <3>. QED
      BY <2>1, <3>1 DEF Decided, OneVisitWrites, DraftWrites, ServiceWrites, CheckOutWrites,
                        WorkOrders, OpenQuotes
  <2>. QED
    BY <2>1, <2>2, <2>3, SameVisits DEF VisitsInv
<1>2. CASE VisitsNext
  <2>1. FloorInv
    BY DEF VisitsInv
  <2>2. PICK s \in load.sessions :
          SoundRequest(s) \/ Commit(s, Permitted(txn[s])) \/ Rollback(s)
    BY <1>2, <2>1, VisitsStep
  <2>. QED
    BY <2>2, VisitsBeginInv, VisitsCommitInv, VisitsRollbackInv
<1>. QED
  BY <1>1, <1>2

----------------------------------------------------------------------------

\* Visits and what belongs to them are whole and well-typed, whatever requests run
\* together: no request leaves a quote without a visit or an item without a work order.
THEOREM VisitsTypeCorrect == VisitsSpec => []VisitsTypeOK
<1>1. VisitsInv => VisitsTypeOK
  BY DEF VisitsInv, FloorInv, Sound, VisitsTypeOK
<1>. QED
  BY <1>1, VisitsInitInv, VisitsNextInv, PTL DEF VisitsSpec

\* A vehicle is checked in once: while requests run one after another, no handler reopens
\* a completed visit beside a new one.
THEOREM VehiclesCheckedInOnce == VisitsSpec => []OneActiveVisit
<1>1. VisitsInv => OneActiveVisit
  BY DEF VisitsInv
<1>. QED
  BY <1>1, VisitsInitInv, VisitsNextInv, PTL DEF VisitsSpec

\* However many reports a visit has and whoever moves it by hand, only one drafts a quote.
THEOREM VisitsDraftedOnce == VisitsSpec => []DraftedOnce
<1>1. VisitsInv => DraftedOnce
  BY DEF VisitsInv
<1>. QED
  BY <1>1, VisitsInitInv, VisitsNextInv, PTL DEF VisitsSpec

\* A step that changes a row of a visit is the commit of a request that decided on the
\* rows as they still are.
LEMMA SerialStep ==
  ASSUME VisitsInv, VisitsNext, Serial
  PROVE  \/ db' = db
         \/ \E W : Decided(W) /\ Sound(W) /\ Applied(W)
<1>1. PICK s \in load.sessions :
        SoundRequest(s) \/ Commit(s, Permitted(txn[s])) \/ Rollback(s)
  BY VisitsStep DEF VisitsInv
<1>2. CASE SoundRequest(s)
  <2>1. PICK W : Begin(s, W)
    BY <1>2 DEF SoundRequest
  <2>. QED
    BY <2>1 DEF Begin
<1>3. CASE Commit(s, Permitted(txn[s]))
  BY <1>3, CommitApplied DEF VisitsInv
<1>. QED
  BY <1>1, <1>2, <1>3 DEF Rollback

LEMMA StepOrders ==
  ASSUME VisitsInv, VisitsNext, Serial, NEW v \in DOMAIN db.visitStatus,
         db.visitStatus[v] # "in_service", db'.visitStatus[v] = "in_service"
  PROVE  \/ WorkOrders(v) # {}
         \/ /\ db.visitStatus[v] = "awaiting_quote"
            /\ \E q \in DOMAIN db.quoteVisit :
                 /\ db.quoteVisit[q] = v
                 /\ db.quoteStatus[q] # "approved" => db'.quoteStatus[q] = "approved"
<1>1. PICK W : Decided(W) /\ Sound(W) /\ Applied(W)
  BY SerialStep
<1>2. v \in DOMAIN W.visitStatus /\ W.visitStatus[v] = "in_service"
  BY <1>1, CommittedVisits DEF VisitsInv
<1>3. \A q \in DOMAIN W.quoteStatus : db'.quoteStatus[q] = W.quoteStatus[q]
  <2>1. db'.quoteStatus = Overlay(W.quoteStatus, db.quoteStatus)
    BY <1>1 DEF Applied, FloorColumns
  <2>. QED
    BY <2>1 DEF Overlay
<1>. QED
  BY <1>1, <1>2, <1>3 DEF Decided, ServiceWrites

\* While requests run one after another, no visit enters service that has neither a work
\* order nor a quote whose approval it waited for.
THEOREM VisitsEnterServiceOrdered == VisitsSpec => ServiceIsOrdered
<1>1. VisitsInv /\ [VisitsNext]_vars =>
        [Serial => \A v \in DOMAIN db.visitStatus :
           db.visitStatus[v] # "in_service" /\ db'.visitStatus[v] = "in_service" =>
             \/ WorkOrders(v) # {}
             \/ /\ db.visitStatus[v] = "awaiting_quote"
                /\ \E q \in DOMAIN db.quoteVisit :
                     /\ db.quoteVisit[q] = v
                     /\ db.quoteStatus[q] # "approved" => db'.quoteStatus[q] = "approved"]_vars
  BY StepOrders
<1>. QED
  BY <1>1, VisitsInitInv, VisitsNextInv, PTL DEF VisitsSpec, ServiceIsOrdered

LEMMA StepChecksOut ==
  ASSUME VisitsInv, VisitsNext, Serial, NEW v \in DOMAIN db'.checkedOut \ DOMAIN db.checkedOut
  PROVE  /\ \A w \in WorkOrders(v) \cap DOMAIN db.paid : db.paid[w]
         /\ OpenQuotes(v)' = {}
         /\ db'.visitStatus[v] = "completed"
<1>1. PICK W : Decided(W) /\ Sound(W) /\ Applied(W)
  BY SerialStep
<1>2. v \in DOMAIN W.checkedOut /\ CheckOutWrites(W)
  BY <1>1 DEF Applied, FloorColumns, Decided
<1>3. /\ db'.quoteStatus = Overlay(W.quoteStatus, db.quoteStatus)
      /\ db'.quoteVisit = db.quoteVisit
  <2>1. db'.quoteVisit = Overlay(Empty, db.quoteVisit)
    BY <1>1, <1>2 DEF Applied, FloorColumns, CheckOutWrites
  <2>2. db.quoteVisit = [k \in DOMAIN db.quoteVisit |-> db.quoteVisit[k]]
    BY DEF VisitsInv, FloorInv, IsFloor, QuoteTable, IsColumn
  <2>3. Overlay(Empty, db.quoteVisit) = db.quoteVisit
    BY <2>2, EmptyRows DEF Overlay
  <2>. QED
    BY <1>1, <2>1, <2>3 DEF Applied, FloorColumns
<1>4. ASSUME NEW q \in OpenQuotes(v)' PROVE FALSE
  <2>1. q \in DOMAIN db.quoteVisit /\ db.quoteVisit[q] = v
        /\ db'.quoteStatus[q] \in {"draft", "issued"}
    BY <1>3, <1>4 DEF OpenQuotes
  <2>2. q \in DOMAIN db.quoteStatus
    BY <2>1, FloorKeys DEF VisitsInv
  <2>3. CASE q \in DOMAIN W.quoteStatus
    BY <1>2, <1>3, <2>1, <2>3 DEF Overlay, CheckOutWrites
  <2>4. CASE q \notin DOMAIN W.quoteStatus
    BY <1>2, <1>3, <2>1, <2>2, <2>4 DEF Overlay, CheckOutWrites, OpenQuotes
  <2>. QED
    BY <2>3, <2>4
<1>5. db'.visitStatus[v] = "completed"
  BY <1>1, <1>2, CommittedVisits DEF VisitsInv, CheckOutWrites
<1>. QED
  BY <1>2, <1>4, <1>5 DEF CheckOutWrites

\* While requests run one after another, a vehicle that leaves is paid for, none of its
\* quotes stays open, and its visit is completed with it.
THEOREM VehiclesLeavePaid == VisitsSpec => CheckedOutPaid
<1>1. VisitsInv /\ [VisitsNext]_vars =>
        [Serial => \A v \in DOMAIN db'.checkedOut \ DOMAIN db.checkedOut :
           /\ \A w \in WorkOrders(v) \cap DOMAIN db.paid : db.paid[w]
           /\ OpenQuotes(v)' = {}
           /\ db'.visitStatus[v] = "completed"]_vars
  BY StepChecksOut
<1>. QED
  BY <1>1, VisitsInitInv, VisitsNextInv, PTL DEF VisitsSpec, CheckedOutPaid
=============================================================================
