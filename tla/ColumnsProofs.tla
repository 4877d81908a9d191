--------------------------- MODULE ColumnsProofs ---------------------------
(***************************************************************************)
(* What the columns of a table do, for the proofs about all components:    *)
(* types and rows of writes, and sums over sets of rows.                   *)
(***************************************************************************)
EXTENDS Columns, Functions, FiniteSetTheorems, TLAPS

\* No writes to a column: well-typed whatever the column holds.
LEMMA EmptyColumn ==
  ASSUME NEW S, NEW T
  PROVE  IsColumn(Empty, S, T)
BY DEF IsColumn, Empty

\* One INSERT, or one UPDATE of one row.
LEMMA AtColumn ==
  ASSUME NEW S, NEW T, NEW k \in S, NEW v \in T
  PROVE  IsColumn(At(k, v), S, T)
BY DEF IsColumn, At

\* Which rows that is.
LEMMA EmptyRows == DOMAIN Empty = {}
BY DEF Empty

LEMMA AtRow ==
  ASSUME NEW k, NEW v
  PROVE  DOMAIN At(k, v) = {k} /\ At(k, v)[k] = v
BY DEF At

\* What the ORM emits for one assignment.
LEMMA UpdateTyped ==
  ASSUME NEW S, NEW T, NEW column, NEW k \in S, NEW v \in T
  PROVE  IsColumn(Update(column, k, v), S, T)
BY EmptyColumn, AtColumn DEF Update

\* And to which row.
LEMMA UpdateColumn ==
  ASSUME NEW S, NEW T, NEW column, NEW k \in S, NEW v \in T
  PROVE  /\ IsColumn(Update(column, k, v), S, T)
         /\ DOMAIN Update(column, k, v) \subseteq {k}
BY EmptyColumn, AtColumn, EmptyRows, AtRow DEF Update

\* An assignment writes the row it is made to and no other.
LEMMA UpdateRow ==
  ASSUME NEW column, NEW k, NEW v
  PROVE  DOMAIN Update(column, k, v) \subseteq {k} /\ DOMAIN At(k, v) = {k} /\ DOMAIN Empty = {}
BY DEF Update, At, Empty

\* Applying well-typed writes to a well-typed column.
LEMMA OverlayColumn ==
  ASSUME NEW S, NEW T, NEW f, NEW g, IsColumn(f, S, T), IsColumn(g, S, T)
  PROVE  IsColumn(Overlay(f, g), S, T)
BY DEF IsColumn, Overlay

\* The writes of one assignment, or of none, are finitely many.
LEMMA FewRows ==
  ASSUME NEW k, NEW S, S \subseteq {k}
  PROVE  IsFiniteSet(S)
<1>1. IsFiniteSet({k})
  BY FS_Singleton
<1>. QED
  BY <1>1, FS_Subset

\* Finitely many writes leave finitely many rows.
LEMMA OverlayFinite ==
  ASSUME NEW f, NEW g, IsFiniteSet(DOMAIN f), IsFiniteSet(DOMAIN g)
  PROVE  IsFiniteSet(DOMAIN Overlay(f, g))
<1>. DEFINE S == DOMAIN f
            T == DOMAIN g
<1>1. IsFiniteSet(S) /\ IsFiniteSet(T) /\ DOMAIN Overlay(f, g) = S \cup T
  BY DEF Overlay
<1>. HIDE DEF S, T
<1>2. IsFiniteSet(S \cup T)
  BY <1>1, FS_Union
<1>. QED
  BY <1>1, <1>2

\* A column without writes.
LEMMA OverlayEmpty ==
  ASSUME NEW S, NEW T, NEW f, IsColumn(f, S, T)
  PROVE  Overlay(Empty, f) = f
BY DEF IsColumn, Overlay, Empty

----------------------------------------------------------------------------
(* Sums.  SumFunctionOnSet of the module Functions chooses the rows one by  *)
(* one.  Induction over finite sets is by a smallest counterexample: a set  *)
(* of subsets of a finite set, unless it is empty, has a member none of     *)
(* whose proper subsets is a member.                                        *)

LEMMA SmallestSubset ==
  ASSUME NEW S, IsFiniteSet(S), NEW Bad \in SUBSET SUBSET S, Bad # {}
  PROVE  \E T \in Bad : \A U \in SUBSET T : U # T => U \notin Bad
<1>1. IsWellFoundedOn(StrictSubsetOrdering(S), SUBSET S)
  BY FS_StrictSubsetOrderingWellFounded, FS_FiniteSubsetsOfFinite
<1>2. PICK T \in Bad : \A U \in Bad : ~ (<<U, T>> \in StrictSubsetOrdering(S))
  BY <1>1, WFMin
<1>3. ASSUME NEW U \in SUBSET T, U # T PROVE U \notin Bad
  BY <1>2, <1>3 DEF StrictSubsetOrdering
<1>. QED
  BY <1>3

\* The row that the fold takes first.
First(s) == CHOOSE x \in s : TRUE

\* iter is what the fold computes for the subsets of S.
IsFold(iter, fun, S) ==
  iter = [s \in SUBSET S |-> IF s = {} THEN 0 ELSE fun[First(s)] + iter[s \ {First(s)}]]

LEMMA FoldIsSum ==
  ASSUME NEW fun, NEW S
  PROVE  SumFunctionOnSet(fun, S) = (CHOOSE iter : IsFold(iter, fun, S))[S]
BY DEF SumFunctionOnSet, FoldFunctionOnSet, MapThenFoldSet, IsFold, First

LEMMA FirstIn ==
  ASSUME NEW s, s # {}
  PROVE  First(s) \in s
BY DEF First

\* Two folds agree where both are defined.
LEMMA FoldUnique ==
  ASSUME NEW fun, NEW S, NEW T, IsFiniteSet(S), NEW g, NEW h, IsFold(g, fun, S), IsFold(h, fun, T)
  PROVE  \A s \in (SUBSET S) \cap (SUBSET T) : g[s] = h[s]
<1>. DEFINE Bad == {s \in SUBSET S : s \subseteq T /\ g[s] # h[s]}
<1>1. SUFFICES ASSUME Bad # {} PROVE FALSE
  OBVIOUS
<1>2. PICK s \in Bad : \A u \in SUBSET s : u # s => u \notin Bad
  <2>1. Bad \in SUBSET SUBSET S
    OBVIOUS
  <2>. HIDE DEF Bad
  <2>. QED
    BY <1>1, <2>1, SmallestSubset
<1>3. CASE s = {}
  BY <1>2, <1>3 DEF IsFold
<1>4. CASE s # {}
  <2>. DEFINE x == First(s)
  <2>1. x \in s
    BY <1>4, FirstIn
  <2>2. g[s \ {x}] = h[s \ {x}]
    BY <1>2, <2>1
  <2>3. /\ g[s] = fun[x] + g[s \ {x}]
        /\ h[s] = fun[x] + h[s \ {x}]
    BY <1>2, <1>4 DEF IsFold
  <2>. QED
    BY <1>2, <2>2, <2>3
<1>. QED
  BY <1>3, <1>4

\* The fold of a finite set exists: the folds of its proper subsets are put together.
LEMMA FoldExists ==
  ASSUME NEW fun, NEW S, IsFiniteSet(S)
  PROVE  \E iter : IsFold(iter, fun, S)
<1>. DEFINE Bad == {T \in SUBSET S : ~ \E iter : IsFold(iter, fun, T)}
<1>1. SUFFICES ASSUME Bad # {} PROVE FALSE
  OBVIOUS
<1>2. PICK T \in Bad : \A U \in SUBSET T : U # T => U \notin Bad
  <2>1. Bad \in SUBSET SUBSET S
    OBVIOUS
  <2>. HIDE DEF Bad
  <2>. QED
    BY <1>1, <2>1, SmallestSubset
<1>3. \A U \in SUBSET T : IsFiniteSet(U)
  BY FS_Subset
<1>. DEFINE G(U) == CHOOSE iter : IsFold(iter, fun, U)
            V(U) == IF U = {} THEN 0 ELSE fun[First(U)] + G(U \ {First(U)})[U \ {First(U)}]
            h == [U \in SUBSET T |-> V(U)]
<1>4. \A U \in SUBSET T : U # T => IsFold(G(U), fun, U)
  BY <1>2
<1>5. ASSUME NEW U \in SUBSET T, U # T PROVE G(U)[U] = V(U)
  <2>1. CASE U = {}
    <3>1. IsFold(G(U), fun, U)
      BY <1>4, <1>5
    <3>. HIDE DEF G
    <3>. QED
      BY <2>1, <3>1 DEF IsFold
  <2>2. CASE U # {}
    <3>. DEFINE X == U \ {First(U)}
    <3>1. X \in SUBSET U /\ X \in SUBSET T /\ X # T
      BY <1>5
    <3>2. IsFold(G(U), fun, U) /\ IsFold(G(X), fun, X)
      BY <1>4, <1>5, <3>1
    <3>3. G(U)[X] = G(X)[X]
      <4>1. IsFiniteSet(U)
        BY <1>3
      <4>. HIDE DEF G, X
      <4>2. \A s \in (SUBSET U) \cap (SUBSET X) : G(U)[s] = G(X)[s]
        BY <3>2, <4>1, FoldUnique
      <4>. QED
        BY <3>1, <4>2
    <3>4. G(U)[U] = fun[First(U)] + G(U)[X]
      <4>. HIDE DEF G
      <4>. QED
        BY <2>2, <3>2 DEF IsFold
    <3>. HIDE DEF G
    <3>. QED
      BY <2>2, <3>3, <3>4
  <2>. QED
    BY <2>1, <2>2
<1>6. ASSUME NEW U \in SUBSET T, U # {}
      PROVE  G(U \ {First(U)})[U \ {First(U)}] = h[U \ {First(U)}]
  <2>. DEFINE X == U \ {First(U)}
  <2>1. X \in SUBSET T /\ X # T
    BY <1>6, FirstIn
  <2>2. G(X)[X] = V(X)
    BY <1>5, <2>1
  <2>. HIDE DEF G, V, X
  <2>3. h[X] = V(X)
    BY <2>1
  <2>. QED
    BY <2>2, <2>3 DEF X
<1>7. \A U \in SUBSET T : V(U) = IF U = {} THEN 0 ELSE fun[First(U)] + h[U \ {First(U)}]
  <2>. HIDE DEF G, h
  <2>. QED
    BY <1>6
<1>8. IsFold(h, fun, T)
  <2>. DEFINE X(U) == IF U = {} THEN 0 ELSE fun[First(U)] + h[U \ {First(U)}]
  <2>1. \A U \in SUBSET T : V(U) = X(U)
    BY <1>7
  <2>2. h = [U \in SUBSET T |-> V(U)]
    OBVIOUS
  <2>. HIDE DEF h, V, X
  <2>3. h = [U \in SUBSET T |-> X(U)]
    BY <2>1, <2>2
  <2>. QED
    BY <2>3 DEF IsFold, X
<1>. QED
  BY <1>2, <1>8

LEMMA FoldChosen ==
  ASSUME NEW fun, NEW S, IsFiniteSet(S)
  PROVE  IsFold(CHOOSE iter : IsFold(iter, fun, S), fun, S)
BY FoldExists

----------------------------------------------------------------------------
(* What sums come to.                                                      *)

\* Nothing sums to 0.
LEMMA SumEmpty ==
  ASSUME NEW fun
  PROVE  SumFunctionOnSet(fun, {}) = 0
<1>. DEFINE g == CHOOSE iter : IsFold(iter, fun, {})
<1>1. IsFold(g, fun, {})
  BY FS_EmptySet, FoldChosen
<1>2. SumFunctionOnSet(fun, {}) = g[{}]
  BY FoldIsSum
<1>. HIDE DEF g
<1>. QED
  BY <1>1, <1>2 DEF IsFold

\* The row taken first and the sum of the others.
LEMMA SumFirst ==
  ASSUME NEW fun, NEW S, IsFiniteSet(S), S # {}
  PROVE  SumFunctionOnSet(fun, S) = fun[First(S)] + SumFunctionOnSet(fun, S \ {First(S)})
<1>. DEFINE T == S \ {First(S)}
            g == CHOOSE iter : IsFold(iter, fun, S)
            h == CHOOSE iter : IsFold(iter, fun, T)
<1>1. IsFiniteSet(T)
  BY FS_RemoveElement
<1>2. IsFold(g, fun, S) /\ SumFunctionOnSet(fun, S) = g[S]
  BY FoldChosen, FoldIsSum
<1>3. IsFold(h, fun, T) /\ SumFunctionOnSet(fun, T) = h[T]
  BY <1>1, FoldChosen, FoldIsSum
<1>. HIDE DEF g, h
<1>4. g[S] = fun[First(S)] + g[T]
  BY <1>2 DEF IsFold
<1>5. g[T] = h[T]
  BY <1>2, <1>3, FoldUnique
<1>. QED
  BY <1>2, <1>3, <1>4, <1>5

\* Columns that agree on the rows have the same sum.
LEMMA SumSame ==
  ASSUME NEW f, NEW g, NEW S, IsFiniteSet(S), \A x \in S : f[x] = g[x]
  PROVE  SumFunctionOnSet(f, S) = SumFunctionOnSet(g, S)
<1>. DEFINE Bad == {T \in SUBSET S : SumFunctionOnSet(f, T) # SumFunctionOnSet(g, T)}
<1>1. SUFFICES ASSUME Bad # {} PROVE FALSE
  OBVIOUS
<1>2. PICK T \in Bad : \A U \in SUBSET T : U # T => U \notin Bad
  <2>1. Bad \in SUBSET SUBSET S
    OBVIOUS
  <2>. HIDE DEF Bad
  <2>. QED
    BY <1>1, <2>1, SmallestSubset
<1>3. T # {}
  BY <1>2, SumEmpty
<1>4. First(T) \in T /\ IsFiniteSet(T)
  BY <1>3, FirstIn, FS_Subset
<1>5. SumFunctionOnSet(f, T \ {First(T)}) = SumFunctionOnSet(g, T \ {First(T)})
  BY <1>2, <1>4
<1>6. /\ SumFunctionOnSet(f, T) = f[First(T)] + SumFunctionOnSet(f, T \ {First(T)})
      /\ SumFunctionOnSet(g, T) = g[First(T)] + SumFunctionOnSet(g, T \ {First(T)})
  BY <1>3, <1>4, SumFirst
<1>. QED
  BY <1>2, <1>4, <1>5, <1>6

\* A sum of amounts is an amount.
LEMMA SumNat ==
  ASSUME NEW f, NEW S, IsFiniteSet(S), \A x \in S : f[x] \in Nat
  PROVE  SumFunctionOnSet(f, S) \in Nat
<1>. DEFINE Bad == {T \in SUBSET S : SumFunctionOnSet(f, T) \notin Nat}
<1>1. SUFFICES ASSUME Bad # {} PROVE FALSE
  OBVIOUS
<1>2. PICK T \in Bad : \A U \in SUBSET T : U # T => U \notin Bad
  <2>1. Bad \in SUBSET SUBSET S
    OBVIOUS
  <2>. HIDE DEF Bad
  <2>. QED
    BY <1>1, <2>1, SmallestSubset
<1>3. T # {}
  <2>1. SumFunctionOnSet(f, {}) \in Nat
    BY SumEmpty
  <2>. QED
    BY <1>2, <2>1
<1>4. First(T) \in T /\ IsFiniteSet(T)
  BY <1>3, FirstIn, FS_Subset
<1>5. SumFunctionOnSet(f, T \ {First(T)}) \in Nat
  BY <1>2, <1>4
<1>6. SumFunctionOnSet(f, T) = f[First(T)] + SumFunctionOnSet(f, T \ {First(T)})
  BY <1>3, <1>4, SumFirst
<1>. QED
  BY <1>2, <1>4, <1>5, <1>6

\* Whichever row is taken out: the order of addition does not matter.
LEMMA SumRemove ==
  ASSUME NEW f, NEW S, IsFiniteSet(S), \A x \in S : f[x] \in Nat, NEW y \in S
  PROVE  SumFunctionOnSet(f, S) = f[y] + SumFunctionOnSet(f, S \ {y})
<1>. DEFINE Bad == {T \in SUBSET S : \E z \in T :
                      SumFunctionOnSet(f, T) # f[z] + SumFunctionOnSet(f, T \ {z})}
<1>1. SUFFICES ASSUME Bad # {} PROVE FALSE
  OBVIOUS
<1>2. PICK T \in Bad : \A U \in SUBSET T : U # T => U \notin Bad
  <2>1. Bad \in SUBSET SUBSET S
    OBVIOUS
  <2>. HIDE DEF Bad
  <2>. QED
    BY <1>1, <2>1, SmallestSubset
<1>3. PICK z \in T : SumFunctionOnSet(f, T) # f[z] + SumFunctionOnSet(f, T \ {z})
  BY <1>2
<1>. DEFINE x == First(T)
<1>4. x \in T /\ IsFiniteSet(T)
  BY <1>2, <1>3, FirstIn, FS_Subset
<1>5. SumFunctionOnSet(f, T) = f[x] + SumFunctionOnSet(f, T \ {x})
  BY <1>3, <1>4, SumFirst
<1>. HIDE DEF x
<1>6. x # z
  BY <1>3, <1>5
<1>7. SumFunctionOnSet(f, T \ {x}) = f[z] + SumFunctionOnSet(f, (T \ {x}) \ {z})
  <2>1. T \ {x} \in SUBSET T /\ T \ {x} # T /\ z \in T \ {x} /\ T \in SUBSET S
    BY <1>2, <1>3, <1>4, <1>6
  <2>2. T \ {x} \notin Bad
    BY <1>2, <2>1
  <2>. QED
    BY <2>1, <2>2
<1>8. SumFunctionOnSet(f, T \ {z}) = f[x] + SumFunctionOnSet(f, (T \ {z}) \ {x})
  <2>1. T \ {z} \in SUBSET T /\ T \ {z} # T /\ x \in T \ {z} /\ T \in SUBSET S
    BY <1>2, <1>3, <1>4, <1>6
  <2>2. T \ {z} \notin Bad
    BY <1>2, <2>1
  <2>. QED
    BY <2>1, <2>2
<1>9. (T \ {z}) \ {x} = (T \ {x}) \ {z}
  OBVIOUS
<1>10. SumFunctionOnSet(f, (T \ {x}) \ {z}) \in Nat /\ f[x] \in Nat /\ f[z] \in Nat
  <2>. DEFINE U == (T \ {x}) \ {z}
  <2>1. IsFiniteSet(U) /\ \A u \in U : f[u] \in Nat
    BY <1>2, <1>4, FS_Subset
  <2>2. SumFunctionOnSet(f, U) \in Nat
    <3>. HIDE DEF U
    <3>. QED
      BY <2>1, SumNat
  <2>. QED
    BY <1>2, <1>3, <1>4, <2>2
<1>. QED
  BY <1>3, <1>5, <1>7, <1>8, <1>9, <1>10

\* A row is added.
LEMMA SumAdd ==
  ASSUME NEW f, NEW S, IsFiniteSet(S), NEW y, y \notin S, \A x \in S \cup {y} : f[x] \in Nat
  PROVE  SumFunctionOnSet(f, S \cup {y}) = f[y] + SumFunctionOnSet(f, S)
<1>1. IsFiniteSet(S \cup {y}) /\ (S \cup {y}) \ {y} = S
  BY FS_AddElement
<1>. QED
  BY <1>1, SumRemove
=============================================================================
