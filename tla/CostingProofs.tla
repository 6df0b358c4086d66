----------------------------- MODULE CostingProofs -----------------------------
(***************************************************************************)
(* Two theorems, for any products, bills, formulas and processes.          *)
(*                                                                         *)
(* The cost of a product is current unless something is known to have left *)
(* it behind.  Nothing is needed of what the walk computes: it is a        *)
(* function of what a rebuild reads, and the argument is about who changes *)
(* that and who rebuilds afterwards.                                       *)
(*                                                                         *)
(* A conversion keeps the value of the stock.  Here the walk is opened:    *)
(* with no bill dated later it ends with the rows of the run, the output's *)
(* row finds the run's own cost in the log because made rows and log       *)
(* entries pair up (Paired), and the worths before and after are compared  *)
(* over one common denominator.                                            *)
(***************************************************************************)
EXTENDS CostRangeProofs

\* Every variable is a function on its domain.
Shape ==
    /\ bill = [k \in Lines |-> bill[k]]
    /\ moves = [p \in Products |-> moves[p]]
    /\ log = [p \in Products |-> log[p]]
    /\ opening = [p \in Products |-> opening[p]]
    /\ ledger = [p \in Products |-> ledger[p]]
    /\ price = [p \in Products |-> price[p]]
    /\ todo = [w \in Workers |-> todo[w]]

IInv == Shape /\ CostIsCurrent

-----------------------------------------------------------------------------
\* A cost that was current stays current when neither what a rebuild would read
\* nor what the last one stored has changed.
LEMMA Kept ==
    ASSUME NEW p \in Products, Current(p),
           PricesOf(p)' = PricesOf(p), RowsOf(p)' = RowsOf(p),
           ledger'[p] = ledger[p], price'[p] = price[p]
    PROVE  Current(p)'
<1>1. WalkOf(p)' = WalkOf(p)
  BY DEF WalkOf
<1> QED
  BY <1>1 DEF Current

\* What a rebuild of p reads depends on the lines and moves of p alone.
LEMMA SameReads ==
    ASSUME NEW p \in Products,
           \A k \in Lines : ProductOf[k] = p => bill'[k] = bill[k],
           log'[p] = log[p], opening'[p] = opening[p], moves'[p] = moves[p]
    PROVE  PricesOf(p)' = PricesOf(p) /\ RowsOf(p)' = RowsOf(p)
<1>1. OwnLines(p, bill)' = OwnLines(p, bill)
  BY DEF OwnLines
<1> QED
  BY <1>1 DEF PricesOf, RowsOf

\* A product that is stored as its walk comes out is current.
LEMMA Fresh ==
    ASSUME NEW p \in Products, NEW old, 
           ledger'[p] = LedgerFrom(WalkOf(p)'), price'[p] = PriceFrom(WalkOf(p)', old)
    PROVE  Current(p)'
BY DEF Current, PriceFrom

-----------------------------------------------------------------------------
LEMMA InitShape == Init => Shape
BY DEF Init, Shape

LEMMA NextShape == Shape /\ [Next]_vars => Shape'
<1> SUFFICES ASSUME Shape, [Next]_vars PROVE Shape'
  OBVIOUS
<1> USE DEF Shape
<1>1. ASSUME NEW w \in Workers, NEW f \in Uploads, Import(w, f) PROVE Shape'
  BY <1>1 DEF Import, Uploads
<1>2. ASSUME NEW k \in Lines, NEW b \in Versions[k], MapLine(k, b) PROVE Shape'
  BY <1>2 DEF MapLine
<1>3. ASSUME NEW k \in Lines, NEW b \in MayBe(k), Rebuild(k, b) PROVE Shape'
  BY <1>3 DEF Rebuild
<1>4. ASSUME NEW w \in Workers, NEW p \in Products, NEW o \in Openings, EditOpening(w, p, o)
      PROVE Shape'
  BY <1>4 DEF EditOpening
<1>5. ASSUME NEW p \in Products, NEW n \in Levels, Count(p, n) PROVE Shape'
  BY <1>5 DEF Count
<1>6. ASSUME NEW w \in Workers, NEW f \in Formulas, NEW loss \in Losses, NEW ref \in Refs,
             NEW t \in Tokens, RunConversion(w, f, loss, ref, t)
      PROVE Shape'
  BY <1>6 DEF RunConversion
<1>7. ASSUME NEW w \in Workers, NEW p \in Products, Visit(w, p) PROVE Shape'
  BY <1>7 DEF Visit
<1>8. ASSUME NEW w \in Workers, ReadPrices(w) \/ ReadRows(w) \/ Store(w) \/ Abandon(w)
      PROVE Shape'
  BY <1>8 DEF ReadPrices, ReadRows, Store, Abandon
<1>9. CASE UNCHANGED vars
  BY <1>9 DEF vars
<1> QED
  BY <1>1, <1>2, <1>3, <1>4, <1>5, <1>6, <1>7, <1>8, <1>9 DEF Next

-----------------------------------------------------------------------------
\* A commit that leaves w's products to be rebuilt by w.
LEMMA Owing ==
    ASSUME NEW w \in Workers, NEW P, Shape, Idle(w), todo' = [todo EXCEPT ![w] = P]
    PROVE  Owed' = Owed \cup P
<1>1. \A v \in Workers : todo'[v] = IF v = w THEN P ELSE todo[v]
  BY DEF Shape
<1>2. todo[w] = {}
  BY DEF Idle
<1> QED
  BY <1>1, <1>2 DEF Owed

LEMMA ImportKeepsCurrent ==
    ASSUME NEW w \in Workers, NEW f \in Uploads, IInv, Import(w, f)
    PROVE  CostIsCurrent'
<1>1. Owed' = Owed \cup Affected(f)
  BY Owing DEF Import, IInv
<1> SUFFICES ASSUME NEW p \in Products, p \notin Owed', p \notin stale'
             PROVE  Current(p)'
  BY DEF CostIsCurrent
<1>2. Current(p)
  BY <1>1 DEF CostIsCurrent, IInv, Import
<1>3. \A k \in Lines : ProductOf[k] = p => bill'[k] = bill[k]
  BY <1>1 DEF Import, Affected
<1>4. PricesOf(p)' = PricesOf(p) /\ RowsOf(p)' = RowsOf(p)
  BY <1>3, SameReads DEF Import
<1> QED
  BY <1>2, <1>4, Kept DEF Import

LEMMA MapLineKeepsCurrent ==
    ASSUME NEW k \in Lines, NEW b \in Versions[k], IInv, MapLine(k, b)
    PROVE  CostIsCurrent'
<1> SUFFICES ASSUME NEW p \in Products, p \notin Owed', p \notin stale'
             PROVE  Current(p)'
  BY DEF CostIsCurrent
<1>1. Current(p) /\ p # ProductOf[k]
  BY DEF CostIsCurrent, IInv, MapLine, Owed
<1>2. \A j \in Lines : ProductOf[j] = p => bill'[j] = bill[j]
  BY <1>1 DEF MapLine, IInv, Shape
<1>3. PricesOf(p)' = PricesOf(p) /\ RowsOf(p)' = RowsOf(p)
  BY <1>2, SameReads DEF MapLine
<1> QED
  BY <1>1, <1>3, Kept DEF MapLine

LEMMA RebuildKeepsCurrent ==
    ASSUME NEW k \in Lines, NEW b \in MayBe(k), IInv, Rebuild(k, b)
    PROVE  CostIsCurrent'
<1> SUFFICES ASSUME NEW p \in Products, p \notin Owed', p \notin stale'
             PROVE  Current(p)'
  BY DEF CostIsCurrent
<1>1. CASE p = ProductOf[k]
  <2>1. bill' = [bill EXCEPT ![k] = b] /\ moves' = moves /\ log' = log /\ opening' = opening
    BY DEF Rebuild
  <2> DEFINE own == OwnLines(p, [bill EXCEPT ![k] = b])
             cost == Walk([opening |-> opening[p], bill |-> own, log |-> log[p]],
                          [bill |-> own, moves |-> moves[p]])
  <2>2. WalkOf(p)' = cost
    BY <2>1 DEF WalkOf, PricesOf, RowsOf
  <2>3. ledger' = [ledger EXCEPT ![p] = LedgerFrom(cost)]
        /\ price' = [price EXCEPT ![p] = PriceFrom(cost, @)]
    BY <1>1 DEF Rebuild
  <2>4. ledger'[p] = LedgerFrom(cost) /\ price'[p] = PriceFrom(cost, price[p])
    BY <2>3 DEF IInv, Shape
  <2> QED
    BY <2>2, <2>4, Fresh
<1>2. CASE p # ProductOf[k]
  <2>1. Current(p)
    BY <1>2 DEF CostIsCurrent, IInv, Rebuild, Owed
  <2>2. \A j \in Lines : ProductOf[j] = p => bill'[j] = bill[j]
    BY <1>2 DEF Rebuild, IInv, Shape
  <2>3. PricesOf(p)' = PricesOf(p) /\ RowsOf(p)' = RowsOf(p)
    BY <2>2, SameReads DEF Rebuild
  <2>4. ledger'[p] = ledger[p] /\ price'[p] = price[p]
    BY <1>2 DEF Rebuild, IInv, Shape
  <2> QED
    BY <2>1, <2>3, <2>4, Kept
<1> QED
  BY <1>1, <1>2

LEMMA EditOpeningKeepsCurrent ==
    ASSUME NEW w \in Workers, NEW q \in Products, NEW o \in Openings, IInv,
           EditOpening(w, q, o)
    PROVE  CostIsCurrent'
<1>1. Owed' = Owed \cup {q}
  BY Owing DEF EditOpening, IInv
<1> SUFFICES ASSUME NEW p \in Products, p \notin Owed', p \notin stale'
             PROVE  Current(p)'
  BY DEF CostIsCurrent
<1>2. Current(p) /\ p # q
  BY <1>1 DEF CostIsCurrent, IInv, EditOpening
<1>3. opening'[p] = opening[p] /\ price'[p] = price[p]
  BY <1>2 DEF EditOpening, IInv, Shape
<1>4. PricesOf(p)' = PricesOf(p) /\ RowsOf(p)' = RowsOf(p)
  BY <1>3, SameReads DEF EditOpening
<1> QED
  BY <1>2, <1>3, <1>4, Kept DEF EditOpening

LEMMA CountKeepsCurrent ==
    ASSUME NEW q \in Products, NEW n \in Levels, IInv, Count(q, n)
    PROVE  CostIsCurrent'
<1> SUFFICES ASSUME NEW p \in Products, p \notin Owed', p \notin stale'
             PROVE  Current(p)'
  BY DEF CostIsCurrent
<1>1. Current(p) /\ p # q
  BY DEF CostIsCurrent, IInv, Count, Owed
<1>2. moves'[p] = moves[p]
  BY <1>1 DEF Count, IInv, Shape
<1>3. PricesOf(p)' = PricesOf(p) /\ RowsOf(p)' = RowsOf(p)
  BY <1>2, SameReads DEF Count
<1> QED
  BY <1>1, <1>3, Kept DEF Count

LEMMA RunKeepsCurrent ==
    ASSUME NEW w \in Workers, NEW f \in Formulas, NEW loss \in Losses, NEW ref \in Refs,
           NEW t \in Tokens, IInv, RunConversion(w, f, loss, ref, t)
    PROVE  CostIsCurrent'
<1>1. Owed' = Owed \cup Involved(f)
  BY Owing DEF RunConversion, IInv
<1> SUFFICES ASSUME NEW p \in Products, p \notin Owed', p \notin stale'
             PROVE  Current(p)'
  BY DEF CostIsCurrent
<1>2. Current(p) /\ p \notin Inputs(f) /\ p # OutputOf[f]
  BY <1>1 DEF CostIsCurrent, IInv, RunConversion, Involved
<1>3. moves'[p] = moves[p] /\ log'[p] = log[p]
  BY <1>2 DEF RunConversion, IInv, Shape
<1>4. ledger'[p] = ledger[p] /\ price'[p] = price[p]
  BY <1>2 DEF RunConversion, Bare
<1>5. PricesOf(p)' = PricesOf(p) /\ RowsOf(p)' = RowsOf(p)
  BY <1>3, SameReads DEF RunConversion
<1> QED
  BY <1>2, <1>4, <1>5, Kept

LEMMA VisitKeepsCurrent ==
    ASSUME NEW w \in Workers, NEW q \in Products, IInv, Visit(w, q)
    PROVE  CostIsCurrent'
<1>1. Owed' = Owed \cup {q}
  BY Owing DEF Visit, IInv
<1> SUFFICES ASSUME NEW p \in Products, p \notin Owed', p \notin stale'
             PROVE  Current(p)'
  BY DEF CostIsCurrent
<1>2. Current(p)
  BY <1>1 DEF CostIsCurrent, IInv, Visit
<1>3. PricesOf(p)' = PricesOf(p) /\ RowsOf(p)' = RowsOf(p)
  BY SameReads DEF Visit
<1> QED
  BY <1>2, <1>3, Kept DEF Visit

\* A batch whose first product was outrun leaves that one stale; every other
\* product of the batch is stored as its walk comes out.
LEMMA StoreKeepsCurrent ==
    ASSUME NEW w \in Workers, IInv, Store(w)
    PROVE  CostIsCurrent'
<1>1. Owed \subseteq Owed' \cup todo[w]
  BY DEF Store, Owed, IInv, Shape
<1> SUFFICES ASSUME NEW p \in Products, p \notin Owed', p \notin stale'
             PROVE  Current(p)'
  BY DEF CostIsCurrent
<1>2. PricesOf(p)' = PricesOf(p) /\ RowsOf(p)' = RowsOf(p)
  BY SameReads DEF Store
<1>3. WalkOf(p)' = WalkOf(p)
  BY <1>2 DEF WalkOf
<1>4. CASE p \in todo[w]
  <2>1. Rebuilt(w, p) = WalkOf(p)
    <3>1. CASE p # First(w)
      BY <3>1 DEF Rebuilt
    <3>2. CASE p = First(w)
      <4>1. ~Outrun(w)
        BY <3>2 DEF Store
      <4>2. seen[w] = PricesOf(p) /\ rows[w] = RowsOf(p)
        BY <3>2, <4>1 DEF Outrun
      <4> QED
        BY <3>2, <4>2 DEF Rebuilt, WalkOf
    <3> QED
      BY <3>1, <3>2
  <2>2. ledger'[p] = LedgerFrom(WalkOf(p)) /\ price'[p] = PriceFrom(WalkOf(p), price[p])
    BY <1>4, <2>1 DEF Store
  <2> QED
    BY <1>3, <2>2, Fresh
<1>5. CASE p \notin todo[w]
  <2>1. Current(p)
    BY <1>1, <1>5 DEF CostIsCurrent, IInv, Store
  <2>2. ledger'[p] = ledger[p] /\ price'[p] = price[p]
    BY <1>5 DEF Store
  <2> QED
    BY <1>2, <2>1, <2>2, Kept
<1> QED
  BY <1>4, <1>5

LEMMA AbandonKeepsCurrent ==
    ASSUME NEW w \in Workers, IInv, Abandon(w)
    PROVE  CostIsCurrent'
<1>1. Owed \subseteq Owed' \cup todo[w]
  BY DEF Abandon, Owed, IInv, Shape
<1> SUFFICES ASSUME NEW p \in Products, p \notin Owed', p \notin stale'
             PROVE  Current(p)'
  BY DEF CostIsCurrent
<1>2. Current(p)
  BY <1>1 DEF CostIsCurrent, IInv, Abandon
<1>3. PricesOf(p)' = PricesOf(p) /\ RowsOf(p)' = RowsOf(p)
  BY SameReads DEF Abandon
<1> QED
  BY <1>2, <1>3, Kept DEF Abandon

\* Reading changes nothing that is stored.
LEMMA ReadKeepsCurrent ==
    ASSUME IInv, UNCHANGED <<bill, moves, log, opening, ledger, price, todo, stale>>
    PROVE  CostIsCurrent'
<1> SUFFICES ASSUME NEW p \in Products, p \notin Owed', p \notin stale'
             PROVE  Current(p)'
  BY DEF CostIsCurrent
<1>1. Current(p)
  BY DEF CostIsCurrent, IInv, Owed
<1>2. PricesOf(p)' = PricesOf(p) /\ RowsOf(p)' = RowsOf(p)
  BY SameReads
<1> QED
  BY <1>1, <1>2, Kept

-----------------------------------------------------------------------------
LEMMA InitCurrent == Init => CostIsCurrent
<1> SUFFICES ASSUME Init, NEW p \in Products PROVE Current(p)
  BY DEF CostIsCurrent
<1>1. ledger[p] = LedgerFrom(WalkOf(p)) /\ price[p] = PriceFrom(WalkOf(p), <<opening[p], 1>>)
  BY DEF Init
<1> QED
  BY <1>1 DEF Current, PriceFrom

LEMMA NextCurrent == IInv /\ [Next]_vars => IInv'
<1> SUFFICES ASSUME IInv, [Next]_vars PROVE IInv'
  OBVIOUS
<1>1. Shape'
  BY NextShape DEF IInv
<1>2. CostIsCurrent'
  <2>1. ASSUME NEW w \in Workers,
               \/ \E f \in Uploads : Import(w, f)
               \/ \E p \in Products, o \in Openings : EditOpening(w, p, o)
               \/ \E p \in Products : Visit(w, p)
        PROVE CostIsCurrent'
    BY <2>1, ImportKeepsCurrent, EditOpeningKeepsCurrent, VisitKeepsCurrent
  <2>2. ASSUME NEW w \in Workers, NEW f \in Formulas, NEW loss \in Losses, NEW ref \in Refs,
               NEW t \in Tokens, RunConversion(w, f, loss, ref, t)
        PROVE CostIsCurrent'
    BY <2>2, RunKeepsCurrent
  <2>3. ASSUME NEW w \in Workers, ReadPrices(w) \/ ReadRows(w) PROVE CostIsCurrent'
    BY <2>3, ReadKeepsCurrent DEF ReadPrices, ReadRows
  <2>4. ASSUME NEW w \in Workers, Store(w) \/ Abandon(w) PROVE CostIsCurrent'
    BY <2>4, StoreKeepsCurrent, AbandonKeepsCurrent
  <2>5. ASSUME NEW k \in Lines, NEW b \in Versions[k], MapLine(k, b) PROVE CostIsCurrent'
    BY <2>5, MapLineKeepsCurrent
  <2>6. ASSUME NEW k \in Lines, NEW b \in MayBe(k), Rebuild(k, b) PROVE CostIsCurrent'
    BY <2>6, RebuildKeepsCurrent
  <2>7. ASSUME NEW p \in Products, NEW n \in Levels, Count(p, n) PROVE CostIsCurrent'
    BY <2>7, CountKeepsCurrent
  <2>8. CASE UNCHANGED vars
    BY <2>8, ReadKeepsCurrent DEF vars
  <2> QED
    BY <2>1, <2>2, <2>3, <2>4, <2>5, <2>6, <2>7, <2>8 DEF Next
<1> QED
  BY <1>1, <1>2 DEF IInv

\* With any number of processes, a cost that no worker owes a rebuild and that
\* was not abandoned, outrun or changed without one is the walk over the
\* product's rows (recalculate_waccs_for_products and its callers).
THEOREM CostsAreCurrent == Spec => []CostIsCurrent
<1>1. Init => IInv
  BY InitShape, InitCurrent DEF IInv
<1>2. IInv /\ [Next]_vars => IInv'
  BY NextCurrent
<1>3. IInv => CostIsCurrent
  BY DEF IInv
<1> QED
  BY <1>1, <1>2, <1>3, PTL DEF Spec

-----------------------------------------------------------------------------
(* Totals over a common denominator.                                         *)

\* n over D is the fraction c.
Scaled(c, n, D) == c[1] * D = n * c[2]

LEMMA ScaledPlus ==
    ASSUME NEW c \in Fraction, NEW d \in Fraction, NEW m \in Int, NEW n \in Int,
           NEW D \in Nat \ {0}, Scaled(c, m, D), Scaled(d, n, D)
    PROVE  Scaled(Plus(c, d), m + n, D)
<1> DEFINE c1 == c[1]
           c2 == c[2]
           d1 == d[1]
           d2 == d[2]
<1>1. c1 \in Int /\ d1 \in Int /\ c2 \in Nat \ {0} /\ d2 \in Nat \ {0}
  BY DEF Fraction
<1>2. c1 * D = m * c2 /\ d1 * D = n * d2
  BY DEF Scaled
<1>3. Plus(c, d)[1] = c1 * d2 + d1 * c2 /\ Plus(c, d)[2] = c2 * d2
  BY DEF Plus
<1> HIDE DEF c1, c2, d1, d2
<1>4. (c1 * d2 + d1 * c2) * D = (c1 * D) * d2 + (d1 * D) * c2
  BY <1>1
<1>5. (m * c2) * d2 + (n * d2) * c2 = (m + n) * (c2 * d2)
  BY <1>1
<1> QED
  BY <1>2, <1>3, <1>4, <1>5 DEF Scaled

\* The total of fractions is the sum of their numerators over the denominator.
LEMMA TotalScaled ==
    ASSUME NEW S, IsFiniteSet(S), NEW c \in [S -> Fraction], NEW D \in Nat \ {0},
           NEW n, \A p \in S : n[p] \in Int /\ Scaled(c[p], n[p], D)
    PROVE  Total(c) \in Fraction /\ Scaled(Total(c), SumFunctionOnSet(n, S), D)
<1> DEFINE Good == {x \in Fraction \X Int : Scaled(x[1], x[2], D)}
           sum(s) == SumFunctionOnSet(n, s)
<1>1. PICK g : Totals(g, c, S) /\ Total(c) = g[S]
  BY TotalTotals
<1> DEFINE both == [s \in SUBSET S |-> <<g[s], sum(s)>>]
<1>2. both[{}] \in Good
  <2>1. g[{}] = Free /\ sum({}) = 0
    BY <1>1, SumEmpty DEF Totals
  <2>2. Free \in Fraction /\ Scaled(Free, 0, D)
    BY DEF Free, Fraction, Scaled
  <2> QED
    BY <2>1, <2>2
<1>3. ASSUME NEW s \in SUBSET S, s # {}, both[s \ {Chosen(s)}] \in Good
      PROVE  both[s] \in Good
  <2> DEFINE x == Chosen(s)
             r == s \ {x}
  <2>1. x \in s /\ x \in S /\ r \in SUBSET S /\ IsFiniteSet(s)
    <3>1. x \in s
      BY <1>3 DEF Chosen
    <3> QED
      BY <3>1, FS_Subset
  <2>2. g[s] = Plus(c[x], g[r])
    BY <1>1, <1>3 DEF Totals
  <2>3. sum(s) = n[x] + sum(r)
    BY <1>3, <2>1, SumChosen
  <2>4. g[r] \in Fraction /\ sum(r) \in Int /\ Scaled(g[r], sum(r), D)
    BY <1>3, <2>1
  <2>5. c[x] \in Fraction /\ n[x] \in Int /\ Scaled(c[x], n[x], D)
    BY <2>1
  <2> HIDE DEF x, r, sum
  <2>6. g[s] \in Fraction /\ sum(s) \in Int /\ Scaled(g[s], sum(s), D)
    BY <2>2, <2>3, <2>4, <2>5, PlusIsFraction, ScaledPlus
  <2> QED
    BY <2>6
<1> HIDE DEF Good, both
<1>4. \A s \in SUBSET S : both[s] \in Good
  BY <1>2, <1>3, SubsetInvariant, Zenon
<1>5. both[S] \in Good
  BY <1>4
<1> QED
  BY <1>1, <1>5 DEF both, Good

LEMMA CommonDenominator ==
    ASSUME NEW S, IsFiniteSet(S), NEW c \in [S -> Fraction]
    PROVE  \E D \in Nat \ {0}, n \in [S -> Int] : \A p \in S : Scaled(c[p], n[p], D)
<1> DEFINE Common(T, D) == D \in Nat \ {0} /\ \A p \in T : \E m \in Int : Scaled(c[p], m, D)
           G == {T \in SUBSET S : \E D : Common(T, D)}
<1>1. {} \in G
  <2>1. Common({}, 1)
    OBVIOUS
  <2> QED
    BY <2>1
<1>2. ASSUME NEW T \in SUBSET S, NEW x \in S \ T, T \in G PROVE T \cup {x} \in G
  <2>1. PICK D : Common(T, D)
    BY <1>2
  <2> DEFINE d == c[x][2]
             E == D * d
  <2>2. c[x][1] \in Int /\ d \in Nat \ {0} /\ D \in Nat \ {0}
    BY <2>1 DEF Fraction
  <2> HIDE DEF d
  <2>3. E \in Nat \ {0}
    BY <2>2
  <2>4. ASSUME NEW p \in T PROVE \E m \in Int : Scaled(c[p], m, E)
    <3>1. PICK m \in Int : Scaled(c[p], m, D)
      BY <2>1
    <3> DEFINE a == c[p][1]
               b == c[p][2]
    <3>2. a \in Int /\ b \in Nat \ {0} /\ a * D = m * b
      BY <3>1 DEF Fraction, Scaled
    <3> HIDE DEF a, b
    <3>3. a * (D * d) = (a * D) * d /\ (m * b) * d = (m * d) * b /\ m * d \in Int
      BY <2>2, <3>2
    <3>4. a * E = (m * d) * b
      BY <3>2, <3>3
    <3> QED
      BY <3>3, <3>4 DEF Scaled, a, b
  <2>5. Scaled(c[x], c[x][1] * D, E) /\ c[x][1] * D \in Int
    <3> DEFINE a == c[x][1]
    <3>1. a \in Int
      BY <2>2
    <3> HIDE DEF a
    <3>2. a * (D * d) = (a * D) * d /\ a * D \in Int
      BY <2>2, <3>1
    <3> QED
      BY <3>2 DEF Scaled, a, d
  <2>6. Common(T \cup {x}, E)
    <3> HIDE DEF E
    <3> QED
      BY <2>3, <2>4, <2>5
  <2> HIDE DEF Common, E
  <2> QED
    BY <2>6
<1>3. S \in G
  <2> HIDE DEF G
  <2> QED
    BY <1>1, <1>2, SubsetInduction
<1>4. PICK D : Common(S, D)
  BY <1>3
<1> DEFINE n == [p \in S |-> CHOOSE m \in Int : Scaled(c[p], m, D)]
<1>5. \A p \in S : n[p] \in Int /\ Scaled(c[p], n[p], D)
  BY <1>4
<1> HIDE DEF n
<1>6. n \in [S -> Int]
  BY <1>5 DEF n
<1> QED
  BY <1>4, <1>5, <1>6

\* Two fractions with the same numerator over one denominator are equal.
LEMMA ScaledEqual ==
    ASSUME NEW c \in Fraction, NEW d \in Fraction, NEW n \in Int, NEW D \in Nat \ {0},
           Scaled(c, n, D), Scaled(d, n, D)
    PROVE  AtMost(c, d) /\ AtMost(d, c)
<1> DEFINE c1 == c[1]
           c2 == c[2]
           d1 == d[1]
           d2 == d[2]
<1>1. c1 \in Int /\ d1 \in Int /\ c2 \in Nat \ {0} /\ d2 \in Nat \ {0}
  BY DEF Fraction
<1>2. c1 * D = n * c2 /\ d1 * D = n * d2
  BY DEF Scaled
<1> HIDE DEF c1, c2, d1, d2
<1>3. D * (c1 * d2) = (c1 * D) * d2 /\ D * (d1 * c2) = (d1 * D) * c2
  BY <1>1
<1>4. (n * c2) * d2 = (n * d2) * c2
  BY <1>1
<1>5. D * (c1 * d2) = D * (d1 * c2)
  BY <1>2, <1>3, <1>4
<1> DEFINE x == c1 * d2
           y == d1 * c2
<1>6. x \in Int /\ y \in Int /\ D * x = D * y
  BY <1>1, <1>5
<1> HIDE DEF x, y
<1>7. x = y
  <2>1. D * (x - y) = 0
    BY <1>6
  <2> QED
    BY <1>6, <2>1
<1> QED
  BY <1>6, <1>7 DEF AtMost, x, y, c1, c2, d1, d2

-----------------------------------------------------------------------------
(* Runs and the moves they made, matched by position.                        *)

MadeUpto(ms, i, ref) == {j \in 1..i : ms[j].kind = "made" /\ ms[j].ref = ref}
RunsUpto(runs, n, ref) == {j \in 1..n : runs[j].ref = ref}

\* Under each document number there are no more outputs than runs, and as many
\* when no run of it lost everything.
Paired(ms, runs) ==
    \A ref \in Refs \cup {None} :
        LET made == Cardinality(MadeUpto(ms, Len(ms), ref))
            logged == RunsUpto(runs, Len(runs), ref)
        IN  /\ made <= Cardinality(logged)
            /\ (\A n \in logged : ~IsZero(runs[n].cost)) => made = Cardinality(logged)

LEMMA UptoFinite ==
    ASSUME NEW s, NEW n \in Nat, NEW ref
    PROVE  /\ IsFiniteSet(MadeUpto(s, n, ref)) /\ Cardinality(MadeUpto(s, n, ref)) \in Nat
           /\ IsFiniteSet(RunsUpto(s, n, ref)) /\ Cardinality(RunsUpto(s, n, ref)) \in Nat
<1>1. IsFiniteSet(1..n)
  BY FS_Interval
<1>2. MadeUpto(s, n, ref) \subseteq 1..n /\ RunsUpto(s, n, ref) \subseteq 1..n
  BY DEF MadeUpto, RunsUpto
<1> QED
  BY <1>1, <1>2, FS_Subset, FS_CardinalityType

\* A run that is appended counts under its own document number.
LEMMA RunAppended ==
    ASSUME NEW runs \in Seq(Run), NEW run \in Run, NEW ref
    PROVE  LET N == Len(runs)
               more == Append(runs, run)
           IN  /\ \A n \in 1..N : RunsUpto(more, n, ref) = RunsUpto(runs, n, ref)
               /\ RunsUpto(more, N, ref) = RunsUpto(runs, N, ref)
               /\ run.ref = ref => /\ RunsUpto(more, N + 1, ref) = RunsUpto(runs, N, ref) \cup {N + 1}
                                   /\ Cardinality(RunsUpto(more, N + 1, ref))
                                        = Cardinality(RunsUpto(runs, N, ref)) + 1
               /\ run.ref # ref => RunsUpto(more, N + 1, ref) = RunsUpto(runs, N, ref)
<1> DEFINE N == Len(runs)
           more == Append(runs, run)
<1>1. N \in Nat /\ more[N + 1] = run /\ \A j \in 1..N : more[j] = runs[j]
  OBVIOUS
<1> HIDE DEF N, more
<1>2. \A n \in 0..N : RunsUpto(more, n, ref) = RunsUpto(runs, n, ref)
  BY <1>1 DEF RunsUpto
<1>3. run.ref = ref => RunsUpto(more, N + 1, ref) = RunsUpto(runs, N, ref) \cup {N + 1}
  BY <1>1 DEF RunsUpto
<1>4. run.ref # ref => RunsUpto(more, N + 1, ref) = RunsUpto(runs, N, ref)
  BY <1>1 DEF RunsUpto
<1>5. N + 1 \notin RunsUpto(runs, N, ref) /\ IsFiniteSet(RunsUpto(runs, N, ref))
  <2>1. N + 1 \notin RunsUpto(runs, N, ref)
    BY <1>1 DEF RunsUpto
  <2> QED
    BY <1>1, <2>1, UptoFinite
<1>6. Cardinality(RunsUpto(runs, N, ref) \cup {N + 1}) = Cardinality(RunsUpto(runs, N, ref)) + 1
  BY <1>5, FS_AddElement
<1>7. N \in 0..N /\ \A n \in 1..N : n \in 0..N
  BY <1>1
<1> QED
  BY <1>2, <1>3, <1>4, <1>6, <1>7 DEF N, more

\* A move that is appended counts when it is an output.
LEMMA MoveAppended ==
    ASSUME NEW ms \in Seq(Move), NEW m \in Move, NEW ref
    PROVE  LET N == Len(ms)
               more == Append(ms, m)
           IN  /\ \A n \in 1..N : MadeUpto(more, n, ref) = MadeUpto(ms, n, ref)
               /\ m.kind = "made" /\ m.ref = ref =>
                     Cardinality(MadeUpto(more, N + 1, ref)) = Cardinality(MadeUpto(ms, N, ref)) + 1
               /\ m.kind # "made" \/ m.ref # ref =>
                     MadeUpto(more, N + 1, ref) = MadeUpto(ms, N, ref)
<1> DEFINE N == Len(ms)
           more == Append(ms, m)
<1>1. N \in Nat /\ more[N + 1] = m /\ \A j \in 1..N : more[j] = ms[j]
  OBVIOUS
<1> HIDE DEF N, more
<1>2. \A n \in 1..N : MadeUpto(more, n, ref) = MadeUpto(ms, n, ref)
  BY <1>1 DEF MadeUpto
<1>3. m.kind = "made" /\ m.ref = ref =>
         MadeUpto(more, N + 1, ref) = MadeUpto(ms, N, ref) \cup {N + 1}
  BY <1>1 DEF MadeUpto
<1>4. m.kind # "made" \/ m.ref # ref => MadeUpto(more, N + 1, ref) = MadeUpto(ms, N, ref)
  BY <1>1 DEF MadeUpto
<1>5. N + 1 \notin MadeUpto(ms, N, ref) /\ IsFiniteSet(MadeUpto(ms, N, ref))
  <2>1. N + 1 \notin MadeUpto(ms, N, ref)
    BY <1>1 DEF MadeUpto
  <2> QED
    BY <1>1, <2>1, UptoFinite
<1>6. Cardinality(MadeUpto(ms, N, ref) \cup {N + 1}) = Cardinality(MadeUpto(ms, N, ref)) + 1
  BY <1>5, FS_AddElement
<1> QED
  BY <1>2, <1>3, <1>4, <1>6 DEF N, more

Found(ms, i, runs) ==
    {n \in RunsUpto(runs, Len(runs), ms[i].ref) :
        Cardinality(RunsUpto(runs, n, ms[i].ref)) = Cardinality(MadeUpto(ms, i, ms[i].ref))}

LEMMA MadeAtFound ==
    ASSUME NEW ms, NEW i, NEW runs
    PROVE  MadeAt(ms, i, runs) = IF Found(ms, i, runs) = {} THEN Free
                                 ELSE runs[CHOOSE n \in Found(ms, i, runs) : TRUE].cost
BY DEF MadeAt, Found, MadeUpto, RunsUpto

\* What an earlier output is worth does not change with a later run.
LEMMA MadeAtKept ==
    ASSUME NEW ms \in Seq(Move), NEW more, \A j \in 1..Len(ms) : more[j] = ms[j],
           NEW runs \in Seq(Run), NEW run \in Run, Paired(ms, runs), NEW i \in 1..Len(ms)
    PROVE  /\ MadeAt(more, i, runs) = MadeAt(ms, i, runs)
           /\ MadeAt(more, i, Append(runs, run)) = MadeAt(ms, i, runs)
<1> DEFINE ref == ms[i].ref
           N == Len(runs)
           longer == Append(runs, run)
           pos == Cardinality(MadeUpto(ms, i, ref))
<1>1. N \in Nat /\ Len(longer) = N + 1 /\ (\A j \in 1..N : longer[j] = runs[j]) /\ longer[N + 1] = run
  OBVIOUS
<1>2. ms[i] \in Move /\ more[i] = ms[i] /\ Len(ms) \in Nat /\ i \in Nat
  OBVIOUS
<1>3. ref \in Refs \cup {None} /\ more[i].ref = ref
  BY <1>2 DEF Move
<1> HIDE DEF ref, longer
<1>4. MadeUpto(more, i, ref) = MadeUpto(ms, i, ref)
  BY <1>2 DEF MadeUpto
<1>5. pos <= Cardinality(MadeUpto(ms, Len(ms), ref)) /\ pos \in Nat
  <2>1. MadeUpto(ms, i, ref) \subseteq MadeUpto(ms, Len(ms), ref)
    BY <1>2 DEF MadeUpto
  <2> QED
    BY <1>2, <2>1, UptoFinite, FS_Subset
<1>6. Cardinality(MadeUpto(ms, Len(ms), ref)) <= Cardinality(RunsUpto(runs, N, ref))
  BY <1>3 DEF Paired
<1>7. /\ Cardinality(MadeUpto(ms, Len(ms), ref)) \in Nat
      /\ Cardinality(RunsUpto(runs, N, ref)) \in Nat
  BY <1>1, <1>2, UptoFinite
<1>8. Found(more, i, runs) = Found(ms, i, runs)
  BY <1>3, <1>4 DEF Found, ref
<1>9. Found(more, i, longer) = Found(ms, i, runs)
  <2>1. Found(ms, i, runs) = {n \in RunsUpto(runs, N, ref) : Cardinality(RunsUpto(runs, n, ref)) = pos}
    BY DEF Found, ref
  <2>2. Found(more, i, longer)
          = {n \in RunsUpto(longer, N + 1, ref) : Cardinality(RunsUpto(longer, n, ref)) = pos}
    BY <1>1, <1>3, <1>4 DEF Found
  <2>3. /\ \A n \in 1..N : RunsUpto(longer, n, ref) = RunsUpto(runs, n, ref)
        /\ run.ref = ref =>
              /\ RunsUpto(longer, N + 1, ref) = RunsUpto(runs, N, ref) \cup {N + 1}
              /\ Cardinality(RunsUpto(longer, N + 1, ref)) = Cardinality(RunsUpto(runs, N, ref)) + 1
        /\ run.ref # ref => RunsUpto(longer, N + 1, ref) = RunsUpto(runs, N, ref)
    BY RunAppended DEF longer
  <2>4. RunsUpto(runs, N, ref) \subseteq 1..N
    BY DEF RunsUpto
  <2>5. run.ref = ref => Cardinality(RunsUpto(longer, N + 1, ref)) # pos
    BY <1>5, <1>6, <1>7, <2>3
  <2> HIDE DEF pos, N
  <2>6. CASE run.ref = ref
    BY <2>1, <2>2, <2>3, <2>4, <2>5, <2>6
  <2>7. CASE run.ref # ref
    BY <2>1, <2>2, <2>3, <2>4, <2>7
  <2> QED
    BY <2>6, <2>7
<1> DEFINE found == Found(ms, i, runs)
           m == CHOOSE n \in found : TRUE
<1>10. found # {} => runs[m].cost = longer[m].cost
  <2>1. found # {} => m \in found
    OBVIOUS
  <2>2. found \subseteq 1..N
    BY DEF Found, RunsUpto
  <2> HIDE DEF m, found, N
  <2> QED
    BY <1>1, <2>1, <2>2
<1>11. /\ MadeAt(ms, i, runs) = IF found = {} THEN Free ELSE runs[m].cost
       /\ MadeAt(more, i, runs) = IF found = {} THEN Free ELSE runs[m].cost
       /\ MadeAt(more, i, longer) = IF found = {} THEN Free ELSE longer[m].cost
  BY <1>8, <1>9, MadeAtFound
<1> HIDE DEF found, m
<1>12. MadeAt(more, i, runs) = MadeAt(ms, i, runs) /\ MadeAt(more, i, longer) = MadeAt(ms, i, runs)
  BY <1>10, <1>11
<1> QED
  BY <1>12 DEF longer

\* An output comes in at the cost of the run that made it.
LEMMA MadeAtNew ==
    ASSUME NEW ms \in Seq(Move), NEW m \in Move, m.kind = "made",
           NEW runs \in Seq(Run), NEW run \in Run, run.ref = m.ref,
           Cardinality(MadeUpto(ms, Len(ms), m.ref)) = Cardinality(RunsUpto(runs, Len(runs), m.ref))
    PROVE  MadeAt(Append(ms, m), Len(ms) + 1, Append(runs, run)) = run.cost
<1> DEFINE ref == m.ref
           N == Len(runs)
           more == Append(ms, m)
           longer == Append(runs, run)
           i == Len(ms) + 1
           c == Cardinality(RunsUpto(runs, N, ref))
<1>1. /\ N \in Nat /\ Len(longer) = N + 1 /\ longer[N + 1] = run
      /\ more[i].ref = ref
  OBVIOUS
<1>2. Cardinality(MadeUpto(more, i, ref)) = c + 1
  BY MoveAppended
<1>3. /\ \A n \in 1..N : RunsUpto(longer, n, ref) = RunsUpto(runs, n, ref)
      /\ RunsUpto(longer, N + 1, ref) = RunsUpto(runs, N, ref) \cup {N + 1}
      /\ Cardinality(RunsUpto(longer, N + 1, ref)) = c + 1
  BY RunAppended
<1>4. c \in Nat
  BY <1>1, UptoFinite
<1> HIDE DEF ref, more, longer, i, N
<1>5. ASSUME NEW n \in RunsUpto(runs, N, ref) PROVE Cardinality(RunsUpto(longer, n, ref)) # c + 1
  <2>1. n \in 1..N /\ RunsUpto(runs, n, ref) \subseteq RunsUpto(runs, N, ref)
    BY <1>1 DEF RunsUpto
  <2>2. Cardinality(RunsUpto(runs, n, ref)) <= c /\ Cardinality(RunsUpto(runs, n, ref)) \in Nat
    BY <1>1, <2>1, UptoFinite, FS_Subset
  <2> QED
    BY <1>3, <1>4, <2>1, <2>2
<1>6. Found(more, i, longer) = {N + 1}
  <2>1. Found(more, i, longer)
          = {n \in RunsUpto(longer, N + 1, ref) : Cardinality(RunsUpto(longer, n, ref)) = c + 1}
    BY <1>1, <1>2 DEF Found
  <2> HIDE DEF c
  <2> QED
    BY <1>3, <1>5, <2>1
<1>7. (CHOOSE n \in {N + 1} : TRUE) = N + 1
  OBVIOUS
<1>8. MadeAt(more, i, longer) = longer[N + 1].cost
  BY <1>6, <1>7, MadeAtFound
<1> QED
  BY <1>1, <1>8 DEF more, longer, i

-----------------------------------------------------------------------------
(* What a run appends.                                                       *)

UsedMove(f, p, ref) == [kind |-> "used", qty |-> -Needs[f][p], ref |-> ref]
MadeMove(good, ref) == [kind |-> "made", qty |-> good, ref |-> ref]
LoggedRun(f, good, ref, t) ==
    [ref |-> ref, token |-> t,
     cost |-> IF good > 0 THEN <<InputCost(f)[1], InputCost(f)[2] * good>> ELSE Free]

\* One move on each input, one on the output unless all was lost, and a run.
Appends(f, good, ref, t) ==
    LET out == OutputOf[f] IN
    /\ out \in Products /\ out \notin Inputs(f) /\ good \in Nat
    /\ \A p \in Inputs(f) : /\ UsedMove(f, p, ref) \in Move
                            /\ moves'[p] = Append(moves[p], UsedMove(f, p, ref))
    /\ \A p \in Products \ (Inputs(f) \cup {out}) : moves'[p] = moves[p]
    /\ good = 0 => moves'[out] = moves[out]
    /\ good # 0 => /\ MadeMove(good, ref) \in Move
                   /\ moves'[out] = Append(moves[out], MadeMove(good, ref))
    /\ LoggedRun(f, good, ref, t) \in Run
    /\ log'[out] = Append(log[out], LoggedRun(f, good, ref, t))
    /\ \A p \in Products \ {out} : log'[p] = log[p]

LEMMA RunAppends ==
    ASSUME TInv, NEW w \in Workers, NEW f \in Formulas, NEW loss \in Losses,
           NEW ref \in Refs, NEW t \in Tokens, RunConversion(w, f, loss, ref, t)
    PROVE  Appends(f, Makes[f] - loss, ref, t)
<1> DEFINE out == OutputOf[f]
           good == Makes[f] - loss
           run == LoggedRun(f, good, ref, t)
           used(p) == IF Needs[f][p] = 0 THEN <<>> ELSE <<UsedMove(f, p, ref)>>
           made(p) == IF p # out \/ good = 0 THEN <<>> ELSE <<MadeMove(good, ref)>>
<1>1. out \in Products /\ Makes[f] \in Nat /\ loss \in Nat /\ good >= 0
  BY CostingConstants DEF RunConversion
<1>2. good \in Nat /\ out \notin Inputs(f) /\ Needs[f][out] = 0
  BY <1>1, OutputIsNoInput DEF Inputs
<1>3. \A p \in Products : UsedMove(f, p, ref) \in Move
  <2> SUFFICES ASSUME NEW p \in Products PROVE UsedMove(f, p, ref) \in Move
    OBVIOUS
  <2>1. Needs[f][p] \in Nat
    BY CostingConstants
  <2>2. -Needs[f][p] \in Int
    BY <2>1
  <2> QED
    BY <2>2 DEF UsedMove, Move
<1>4. MadeMove(good, ref) \in Move
  <2> HIDE DEF good
  <2> QED
    BY <1>2 DEF MadeMove, Move
<1>5. run \in Run
  <2>1. InputCost(f) \in Cost
    BY InputCostIsCost, LedgerNowType
  <2>2. Free \in Cost
    BY DEF Free, Cost
  <2> HIDE DEF good
  <2>3. good > 0 => <<InputCost(f)[1], InputCost(f)[2] * good>> \in Cost
    <3> DEFINE a == InputCost(f)[1]
               b == InputCost(f)[2]
    <3>1. a \in Nat /\ b \in Nat \ {0}
      BY <2>1 DEF Cost
    <3> HIDE DEF a, b
    <3>2. good > 0 => b * good \in Nat \ {0}
      BY <1>2, <3>1
    <3> QED
      BY <3>1, <3>2 DEF Cost, a, b
  <2> QED
    BY <2>2, <2>3 DEF LoggedRun, Run
<1>6. /\ moves' = [p \in Products |->
            IF p \in Inputs(f) \cup {out} THEN moves[p] \o used(p) \o made(p) ELSE moves[p]]
      /\ log' = [log EXCEPT ![out] = Append(log[out], run)]
  BY DEF RunConversion, UsedMove, MadeMove, LoggedRun
<1>7. \A p \in Products : moves[p] \in Seq(Move)
  BY DEF TInv, TypeOK
<1>8. log \in [Products -> Seq(Run)]
  BY DEF TInv, TypeOK
<1> HIDE DEF run, good, out
<1>9. ASSUME NEW p \in Inputs(f) PROVE moves'[p] = Append(moves[p], UsedMove(f, p, ref))
  <2>1. p \in Products /\ Needs[f][p] # 0 /\ p # out
    BY <1>2, CostingConstants DEF Inputs
  <2>2. moves'[p] = moves[p] \o <<UsedMove(f, p, ref)>> \o <<>>
    BY <1>6, <2>1
  <2> QED
    BY <1>3, <1>7, <2>1, <2>2
<1>10. moves'[out] = moves[out] \o <<>> \o made(out) /\ moves[out] \in Seq(Move)
  BY <1>1, <1>2, <1>6, <1>7
<1>11. /\ good = 0 => moves'[out] = moves[out]
       /\ good # 0 => moves'[out] = Append(moves[out], MadeMove(good, ref))
  <2>1. CASE good = 0
    <3>1. moves'[out] = moves[out] \o <<>> \o <<>>
      BY <1>10, <2>1
    <3> QED
      BY <1>10, <2>1, <3>1
  <2>2. CASE good # 0
    <3>1. moves'[out] = moves[out] \o <<>> \o <<MadeMove(good, ref)>>
      BY <1>10, <2>2
    <3> QED
      BY <1>4, <1>10, <2>2, <3>1
  <2> QED
    BY <2>1, <2>2
<1>12. \A p \in Products \ (Inputs(f) \cup {out}) : moves'[p] = moves[p]
  BY <1>6
<1>13. log'[out] = Append(log[out], run) /\ \A p \in Products \ {out} : log'[p] = log[p]
  BY <1>1, <1>6, <1>8
<1>14. \A p \in Inputs(f) : p \in Products
  BY DEF Inputs
<1> QED
  BY <1>1, <1>2, <1>3, <1>4, <1>5, <1>9, <1>11, <1>12, <1>13, <1>14 DEF run, good, out, Appends

-----------------------------------------------------------------------------
(* Runs and outputs stay paired.                                             *)

AllPaired == \A p \in Products : Paired(moves[p], log[p])

VInv == TInv /\ IInv /\ AllPaired

LEMMA PairedEmpty == Paired(<<>>, <<>>)
<1>1. Len(<<>>) = 0 /\ 1..0 = {}
  OBVIOUS
<1>2. \A ref : MadeUpto(<<>>, 0, ref) = {} /\ RunsUpto(<<>>, 0, ref) = {}
  BY <1>1 DEF MadeUpto, RunsUpto
<1>3. Cardinality({}) = 0
  BY FS_EmptySet
<1> QED
  BY <1>1, <1>2, <1>3 DEF Paired

\* A move that is no output changes nothing.
LEMMA PairedOtherwise ==
    ASSUME NEW ms \in Seq(Move), NEW m \in Move, m.kind # "made", NEW runs, Paired(ms, runs)
    PROVE  Paired(Append(ms, m), runs)
<1> DEFINE more == Append(ms, m)
<1>1. Len(more) = Len(ms) + 1
  OBVIOUS
<1>2. \A ref : MadeUpto(more, Len(ms) + 1, ref) = MadeUpto(ms, Len(ms), ref)
  BY MoveAppended
<1> HIDE DEF more
<1>3. Paired(more, runs)
  BY <1>1, <1>2 DEF Paired
<1> QED
  BY <1>3 DEF more

\* A run that lost everything leaves a zero cost that no output answers to.
LEMMA PairedLoss ==
    ASSUME NEW ms \in Seq(Move), NEW runs \in Seq(Run), NEW run \in Run, IsZero(run.cost),
           Paired(ms, runs)
    PROVE  Paired(ms, Append(runs, run))
<1> DEFINE more == Append(runs, run)
           N == Len(runs)
<1>1. N \in Nat /\ Len(ms) \in Nat /\ Len(more) = N + 1 /\ more[N + 1] = run
      /\ \A n \in 1..N : more[n] = runs[n]
  OBVIOUS
<1> SUFFICES ASSUME NEW ref \in Refs \cup {None}
             PROVE  LET made == Cardinality(MadeUpto(ms, Len(ms), ref))
                        logged == RunsUpto(more, Len(more), ref)
                    IN  /\ made <= Cardinality(logged)
                        /\ (\A n \in logged : ~IsZero(more[n].cost)) => made = Cardinality(logged)
  BY DEF Paired
<1> DEFINE made == Cardinality(MadeUpto(ms, Len(ms), ref))
           logged == RunsUpto(runs, N, ref)
           longer == RunsUpto(more, N + 1, ref)
<1>2. /\ made <= Cardinality(logged)
      /\ (\A n \in logged : ~IsZero(runs[n].cost)) => made = Cardinality(logged)
  BY DEF Paired
<1>3. made \in Nat /\ Cardinality(logged) \in Nat
  BY <1>1, UptoFinite
<1>4. /\ run.ref = ref => longer = logged \cup {N + 1} /\ Cardinality(longer) = Cardinality(logged) + 1
      /\ run.ref # ref => longer = logged
  BY RunAppended
<1>5. logged \subseteq 1..N
  BY DEF RunsUpto
<1> HIDE DEF made, logged, longer, N, more
<1>6. /\ made <= Cardinality(longer)
      /\ (\A n \in longer : ~IsZero(more[n].cost)) => made = Cardinality(longer)
  <2>1. CASE run.ref = ref
    BY <1>1, <1>2, <1>3, <1>4, <2>1
  <2>2. CASE run.ref # ref
    <3>1. \A n \in logged : more[n] = runs[n]
      BY <1>1, <1>5
    <3> QED
      BY <1>2, <1>4, <2>2, <3>1
  <2> QED
    BY <2>1, <2>2
<1> QED
  BY <1>1, <1>6 DEF made, longer

\* A run and its output are one more of each.
LEMMA PairedOutput ==
    ASSUME NEW ms \in Seq(Move), NEW m \in Move, m.kind = "made",
           NEW runs \in Seq(Run), NEW run \in Run, run.ref = m.ref, Paired(ms, runs)
    PROVE  Paired(Append(ms, m), Append(runs, run))
<1> DEFINE more == Append(runs, run)
           moved == Append(ms, m)
           N == Len(runs)
<1>1. /\ N \in Nat /\ Len(ms) \in Nat /\ Len(more) = N + 1 /\ Len(moved) = Len(ms) + 1
      /\ \A n \in 1..N : more[n] = runs[n]
  OBVIOUS
<1> SUFFICES ASSUME NEW ref \in Refs \cup {None}
             PROVE  LET made == Cardinality(MadeUpto(moved, Len(moved), ref))
                        logged == RunsUpto(more, Len(more), ref)
                    IN  /\ made <= Cardinality(logged)
                        /\ (\A n \in logged : ~IsZero(more[n].cost)) => made = Cardinality(logged)
  BY DEF Paired
<1> DEFINE made == Cardinality(MadeUpto(ms, Len(ms), ref))
           after == Cardinality(MadeUpto(moved, Len(ms) + 1, ref))
           logged == RunsUpto(runs, N, ref)
           longer == RunsUpto(more, N + 1, ref)
<1>2. /\ made <= Cardinality(logged)
      /\ (\A n \in logged : ~IsZero(runs[n].cost)) => made = Cardinality(logged)
  BY DEF Paired
<1>3. made \in Nat /\ Cardinality(logged) \in Nat
  BY <1>1, UptoFinite
<1>4. /\ run.ref = ref => longer = logged \cup {N + 1} /\ Cardinality(longer) = Cardinality(logged) + 1
      /\ run.ref # ref => longer = logged
  BY RunAppended
<1>5. /\ m.ref = ref => after = made + 1
      /\ m.ref # ref => after = made
  BY MoveAppended
<1>6. logged \subseteq 1..N
  BY DEF RunsUpto
<1>7. \A n \in logged : more[n] = runs[n]
  BY <1>1, <1>6
<1> HIDE DEF made, after, logged, longer, N, more
<1>8. /\ after <= Cardinality(longer)
      /\ (\A n \in longer : ~IsZero(more[n].cost)) => after = Cardinality(longer)
  <2>1. CASE run.ref = ref
    BY <1>2, <1>3, <1>4, <1>5, <1>7, <2>1
  <2>2. CASE run.ref # ref
    BY <1>2, <1>4, <1>5, <1>7, <2>2
  <2> QED
    BY <2>1, <2>2
<1> HIDE DEF moved
<1> QED
  BY <1>1, <1>8 DEF after, longer

LEMMA RunPairs ==
    ASSUME TInv, AllPaired, NEW w \in Workers, NEW f \in Formulas, NEW loss \in Losses,
           NEW ref \in Refs, NEW t \in Tokens, RunConversion(w, f, loss, ref, t)
    PROVE  AllPaired'
<1> DEFINE out == OutputOf[f]
           good == Makes[f] - loss
           run == LoggedRun(f, good, ref, t)
<1>1. /\ out \in Products /\ out \notin Inputs(f) /\ good \in Nat
      /\ \A p \in Inputs(f) : /\ UsedMove(f, p, ref) \in Move
                              /\ moves'[p] = Append(moves[p], UsedMove(f, p, ref))
      /\ \A p \in Products \ (Inputs(f) \cup {out}) : moves'[p] = moves[p]
      /\ good = 0 => moves'[out] = moves[out]
      /\ good # 0 => /\ MadeMove(good, ref) \in Move
                     /\ moves'[out] = Append(moves[out], MadeMove(good, ref))
      /\ run \in Run
      /\ log'[out] = Append(log[out], run)
      /\ \A p \in Products \ {out} : log'[p] = log[p]
  BY RunAppends DEF Appends
<1>2. /\ good = 0 => IsZero(run.cost)
      /\ run.ref = ref
  BY <1>1 DEF LoggedRun, IsZero, Free
<1>3. \A p : UsedMove(f, p, ref).kind # "made"
  BY DEF UsedMove
<1>4. MadeMove(good, ref).kind = "made" /\ MadeMove(good, ref).ref = ref
  BY DEF MadeMove
<1> HIDE DEF out, good, run
<1> SUFFICES ASSUME NEW p \in Products PROVE Paired(moves'[p], log'[p])
  BY DEF AllPaired
<1>5. moves[p] \in Seq(Move) /\ log[p] \in Seq(Run) /\ Paired(moves[p], log[p])
  BY DEF TInv, TypeOK, AllPaired
<1>6. CASE p \in Inputs(f)
  <2>1. log'[p] = log[p] /\ moves'[p] = Append(moves[p], UsedMove(f, p, ref))
        /\ UsedMove(f, p, ref) \in Move
    BY <1>1, <1>6
  <2> QED
    BY <1>3, <1>5, <2>1, PairedOtherwise
<1>7. CASE p = out /\ good = 0
  <2>1. log'[p] = Append(log[p], run) /\ moves'[p] = moves[p] /\ run \in Run /\ IsZero(run.cost)
    BY <1>1, <1>2, <1>7
  <2> QED
    BY <1>5, <2>1, PairedLoss
<1>8. CASE p = out /\ good # 0
  <2>1. /\ log'[p] = Append(log[p], run) /\ moves'[p] = Append(moves[p], MadeMove(good, ref))
        /\ run \in Run /\ MadeMove(good, ref) \in Move /\ run.ref = MadeMove(good, ref).ref
    BY <1>1, <1>2, <1>4, <1>8
  <2> QED
    BY <1>4, <1>5, <2>1, PairedOutput
<1>9. CASE p \notin Inputs(f) \cup {out}
  BY <1>1, <1>5, <1>9
<1> QED
  BY <1>6, <1>7, <1>8, <1>9

LEMMA CountPairs ==
    ASSUME TInv, AllPaired, NEW q \in Products, NEW n \in Levels, Count(q, n)
    PROVE  AllPaired'
<1> DEFINE m == [kind |-> "counted", qty |-> n - Stock(q), ref |-> None]
<1>1. m \in Move /\ m.kind # "made"
  <2>1. n \in Int
    BY CostingConstants
  <2>2. Stock(q) \in Int
    BY WalkType DEF Stock, Acc
  <2>3. n - Stock(q) \in Int
    BY <2>1, <2>2
  <2> QED
    BY <2>3 DEF Move
<1>2. moves' = [moves EXCEPT ![q] = Append(moves[q], m)] /\ log' = log
  BY DEF Count
<1> HIDE DEF m
<1> SUFFICES ASSUME NEW p \in Products PROVE Paired(moves'[p], log'[p])
  BY DEF AllPaired
<1>3. /\ moves \in [Products -> Seq(Move)] /\ moves[p] \in Seq(Move)
      /\ Paired(moves[p], log[p])
  BY DEF TInv, TypeOK, AllPaired
<1>4. CASE p = q
  <2>1. moves'[p] = Append(moves[p], m) /\ log'[p] = log[p]
    BY <1>2, <1>3, <1>4
  <2> QED
    BY <1>1, <1>3, <2>1, PairedOtherwise
<1>5. CASE p # q
  BY <1>2, <1>3, <1>5
<1> QED
  BY <1>4, <1>5

LEMMA VInvInit == Init => VInv
<1> SUFFICES ASSUME Init PROVE AllPaired
  BY TInvInit, InitShape, InitCurrent DEF VInv, IInv
<1>1. \A p \in Products : moves[p] = <<>> /\ log[p] = <<>>
  BY DEF Init
<1> QED
  BY <1>1, PairedEmpty DEF AllPaired

LEMMA VInvNext == VInv /\ [Next]_vars => VInv'
<1> SUFFICES ASSUME TInv, AllPaired, [Next]_vars PROVE AllPaired'
  BY TInvNext, NextCurrent DEF VInv
<1>1. ASSUME NEW w \in Workers, NEW f \in Formulas, NEW loss \in Losses, NEW ref \in Refs,
             NEW t \in Tokens, RunConversion(w, f, loss, ref, t)
      PROVE  AllPaired'
  BY <1>1, RunPairs
<1>2. ASSUME NEW p \in Products, NEW n \in Levels, Count(p, n) PROVE AllPaired'
  BY <1>2, CountPairs
<1>3. ASSUME moves' = moves, log' = log PROVE AllPaired'
  BY <1>3 DEF AllPaired
<1>4. ASSUME NEW w \in Workers,
             \/ \E f \in Uploads : Import(w, f)
             \/ \E p \in Products, o \in Openings : EditOpening(w, p, o)
             \/ \E p \in Products : Visit(w, p)
             \/ ReadPrices(w) \/ ReadRows(w) \/ Store(w) \/ Abandon(w)
      PROVE  moves' = moves /\ log' = log
  BY <1>4 DEF Import, EditOpening, Visit, ReadPrices, ReadRows, Store, Abandon
<1>5. ASSUME NEW k \in Lines, \/ \E b \in Versions[k] : MapLine(k, b)
                              \/ \E b \in MayBe(k) : Rebuild(k, b)
      PROVE  moves' = moves /\ log' = log
  BY <1>5 DEF MapLine, Rebuild
<1>6. CASE UNCHANGED vars
  BY <1>3, <1>6 DEF vars
<1> QED
  BY <1>1, <1>2, <1>3, <1>4, <1>5, <1>6 DEF Next

-----------------------------------------------------------------------------
(* A walk that goes one move further.                                        *)

\* With no bill dated later, a walk ends with its moves, and where it enters them
\* depends on neither the moves nor the runs.
LEMMA WalkEndsWithMoves ==
    ASSUME NEW ps, NEW rs, Readable(ps, rs, Cost), NEW qs, NEW ts, Readable(qs, ts, Cost),
           qs.opening = ps.opening, qs.bill = ps.bill, ts.bill = rs.bill,
           \A k \in Lines : k > LastPast => rs.bill[k] = None
    PROVE  \E acc \in Within(Cost) : /\ Walk(ps, rs) = WithMoves(ps, rs, acc)
                                     /\ Walk(qs, ts) = WithMoves(qs, ts, acc)
<1> DEFINE W == Within(Cost)
<1>1. PICK g : LinesWalk(g, ps, rs, W) /\ Walk(ps, rs) = g[LastLine]
  BY WalkWalked
<1>2. PICK h : LinesWalk(h, qs, ts, W) /\ Walk(qs, ts) = h[LastLine]
  BY WalkWalked
<1>3. LastLine \in Nat /\ LastPast \in 0..LastLine /\ Lines = 1..LastLine /\ LastEarly \in Nat
      /\ LastEarly <= LastPast
  BY CostingConstants, OpeningIsPast DEF Lines
<1>4. \A k \in 0..LastLine : /\ g[k] = Staged(ps, rs, k, Entering(g, ps, rs, k))
                             /\ h[k] = Staged(qs, ts, k, Entering(h, qs, ts, k))
                             /\ g[k] \in W
  BY <1>1, <1>2 DEF LinesWalk
<1>5. \A k, acc : k # LastPast => Staged(qs, ts, k, acc) = Staged(ps, rs, k, acc)
  BY DEF Staged
<1>6. \A k : g[k - 1] = h[k - 1] \/ k = 0 => Entering(g, ps, rs, k) = Entering(h, qs, ts, k)
  BY DEF Entering
<1> DEFINE Same == {k \in 0..LastLine : k < LastPast => g[k] = h[k]}
<1>7. 0..LastLine \subseteq Same
  <2>1. 0 \in Same
    BY <1>3, <1>4, <1>5, <1>6
  <2>2. ASSUME NEW k \in 1..LastLine, k - 1 \in Same PROVE k \in Same
    <3> SUFFICES ASSUME k < LastPast PROVE g[k] = h[k]
      BY <1>3
    <3>1. k - 1 \in 0..LastLine /\ k - 1 < LastPast /\ k \in 0..LastLine /\ k # LastPast
      BY <1>3
    <3>2. g[k - 1] = h[k - 1]
      BY <2>2, <3>1
    <3> QED
      BY <1>4, <1>5, <1>6, <3>1, <3>2
  <2> HIDE DEF Same
  <2> QED
    BY <1>3, <2>1, <2>2, RangeInduction
<1>8. Entering(g, ps, rs, LastPast) = Entering(h, qs, ts, LastPast)
  <2>1. CASE LastPast = 0
    BY <1>6, <2>1
  <2>2. CASE LastPast # 0
    <3>1. LastPast - 1 \in 0..LastLine /\ LastPast - 1 < LastPast
      BY <1>3, <2>2
    <3> QED
      BY <1>6, <1>7, <3>1
  <2> QED
    BY <2>1, <2>2
\* Later lines leave the walk where the moves ended.
<1>9. \A k \in Lines : k > LastPast => /\ \A acc : Staged(ps, rs, k, LineStep(acc, k, ps.bill, rs.bill)) = acc
                                       /\ \A acc : Staged(qs, ts, k, LineStep(acc, k, qs.bill, ts.bill)) = acc
  BY <1>3 DEF Staged, LineStep
<1> DEFINE Ended == {k \in 0..LastLine : k >= LastPast => g[k] = g[LastPast] /\ h[k] = h[LastPast]}
<1>10. 0..LastLine \subseteq Ended
  <2>1. 0 \in Ended
    BY <1>3
  <2>2. ASSUME NEW k \in 1..LastLine, k - 1 \in Ended PROVE k \in Ended
    <3> SUFFICES ASSUME k > LastPast PROVE g[k] = g[LastPast] /\ h[k] = h[LastPast]
      BY <1>3
    <3>1. k - 1 \in 0..LastLine /\ k - 1 >= LastPast /\ k \in 0..LastLine /\ k # 0 /\ k \in Lines
      BY <1>3
    <3>2. g[k - 1] = g[LastPast] /\ h[k - 1] = h[LastPast]
      BY <2>2, <3>1
    <3>3. g[k] = g[k - 1] /\ h[k] = h[k - 1]
      BY <1>4, <1>9, <3>1 DEF Entering
    <3> QED
      BY <3>2, <3>3
  <2> HIDE DEF Ended
  <2> QED
    BY <1>3, <2>1, <2>2, RangeInduction
<1>11. g[LastLine] = g[LastPast] /\ h[LastLine] = h[LastPast]
  BY <1>3, <1>10
<1> DEFINE enter == Entering(g, ps, rs, LastPast)
           acc == IF LastPast = LastEarly THEN Seeded(enter, ps.opening) ELSE enter
<1>12. g[LastPast] = WithMoves(ps, rs, acc) /\ h[LastPast] = WithMoves(qs, ts, acc)
  <2> HIDE DEF enter
  <2>1. /\ g[LastPast] = Staged(ps, rs, LastPast, enter)
        /\ h[LastPast] = Staged(qs, ts, LastPast, enter)
    BY <1>3, <1>4, <1>8 DEF enter
  <2> QED
    BY <2>1 DEF Staged
<1>13. acc \in W
  <2>1. enter \in W
    <3>1. CASE LastPast = 0
      <4>1. Free \in Cost /\ IsZero(Free)
        BY DEF Free, Cost, IsZero
      <4> QED
        BY <3>1, <4>1 DEF Entering, Start, Within, Acc
    <3>2. CASE LastPast # 0
      <4>1. LastPast - 1 \in 0..LastLine /\ LastPast \in Lines
        BY <1>3, <3>2
      <4>2. g[LastPast - 1] \in W /\ Priced(rs.bill, ps.bill, Cost)
        BY <1>4, <4>1 DEF Readable
      <4> QED
        BY <3>2, <4>1, <4>2, LineStepWithin DEF Entering
    <3> QED
      BY <3>1, <3>2
  <2>2. ps.opening \in Nat /\ <<ps.opening, 1>> \in Cost
    BY DEF Readable
  <2> HIDE DEF enter
  <2> QED
    BY <2>1, <2>2, SeededWithin
<1> HIDE DEF acc
<1> QED
  BY <1>1, <1>2, <1>11, <1>12, <1>13

\* The moves of rs step alike among those of ts.
StepsAlike(ps, rs, qs, ts) ==
    \A i \in 1..Len(rs.moves) : \A acc :
        MoveStep(acc, i, ts.moves, qs.log) = MoveStep(acc, i, rs.moves, ps.log)

\* A move that changes no earlier step is one more step.
LEMMA WalkTakesMove ==
    ASSUME NEW ps, NEW rs, Readable(ps, rs, Cost), NEW qs, NEW ts, Readable(qs, ts, Cost),
           qs.opening = ps.opening, qs.bill = ps.bill, ts.bill = rs.bill,
           \A k \in Lines : k > LastPast => rs.bill[k] = None,
           Len(ts.moves) = Len(rs.moves) + 1,
           StepsAlike(ps, rs, qs, ts)
    PROVE  Walk(qs, ts) = MoveStep(Walk(ps, rs), Len(rs.moves) + 1, ts.moves, qs.log)
<1> DEFINE n == Len(rs.moves)
<1>1. PICK acc \in Within(Cost) : /\ Walk(ps, rs) = WithMoves(ps, rs, acc)
                                  /\ Walk(qs, ts) = WithMoves(qs, ts, acc)
  BY WalkEndsWithMoves
<1>2. /\ Movement(rs.moves) /\ Logged(ps.log, Cost) /\ Movement(ts.moves) /\ Logged(qs.log, Cost)
      /\ n \in Nat
  BY DEF Readable, Movement
<1>3. PICK g : /\ MovesWalk(g, rs.moves, ps.log, acc, Within(Cost))
               /\ WithMoves(ps, rs, acc) = g[Len(rs.moves)]
  BY <1>2, WithMovesWalked
<1>4. PICK h : /\ MovesWalk(h, ts.moves, qs.log, acc, Within(Cost))
               /\ WithMoves(qs, ts, acc) = h[Len(ts.moves)]
  BY <1>2, WithMovesWalked
<1>5. /\ g[0] = acc /\ h[0] = acc
      /\ \A i \in 1..n : g[i] = MoveStep(g[i - 1], i, rs.moves, ps.log)
      /\ \A i \in 1..(n + 1) : h[i] = MoveStep(h[i - 1], i, ts.moves, qs.log)
  BY <1>3, <1>4 DEF MovesWalk
<1> DEFINE Same == {i \in 0..n : g[i] = h[i]}
<1>6. 0..n \subseteq Same
  <2>1. 0 \in Same
    BY <1>2, <1>5
  <2>2. ASSUME NEW i \in 1..n, i - 1 \in Same PROVE i \in Same
    <3>1. i - 1 \in 0..n /\ i \in 0..n /\ i \in 1..(n + 1)
      BY <1>2
    <3>2. g[i - 1] = h[i - 1]
      BY <2>2, <3>1
    <3>3. g[i] = h[i]
      BY <1>5, <3>1, <3>2 DEF StepsAlike
    <3> QED
      BY <3>1, <3>3
  <2> HIDE DEF Same
  <2> QED
    BY <1>2, <2>1, <2>2, RangeInduction
<1>7. n \in 0..n /\ n + 1 \in 1..(n + 1) /\ (n + 1) - 1 = n
  BY <1>2
<1>8. g[n] = h[n]
  BY <1>6, <1>7
<1>9. h[n + 1] = MoveStep(h[n], n + 1, ts.moves, qs.log)
  BY <1>5, <1>7
<1> QED
  BY <1>1, <1>3, <1>4, <1>8, <1>9

-----------------------------------------------------------------------------
(* What a run does to the walks.                                             *)

LEMMA AppendedStep ==
    ASSUME NEW ms \in Seq(Move), NEW m \in Move, NEW runs \in Seq(Run), NEW run \in Run,
           Paired(ms, runs), NEW i \in 1..Len(ms), NEW acc
    PROVE  /\ MoveStep(acc, i, Append(ms, m), runs) = MoveStep(acc, i, ms, runs)
           /\ MoveStep(acc, i, Append(ms, m), Append(runs, run)) = MoveStep(acc, i, ms, runs)
<1> DEFINE more == Append(ms, m)
<1>1. \A j \in 1..Len(ms) : more[j] = ms[j]
  OBVIOUS
<1> HIDE DEF more
<1>2. /\ MadeAt(more, i, runs) = MadeAt(ms, i, runs)
      /\ MadeAt(more, i, Append(runs, run)) = MadeAt(ms, i, runs)
  BY <1>1, MadeAtKept
<1>3. more[i] = ms[i]
  BY <1>1
<1>4. /\ MoveStep(acc, i, more, runs) = MoveStep(acc, i, ms, runs)
      /\ MoveStep(acc, i, more, Append(runs, run)) = MoveStep(acc, i, ms, runs)
  BY <1>2, <1>3 DEF MoveStep
<1> QED
  BY <1>4 DEF more

\* No bill of a later date is entered yet.
NoLaterBill == \A k \in Lines : k > LastPast => bill[k] = None

\* The runs of ref that make out's log after the run all cost something.
AllCost(out, ref) ==
    \A i \in 1..Len(log'[out]) : log'[out][i].ref = ref => ~IsZero(log'[out][i].cost)

\* An input loses what the run needs and keeps its cost.
LEMMA InputWalk ==
    ASSUME VInv, TInv', NEW w \in Workers, NEW f \in Formulas, NEW loss \in Losses,
           NEW ref \in Refs, NEW t \in Tokens, RunConversion(w, f, loss, ref, t),
           NoLaterBill, NEW p \in Inputs(f)
    PROVE  WalkOf(p)' = Uncosted(WalkOf(p), -Needs[f][p])
<1> DEFINE m == UsedMove(f, p, ref)
           ms == moves[p]
           runs == log[p]
           own == OwnLines(p, bill)
           ps == [opening |-> opening[p], bill |-> own, log |-> runs]
           rs == [bill |-> own, moves |-> ms]
           ts == [bill |-> own, moves |-> Append(ms, m)]
<1>1. p \in Products /\ p # OutputOf[f]
  BY OutputIsNoInput, CostingConstants DEF Inputs
<1>2. /\ moves'[p] = Append(ms, m) /\ m \in Move /\ log'[p] = runs
      /\ LoggedRun(f, Makes[f] - loss, ref, t) \in Run
  BY <1>1, RunAppends DEF VInv, Appends
<1>3. bill' = bill /\ opening' = opening
  BY DEF RunConversion
<1>4. WalkOf(p) = Walk(ps, rs) /\ WalkOf(p)' = Walk(ps, ts)
  BY <1>2, <1>3 DEF WalkOf, PricesOf, RowsOf
<1>5. ms \in Seq(Move) /\ runs \in Seq(Run) /\ Paired(ms, runs) /\ Movement(ms)
      /\ own \in [Lines -> Bill \cup {None}] /\ opening[p] \in Openings
  BY <1>1, OwnLinesType DEF VInv, TInv, TypeOK, AllPaired
<1>6. Movement(moves'[p])
  BY <1>1 DEF TInv
<1>7. Movement(Append(ms, m))
  BY <1>2, <1>6
<1>8. \A k \in Lines : k > LastPast => own[k] = None
  BY DEF NoLaterBill, OwnLines
<1>9. m.kind # "made" /\ m.qty = -Needs[f][p]
  BY DEF UsedMove
<1> HIDE DEF m, ms, runs, own
<1>10. ps \in PricesRead /\ rs \in RowsRead /\ ts \in RowsRead
  BY <1>5, <1>7 DEF PricesRead, RowsRead, Movement
<1>11. Readable(ps, rs, Cost) /\ Readable(ps, ts, Cost)
  BY <1>10, ReadIsReadable
<1>12. /\ ps.log = runs /\ rs.moves = ms /\ ts.moves = Append(ms, m)
       /\ rs.bill = own /\ ts.bill = own
  OBVIOUS
<1>13. ASSUME NEW i \in 1..Len(ms), NEW acc
       PROVE  MoveStep(acc, i, Append(ms, m), runs) = MoveStep(acc, i, ms, runs)
  BY <1>2, <1>5, AppendedStep
<1>14. Len(Append(ms, m)) = Len(ms) + 1 /\ Append(ms, m)[Len(ms) + 1] = m
  BY <1>5
<1>15. Walk(ps, ts) = MoveStep(Walk(ps, rs), Len(ms) + 1, Append(ms, m), runs)
  <2> HIDE DEF ps, rs, ts
  <2>1. (\A k \in Lines : k > LastPast => rs.bill[k] = None) /\ ts.bill = rs.bill
    BY <1>8, <1>12
  <2>2. Len(ts.moves) = Len(rs.moves) + 1
    BY <1>12, <1>14
  <2>3. StepsAlike(ps, rs, ps, ts)
    BY <1>12, <1>13 DEF StepsAlike
  <2>4. Walk(ps, ts) = MoveStep(Walk(ps, rs), Len(rs.moves) + 1, ts.moves, ps.log)
    BY <1>11, <2>1, <2>2, <2>3, WalkTakesMove
  <2> QED
    BY <1>12, <2>4
<1> HIDE DEF ps, rs, ts
<1> QED
  BY <1>4, <1>9, <1>14, <1>15 DEF MoveStep

\* The output is received at what its run cost, spread over the good units.
LEMMA OutputWalk ==
    ASSUME VInv, TInv', NEW w \in Workers, NEW f \in Formulas, NEW loss \in Losses,
           NEW ref \in Refs, NEW t \in Tokens, RunConversion(w, f, loss, ref, t),
           NoLaterBill, AllCost(OutputOf[f], ref)
    PROVE  LET p == OutputOf[f]
               good == Makes[f] - loss
           IN  /\ good \in Nat \ {0}
               /\ WalkOf(p)' = Received(WalkOf(p), good, <<InputCost(f)[1], InputCost(f)[2] * good>>)
<1> DEFINE p == OutputOf[f]
           good == Makes[f] - loss
           m == MadeMove(good, ref)
           run == LoggedRun(f, good, ref, t)
           ms == moves[p]
           runs == log[p]
           own == OwnLines(p, bill)
           ps == [opening |-> opening[p], bill |-> own, log |-> runs]
           qs == [opening |-> opening[p], bill |-> own, log |-> Append(runs, run)]
           rs == [bill |-> own, moves |-> ms]
           ts == [bill |-> own, moves |-> Append(ms, m)]
<1>1. /\ p \in Products /\ good \in Nat /\ run \in Run
      /\ good # 0 => m \in Move /\ moves'[p] = Append(ms, m)
      /\ log'[p] = Append(runs, run)
  BY RunAppends DEF VInv, Appends
<1>2. bill' = bill /\ opening' = opening
  BY DEF RunConversion
<1>3. /\ ms \in Seq(Move) /\ runs \in Seq(Run) /\ Paired(ms, runs) /\ Movement(ms)
      /\ own \in [Lines -> Bill \cup {None}] /\ opening[p] \in Openings
  BY <1>1, OwnLinesType DEF VInv, TInv, TypeOK, AllPaired
<1>4. run.ref = ref /\ run.cost = IF good > 0 THEN <<InputCost(f)[1], InputCost(f)[2] * good>> ELSE Free
  BY DEF LoggedRun
<1>5. m.kind = "made" /\ m.qty = good /\ m.ref = ref
  BY DEF MadeMove
<1>6. AllCost(p, ref)
  OBVIOUS
<1>7. \A k \in Lines : k > LastPast => own[k] = None
  BY DEF NoLaterBill, OwnLines
<1>8. Movement(moves'[p])
  BY <1>1 DEF TInv
<1>9. ps.log = runs /\ qs.log = Append(runs, run) /\ rs.moves = ms /\ ts.moves = Append(ms, m)
      /\ rs.bill = own /\ ts.bill = own /\ qs.bill = ps.bill /\ qs.opening = ps.opening
  OBVIOUS
<1>10. WalkOf(p) = Walk(ps, rs) /\ (moves'[p] = Append(ms, m) => WalkOf(p)' = Walk(qs, ts))
  <2>1. WalkOf(p) = Walk(ps, rs)
    BY DEF WalkOf, PricesOf, RowsOf
  <2>2. WalkOf(p)' = Walk([opening |-> opening'[p], bill |-> OwnLines(p, bill'), log |-> log'[p]],
                          [bill |-> OwnLines(p, bill'), moves |-> moves'[p]])
    BY DEF WalkOf, PricesOf, RowsOf
  <2> QED
    BY <1>1, <1>2, <2>1, <2>2
<1> HIDE DEF m, run, ms, runs, own, good, p
<1>11. run.cost = <<InputCost(f)[1], InputCost(f)[2] * good>> /\ good # 0 /\ ~IsZero(run.cost)
  <2>1. Len(log'[p]) = Len(runs) + 1 /\ log'[p][Len(runs) + 1] = run
    BY <1>1, <1>3
  <2>2. Len(runs) + 1 \in 1..Len(log'[p])
    BY <1>3, <2>1
  <2>3. ~IsZero(run.cost)
    BY <1>4, <1>6, <2>1, <2>2 DEF AllCost
  <2>4. IsZero(Free)
    BY DEF IsZero, Free
  <2>5. good # 0
    BY <1>1, <1>4, <2>3, <2>4
  <2> QED
    BY <1>1, <1>4, <2>3, <2>5
<1>12. moves'[p] = Append(ms, m) /\ m \in Move
  BY <1>1, <1>11
\* All earlier runs of the document number yielded something, so as many outputs.
<1>13. Cardinality(MadeUpto(ms, Len(ms), m.ref)) = Cardinality(RunsUpto(runs, Len(runs), m.ref))
  <2>1. ASSUME NEW n \in RunsUpto(runs, Len(runs), ref) PROVE ~IsZero(runs[n].cost)
    <3>1. n \in 1..Len(runs) /\ runs[n].ref = ref
      BY DEF RunsUpto
    <3>2. n \in 1..Len(log'[p]) /\ log'[p][n] = runs[n]
      BY <1>1, <1>3, <3>1
    <3> QED
      BY <1>6, <3>1, <3>2 DEF AllCost
  <2>2. ref \in Refs \cup {None}
    OBVIOUS
  <2>3. Cardinality(MadeUpto(ms, Len(ms), ref)) = Cardinality(RunsUpto(runs, Len(runs), ref))
    BY <1>3, <2>1, <2>2 DEF Paired
  <2> QED
    BY <1>5, <2>3
<1>14. MadeAt(Append(ms, m), Len(ms) + 1, Append(runs, run)) = run.cost
  BY <1>1, <1>3, <1>4, <1>5, <1>12, <1>13, MadeAtNew
<1>15. ps \in PricesRead /\ qs \in PricesRead /\ rs \in RowsRead /\ ts \in RowsRead
  <2>1. Append(runs, run) \in Seq(Run) /\ Movement(Append(ms, m))
    BY <1>1, <1>3, <1>8, <1>12
  <2> QED
    BY <1>3, <2>1 DEF PricesRead, RowsRead, Movement
<1>16. Readable(ps, rs, Cost) /\ Readable(qs, ts, Cost)
  BY <1>15, ReadIsReadable
<1>17. ASSUME NEW i \in 1..Len(ms), NEW acc
       PROVE  MoveStep(acc, i, Append(ms, m), Append(runs, run)) = MoveStep(acc, i, ms, runs)
  BY <1>1, <1>3, <1>12, AppendedStep
<1>18. Len(Append(ms, m)) = Len(ms) + 1 /\ Append(ms, m)[Len(ms) + 1] = m
  BY <1>3
<1>19. Walk(qs, ts) = MoveStep(Walk(ps, rs), Len(ms) + 1, Append(ms, m), Append(runs, run))
  <2> HIDE DEF ps, qs, rs, ts
  <2>1. (\A k \in Lines : k > LastPast => rs.bill[k] = None) /\ ts.bill = rs.bill
    BY <1>7, <1>9
  <2>2. Len(ts.moves) = Len(rs.moves) + 1
    BY <1>9, <1>18
  <2>3. StepsAlike(ps, rs, qs, ts)
    BY <1>9, <1>17 DEF StepsAlike
  <2>4. Walk(qs, ts) = MoveStep(Walk(ps, rs), Len(rs.moves) + 1, ts.moves, qs.log)
    <3>1. qs.opening = ps.opening /\ qs.bill = ps.bill
      BY <1>9
    <3> QED
      BY <1>16, <2>1, <2>2, <2>3, <3>1, WalkTakesMove
  <2> QED
    BY <1>9, <2>4
<1> HIDE DEF ps, qs, rs, ts
<1>20. MoveStep(WalkOf(p), Len(ms) + 1, Append(ms, m), Append(runs, run)) = Received(WalkOf(p), good, run.cost)
  BY <1>5, <1>11, <1>14, <1>18 DEF MoveStep
<1>21. WalkOf(p)' = Received(WalkOf(p), good, <<InputCost(f)[1], InputCost(f)[2] * good>>)
  BY <1>10, <1>11, <1>12, <1>19, <1>20
<1>22. good \in Nat \ {0}
  BY <1>1, <1>11
<1> QED
  BY <1>21, <1>22 DEF good, p

\* What the output is worth afterwards: what it was worth and what the run cost.
LEMMA ReceivedWorth ==
    ASSUME NEW acc \in Acc, acc.stock = 0 \/ (acc.stock > 0 /\ ~IsZero(acc.cost)),
           NEW q \in Nat \ {0}, NEW c \in Cost, NEW D \in Nat \ {0},
           NEW n \in Int, Scaled(acc.cost, n, D), NEW m \in Int, Scaled(c, m, D)
    PROVE  LET b == Received(acc, q, <<c[1], c[2] * q>>)
               worth == <<b.stock * b.cost[1], b.cost[2]>>
           IN  worth \in Fraction /\ Scaled(worth, acc.stock * n + m, D)
<1> DEFINE b == Received(acc, q, <<c[1], c[2] * q>>)
           s == acc.stock
           a1 == acc.cost[1]
           a2 == acc.cost[2]
           c1 == c[1]
           c2 == c[2]
<1>1. /\ s \in Int /\ a1 \in Nat /\ a2 \in Nat \ {0} /\ c1 \in Nat /\ c2 \in Nat \ {0}
      /\ a1 * D = n * a2 /\ c1 * D = m * c2
  BY DEF Acc, Cost, Scaled
<1>2. CASE s = 0
  <2>1. b.stock = s + q /\ b.cost = <<c1, c2 * q>>
    BY <1>1, <1>2 DEF Received
  <2> HIDE DEF b, s, c1, c2
  <2>2. b.stock = q
    BY <1>2, <2>1
  <2> DEFINE x == q * c1
             y == c2 * q
  <2>3. x \in Int /\ y \in Nat \ {0} /\ x * D = q * (c1 * D) /\ q * (m * c2) = m * y
    BY <1>1
  <2>4. x * D = m * y
    BY <1>1, <2>3
  <2>5. s * n + m = m
    BY <1>2
  <2>6. b.stock * b.cost[1] = x /\ b.cost[2] = y
    BY <2>1, <2>2
  <2> HIDE DEF x, y
  <2>7. <<x, y>> \in Fraction /\ Scaled(<<x, y>>, s * n + m, D)
    BY <2>3, <2>4, <2>5 DEF Fraction, Scaled
  <2> QED
    BY <2>6, <2>7 DEF b, s
<1>3. CASE s > 0 /\ ~IsZero(acc.cost)
  <2> DEFINE d2 == c2 * q
             x == s * a1 * d2 + q * c1 * a2
             z == a2 * d2
  <2>1. b.stock = s + q /\ b.cost = <<x, z * (s + q)>>
    <3>1. b = [stock |-> s + q, entries |-> TRUE, cost |-> Average(s, acc.cost, q, <<c1, d2>>)]
      <4>1. ~(acc.stock < 0) /\ ~(acc.stock = 0 \/ IsZero(acc.cost))
        BY <1>1, <1>3
      <4> QED
        BY <4>1, Zenon DEF Received
    <3>2. Average(s, acc.cost, q, <<c1, d2>>) = <<x, z * (s + q)>>
      BY DEF Average
    <3> QED
      BY <3>1, <3>2
  <2> HIDE DEF b, s, a1, a2, c1, c2
  <2> DEFINE r == s + q
             k == s * n + m
  <2>2. d2 \in Nat \ {0} /\ r \in Nat \ {0} /\ k \in Int
    BY <1>1, <1>3
  <2>3. x \in Int /\ z \in Nat \ {0}
    <3>1. s * a1 \in Int /\ q * c1 \in Int
      BY <1>1
    <3> HIDE DEF d2
    <3> QED
      BY <1>1, <2>2, <3>1
  <2>4. x * D = (s * d2) * (a1 * D) + (q * a2) * (c1 * D)
    BY <1>1
  <2>5. (s * d2) * (n * a2) + (q * a2) * (m * c2) = k * z
    BY <1>1
  <2>6. x * D = k * z
    BY <1>1, <2>4, <2>5
  <2> HIDE DEF d2, x, z, r, k
  <2>7. r * x \in Int /\ z * r \in Nat \ {0} /\ (r * x) * D = r * (x * D) /\ r * (k * z) = k * (z * r)
    BY <2>2, <2>3
  <2>8. (r * x) * D = k * (z * r)
    BY <2>6, <2>7
  <2>9. <<r * x, z * r>> \in Fraction /\ Scaled(<<r * x, z * r>>, k, D)
    BY <2>7, <2>8 DEF Fraction, Scaled
  <2>10. b.stock * b.cost[1] = r * x /\ b.cost[2] = z * r
    BY <2>1 DEF r
  <2> QED
    BY <2>9, <2>10 DEF b, s, k
<1> QED
  BY <1>1, <1>2, <1>3

LEMMA OtherWalk ==
    ASSUME TInv, NEW w \in Workers, NEW f \in Formulas, NEW loss \in Losses,
           NEW ref \in Refs, NEW t \in Tokens, RunConversion(w, f, loss, ref, t),
           NEW p \in Products \ (Inputs(f) \cup {OutputOf[f]})
    PROVE  WalkOf(p)' = WalkOf(p)
<1>1. moves'[p] = moves[p] /\ log'[p] = log[p]
  BY RunAppends DEF Appends
<1>2. bill' = bill /\ opening' = opening
  BY DEF RunConversion
<1> QED
  BY <1>1, <1>2 DEF WalkOf, PricesOf, RowsOf

\* A run takes an input at the cost that its rows have, when that is current.
LEMMA CurrentCost ==
    ASSUME VInv, NEW p \in Products, p \notin Owed \cup stale, ~IsZero(WalkOf(p).cost)
    PROVE  CostNow(p) = WalkOf(p).cost
<1>1. WalkOf(p) \in Within(Cost)
  BY NowIsRead, ReadIsReadable, WalkWithin DEF WalkOf, VInv
<1>2. WalkOf(p).entries /\ WalkOf(p).cost \in Cost
  BY <1>1 DEF Within, Acc
<1>3. ledger[p] = LedgerFrom(WalkOf(p))
  BY DEF VInv, IInv, CostIsCurrent, Current
<1>4. ledger[p] = WalkOf(p).cost /\ ledger[p] # None
  BY <1>2, <1>3, NoneIsNew DEF LedgerFrom
<1> QED
  BY <1>4 DEF CostNow, LedgerNow

-----------------------------------------------------------------------------
(* The value of the stock.                                                   *)

Worth(accs, P) == Total([p \in P |-> <<accs[p].stock * accs[p].cost[1], accs[p].cost[2]>>])
CostOf(accs, need, I) == Total([p \in I |-> <<need[p] * accs[p].cost[1], accs[p].cost[2]>>])

LEMMA ScaledTimes ==
    ASSUME NEW c \in Cost, NEW n \in Int, NEW D \in Nat \ {0}, Scaled(c, n, D), NEW s \in Int
    PROVE  <<s * c[1], c[2]>> \in Fraction /\ Scaled(<<s * c[1], c[2]>>, s * n, D)
<1> DEFINE a == c[1]
           b == c[2]
<1>1. a \in Nat /\ b \in Nat \ {0} /\ a * D = n * b
  BY DEF Cost, Scaled
<1> HIDE DEF a, b
<1>2. (s * a) * D = s * (a * D) /\ s * (n * b) = (s * n) * b /\ s * a \in Int
  BY <1>1
<1>3. (s * a) * D = (s * n) * b
  BY <1>1, <1>2
<1>4. <<s * a, b>> \in Fraction /\ Scaled(<<s * a, b>>, s * n, D)
  BY <1>1, <1>2, <1>3 DEF Fraction, Scaled
<1> QED
  BY <1>4 DEF a, b

\* What the inputs lose, the output gains.
LEMMA ValueMoves ==
    ASSUME NEW P, IsFiniteSet(P), NEW I \in SUBSET P, NEW out \in P \ I,
           NEW old \in [P -> Acc], NEW new \in [P -> Acc], NEW need,
           \A p \in I : need[p] \in Nat,
           NEW q \in Nat \ {0},
           \A p \in I : new[p] = Uncosted(old[p], -need[p]),
           new[out] = Received(old[out], q, <<CostOf(old, need, I)[1], CostOf(old, need, I)[2] * q>>),
           \A p \in P \ (I \cup {out}) : new[p] = old[p],
           old[out].stock = 0 \/ (old[out].stock > 0 /\ ~IsZero(old[out].cost))
    PROVE  AtMost(Worth(old, P), Worth(new, P)) /\ AtMost(Worth(new, P), Worth(old, P))
<1> DEFINE c == [p \in P |-> old[p].cost]
<1>1. \A p \in P : old[p] \in Acc /\ old[p].stock \in Int /\ old[p].cost \in Cost
  BY DEF Acc
<1>2. c \in [P -> Fraction]
  BY <1>1 DEF Cost, Fraction
<1>3. PICK D \in Nat \ {0}, n \in [P -> Int] : \A p \in P : Scaled(c[p], n[p], D)
  BY <1>2, CommonDenominator
<1>4. \A p \in P : Scaled(old[p].cost, n[p], D) /\ n[p] \in Int
  BY <1>3
<1> HIDE DEF c
<1> DEFINE N == [p \in P |-> old[p].stock * n[p]]
           U == [p \in P |-> IF p \in I THEN need[p] * n[p] ELSE 0]
           used == SumFunctionOnSet(U, I)
           E == [p \in P |-> IF p = out THEN used ELSE 0]
           M == [p \in P |-> IF p \in I THEN (old[p].stock - need[p]) * n[p]
                             ELSE IF p = out THEN old[p].stock * n[p] + used
                             ELSE old[p].stock * n[p]]
           H == [p \in P |-> N[p] + E[p]]
<1>5. IsFiniteSet(I) /\ IsFiniteSet(P \ I) /\ IsFiniteSet(P \ {out})
  BY FS_Subset
<1>6. \A p \in P : N[p] \in Int /\ U[p] \in Int
  BY <1>1, <1>4
<1>7. used \in Int
  BY <1>5, <1>6, SumInt
<1>8. \A p \in P : E[p] \in Int /\ M[p] \in Int /\ H[p] = M[p] + U[p]
  <2> HIDE DEF used
  <2> SUFFICES ASSUME NEW p \in P PROVE E[p] \in Int /\ M[p] \in Int /\ H[p] = M[p] + U[p]
    OBVIOUS
  <2> DEFINE s == old[p].stock
             d == need[p]
             m == n[p]
  <2>1. s \in Int /\ m \in Int /\ (p \in I => d \in Int)
    BY <1>1, <1>4
  <2> HIDE DEF s, d, m
  <2>2. CASE p \in I
    <3>1. N[p] = s * m /\ E[p] = 0 /\ U[p] = d * m /\ M[p] = (s - d) * m
      BY <2>2 DEF s, d, m
    <3>2. s * m + 0 = (s - d) * m + d * m /\ (s - d) * m \in Int
      BY <2>1, <2>2
    <3> QED
      BY <3>1, <3>2
  <2>3. CASE p \notin I
    <3>1. N[p] = s * m /\ U[p] = 0 /\ s * m \in Int
      BY <2>1, <2>3 DEF s, m
    <3>2. p = out => E[p] = used /\ M[p] = s * m + used
      BY <2>3 DEF s, m
    <3>3. p # out => E[p] = 0 /\ M[p] = s * m
      BY <2>3 DEF s, m
    <3> HIDE DEF N, E, U, M
    <3>4. H[p] = N[p] + E[p]
      OBVIOUS
    <3> HIDE DEF H
    <3> QED
      BY <1>7, <3>1, <3>2, <3>3, <3>4
  <2> QED
    BY <2>2, <2>3
\* The two sums over the common denominator are equal.
<1>9. SumFunctionOnSet(M, P) = SumFunctionOnSet(N, P)
  <2>1. \A p \in P \ I : U[p] = 0
    OBVIOUS
  <2>2. \A p \in P \ {out} : E[p] = 0
    OBVIOUS
  <2>3. E[out] = used
    OBVIOUS
  <2>4. \A p \in P : H[p] = N[p] + E[p]
    OBVIOUS
  <2> DEFINE Sum(g, T) == SumFunctionOnSet(g, T)
  <2> HIDE DEF N, U, E, M, H
  <2>5. Sum(U, P) = used + Sum(U, P \ I) /\ Sum(U, P \ I) = 0
    BY <1>5, <1>6, <2>1, SumSplit, SumZero
  <2>6. Sum(E, P) = E[out] + Sum(E, P \ {out}) /\ Sum(E, P \ {out}) = 0
    BY <1>5, <1>8, <2>2, SumRemove, SumZero
  <2>7. Sum(H, P) = Sum(N, P) + Sum(E, P)
    BY <1>6, <1>8, <2>4, SumOfSums
  <2>8. Sum(H, P) = Sum(M, P) + Sum(U, P)
    BY <1>6, <1>8, SumOfSums
  <2>9. Sum(N, P) \in Int /\ Sum(M, P) \in Int
    BY <1>6, <1>8, SumInt
  <2> HIDE DEF Sum, used
  <2>10. Sum(M, P) = Sum(N, P)
    BY <1>7, <2>3, <2>5, <2>6, <2>7, <2>8, <2>9
  <2> QED
    BY <2>10 DEF Sum
<1> DEFINE worth(accs, p) == <<accs[p].stock * accs[p].cost[1], accs[p].cost[2]>>
           part(p) == <<need[p] * old[p].cost[1], old[p].cost[2]>>
           cost == CostOf(old, need, I)
<1>10. \A p \in P : worth(old, p) \in Fraction /\ Scaled(worth(old, p), N[p], D)
  BY <1>1, <1>4, ScaledTimes
<1>11. \A p \in I : part(p) \in Cost /\ Scaled(part(p), U[p], D)
  <2> SUFFICES ASSUME NEW p \in I PROVE part(p) \in Cost /\ Scaled(part(p), U[p], D)
    OBVIOUS
  <2>1. need[p] \in Nat /\ need[p] \in Int /\ old[p].cost \in Cost /\ p \in P
    BY <1>1
  <2>2. Scaled(part(p), need[p] * n[p], D)
    BY <1>4, <2>1, ScaledTimes
  <2>3. part(p) \in Cost
    <3>1. old[p].cost[1] \in Nat /\ old[p].cost[2] \in Nat \ {0}
      BY <2>1 DEF Cost
    <3>2. need[p] * old[p].cost[1] \in Nat
      BY <2>1, <3>1
    <3> QED
      BY <3>1, <3>2 DEF Cost
  <2> QED
    BY <2>1, <2>2, <2>3
<1>12. cost \in Cost /\ Scaled(cost, used, D)
  <2> DEFINE parts == [p \in I |-> part(p)]
  <2>1. cost = Total(parts)
    BY DEF CostOf
  <2> HIDE DEF part, U
  <2>2. parts \in [I -> Cost] /\ \A p \in I : Scaled(parts[p], U[p], D) /\ U[p] \in Int
    BY <1>6, <1>11
  <2>3. parts \in [I -> Fraction]
    BY <2>2 DEF Cost, Fraction
  <2> HIDE DEF parts, cost
  <2>4. Total(parts) \in Cost
    BY <1>5, <2>2, TotalIsCost
  <2>5. Scaled(Total(parts), used, D)
    BY <1>5, <2>2, <2>3, TotalScaled
  <2> QED
    BY <2>1, <2>4, <2>5
<1>13. \A p \in P : worth(new, p) \in Fraction /\ Scaled(worth(new, p), M[p], D)
  <2> SUFFICES ASSUME NEW p \in P
               PROVE  worth(new, p) \in Fraction /\ Scaled(worth(new, p), M[p], D)
    OBVIOUS
  <2>1. CASE p \in I
    <3>1. new[p].stock = old[p].stock - need[p] /\ new[p].cost = old[p].cost
      BY <1>1, <2>1 DEF Uncosted, Acc
    <3>2. old[p].stock - need[p] \in Int
      BY <1>1, <2>1
    <3>3. M[p] = (old[p].stock - need[p]) * n[p]
      BY <2>1
    <3> HIDE DEF M
    <3> QED
      BY <1>1, <1>4, <3>1, <3>2, <3>3, ScaledTimes
  <2>2. CASE p = out
    <3>1. M[p] = old[p].stock * n[p] + used
      BY <2>2
    <3>2. new[p] = Received(old[p], q, <<cost[1], cost[2] * q>>)
      BY <2>2
    <3>3. old[p].stock = 0 \/ (old[p].stock > 0 /\ ~IsZero(old[p].cost))
      BY <2>2
    <3>4. old[p] \in Acc /\ n[p] \in Int /\ Scaled(old[p].cost, n[p], D)
      BY <1>1, <1>4
    <3> HIDE DEF M, cost, used
    <3> DEFINE b == Received(old[p], q, <<cost[1], cost[2] * q>>)
    <3>5. /\ <<b.stock * b.cost[1], b.cost[2]>> \in Fraction
          /\ Scaled(<<b.stock * b.cost[1], b.cost[2]>>, old[p].stock * n[p] + used, D)
      BY <1>7, <1>12, <3>3, <3>4, ReceivedWorth
    <3>6. worth(new, p) = <<b.stock * b.cost[1], b.cost[2]>>
      BY <3>2
    <3> HIDE DEF b, worth
    <3> QED
      BY <3>1, <3>5, <3>6
  <2>3. CASE p \notin I \cup {out}
    <3>1. new[p] = old[p] /\ M[p] = N[p]
      BY <2>3
    <3> HIDE DEF M, N
    <3> QED
      BY <1>10, <3>1
  <2> QED
    BY <2>1, <2>2, <2>3
<1>14. \A g : Worth(g, P) = Total([p \in P |-> worth(g, p)])
  BY DEF Worth
<1> HIDE DEF M, N, worth
<1>15. Worth(old, P) \in Fraction /\ Scaled(Worth(old, P), SumFunctionOnSet(N, P), D)
  <2> DEFINE ws == [p \in P |-> worth(old, p)]
  <2>1. ws \in [P -> Fraction] /\ \A p \in P : N[p] \in Int /\ Scaled(ws[p], N[p], D)
    BY <1>6, <1>10
  <2>2. Worth(old, P) = Total(ws)
    BY <1>14
  <2> HIDE DEF ws
  <2> QED
    BY <2>1, <2>2, TotalScaled
<1>16. Worth(new, P) \in Fraction /\ Scaled(Worth(new, P), SumFunctionOnSet(M, P), D)
  <2> DEFINE ws == [p \in P |-> worth(new, p)]
  <2>1. ws \in [P -> Fraction] /\ \A p \in P : M[p] \in Int /\ Scaled(ws[p], M[p], D)
    BY <1>8, <1>13
  <2>2. Worth(new, P) = Total(ws)
    BY <1>14
  <2> HIDE DEF ws
  <2> QED
    BY <2>1, <2>2, TotalScaled
<1>17. SumFunctionOnSet(N, P) \in Int
  BY <1>6, SumInt
<1> QED
  BY <1>9, <1>15, <1>16, <1>17, ScaledEqual

LEMMA ReceivedType ==
    ASSUME NEW acc \in Acc, NEW q \in Nat \ {0}, NEW c \in Cost
    PROVE  Received(acc, q, c) \in Acc
<1>1. acc.stock \in Int /\ acc.cost \in Cost /\ acc.stock + q \in Int
  BY DEF Acc
<1>2. CASE acc.stock < 0
  BY <1>1, <1>2 DEF Received, Acc
<1>3. CASE ~(acc.stock < 0) /\ (acc.stock = 0 \/ IsZero(acc.cost))
  BY <1>1, <1>3 DEF Received, Acc
<1>4. CASE acc.stock > 0 /\ ~IsZero(acc.cost)
  <2> DEFINE avg == Average(acc.stock, acc.cost, q, c)
  <2>1. ~(acc.stock < 0) /\ ~(acc.stock = 0 \/ IsZero(acc.cost))
    BY <1>1, <1>4
  <2>2. Received(acc, q, c) = [stock |-> acc.stock + q, entries |-> TRUE, cost |-> avg]
    BY <2>1, Zenon DEF Received
  <2>3. acc.stock \in Nat \ {0} /\ avg \in Cost
    <3>1. acc.stock \in Nat \ {0}
      BY <1>1, <1>4
    <3> QED
      BY <1>1, <3>1, AverageBetween
  <2> HIDE DEF avg
  <2> QED
    BY <1>1, <2>2, <2>3 DEF Acc
<1> QED
  BY <1>1, <1>2, <1>3, <1>4

-----------------------------------------------------------------------------
(* A run of a formula keeps the value.                                       *)

LEMMA RunKeepsValue ==
    ASSUME VInv, TInv', NEW w \in Workers, NEW f \in Formulas, NEW loss \in Losses,
           NEW ref \in Refs, NEW t \in Tokens, RunConversion(w, f, loss, ref, t),
           NoLaterBill, AllCost(OutputOf[f], ref),
           \A p \in Inputs(f) : p \notin Owed \cup stale /\ ~IsZero(WalkOf(p).cost),
           \/ WalkOf(OutputOf[f]).stock = 0
           \/ WalkOf(OutputOf[f]).stock > 0 /\ ~IsZero(WalkOf(OutputOf[f]).cost)
    PROVE  AtMost(Value, Value') /\ AtMost(Value', Value)
<1> DEFINE out == OutputOf[f]
           good == Makes[f] - loss
           I == Inputs(f)
           old == [p \in Products |-> WalkOf(p)]
           new == [p \in Products |-> WalkOf(p)']
           need == Needs[f]
           cost == CostOf(old, need, I)
<1>1. out \in Products \ I /\ I \in SUBSET Products /\ IsFiniteSet(Products)
      /\ \A p \in I : need[p] \in Nat
  BY CostingConstants, OutputIsNoInput DEF Inputs
<1>2. good \in Nat \ {0} /\ WalkOf(out)' = Received(WalkOf(out), good, <<InputCost(f)[1], InputCost(f)[2] * good>>)
  BY OutputWalk
<1>3. InputCost(f) = cost
  <2>1. \A p \in I : CostNow(p) = old[p].cost
    BY <1>1, CurrentCost
  <2> HIDE DEF old
  <2>2. [p \in I |-> <<need[p] * CostNow(p)[1], CostNow(p)[2]>>]
          = [p \in I |-> <<need[p] * old[p].cost[1], old[p].cost[2]>>]
    BY <2>1
  <2> QED
    BY <2>2 DEF InputCost, CostOf
<1>4. old \in [Products -> Acc]
  BY WalkType DEF VInv
<1>5. InputCost(f) \in Cost
  BY LedgerNowType, InputCostIsCost DEF VInv, CostNow, Cost, Free
<1>6. \A p \in I : WalkOf(p)' = Uncosted(WalkOf(p), -need[p])
  BY InputWalk
<1>7. \A p \in Products \ (I \cup {out}) : WalkOf(p)' = WalkOf(p)
  BY OtherWalk DEF VInv
<1>8. new \in [Products -> Acc]
  <2> SUFFICES ASSUME NEW p \in Products PROVE WalkOf(p)' \in Acc
    OBVIOUS
  <2>1. WalkOf(p) \in Acc
    BY WalkType DEF VInv
  <2>2. CASE p \in I
    <3>1. -need[p] \in Int
      BY <1>1, <2>2
    <3> QED
      BY <1>6, <2>1, <2>2, <3>1 DEF Uncosted, Acc
  <2>3. CASE p = out
    <3> DEFINE c == InputCost(f)
    <3>1. c[1] \in Nat /\ c[2] \in Nat \ {0}
      BY <1>5 DEF Cost
    <3> HIDE DEF c, good
    <3>2. c[2] * good \in Nat \ {0}
      BY <1>2, <3>1
    <3>3. <<c[1], c[2] * good>> \in Cost
      BY <3>1, <3>2 DEF Cost
    <3>4. WalkOf(p)' = Received(WalkOf(p), good, <<c[1], c[2] * good>>)
      BY <1>2, <2>3 DEF c
    <3> QED
      BY <1>2, <2>1, <3>3, <3>4, ReceivedType
  <2>4. CASE p \notin I \cup {out}
    BY <1>7, <2>1, <2>4
  <2> QED
    BY <2>2, <2>3, <2>4
<1>9. Value = Worth(old, Products) /\ Value' = Worth(new, Products)
  <2>1. Value = Worth(old, Products)
    BY DEF Value, Worth
  <2>2. Value' = Worth(new, Products)
    BY DEF Value, Worth
  <2> QED
    BY <2>1, <2>2
<1>10. /\ \A p \in I : new[p] = Uncosted(old[p], -need[p])
       /\ \A p \in Products \ (I \cup {out}) : new[p] = old[p]
       /\ old[out].stock = 0 \/ (old[out].stock > 0 /\ ~IsZero(old[out].cost))
  BY <1>1, <1>6, <1>7
<1>11. new[out] = Received(old[out], good, <<cost[1], cost[2] * good>>)
  <2> HIDE DEF cost, good
  <2> QED
    BY <1>1, <1>2, <1>3
<1> HIDE DEF old, new, I, out, need, good
<1>12. new[out] = Received(old[out], good, <<CostOf(old, need, I)[1], CostOf(old, need, I)[2] * good>>)
  BY <1>11 DEF cost
<1> HIDE DEF cost
<1>13. AtMost(Worth(old, Products), Worth(new, Products))
       /\ AtMost(Worth(new, Products), Worth(old, Products))
  <2>1. IsFiniteSet(Products) /\ I \in SUBSET Products /\ out \in Products \ I
    BY <1>1
  <2>2. \A p \in I : need[p] \in Nat
    BY <1>1
  <2>3. good \in Nat \ {0}
    BY <1>2
  <2>4. \A p \in I : new[p] = Uncosted(old[p], -need[p])
    BY <1>10
  <2>5. \A p \in Products \ (I \cup {out}) : new[p] = old[p]
    BY <1>10
  <2>6. old[out].stock = 0 \/ (old[out].stock > 0 /\ ~IsZero(old[out].cost))
    BY <1>10
  <2>7. ASSUME NEW x \in [Products -> Acc], NEW y \in [Products -> Acc], NEW n,
               \A p \in I : n[p] \in Nat,
               \A p \in I : y[p] = Uncosted(x[p], -n[p]),
               y[out] = Received(x[out], good, <<CostOf(x, n, I)[1], CostOf(x, n, I)[2] * good>>),
               \A p \in Products \ (I \cup {out}) : y[p] = x[p],
               x[out].stock = 0 \/ (x[out].stock > 0 /\ ~IsZero(x[out].cost))
        PROVE  AtMost(Worth(x, Products), Worth(y, Products))
               /\ AtMost(Worth(y, Products), Worth(x, Products))
    BY <2>1, <2>3, <2>7, ValueMoves
  <2> QED
    BY <1>4, <1>8, <1>12, <2>1, <2>2, <2>3, <2>4, <2>5, <2>6, <2>7
<1> QED
  BY <1>9, <1>13

\* A conversion moves value and makes none, for any formulas, bills and costs:
\* under the conditions that the property names, the worth of the stock before and
\* after a run is the same fraction (run_conversion).
THEOREM ConversionsKeepValue == Spec => ConversionKeepsValue
<1>1. VInv /\ [Next]_vars =>
        [\A w \in Workers, f \in Formulas, loss \in Losses, ref \in Refs, t \in Tokens :
            LET out == OutputOf[f] IN
            /\ RunConversion(w, f, loss, ref, t)
            /\ \A i \in 1..Len(log'[out]) : log'[out][i].ref = ref => ~IsZero(log'[out][i].cost)
            /\ \A k \in Lines : k > LastPast => bill[k] = None
            /\ \A p \in Inputs(f) : p \notin Owed \cup stale /\ ~IsZero(WalkOf(p).cost)
            /\ WalkOf(out).stock = 0 \/ (WalkOf(out).stock > 0 /\ ~IsZero(WalkOf(out).cost))
            => AtMost(Value, Value') /\ AtMost(Value', Value)]_vars
  <2> SUFFICES ASSUME VInv, [Next]_vars,
                      NEW w \in Workers, NEW f \in Formulas, NEW loss \in Losses,
                      NEW ref \in Refs, NEW t \in Tokens, RunConversion(w, f, loss, ref, t),
                      NoLaterBill, AllCost(OutputOf[f], ref),
                      \A p \in Inputs(f) : p \notin Owed \cup stale /\ ~IsZero(WalkOf(p).cost),
                      \/ WalkOf(OutputOf[f]).stock = 0
                      \/ WalkOf(OutputOf[f]).stock > 0 /\ ~IsZero(WalkOf(OutputOf[f]).cost)
               PROVE  AtMost(Value, Value') /\ AtMost(Value', Value)
    BY Zenon DEF NoLaterBill, AllCost
  <2>1. TInv'
    BY VInvNext DEF VInv
  <2> QED
    BY <2>1, RunKeepsValue
<1> QED
  BY <1>1, VInvInit, VInvNext, PTL DEF Spec, ConversionKeepsValue
==============================================================================
