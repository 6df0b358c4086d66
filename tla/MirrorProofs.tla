----------------------------- MODULE MirrorProofs -----------------------------
(***************************************************************************)
(* Proofs about Mirror for any sets of orders, listings and processes, any *)
(* quantities and figures, and files of any length.                        *)
(***************************************************************************)
EXTENDS Mirror, SumLemmas

-----------------------------------------------------------------------------
(* What one order takes from one listing.                                    *)

\* Wanted quantities are natural, and none without an order later than the figure.
LEMMA WantedType ==
    ASSUME TypeOK, NEW r \in Row, NEW l \in Listings
    PROVE  /\ Wanted(r, l) \in Nat
           /\ Wanted(r, l) # 0 => asof[l] # None /\ Later(r.date, asof[l])
  <1>1. r.units[l] \in Nat
    BY MirrorConstants DEF Row
  <1> QED BY <1>1 DEF Wanted, Gated

\* The mirror of MAX(0, stock - n) and of the record of what really moved.
LEMMA TakenFacts ==
    ASSUME TypeOK, NEW r \in Row, NEW l \in Listings
    PROVE  /\ Recorded(r, l) \in Nat
           /\ stock[l] # None => stock[l] - Taken(r, l) \in Nat
           /\ Recorded(r, l) # 0 => Wanted(r, l) # 0
  <1>1. Wanted(r, l) \in Nat
    BY WantedType
  <1>2. units[r.order][l] \in Nat
    BY DEF TypeOK, Row
  <1>3. stock[l] # None => stock[l] \in Nat
    BY DEF TypeOK
  <1> DEFINE w == Wanted(r, l)
             s == units[r.order][l]
             k == stock[l]
  <1>4. CASE w - s <= 0
    <2>1. Taken(r, l) = w - s
      BY <1>1, <1>2, <1>4 DEF Taken
    <2>2. Recorded(r, l) = w
      BY <2>1, <1>1, <1>2 DEF Recorded
    <2> QED BY <2>1, <2>2, <1>1, <1>2, <1>3, <1>4
  <1>5. CASE ~(w - s <= 0) /\ k = None
    <2>1. Taken(r, l) = 0
      BY <1>5 DEF Taken
    <2>2. Recorded(r, l) = s
      BY <2>1, <1>2 DEF Recorded
    <2> QED BY <2>1, <2>2, <1>1, <1>2, <1>5
  <1>6. CASE ~(w - s <= 0) /\ k # None /\ w - s <= k
    <2>1. Taken(r, l) = w - s
      BY <1>6 DEF Taken
    <2>2. Recorded(r, l) = w
      BY <2>1, <1>1, <1>2 DEF Recorded
    <2> QED BY <2>1, <2>2, <1>1, <1>2, <1>3, <1>6
  <1>7. CASE ~(w - s <= 0) /\ k # None /\ ~(w - s <= k)
    <2>1. Taken(r, l) = k
      BY <1>7 DEF Taken
    <2>2. Recorded(r, l) = s + k
      BY <2>1 DEF Recorded
    <2> QED BY <2>1, <2>2, <1>1, <1>2, <1>3, <1>7
  <1> QED BY <1>4, <1>5, <1>6, <1>7

\* Files are sequences of rows.
LEMMA FilesAreSequences == \A f \in Files : f \in Seq(Row) /\ f # <<>>
  <1> SUFFICES ASSUME NEW f \in Files PROVE f \in Seq(Row) /\ f # <<>>
    OBVIOUS
  <1>1. PICK n \in 1..MaxFile : f \in [1..n -> Row]
    BY DEF Files
  <1>2. n \in Nat /\ n >= 1
    BY MirrorConstants
  <1>3. f \in Seq(Row)
    BY <1>1, <1>2
  <1>4. DOMAIN f = 1..n /\ 1 \in 1..n
    BY <1>1, <1>2
  <1> QED BY <1>3, <1>4

\* Re-applying to a fresh figure keeps natural numbers, and only later orders.
LEMMA ReappliedFacts ==
    ASSUME TypeOK, NEW o \in Orders, NEW l \in Listings, NEW f, NEW ts, NEW rank
    PROVE  /\ Reapplied(f, ts, rank, o, l) \in Nat
           /\ Reapplied(f, ts, rank, o, l) # 0 => Kept(o, ts)
  <1>1. units[o][l] \in Nat
    BY DEF TypeOK
  <1> QED BY <1>1 DEF Reapplied

-----------------------------------------------------------------------------
(* The inductive invariant.                                                  *)

IInv == TypeOK /\ RecordsAreLive

\* Nothing is recorded before the first file.
LEMMA InitEstablishesIInv == Init => IInv
  <1> SUFFICES ASSUME Init PROVE TypeOK /\ RecordsAreLive
    BY DEF IInv
  <1>1. TypeOK
    BY DEF Init, TypeOK
  <1>2. RecordsAreLive
    BY DEF Init, RecordsAreLive
  <1> QED BY <1>1, <1>2

\* A stock file states its figures as of its export, and keeps the records of
\* later orders only.
LEMMA ImportListingsKeepsIInv ==
    ASSUME IInv, NEW K \in SUBSET Listings, NEW f \in [K -> Figures \cup {None}],
           NEW ts \in Times, NEW rank, ImportListings(f, ts, rank)
    PROVE  IInv'
  <1> USE DEF IInv
  <1>1. \A l \in Listings : Stated(f, l) => f[l] \in Nat \cup {None}
    BY MirrorConstants DEF Stated
  <1>2. \A o \in Orders, l \in Listings :
           /\ Reapplied(f, ts, rank, o, l) \in Nat
           /\ Reapplied(f, ts, rank, o, l) # 0 => Kept(o, ts)
    BY ReappliedFacts
  <1>3. \A l \in Listings : StockLeft(f, ts, l) \in Nat
    BY DEF StockLeft
  <1>4. stock' \in [Listings -> Nat \cup {None}]
    BY <1>1, <1>3 DEF ImportListings, TypeOK
  <1>5. asof' \in [Listings -> Times \cup {None}]
    BY DEF ImportListings, TypeOK
  <1>6. units' \in [Orders -> [Listings -> Nat]]
    BY <1>2 DEF ImportListings, TypeOK
  <1>7. figure' \in [Listings -> Nat \cup {None}]
    BY <1>1 DEF ImportListings, TypeOK
  <1>8. now' \in Times /\ date' \in [Orders -> Times \cup {None}]
    BY DEF ImportListings, TypeOK
  <1>9. /\ file' \in [Workers -> Seq(Row)]
        /\ edit' \in [Workers -> Edit \cup {None}]
        /\ imported' \in Seq(Row)
    BY DEF ImportListings, TypeOK
  <1>10. TypeOK'
    BY <1>4, <1>5, <1>6, <1>7, <1>8, <1>9 DEF TypeOK
  <1>11. ASSUME NEW o \in Orders, NEW l \in Listings, units'[o][l] # 0
         PROVE  asof'[l] # None /\ Later(date'[o], asof'[l])
    <2>1. CASE Stated(f, l)
      <3>1. units'[o][l] = Reapplied(f, ts, rank, o, l) /\ asof'[l] = ts
        BY <2>1 DEF ImportListings
      <3>2. Kept(o, ts)
        BY <3>1, <1>2, <1>11
      <3>3. date' = date /\ ts # None
        BY MirrorConstants DEF ImportListings
      <3> QED BY <3>1, <3>2, <3>3 DEF Kept
    <2>2. CASE ~Stated(f, l)
      <3>1. units'[o][l] = units[o][l] /\ asof'[l] = asof[l] /\ date' = date
        BY <2>2 DEF ImportListings
      <3> QED BY <3>1, <1>11 DEF RecordsAreLive
    <2> QED BY <2>1, <2>2
  <1> QED BY <1>10, <1>11 DEF RecordsAreLive

\* The order at the head of a file is recorded with its own date, and only for
\* listings whose figure is older.
LEMMA ApplyOrderKeepsIInv ==
    ASSUME IInv, NEW w \in Workers, ApplyOrder(w)
    PROVE  IInv'
  <1> USE DEF IInv
  <1> DEFINE r == Head(file[w])
  <1>1. file[w] \in Seq(Row) /\ file[w] # <<>>
    BY DEF ApplyOrder, TypeOK
  <1>2. r \in Row /\ Tail(file[w]) \in Seq(Row)
    BY <1>1
  <1>3. r.order \in Orders /\ r.date \in Times \cup {None}
    BY <1>2 DEF Row
  <1> HIDE DEF r
  <1>4. \A l \in Listings :
           /\ Recorded(r, l) \in Nat
           /\ stock[l] # None => stock[l] - Taken(r, l) \in Nat
           /\ Recorded(r, l) # 0 => Wanted(r, l) # 0
    BY <1>2, TakenFacts
  <1>5. /\ date' = [date EXCEPT ![r.order] = r.date]
        /\ stock' = [l \in Listings |->
                        IF stock[l] = None THEN None ELSE stock[l] - Taken(r, l)]
        /\ units' = [units EXCEPT ![r.order] = [l \in Listings |-> Recorded(r, l)]]
        /\ file' = [file EXCEPT ![w] = Tail(@)]
        /\ UNCHANGED <<now, asof, edit, figure, imported>>
    BY DEF ApplyOrder, r
  <1>6. stock' \in [Listings -> Nat \cup {None}]
    BY <1>4, <1>5
  <1>7. units' \in [Orders -> [Listings -> Nat]]
    BY <1>4, <1>5 DEF TypeOK
  <1>8. date' \in [Orders -> Times \cup {None}]
    BY <1>3, <1>5 DEF TypeOK
  <1>9. file' \in [Workers -> Seq(Row)]
    BY <1>2, <1>5 DEF TypeOK
  <1>10. TypeOK'
    BY <1>5, <1>6, <1>7, <1>8, <1>9 DEF TypeOK
  <1>11. ASSUME NEW o \in Orders, NEW l \in Listings, units'[o][l] # 0
         PROVE  asof'[l] # None /\ Later(date'[o], asof'[l])
    <2>1. CASE o = r.order
      <3>1. units'[o][l] = Recorded(r, l) /\ date'[o] = r.date /\ asof' = asof
        BY <2>1, <1>5 DEF TypeOK
      <3>2. Wanted(r, l) # 0
        BY <3>1, <1>4, <1>11
      <3> QED BY <3>1, <3>2, <1>2, WantedType
    <2>2. CASE o # r.order
      <3>1. units'[o][l] = units[o][l] /\ date'[o] = date[o] /\ asof' = asof
        BY <2>2, <1>5 DEF TypeOK
      <3> QED BY <3>1, <1>11 DEF RecordsAreLive
    <2> QED BY <2>1, <2>2
  <1> QED BY <1>10, <1>11 DEF RecordsAreLive

\* A form that moved the figure forgets the listing's records; one that did
\* not leaves the date of the figure alone.
LEMMA SaveFigureKeepsIInv ==
    ASSUME IInv, NEW w \in Workers, SaveFigure(w)
    PROVE  IInv'
  <1> USE DEF IInv
  <1> DEFINE l == edit[w].listing
             typed == edit[w].typed
             moved == edit[w].before # typed
  <1>1. edit[w] \in Edit
    BY DEF SaveFigure, TypeOK
  <1>2. l \in Listings /\ typed \in Nat \cup {None}
    BY <1>1, MirrorConstants DEF Edit
  <1> HIDE DEF l, typed, moved
  <1>3. /\ stock' = [stock EXCEPT ![l] = typed]
        /\ asof' = IF moved THEN [asof EXCEPT ![l] = now] ELSE asof
        /\ units' = IF moved THEN [o \in Orders |-> [units[o] EXCEPT ![l] = 0]] ELSE units
        /\ figure' = IF moved THEN [figure EXCEPT ![l] = typed] ELSE figure
        /\ edit' = [edit EXCEPT ![w] = None]
        /\ imported' = <<>>
        /\ UNCHANGED <<now, date, file>>
    BY DEF SaveFigure, l, typed, moved
  <1>4. stock' \in [Listings -> Nat \cup {None}]
    BY <1>2, <1>3 DEF TypeOK
  <1>5. asof' \in [Listings -> Times \cup {None}]
    BY <1>2, <1>3 DEF TypeOK
  <1>6. units' \in [Orders -> [Listings -> Nat]]
    BY <1>2, <1>3 DEF TypeOK
  <1>7. figure' \in [Listings -> Nat \cup {None}]
    BY <1>2, <1>3 DEF TypeOK
  <1>8. edit' \in [Workers -> Edit \cup {None}] /\ imported' \in Seq(Row)
    BY <1>3 DEF TypeOK
  <1>9. TypeOK'
    BY <1>3, <1>4, <1>5, <1>6, <1>7, <1>8 DEF TypeOK
  <1>10. ASSUME NEW o \in Orders, NEW x \in Listings, units'[o][x] # 0
         PROVE  asof'[x] # None /\ Later(date'[o], asof'[x])
    <2>1. CASE moved
      <3>1. units'[o] = [units[o] EXCEPT ![l] = 0] /\ units[o] \in [Listings -> Nat]
        BY <2>1, <1>3 DEF TypeOK
      <3>2. x # l
        BY <3>1, <1>2, <1>10
      <3>3. units'[o][x] = units[o][x]
        BY <3>1, <3>2
      <3>4. asof'[x] = asof[x] /\ date' = date
        BY <2>1, <3>2, <1>3 DEF TypeOK
      <3> QED BY <3>3, <3>4, <1>10 DEF RecordsAreLive
    <2>2. CASE ~moved
      BY <2>2, <1>3, <1>10 DEF RecordsAreLive
    <2> QED BY <2>1, <2>2
  <1> QED BY <1>9, <1>10 DEF RecordsAreLive

\* Every step keeps types and live records.
LEMMA NextKeepsIInv == IInv /\ [Next]_vars => IInv'
  <1> SUFFICES ASSUME IInv, [Next]_vars PROVE IInv'
    OBVIOUS
  <1>1. CASE Tick
    <2>1. TypeOK'
      BY <1>1 DEF Tick, IInv, TypeOK
    <2>2. RecordsAreLive'
      BY <1>1 DEF Tick, IInv, RecordsAreLive
    <2> QED BY <2>1, <2>2 DEF IInv
  <1>2. ASSUME NEW K \in SUBSET Listings, NEW f \in [K -> Figures \cup {None}],
               NEW ts \in Times, NEW rank \in Injection(Orders, 1..Cardinality(Orders)),
               ImportListings(f, ts, rank)
        PROVE  IInv'
    BY <1>2, ImportListingsKeepsIInv
  <1>3. ASSUME NEW w \in Workers, NEW f \in Files, BeginImport(w, f)
        PROVE  IInv'
    <2>1. f \in Seq(Row)
      BY FilesAreSequences
    <2>2. TypeOK'
      BY <1>3, <2>1 DEF BeginImport, IInv, TypeOK
    <2>3. RecordsAreLive'
      BY <1>3 DEF BeginImport, IInv, RecordsAreLive
    <2> QED BY <2>2, <2>3 DEF IInv
  <1>4. ASSUME NEW w \in Workers, ApplyOrder(w)
        PROVE  IInv'
    BY <1>4, ApplyOrderKeepsIInv
  <1>5. ASSUME NEW w \in Workers, NEW l \in Listings, NEW typed \in Figures \cup {None},
               ReadFigure(w, l, typed)
        PROVE  IInv'
    <2>1. [listing |-> l, typed |-> typed, before |-> stock[l]] \in Edit
      BY DEF IInv, TypeOK, Edit
    <2>2. TypeOK'
      BY <1>5, <2>1 DEF ReadFigure, IInv, TypeOK
    <2>3. RecordsAreLive'
      BY <1>5 DEF ReadFigure, IInv, RecordsAreLive
    <2> QED BY <2>2, <2>3 DEF IInv
  <1>6. ASSUME NEW w \in Workers, SaveFigure(w)
        PROVE  IInv'
    BY <1>6, SaveFigureKeepsIInv
  <1>7. CASE UNCHANGED vars
    <2>1. TypeOK'
      BY <1>7 DEF IInv, TypeOK, vars
    <2>2. RecordsAreLive'
      BY <1>7 DEF IInv, RecordsAreLive, vars
    <2> QED BY <2>1, <2>2 DEF IInv
  <1> QED BY <1>1, <1>2, <1>3, <1>4, <1>5, <1>6, <1>7 DEF Next

\* Types and live records hold in every reachable state.
LEMMA IInvAlways == Spec => []IInv
  <1> QED BY InitEstablishesIInv, NextKeepsIInv, PTL DEF Spec

-----------------------------------------------------------------------------
(* The theorems.                                                             *)

\* Every reachable state of the mirror has its type: in particular no stock
\* figure and no record ever falls below zero.
THEOREM MirrorTypeCorrect == Spec => []TypeOK
  <1>1. IInv => TypeOK
    BY DEF IInv
  <1> QED BY <1>1, IInvAlways, PTL

\* Whatever files, forms and orders arrive, by any number of processes, a
\* recorded deduction belongs to an order later than the listing's figure.
THEOREM RecordsStayLive == Spec => []RecordsAreLive
  <1>1. IInv => RecordsAreLive
    BY DEF IInv
  <1> QED BY <1>1, IInvAlways, PTL

\* Applying an order leaves nothing for a second application to do.
LEMMA AppliedIsSettled ==
    ASSUME IInv, NEW w \in Workers, ApplyOrder(w), NEW l \in Listings,
           NEW r, r = Head(file[w])
    PROVE  Taken(r, l)' = 0
  <1>1. file[w] \in Seq(Row) /\ file[w] # <<>>
    BY DEF ApplyOrder, TypeOK, IInv
  <1>2. r \in Row
    BY <1>1
  <1>3. /\ stock'[l] = IF stock[l] = None THEN None ELSE stock[l] - Taken(r, l)
        /\ units'[r.order][l] = Recorded(r, l)
        /\ asof' = asof
    BY <1>2 DEF ApplyOrder, IInv, TypeOK, Row
  <1>4. Wanted(r, l)' = Wanted(r, l) /\ Wanted(r, l) \in Nat
    BY <1>2, <1>3, WantedType DEF Wanted, Gated, IInv
  <1>5. units[r.order][l] \in Nat /\ stock[l] \in Nat \cup {None}
    BY <1>2 DEF IInv, TypeOK, Row
  <1> DEFINE d == Wanted(r, l) - units[r.order][l]
  <1>6. Taken(r, l)' = LET delta == Wanted(r, l) - units'[r.order][l]
                       IN  IF delta <= 0 THEN delta
                           ELSE IF stock'[l] = None THEN 0
                           ELSE IF delta <= stock'[l] THEN delta ELSE stock'[l]
    BY <1>4 DEF Taken
  <1>7. CASE d <= 0 \/ (stock[l] # None /\ d <= stock[l])
    <2>1. Taken(r, l) = d
      BY <1>7, <1>4, <1>5, MirrorConstants DEF Taken
    <2>2. units'[r.order][l] = Wanted(r, l)
      BY <2>1, <1>3, <1>4, <1>5 DEF Recorded
    <2> QED BY <2>2, <1>4, <1>6
  <1>8. CASE ~(d <= 0) /\ stock[l] = None
    <2>1. Taken(r, l) = 0
      BY <1>8 DEF Taken
    <2>2. units'[r.order][l] = units[r.order][l] /\ stock'[l] = None
      BY <2>1, <1>3, <1>5, <1>8 DEF Recorded
    <2> QED BY <2>2, <1>6, <1>8
  <1>9. CASE ~(d <= 0) /\ stock[l] # None /\ ~(d <= stock[l])
    <2>1. Taken(r, l) = stock[l]
      BY <1>9 DEF Taken
    <2>2. stock'[l] = 0 /\ units'[r.order][l] = units[r.order][l] + stock[l]
      BY <2>1, <1>3, <1>5, <1>9 DEF Recorded
    <2>3. ~(Wanted(r, l) - units'[r.order][l] <= 0)
      BY <2>2, <1>4, <1>5, <1>9
    <2> QED BY <2>2, <2>3, <1>4, <1>5, <1>6, <1>9, MirrorConstants
  <1> QED BY <1>7, <1>8, <1>9

\* "Idempotent by construction": of one order, for every quantity and figure.
THEOREM OneOrderIsIdempotent == Spec => ReapplyIsNoOp
  <1>1. IInv /\ [Next]_vars =>
          [\A w \in Workers : ApplyOrder(w) =>
              \A r \in {Head(file[w])}, l \in Listings : Taken(r, l)' = 0]_vars
    <2> SUFFICES ASSUME IInv, NEW w \in Workers, ApplyOrder(w),
                        NEW r \in {Head(file[w])}, NEW l \in Listings
                 PROVE  Taken(r, l)' = 0
      OBVIOUS
    <2> QED BY AppliedIsSettled
  <1> QED BY <1>1, IInvAlways, PTL DEF Spec, ReapplyIsNoOp

-----------------------------------------------------------------------------
(* What a stock file leaves: the greedy re-apply of the kept records, order  *)
(* by order, takes as much as all of them together, or all of the figure.    *)

\* The records of the orders met up to position k of the file's SELECT.
Upto(rank, k) == {x \in Orders : rank[x] <= k}
KeptUpto(ts, rank, k) == {x \in Orders : Kept(x, ts) /\ rank[x] <= k}

\* What every order has re-applied to listing l.
Reapplying(f, ts, rank, l) == [x \in Orders |-> Reapplied(f, ts, rank, x, l)]

Least(a, b) == IF a <= b THEN a ELSE b

\* Records are natural numbers and so is the sum of any of them.
LEMMA RecordsSum ==
    ASSUME TypeOK, NEW l \in Listings, NEW S \in SUBSET Orders
    PROVE  /\ IsFiniteSet(S)
           /\ \A x \in S : Records(l)[x] = units[x][l] /\ units[x][l] \in Nat
           /\ SumFunctionOnSet(Records(l), S) \in Nat
  <1>1. IsFiniteSet(S)
    BY MirrorConstants, FS_Subset
  <1>2. \A x \in S : Records(l)[x] = units[x][l] /\ units[x][l] \in Nat
    BY DEF Records, TypeOK
  <1>3. SumFunctionOnSet(Records(l), S) \in Nat
    BY <1>1, <1>2, SumNat
  <1> QED BY <1>1, <1>2, <1>3

\* Ranks are distinct, so one more position is at most one more order.
LEMMA NextRank ==
    ASSUME NEW rank \in Injection(Orders, 1..Cardinality(Orders)), NEW k \in Nat,
           NEW o \in Orders, rank[o] = k + 1
    PROVE  \A ts : /\ Upto(rank, k + 1) = Upto(rank, k) \cup {o}
                   /\ o \notin Upto(rank, k)
                   /\ Kept(o, ts) => KeptUpto(ts, rank, k + 1) = KeptUpto(ts, rank, k) \cup {o}
                   /\ ~Kept(o, ts) => KeptUpto(ts, rank, k + 1) = KeptUpto(ts, rank, k)
                   /\ KeptUpto(ts, rank, k) = {x \in Orders : Kept(x, ts) /\ rank[x] < rank[o]}
                   /\ o \notin KeptUpto(ts, rank, k)
  <1>1. Cardinality(Orders) \in Nat
    BY MirrorConstants, FS_CardinalityType
  <1>2. \A x \in Orders : rank[x] \in Int
    BY <1>1 DEF Injection
  <1>3. \A x \in Orders : rank[x] = k + 1 => x = o
    BY DEF Injection, IsInjective
  <1>4. \A x \in Orders : rank[x] <= k + 1 <=> rank[x] <= k \/ x = o
    BY <1>2, <1>3
  <1>5. ~(rank[o] <= k)
    OBVIOUS
  <1>6. \A x \in Orders : rank[x] <= k <=> rank[x] < rank[o]
    BY <1>2
  <1> QED BY <1>4, <1>5, <1>6 DEF Upto, KeptUpto

\* After any number of positions the file has re-applied the least of the
\* figure and the records met, whatever was clamped on the way.
LEMMA ReappliedUpto ==
    ASSUME TypeOK, NEW l \in Listings, NEW f, f[l] \in Nat, NEW ts,
           NEW rank \in Injection(Orders, 1..Cardinality(Orders))
    PROVE  \A k \in Nat :
              SumFunctionOnSet(Reapplying(f, ts, rank, l), Upto(rank, k))
                 = Least(f[l], SumFunctionOnSet(Records(l), KeptUpto(ts, rank, k)))
  <1> DEFINE again == Reapplying(f, ts, rank, l)
             Done(k) == SumFunctionOnSet(again, Upto(rank, k))
             Due(k) == SumFunctionOnSet(Records(l), KeptUpto(ts, rank, k))
             N == {k \in Nat : Done(k) = Least(f[l], Due(k))}
  <1>1. Cardinality(Orders) \in Nat
    BY MirrorConstants, FS_CardinalityType
  <1>2. \A x \in Orders : again[x] = Reapplied(f, ts, rank, x, l) /\ again[x] \in Nat
    BY ReappliedFacts DEF Reapplying
  <1>3. \A k \in Nat : IsFiniteSet(Upto(rank, k)) /\ IsFiniteSet(KeptUpto(ts, rank, k))
    BY MirrorConstants, FS_Subset DEF Upto, KeptUpto
  <1>4. \A k \in Nat : Due(k) \in Nat
    BY RecordsSum DEF KeptUpto
  <1>5. \A k \in Nat : Done(k) \in Nat
    BY <1>2, <1>3, SumNat DEF Upto
  <1>6. 0 \in N
    <2>1. \A x \in Orders : ~(rank[x] <= 0)
      BY <1>1 DEF Injection
    <2>2. Upto(rank, 0) = {} /\ KeptUpto(ts, rank, 0) = {}
      BY <2>1 DEF Upto, KeptUpto
    <2>3. Done(0) = 0 /\ Due(0) = 0
      BY <2>2, SumEmpty
    <2> HIDE DEF Done, Due
    <2>4. Done(0) = Least(f[l], Due(0))
      BY <2>3 DEF Least
    <2> QED BY <2>4
  <1>7. ASSUME NEW k \in Nat, k \in N PROVE k + 1 \in N
    <2>0. Done(k) = Least(f[l], Due(k)) /\ Due(k) \in Nat /\ Done(k) \in Nat
      BY <1>4, <1>5, <1>7
    <2>1. CASE \E o \in Orders : rank[o] = k + 1
      <3>1. PICK o \in Orders : rank[o] = k + 1
        BY <2>1
      <3>2. /\ Upto(rank, k + 1) = Upto(rank, k) \cup {o}
            /\ o \notin Upto(rank, k) /\ o \notin KeptUpto(ts, rank, k)
            /\ Kept(o, ts) => KeptUpto(ts, rank, k + 1) = KeptUpto(ts, rank, k) \cup {o}
            /\ ~Kept(o, ts) => KeptUpto(ts, rank, k + 1) = KeptUpto(ts, rank, k)
            /\ KeptUpto(ts, rank, k) = {x \in Orders : Kept(x, ts) /\ rank[x] < rank[o]}
        BY <3>1, NextRank
      <3>3. Done(k + 1) = Done(k) + again[o]
        <4>1. \A x \in Upto(rank, k) \cup {o} : again[x] \in Int
          BY <1>2 DEF Upto
        <4> HIDE DEF again
        <4> QED BY <1>3, <3>2, <4>1, SumAdd
      <3>4. Room(f, ts, rank, o, l) = f[l] - Due(k)
        BY <3>2 DEF Room
      <3>5. units[o][l] \in Nat /\ Records(l)[o] = units[o][l]
        BY DEF Records, TypeOK
      <3>6. CASE ~Kept(o, ts)
        <4>1. again[o] = 0
          BY <1>2, <3>6 DEF Reapplied
        <4>2. Due(k + 1) = Due(k)
          BY <3>2, <3>6
        <4>3. Done(k + 1) = Done(k)
          BY <2>0, <3>3, <4>1
        <4> QED BY <2>0, <4>2, <4>3
      <3>7. CASE Kept(o, ts)
        <4>1. Due(k + 1) = Due(k) + units[o][l]
          <5>1. \A x \in KeptUpto(ts, rank, k) \cup {o} : Records(l)[x] \in Int
            <6>1. \A x \in Orders : Records(l)[x] \in Int
              BY DEF Records, TypeOK
            <6> QED BY <6>1 DEF KeptUpto
          <5>2. SumFunctionOnSet(Records(l), KeptUpto(ts, rank, k) \cup {o})
                   = SumFunctionOnSet(Records(l), KeptUpto(ts, rank, k)) + Records(l)[o]
            BY <1>3, <3>2, <5>1, SumAdd
          <5> QED BY <3>2, <3>5, <3>7, <5>2
        <4>2. again[o] = IF units[o][l] <= f[l] - Due(k) THEN units[o][l]
                         ELSE IF f[l] - Due(k) \in Nat THEN f[l] - Due(k) ELSE 0
          BY <1>2, <3>4, <3>7, MirrorConstants DEF Reapplied
        <4> DEFINE d == Due(k)
                   e == Due(k + 1)
                   a == Done(k)
                   b == Done(k + 1)
                   u == units[o][l]
                   g == again[o]
                   top == f[l]
        <4>3. /\ b = a + g /\ e = d + u /\ a = Least(top, d)
              /\ g = IF u <= top - d THEN u ELSE IF top - d \in Nat THEN top - d ELSE 0
              /\ d \in Nat /\ a \in Nat /\ u \in Nat /\ top \in Nat
          BY <2>0, <3>3, <3>5, <4>1, <4>2
        <4> HIDE DEF d, e, a, b, u, g, top
        <4>4. b = Least(top, e)
          BY <4>3 DEF Least
        <4> QED BY <4>4 DEF b, top, e
      <3> QED BY <3>6, <3>7
    <2>2. CASE ~\E o \in Orders : rank[o] = k + 1
      <3>1. \A x \in Orders : rank[x] \in Int
        BY <1>1 DEF Injection
      <3>2. \A x \in Orders : rank[x] <= k + 1 <=> rank[x] <= k
        BY <2>2, <3>1
      <3>3. Upto(rank, k + 1) = Upto(rank, k) /\ KeptUpto(ts, rank, k + 1) = KeptUpto(ts, rank, k)
        BY <3>2 DEF Upto, KeptUpto
      <3> QED BY <2>0, <3>3
    <2> QED BY <2>1, <2>2
  <1>8. Nat \subseteq N
    <2> HIDE DEF N
    <2> QED BY <1>6, <1>7, NatSetInduction
  <1> QED BY <1>8

\* A stock file leaves its figure less what it has re-applied.
LEMMA FileLeavesTheRest ==
    ASSUME TypeOK, NEW l \in Listings, NEW f, f[l] \in Nat, NEW ts,
           NEW rank \in Injection(Orders, 1..Cardinality(Orders))
    PROVE  StockLeft(f, ts, l) = f[l] - SumFunctionOnSet(Reapplying(f, ts, rank, l), Orders)
  <1> DEFINE n == Cardinality(Orders)
  <1>1. n \in Nat
    BY MirrorConstants, FS_CardinalityType
  <1>2. \A x \in Orders : rank[x] <= n
    BY <1>1 DEF Injection
  <1>3. Upto(rank, n) = Orders /\ KeptUpto(ts, rank, n) = {x \in Orders : Kept(x, ts)}
    BY <1>2 DEF Upto, KeptUpto
  <1>4. SumFunctionOnSet(Reapplying(f, ts, rank, l), Upto(rank, n))
           = Least(f[l], SumFunctionOnSet(Records(l), KeptUpto(ts, rank, n)))
    <2> HIDE DEF n
    <2> QED BY <1>1, ReappliedUpto
  <1> DEFINE due == SumFunctionOnSet(Records(l), {x \in Orders : Kept(x, ts)})
  <1>5. due \in Nat
    BY RecordsSum
  <1>6. SumFunctionOnSet(Reapplying(f, ts, rank, l), Orders) = Least(f[l], due)
    BY <1>3, <1>4
  <1>7. StockLeft(f, ts, l) = IF f[l] - due \in Nat THEN f[l] - due ELSE 0
    BY DEF StockLeft
  <1> HIDE DEF due
  <1> QED BY <1>5, <1>6, <1>7 DEF Least

-----------------------------------------------------------------------------
(* The figure and its records.                                               *)

\* A saved form that leaves the figure as its process read it, when the figure
\* has meanwhile moved: it overwrites the stock and keeps the records.
Overtakes(w) ==
    /\ SaveFigure(w)
    /\ edit[w].before = edit[w].typed
    /\ stock[edit[w].listing] # edit[w].typed

NoOvertaking == \A w \in Workers : ~Overtakes(w)

Balanced(l) ==
    /\ stock[l] = None <=> figure[l] = None
    /\ stock[l] = None => \A o \in Orders : units[o][l] = 0
    /\ stock[l] # None => stock[l] = figure[l] - SumFunctionOnSet(Records(l), Orders)

\* The stated invariant, listing by listing.
LEMMA BalancedIsTheInvariant == StockIsFigureLessRecords <=> \A l \in Listings : Balanced(l)
  <1>1. \A l : DOMAIN Records(l) = Orders
    BY DEF Records
  <1> QED BY <1>1 DEF StockIsFigureLessRecords, Balanced, SumFunction

\* A listing that a step leaves alone stays balanced.
LEMMA UntouchedStaysBalanced ==
    ASSUME NEW l \in Listings, Balanced(l),
           stock'[l] = stock[l], figure'[l] = figure[l],
           \A o \in Orders : units'[o][l] = units[o][l]
    PROVE  Balanced(l)'
  <1>1. Records(l)' = Records(l)
    BY DEF Records
  <1> QED BY <1>1 DEF Balanced

\* A stock file.
LEMMA ImportListingsBalances ==
    ASSUME TypeOK, TypeOK', NEW K \in SUBSET Listings, NEW f \in [K -> Figures \cup {None}],
           NEW ts \in Times, NEW rank \in Injection(Orders, 1..Cardinality(Orders)),
           ImportListings(f, ts, rank), NEW l \in Listings, Balanced(l)
    PROVE  Balanced(l)'
  <1>1. CASE ~Stated(f, l)
    <2>1. /\ stock'[l] = stock[l] /\ figure'[l] = figure[l]
          /\ \A o \in Orders : units'[o][l] = units[o][l]
      BY <1>1 DEF ImportListings
    <2> QED BY <2>1, UntouchedStaysBalanced
  <1>2. CASE Stated(f, l)
    <2>1. /\ stock'[l] = IF f[l] = None THEN None ELSE StockLeft(f, ts, l)
          /\ figure'[l] = f[l]
          /\ \A o \in Orders : units'[o][l] = Reapplied(f, ts, rank, o, l)
      BY <1>2 DEF ImportListings
    <2>2. f[l] \in Nat \cup {None}
      BY <1>2, MirrorConstants DEF Stated
    <2>3. CASE f[l] = None
      <3>1. \A o \in Orders : units'[o][l] = 0
        BY <2>1, <2>3 DEF Reapplied
      <3> QED BY <2>1, <2>3, <3>1 DEF Balanced
    <2>4. CASE f[l] # None
      <3>1. stock'[l] = figure'[l] - SumFunctionOnSet(Reapplying(f, ts, rank, l), Orders)
        BY <2>1, <2>2, <2>4, FileLeavesTheRest
      <3>2. Reapplying(f, ts, rank, l) = Records(l)'
        BY <2>1 DEF Reapplying, Records
      <3>3. StockLeft(f, ts, l) \in Nat
        BY DEF StockLeft
      <3> QED BY <2>1, <2>4, <3>1, <3>2, <3>3, MirrorConstants DEF Balanced
    <2> QED BY <2>3, <2>4
  <1> QED BY <1>1, <1>2

\* An order moves as many units from the stock to its record, or back.
LEMMA ApplyOrderBalances ==
    ASSUME TypeOK, TypeOK', NEW w \in Workers, ApplyOrder(w),
           NEW l \in Listings, Balanced(l)
    PROVE  Balanced(l)'
  <1> DEFINE r == Head(file[w])
  <1>1. file[w] \in Seq(Row) /\ file[w] # <<>>
    BY DEF ApplyOrder, TypeOK
  <1>2. r \in Row
    BY <1>1
  <1>3. r.order \in Orders
    BY <1>2 DEF Row
  <1>4. /\ stock'[l] = IF stock[l] = None THEN None ELSE stock[l] - Taken(r, l)
        /\ figure' = figure
        /\ units'[r.order][l] = units[r.order][l] + Taken(r, l)
        /\ \A o \in Orders \ {r.order} : units'[o][l] = units[o][l]
    BY <1>3 DEF ApplyOrder, TypeOK, Recorded
  <1>5. Wanted(r, l) \in Nat
    BY <1>2, WantedType
  <1>6. \A o \in Orders : units[o][l] \in Nat /\ units'[o][l] \in Nat
    BY DEF TypeOK
  <1> HIDE DEF r
  <1>7. CASE stock[l] = None
    <2>1. units[r.order][l] = 0
      BY <1>3, <1>7 DEF Balanced
    <2>2. Taken(r, l) = 0
      BY <1>5, <1>7, <2>1 DEF Taken
    <2>3. \A o \in Orders : units'[o][l] = units[o][l]
      BY <1>3, <1>4, <1>6, <2>2
    <2> QED BY <1>4, <1>7, <2>3, UntouchedStaysBalanced
  <1>8. CASE stock[l] # None
    <2>1. stock[l] \in Nat
      BY <1>8 DEF TypeOK
    <2>2. Taken(r, l) \in Int
      BY <1>3, <1>5, <1>6, <1>8, <2>1 DEF Taken
    <2>3. /\ Records(l) = [o \in Orders |-> units[o][l]]
          /\ Records(l)' = [o \in Orders |-> units'[o][l]]
      BY DEF Records
    <2> DEFINE before == Records(l)
               after == Records(l)'
    <2>4. /\ \A o \in Orders : before[o] \in Int /\ after[o] \in Int
          /\ \A o \in Orders \ {r.order} : before[o] = after[o]
          /\ after[r.order] = before[r.order] + Taken(r, l)
      BY <1>3, <1>4, <1>6, <2>3
    <2> HIDE DEF before, after
    <2>5. SumFunctionOnSet(after, Orders)
             = SumFunctionOnSet(before, Orders) - before[r.order] + after[r.order]
      BY <1>3, <2>4, MirrorConstants, SumChange
    <2>6. SumFunctionOnSet(before, Orders) \in Int
      BY <2>4, MirrorConstants, SumInt
    <2>7. SumFunctionOnSet(after, Orders) = SumFunctionOnSet(before, Orders) + Taken(r, l)
      BY <1>3, <2>2, <2>4, <2>5, <2>6
    <2>8. /\ figure[l] # None /\ figure[l] \in Int
          /\ stock[l] = figure[l] - SumFunctionOnSet(before, Orders)
      BY <1>8 DEF Balanced, TypeOK, before
    <2>9. stock'[l] = figure[l] - SumFunctionOnSet(after, Orders)
      BY <1>4, <1>8, <2>2, <2>6, <2>7, <2>8
    <2>10. stock'[l] # None
      BY <1>2, <1>4, <1>8, TakenFacts, MirrorConstants
    <2> QED BY <1>4, <2>8, <2>9, <2>10 DEF Balanced, after
  <1> QED BY <1>7, <1>8

\* A form that is not overtaken leaves the stock, or starts a new figure.
LEMMA SaveFigureBalances ==
    ASSUME TypeOK, TypeOK', NEW w \in Workers, SaveFigure(w), ~Overtakes(w),
           NEW x \in Listings, Balanced(x)
    PROVE  Balanced(x)'
  <1> DEFINE l == edit[w].listing
             typed == edit[w].typed
             moved == edit[w].before # typed
  <1>1. edit[w] \in Edit
    BY DEF SaveFigure, TypeOK
  <1>2. l \in Listings /\ typed \in Nat \cup {None}
    BY <1>1, MirrorConstants DEF Edit
  <1>0. ~moved => stock[l] = typed
    BY DEF Overtakes
  <1> HIDE DEF l, typed, moved
  <1>3. /\ stock' = [stock EXCEPT ![l] = typed]
        /\ units' = IF moved THEN [o \in Orders |-> [units[o] EXCEPT ![l] = 0]] ELSE units
        /\ figure' = IF moved THEN [figure EXCEPT ![l] = typed] ELSE figure
    BY DEF SaveFigure, l, typed, moved
  <1>4. CASE x # l
    <2>1. /\ stock'[x] = stock[x] /\ figure'[x] = figure[x]
          /\ \A o \in Orders : units'[o][x] = units[o][x]
      BY <1>2, <1>3, <1>4 DEF TypeOK
    <2> QED BY <2>1, UntouchedStaysBalanced
  <1>5. CASE x = l /\ ~moved
    <2>1. /\ stock'[x] = stock[x] /\ figure'[x] = figure[x]
          /\ \A o \in Orders : units'[o][x] = units[o][x]
      BY <1>0, <1>2, <1>3, <1>5 DEF TypeOK
    <2> QED BY <2>1, UntouchedStaysBalanced
  <1>6. CASE x = l /\ moved
    <2>1. /\ stock'[x] = typed /\ figure'[x] = typed
          /\ \A o \in Orders : units'[o][x] = 0
      BY <1>2, <1>3, <1>6 DEF TypeOK
    <2>2. SumFunctionOnSet(Records(x)', Orders) = 0
      <3>1. \A o \in Orders : Records(x)'[o] = 0
        BY <2>1 DEF Records
      <3> QED BY <3>1, MirrorConstants, SumZero
    <2> QED BY <1>2, <2>1, <2>2 DEF Balanced
  <1> QED BY <1>4, <1>5, <1>6

\* No step unbalances a listing, but a form that overtakes another change.
LEMMA NextBalances ==
    ASSUME TypeOK, TypeOK', [Next]_vars, NoOvertaking, NEW l \in Listings, Balanced(l)
    PROVE  Balanced(l)'
  <1> USE DEF NoOvertaking
  <1>1. CASE UNCHANGED <<stock, units, figure>>
    BY <1>1, UntouchedStaysBalanced
  <1>2. ASSUME NEW K \in SUBSET Listings, NEW f \in [K -> Figures \cup {None}],
               NEW ts \in Times, NEW rank \in Injection(Orders, 1..Cardinality(Orders)),
               ImportListings(f, ts, rank)
        PROVE  Balanced(l)'
    BY <1>2, ImportListingsBalances
  <1>3. ASSUME NEW w \in Workers, ApplyOrder(w) PROVE Balanced(l)'
    BY <1>3, ApplyOrderBalances
  <1>4. ASSUME NEW w \in Workers, SaveFigure(w) PROVE Balanced(l)'
    BY <1>4, SaveFigureBalances
  <1> QED BY <1>1, <1>2, <1>3, <1>4 DEF Next, Tick, BeginImport, ReadFigure, vars

\* However many processes run, only a form that was overtaken between its read
\* and its save can part a listing's stock from its figure and its records.
THEOREM StockFollowsFigure == Spec /\ [][NoOvertaking]_vars => []StockIsFigureLessRecords
  <1>1. Init => StockIsFigureLessRecords
    <2> SUFFICES ASSUME Init, NEW l \in Listings PROVE Balanced(l)
      BY BalancedIsTheInvariant
    <2> QED BY DEF Init, Balanced
  <1>2. /\ TypeOK /\ TypeOK' /\ StockIsFigureLessRecords
        /\ [Next]_vars /\ [NoOvertaking]_vars
        => StockIsFigureLessRecords'
    <2> SUFFICES ASSUME TypeOK, TypeOK', StockIsFigureLessRecords,
                        [Next]_vars, [NoOvertaking]_vars
                 PROVE  StockIsFigureLessRecords'
      OBVIOUS
    <2>1. \A l \in Listings : Balanced(l)
      BY BalancedIsTheInvariant
    <2>2. \A l \in Listings : Balanced(l)'
      <3>1. CASE UNCHANGED vars
        BY <2>1, <3>1, UntouchedStaysBalanced DEF vars
      <3>2. CASE NoOvertaking
        BY <2>1, <3>2, NextBalances
      <3> QED BY <3>1, <3>2
    <2> QED BY <2>2 DEF StockIsFigureLessRecords, Balanced, SumFunction, Records
  <1> QED BY <1>1, <1>2, MirrorTypeCorrect, PTL DEF Spec

-----------------------------------------------------------------------------
(* One process.                                                              *)

\* What the form of the only process has read is still the figure.
FormIsFresh ==
    \A w \in Workers : edit[w] # None =>
        /\ file[w] = <<>>
        /\ edit[w].before = stock[edit[w].listing]

\* The one process does one thing at a time.
LEMMA FormStaysFresh ==
    ASSUME NEW w0, Workers = {w0}, TypeOK, FormIsFresh, [Next]_vars
    PROVE  FormIsFresh'
  <1> USE DEF FormIsFresh
  <1>1. CASE UNCHANGED <<stock, file, edit>>
    BY <1>1
  <1>2. ASSUME NEW f, NEW ts, NEW rank, ImportListings(f, ts, rank) PROVE FormIsFresh'
    BY <1>2 DEF ImportListings, Idle, Free
  <1>3. ASSUME NEW w \in Workers, NEW f, BeginImport(w, f) PROVE FormIsFresh'
    BY <1>3 DEF BeginImport, Free
  <1>4. ASSUME NEW w \in Workers, ApplyOrder(w) PROVE FormIsFresh'
    BY <1>4 DEF ApplyOrder
  <1>5. ASSUME NEW w \in Workers, NEW l \in Listings, NEW typed, ReadFigure(w, l, typed)
        PROVE  FormIsFresh'
    <2>1. /\ edit'[w] = [listing |-> l, typed |-> typed, before |-> stock[l]]
          /\ stock' = stock /\ file' = file /\ file[w] = <<>>
      BY <1>5 DEF ReadFigure, Free, TypeOK
    <2>2. edit'[w].listing = l /\ edit'[w].before = stock[l]
      BY <2>1
    <2> QED BY <2>1, <2>2
  <1>6. ASSUME NEW w \in Workers, SaveFigure(w) PROVE FormIsFresh'
    <2>1. edit'[w] = None
      BY <1>6 DEF SaveFigure, TypeOK
    <2> QED BY <2>1
  <1> QED BY <1>1, <1>2, <1>3, <1>4, <1>5, <1>6 DEF Next, Tick, vars

\* With one process no form is overtaken.
LEMMA OneProcessIsNotOvertaken ==
    ASSUME NEW w0, Workers = {w0}
    PROVE  Spec => [][NoOvertaking]_vars
  <1>1. Init => FormIsFresh
    BY DEF Init, FormIsFresh
  <1>2. TypeOK /\ FormIsFresh /\ [Next]_vars => FormIsFresh'
    BY FormStaysFresh
  <1>3. FormIsFresh => [NoOvertaking]_vars
    BY DEF FormIsFresh, NoOvertaking, Overtakes, SaveFigure
  <1> QED BY <1>1, <1>2, <1>3, MirrorTypeCorrect, PTL DEF Spec

\* With one process the stock of a listing is always its last authoritative
\* figure less what the recorded orders took from it, for any orders, listings,
\* quantities, files and dates.
THEOREM StockIsAlwaysFigureLessRecords ==
    ASSUME NEW w0, Workers = {w0}
    PROVE  Spec => []StockIsFigureLessRecords
  <1> QED BY StockFollowsFigure, OneProcessIsNotOvertaken, PTL
=============================================================================
