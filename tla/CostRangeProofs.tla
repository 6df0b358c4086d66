--------------------------- MODULE CostRangeProofs ---------------------------
(***************************************************************************)
(* What the walk over a product's rows computes: a number between the      *)
(* lowest and the highest cost that the product was received at.           *)
(*                                                                         *)
(* The walk is two nested recursions.  Each is shown to have a solution    *)
(* whose values stay in a set that every step stays in: the accumulators   *)
(* whose cost is zero or lies in the range.                                *)
(***************************************************************************)
EXTENDS Costing, SumLemmas

Acc == [stock : Int, cost : Cost, entries : BOOLEAN]

\* The accumulators whose cost, if there is one, was entered and lies within
\* the range of M.
Within(M) ==
    {acc \in Acc : IsZero(acc.cost) \/ /\ acc.entries
                                       /\ \E c \in M : AtMost(c, acc.cost)
                                       /\ \E c \in M : AtMost(acc.cost, c)}

-----------------------------------------------------------------------------
(* Fractions.                                                                *)

LEMMA TimesMonotone ==
    ASSUME NEW a \in Nat, NEW b \in Nat, NEW n \in Nat, a <= b
    PROVE  n * a <= n * b
<1>1. b - a \in Nat
  OBVIOUS
<1>2. n * (b - a) \in Nat /\ n * b = n * a + n * (b - a)
  BY <1>1
<1> QED
  BY <1>2

LEMMA TimesCancels ==
    ASSUME NEW a \in Nat, NEW b \in Nat, NEW n \in Nat \ {0}, n * a <= n * b
    PROVE  a <= b
<1> SUFFICES ASSUME b < a PROVE FALSE
  OBVIOUS
<1>1. a - b \in Nat \ {0} /\ n \in Nat \ {0}
  OBVIOUS
<1>2. n * (a - b) > 0 /\ n * a = n * b + n * (a - b)
  BY <1>1
<1> QED
  BY <1>2

LEMMA AtMostTransitive ==
    ASSUME NEW c \in Cost, NEW d \in Cost, NEW e \in Cost, AtMost(c, d), AtMost(d, e)
    PROVE  AtMost(c, e)
<1> DEFINE c1 == c[1]
           c2 == c[2]
           d1 == d[1]
           d2 == d[2]
           e1 == e[1]
           e2 == e[2]
<1>1. /\ c1 \in Nat /\ d1 \in Nat /\ e1 \in Nat
      /\ c2 \in Nat \ {0} /\ d2 \in Nat \ {0} /\ e2 \in Nat \ {0}
  BY DEF Cost
<1>2. c1 * d2 <= d1 * c2 /\ d1 * e2 <= e1 * d2
  BY DEF AtMost
<1> HIDE DEF c1, c2, d1, d2, e1, e2
<1>3. e2 * (c1 * d2) <= e2 * (d1 * c2)
  BY <1>1, <1>2, TimesMonotone
<1>4. c2 * (d1 * e2) <= c2 * (e1 * d2)
  BY <1>1, <1>2, TimesMonotone
<1>5. d2 * (c1 * e2) <= d2 * (e1 * c2)
  BY <1>1, <1>3, <1>4
<1>6. c1 * e2 <= e1 * c2
  BY <1>1, <1>5, TimesCancels
<1> QED
  BY <1>6 DEF AtMost, c1, c2, e1, e2

LEMMA AtMostTotal ==
    ASSUME NEW c \in Cost, NEW d \in Cost
    PROVE  AtMost(c, d) \/ AtMost(d, c)
BY DEF Cost, AtMost

\* A weighted sum lies between its ends.
LEMMA WeightedBetween ==
    ASSUME NEW x \in Nat, NEW y \in Nat, NEW s \in Nat, NEW q \in Nat, x <= y
    PROVE  x * (s + q) <= s * x + q * y /\ s * x + q * y <= y * (s + q)
<1>1. q * x <= q * y /\ s * x <= s * y
  BY TimesMonotone
<1> QED
  BY <1>1

\* An average of two costs is a cost between the two.
LEMMA AverageBetween ==
    ASSUME NEW c \in Cost, NEW d \in Cost, NEW s \in Nat \ {0}, NEW q \in Nat \ {0}
    PROVE  /\ Average(s, c, q, d) \in Cost
           /\ AtMost(c, d) => /\ AtMost(c, Average(s, c, q, d))
                              /\ AtMost(Average(s, c, q, d), d)
           /\ AtMost(d, c) => /\ AtMost(d, Average(s, c, q, d))
                              /\ AtMost(Average(s, c, q, d), c)
<1> DEFINE c1 == c[1]
           c2 == c[2]
           d1 == d[1]
           d2 == d[2]
           x == c1 * d2
           y == d1 * c2
           num == s * x + q * y
           den == (c2 * d2) * (s + q)
<1>1. c1 \in Nat /\ d1 \in Nat /\ c2 \in Nat \ {0} /\ d2 \in Nat \ {0}
  BY DEF Cost
<1>2. Average(s, c, q, d) = <<s * c1 * d2 + q * d1 * c2, c2 * d2 * (s + q)>>
  BY DEF Average
<1> HIDE DEF c1, c2, d1, d2
<1>3. s * c1 * d2 + q * d1 * c2 = num /\ c2 * d2 * (s + q) = den
  BY <1>1
<1>4. x \in Nat /\ y \in Nat /\ num \in Nat
  BY <1>1
<1>5. den \in Nat \ {0}
  <2>1. c2 * d2 \in Nat \ {0} /\ s + q \in Nat \ {0}
    BY <1>1
  <2> QED
    BY <2>1
<1>6. Average(s, c, q, d) = <<num, den>> /\ <<num, den>> \in Cost
  BY <1>2, <1>3, <1>4, <1>5 DEF Cost
\* Scaled by what is common, each comparison is one of the weighted sum.
<1>7. /\ c1 * den = c2 * (x * (s + q)) /\ d1 * den = d2 * (y * (s + q))
      /\ num * c2 = c2 * num /\ num * d2 = d2 * num
  BY <1>1, <1>4
<1> DEFINE avg == <<num, den>>
<1>8. /\ avg[1] = num /\ avg[2] = den
      /\ c[1] = c1 /\ c[2] = c2 /\ d[1] = d1 /\ d[2] = d2
  BY DEF c1, c2, d1, d2
<1> HIDE DEF x, y, num, den, avg
<1>9. CASE x <= y
  <2>1. x * (s + q) <= num /\ num <= y * (s + q)
    BY <1>4, <1>9, WeightedBetween DEF num
  <2>2. c2 * (x * (s + q)) <= c2 * num /\ d2 * num <= d2 * (y * (s + q))
    BY <1>1, <1>4, <2>1, TimesMonotone
  <2>3. AtMost(c, avg) /\ AtMost(avg, d)
    BY <1>7, <1>8, <2>2 DEF AtMost
  <2>4. AtMost(d, c) => x = y
    BY <1>4, <1>8, <1>9 DEF AtMost, x, y
  <2>5. x = y => AtMost(d, avg) /\ AtMost(avg, c)
    <3> SUFFICES ASSUME x = y PROVE AtMost(d, avg) /\ AtMost(avg, c)
      OBVIOUS
    <3>1. num = x * (s + q) /\ num = y * (s + q)
      BY <1>4 DEF num
    <3>2. d1 * den = num * d2 /\ c1 * den = num * c2
      BY <1>7, <3>1
    <3>3. num * d2 \in Int /\ num * c2 \in Int
      BY <1>1, <1>4
    <3> QED
      BY <1>8, <3>2, <3>3 DEF AtMost
  <2> QED
    BY <1>6, <2>3, <2>4, <2>5 DEF avg
<1>10. CASE y < x
  <2>1. y * (s + q) <= num /\ num <= x * (s + q)
    BY <1>4, <1>10, WeightedBetween DEF num
  <2>2. d2 * (y * (s + q)) <= d2 * num /\ c2 * num <= c2 * (x * (s + q))
    BY <1>1, <1>4, <2>1, TimesMonotone
  <2>3. AtMost(d, avg) /\ AtMost(avg, c)
    BY <1>7, <1>8, <2>2 DEF AtMost
  <2>4. ~AtMost(c, d)
    BY <1>4, <1>8, <1>10 DEF AtMost, x, y
  <2> QED
    BY <1>6, <2>3, <2>4 DEF avg
<1> QED
  BY <1>4, <1>9, <1>10

-----------------------------------------------------------------------------
(* The steps of the walk.                                                    *)

\* q units that come in at a cost of M leave the cost within M.
LEMMA ReceivedWithin ==
    ASSUME NEW M \in SUBSET Cost, NEW acc \in Within(M), NEW q \in Nat \ {0},
           NEW c \in M, ~IsZero(c)
    PROVE  Received(acc, q, c) \in Within(M)
<1>1. acc \in Acc /\ acc.stock \in Int /\ acc.cost \in Cost /\ c \in Cost
  BY DEF Within, Acc
<1>2. CASE acc.stock < 0
  BY <1>1, <1>2 DEF Received, Within, Acc
<1>3. CASE ~(acc.stock < 0) /\ (acc.stock = 0 \/ IsZero(acc.cost))
  <2>1. AtMost(c, c)
    BY <1>1, AtMostTotal
  <2>2. Received(acc, q, c) = [stock |-> acc.stock + q, entries |-> TRUE, cost |-> c]
    BY <1>3 DEF Received
  <2> QED
    BY <1>1, <2>1, <2>2 DEF Within, Acc
<1>4. CASE acc.stock > 0 /\ ~IsZero(acc.cost)
  <2> DEFINE avg == Average(acc.stock, acc.cost, q, c)
  <2>0. ~(acc.stock < 0) /\ ~(acc.stock = 0 \/ IsZero(acc.cost))
    BY <1>1, <1>4
  <2>1. Received(acc, q, c) = [stock |-> acc.stock + q, entries |-> TRUE, cost |-> avg]
    BY <2>0, Zenon DEF Received
  <2>2. acc.stock \in Nat \ {0}
    BY <1>1, <1>4
  <2>3. /\ avg \in Cost
        /\ AtMost(acc.cost, c) => AtMost(acc.cost, avg) /\ AtMost(avg, c)
        /\ AtMost(c, acc.cost) => AtMost(c, avg) /\ AtMost(avg, acc.cost)
    BY <1>1, <2>2, AverageBetween
  <2> HIDE DEF avg
  <2>4. PICK lo \in M, hi \in M : AtMost(lo, acc.cost) /\ AtMost(acc.cost, hi)
    BY <1>4 DEF Within
  <2>5. lo \in Cost /\ hi \in Cost
    OBVIOUS
  <2>6. \E e \in M : AtMost(e, avg)
    <3>1. CASE AtMost(acc.cost, c)
      BY <1>1, <2>3, <2>4, <2>5, <3>1, AtMostTransitive
    <3>2. CASE AtMost(c, acc.cost)
      BY <2>3, <3>2
    <3> QED
      BY <1>1, <3>1, <3>2, AtMostTotal
  <2>7. \E e \in M : AtMost(avg, e)
    <3>1. CASE AtMost(acc.cost, c)
      BY <2>3, <3>1
    <3>2. CASE AtMost(c, acc.cost)
      BY <1>1, <2>3, <2>4, <2>5, <3>2, AtMostTransitive
    <3> QED
      BY <1>1, <3>1, <3>2, AtMostTotal
  <2>8. [stock |-> acc.stock + q, entries |-> TRUE, cost |-> avg] \in Acc
    BY <1>1, <2>3 DEF Acc
  <2> QED
    BY <2>1, <2>6, <2>7, <2>8 DEF Within
<1> QED
  BY <1>1, <1>2, <1>3, <1>4

LEMMA UncostedWithin ==
    ASSUME NEW M, NEW acc \in Within(M), NEW q \in Int
    PROVE  Uncosted(acc, q) \in Within(M)
<1>1. acc \in Acc
  BY DEF Within
<1>2. /\ Uncosted(acc, q) \in Acc /\ Uncosted(acc, q).cost = acc.cost
      /\ Uncosted(acc, q).entries = acc.entries
  BY <1>1 DEF Uncosted, Acc
<1> QED
  BY <1>2 DEF Within

LEMMA SeededWithin ==
    ASSUME NEW M \in SUBSET Cost, NEW acc \in Within(M), NEW o \in Nat, <<o, 1>> \in M
    PROVE  Seeded(acc, o) \in Within(M)
<1>1. acc \in Acc
  BY DEF Within
<1>2. CASE o > 0
  <2>1. Seeded(acc, o) \in Acc /\ Seeded(acc, o).cost = <<o, 1>> /\ Seeded(acc, o).entries
    BY <1>1, <1>2 DEF Seeded, Acc
  <2>2. AtMost(<<o, 1>>, <<o, 1>>)
    BY AtMostTotal
  <2> QED
    BY <2>1, <2>2 DEF Within
<1>3. CASE ~(o > 0)
  BY <1>3 DEF Seeded
<1> QED
  BY <1>2, <1>3

\* What a line brings in it brings at the price of its bill.
Priced(own, prices, M) ==
    \A k \in Lines :
        /\ own[k] # None => own[k].qty \in Nat \ {0}
        /\ k \in Purchases /\ own[k] # None /\ prices[k] # None =>
              /\ prices[k].net \in Nat
              /\ <<prices[k].net, own[k].qty>> \in M

LEMMA LineStepWithin ==
    ASSUME NEW M \in SUBSET Cost, NEW acc \in Within(M), NEW k \in Lines,
           NEW prices, NEW own, Priced(own, prices, M)
    PROVE  LineStep(acc, k, prices, own) \in Within(M)
<1>1. CASE own[k] = None
  BY <1>1 DEF LineStep
<1>2. CASE own[k] # None /\ (k \notin Purchases \/ prices[k] = None \/ prices[k].net = 0)
  <2>1. own[k].qty \in Nat
    BY <1>2 DEF Priced
  <2>2. own[k].qty \in Int /\ -own[k].qty \in Int
    BY <2>1
  <2> QED
    BY <1>2, <2>2, UncostedWithin DEF LineStep
<1>3. CASE own[k] # None /\ k \in Purchases /\ prices[k] # None /\ prices[k].net # 0
  <2> DEFINE c == <<prices[k].net, own[k].qty>>
  <2>1. own[k].qty \in Nat \ {0} /\ c \in M /\ ~IsZero(c)
    BY <1>3 DEF Priced, IsZero
  <2>2. LineStep(acc, k, prices, own) = Received(acc, own[k].qty, c)
    BY <1>3 DEF LineStep
  <2> QED
    BY <2>1, <2>2, ReceivedWithin
<1> QED
  BY <1>1, <1>2, <1>3

\* A conversion's output comes in at the cost of a run in the log.
Logged(runs, M) == runs \in Seq(Run) /\ \A n \in 1..Len(runs) : runs[n].cost \in M

\* Conversions bring in what was good, and never nothing.
Movement(ms) ==
    /\ ms \in Seq(Move)
    /\ \A i \in 1..Len(ms) : ms[i].kind = "made" => ms[i].qty \in Nat \ {0}

LEMMA MadeWithin ==
    ASSUME NEW M, NEW ms, NEW i, NEW runs, Logged(runs, M)
    PROVE  IsZero(MadeAt(ms, i, runs)) \/ MadeAt(ms, i, runs) \in M
<1> DEFINE pos == Cardinality({j \in 1..i : ms[j].kind = "made" /\ ms[j].ref = ms[i].ref})
           Upto(n) == {j \in 1..n : runs[j].ref = ms[i].ref}
           found == {n \in Upto(Len(runs)) : Cardinality(Upto(n)) = pos}
<1>1. MadeAt(ms, i, runs) = IF found = {} THEN Free ELSE runs[CHOOSE n \in found : TRUE].cost
  BY DEF MadeAt
<1>2. found \subseteq 1..Len(runs)
  OBVIOUS
<1> DEFINE m == CHOOSE n \in found : TRUE
<1>3. found # {} => m \in found
  OBVIOUS
<1> HIDE DEF found
<1>4. found # {} => MadeAt(ms, i, runs) = runs[m].cost /\ m \in 1..Len(runs)
  BY <1>1, <1>2, <1>3
<1>5. found = {} => MadeAt(ms, i, runs)[1] = 0
  BY <1>1 DEF Free
<1> HIDE DEF m
<1> QED
  BY <1>4, <1>5 DEF Logged, IsZero

LEMMA MoveStepWithin ==
    ASSUME NEW M \in SUBSET Cost, NEW acc \in Within(M), NEW ms, Movement(ms),
           NEW i \in 1..Len(ms), NEW runs, Logged(runs, M)
    PROVE  MoveStep(acc, i, ms, runs) \in Within(M)
<1>1. ms[i] \in Move
  BY DEF Movement
<1>2. CASE ms[i].kind = "made" /\ ~IsZero(MadeAt(ms, i, runs))
  <2>1. MadeAt(ms, i, runs) \in M /\ ms[i].qty \in Nat \ {0}
    BY <1>2, MadeWithin DEF Movement
  <2> QED
    BY <1>2, <2>1, ReceivedWithin DEF MoveStep
<1>3. CASE ~(ms[i].kind = "made" /\ ~IsZero(MadeAt(ms, i, runs)))
  <2>1. ms[i].qty \in Int
    BY <1>1 DEF Move
  <2> QED
    BY <1>3, <2>1, UncostedWithin DEF MoveStep
<1> QED
  BY <1>2, <1>3

-----------------------------------------------------------------------------
(* The walk.                                                                 *)

\* g is the walk over the moves, from acc and in W.
MovesWalk(g, ms, runs, acc, W) ==
    /\ g[0] = acc
    /\ \A i \in 1..Len(ms) : g[i] = MoveStep(g[i - 1], i, ms, runs)
    /\ \A i \in 0..Len(ms) : g[i] \in W

LEMMA MovesWalked ==
    ASSUME NEW M \in SUBSET Cost, NEW acc \in Within(M), NEW ms, Movement(ms),
           NEW runs, Logged(runs, M), NEW over,
           over = CHOOSE g : g = [i \in 0..Len(ms) |->
                    IF i = 0 THEN acc ELSE MoveStep(g[i - 1], i, ms, runs)]
    PROVE  MovesWalk(over, ms, runs, acc, Within(M))
<1> DEFINE n == Len(ms)
           W == Within(M)
           Solves(g) == g = [i \in 0..n |->
                          IF i = 0 THEN acc ELSE MoveStep(g[i - 1], i, ms, runs)]
           step == [x \in (1..n) \X W |-> MoveStep(x[2], x[1], ms, runs)]
<1>1. n \in Nat
  BY DEF Movement
<1>2. \A i \in 1..n, a \in W : MoveStep(a, i, ms, runs) \in W
  BY MoveStepWithin
<1>3. \A i \in 1..n : \A a \in W : step[<<i, a>>] = MoveStep(a, i, ms, runs)
  OBVIOUS
<1>4. StaysIn(step, 1..n, W)
  <2> HIDE DEF step
  <2> QED
    BY <1>2, <1>3 DEF StaysIn
<1>5. over = CHOOSE g : Solves(g)
  OBVIOUS
<1>0. acc \in W
  OBVIOUS
<1> HIDE DEF n, W, step
<1>5a. PICK g : StepsUpTo(g, n, step, acc, W)
  BY <1>0, <1>1, <1>4, RangeRecursion
<1>6. g \in [0..n -> W] /\ g[0] = acc /\ \A i \in 1..n : g[i] = step[<<i, g[i - 1]>>]
  BY <1>5a DEF StepsUpTo
<1>7. Solves(g)
  <2>1. \A i \in 0..n : g[i] = IF i = 0 THEN acc ELSE MoveStep(g[i - 1], i, ms, runs)
    <3> SUFFICES ASSUME NEW i \in 0..n, i # 0 PROVE g[i] = MoveStep(g[i - 1], i, ms, runs)
      BY <1>6
    <3>1. i \in 1..n /\ i - 1 \in 0..n
      BY <1>1
    <3> QED
      BY <1>3, <1>6, <3>1
  <2> QED
    BY <1>6, <2>1
<1>8. Solves(over)
  <2> HIDE DEF Solves
  <2> QED
    BY <1>5, <1>7
<1>9. /\ over[0] = acc
      /\ \A i \in 1..n : over[i] = MoveStep(over[i - 1], i, ms, runs)
  <2>1. \A i \in 0..n : over[i] = IF i = 0 THEN acc ELSE MoveStep(over[i - 1], i, ms, runs)
    BY <1>8, Zenon
  <2>2. 0 \in 0..n /\ \A i \in 1..n : i \in 0..n /\ i # 0
    BY <1>1
  <2> QED
    BY <2>1, <2>2, Zenon
<1>10. \A i \in 0..n : over[i] \in W
  <2>1. over[0] \in W
    BY <1>0, <1>9
  <2>2. \A i \in 1..n : over[i - 1] \in W => over[i] \in W
    BY <1>2, <1>9, Zenon
  <2> QED
    BY <1>1, <2>1, <2>2, RangeInvariant, Zenon
<1> QED
  BY <1>9, <1>10 DEF n, W, MovesWalk
Start == [stock |-> 0, cost |-> Free, entries |-> FALSE]

WithMoves(ps, rs, acc) ==
    LET over[i \in 0..Len(rs.moves)] ==
            IF i = 0 THEN acc ELSE MoveStep(over[i - 1], i, rs.moves, ps.log)
    IN  over[Len(rs.moves)]

LEMMA WithMovesWalked ==
    ASSUME NEW M \in SUBSET Cost, NEW acc \in Within(M), NEW ps, NEW rs,
           Movement(rs.moves), Logged(ps.log, M)
    PROVE  \E g : /\ MovesWalk(g, rs.moves, ps.log, acc, Within(M))
                  /\ WithMoves(ps, rs, acc) = g[Len(rs.moves)]
BY MovesWalked DEF WithMoves

\* What follows the k-th line: the opening balance, then the moves.
Staged(ps, rs, k, acc) ==
    LET seeded == IF k = LastEarly THEN Seeded(acc, ps.opening) ELSE acc
    IN  IF k = LastPast THEN WithMoves(ps, rs, seeded) ELSE seeded

LineOver(ps, rs, k, acc) == Staged(ps, rs, k, LineStep(acc, k, ps.bill, rs.bill))

\* What a rebuild may have read.
Readable(ps, rs, M) ==
    /\ ps.opening \in Nat /\ <<ps.opening, 1>> \in M
    /\ Priced(rs.bill, ps.bill, M)
    /\ Movement(rs.moves)
    /\ Logged(ps.log, M)

LEMMA StagedWithin ==
    ASSUME NEW M \in SUBSET Cost, NEW ps, NEW rs, Readable(ps, rs, M),
           NEW k, NEW acc \in Within(M)
    PROVE  Staged(ps, rs, k, acc) \in Within(M)
<1> DEFINE seeded == IF k = LastEarly THEN Seeded(acc, ps.opening) ELSE acc
<1>1. seeded \in Within(M)
  BY SeededWithin DEF Readable
<1>2. Staged(ps, rs, k, acc) = IF k = LastPast THEN WithMoves(ps, rs, seeded) ELSE seeded
  BY DEF Staged
<1> HIDE DEF seeded
<1>3. WithMoves(ps, rs, seeded) \in Within(M)
  <2>1. Movement(rs.moves) /\ Logged(ps.log, M)
    BY DEF Readable
  <2>2. PICK g : /\ MovesWalk(g, rs.moves, ps.log, seeded, Within(M))
                 /\ WithMoves(ps, rs, seeded) = g[Len(rs.moves)]
    BY <1>1, <2>1, WithMovesWalked
  <2>3. Len(rs.moves) \in 0..Len(rs.moves)
    BY <2>1 DEF Movement
  <2> QED
    BY <2>2, <2>3 DEF MovesWalk
<1> QED
  BY <1>1, <1>2, <1>3

\* What the k-th line is walked from, and g, the walk over the lines, in W.
Entering(g, ps, rs, k) == IF k = 0 THEN Start ELSE LineStep(g[k - 1], k, ps.bill, rs.bill)

LinesWalk(g, ps, rs, W) ==
    \A k \in 0..LastLine : g[k] = Staged(ps, rs, k, Entering(g, ps, rs, k)) /\ g[k] \in W

LEMMA WalkWalked ==
    ASSUME NEW M \in SUBSET Cost, NEW ps, NEW rs, Readable(ps, rs, M)
    PROVE  \E g : LinesWalk(g, ps, rs, Within(M)) /\ Walk(ps, rs) = g[LastLine]
<1> DEFINE W == Within(M)
           Solves(g) == g = [k \in 0..LastLine |->
                          IF k = 0 THEN Staged(ps, rs, 0, Start)
                          ELSE LineOver(ps, rs, k, g[k - 1])]
           over == CHOOSE g : Solves(g)
           base == Staged(ps, rs, 0, Start)
           step == [x \in (1..LastLine) \X W |-> LineOver(ps, rs, x[1], x[2])]
<1>1. LastLine \in Nat /\ Lines = 1..LastLine
  BY CostingConstants DEF Lines
<1>2. Walk(ps, rs) = over[LastLine]
  <2> DEFINE Given(g) == g = [k \in 0..LastLine |->
                Staged(ps, rs, k, IF k = 0 THEN Start ELSE LineStep(g[k - 1], k, ps.bill, rs.bill))]
  <2>1. Walk(ps, rs) = (CHOOSE g : Given(g))[LastLine]
    BY DEF Walk, Staged, WithMoves, Start
  <2>2. ASSUME NEW g PROVE Given(g) <=> Solves(g)
    <3>1. \A k \in 0..LastLine :
            Staged(ps, rs, k, IF k = 0 THEN Start ELSE LineStep(g[k - 1], k, ps.bill, rs.bill))
              = IF k = 0 THEN Staged(ps, rs, 0, Start) ELSE LineOver(ps, rs, k, g[k - 1])
      BY DEF LineOver
    <3> QED
      BY <3>1
  <2>3. (CHOOSE g : Given(g)) = over
    <3> HIDE DEF Given, Solves
    <3> QED
      BY <2>2
  <2> QED
    BY <2>1, <2>3
<1>3. base \in W
  <2>1. AtMost(Free, Free) /\ Free \in Cost /\ IsZero(Free)
    BY DEF Free, Cost, AtMost, IsZero
  <2>2. Start \in W
    BY <2>1 DEF Start, Within, Acc
  <2> QED
    BY <2>2, StagedWithin
<1>4. \A k \in 1..LastLine, a \in W : LineOver(ps, rs, k, a) \in W
  BY <1>1, LineStepWithin, StagedWithin DEF LineOver, Readable
<1>5. \A k \in 1..LastLine : \A a \in W : step[<<k, a>>] = LineOver(ps, rs, k, a)
  OBVIOUS
<1>6. StaysIn(step, 1..LastLine, W)
  <2> HIDE DEF step
  <2> QED
    BY <1>4, <1>5 DEF StaysIn
<1> HIDE DEF W, step, base
<1>6a. PICK g : StepsUpTo(g, LastLine, step, base, W)
  BY <1>1, <1>3, <1>6, RangeRecursion
<1>7. /\ g \in [0..LastLine -> W]
      /\ g[0] = base
      /\ \A k \in 1..LastLine : g[k] = step[<<k, g[k - 1]>>]
  BY <1>6a DEF StepsUpTo
<1>8. Solves(g)
  <2>1. \A k \in 0..LastLine : g[k] = IF k = 0 THEN base ELSE LineOver(ps, rs, k, g[k - 1])
    <3> SUFFICES ASSUME NEW k \in 0..LastLine, k # 0 PROVE g[k] = LineOver(ps, rs, k, g[k - 1])
      BY <1>7
    <3>1. k \in 1..LastLine /\ k - 1 \in 0..LastLine
      BY <1>1
    <3> QED
      BY <1>5, <1>7, <3>1
  <2> QED
    BY <1>7, <2>1 DEF base
<1>9. Solves(over)
  <2> HIDE DEF Solves
  <2> QED
    BY <1>8
<1> HIDE DEF over
<1>9a. \A k \in 0..LastLine : over[k] = IF k = 0 THEN base ELSE LineOver(ps, rs, k, over[k - 1])
  BY <1>9, Zenon DEF base
<1>10. over[0] \in W /\ \A k \in 1..LastLine : over[k - 1] \in W => over[k] \in W
  <2>2. 0 \in 0..LastLine /\ \A k \in 1..LastLine : k \in 0..LastLine /\ k # 0
    BY <1>1
  <2> QED
    BY <1>3, <1>4, <1>9a, <2>2, Zenon
<1>11. \A k \in 0..LastLine : over[k] \in W
  BY <1>1, <1>10, RangeInvariant, Zenon
<1>12. \A k \in 0..LastLine : over[k] = Staged(ps, rs, k, Entering(over, ps, rs, k))
  BY <1>9a DEF base, LineOver, Entering
<1>13. LinesWalk(over, ps, rs, W)
  BY <1>11, <1>12, Zenon DEF LinesWalk
<1> QED
  BY <1>2, <1>13 DEF W

LEMMA WalkWithin ==
    ASSUME NEW M \in SUBSET Cost, NEW ps, NEW rs, Readable(ps, rs, M)
    PROVE  Walk(ps, rs) \in Within(M)
<1>1. PICK g : LinesWalk(g, ps, rs, Within(M)) /\ Walk(ps, rs) = g[LastLine]
  BY WalkWalked
<1>2. LastLine \in 0..LastLine
  BY CostingConstants
<1> QED
  BY <1>1, <1>2 DEF LinesWalk

-----------------------------------------------------------------------------
(* The cost of the inputs.                                                   *)

LEMMA PlusIsCost ==
    ASSUME NEW c \in Cost, NEW d \in Cost
    PROVE  Plus(c, d) \in Cost
<1>1. c[1] \in Nat /\ d[1] \in Nat /\ c[2] \in Nat \ {0} /\ d[2] \in Nat \ {0}
  BY DEF Cost
<1>2. c[1] * d[2] + d[1] * c[2] \in Nat /\ c[2] * d[2] \in Nat \ {0}
  BY <1>1
<1> QED
  BY <1>2 DEF Plus, Cost

Fraction == Int \X (Nat \ {0})

\* g totals c over the subsets of S, chosen element first (MapThenFoldSet).
Totals(g, c, S) ==
    \A s \in SUBSET S :
        g[s] = IF s = {} THEN Free ELSE Plus(c[Chosen(s)], g[s \ {Chosen(s)}])

LEMMA PlusIsFraction ==
    ASSUME NEW c \in Fraction, NEW d \in Fraction
    PROVE  Plus(c, d) \in Fraction
<1>1. c[1] \in Int /\ d[1] \in Int /\ c[2] \in Nat \ {0} /\ d[2] \in Nat \ {0}
  BY DEF Fraction
<1>2. c[1] * d[2] + d[1] * c[2] \in Int /\ c[2] * d[2] \in Nat \ {0}
  BY <1>1
<1> QED
  BY <1>2 DEF Plus, Fraction

LEMMA TotalTotals ==
    ASSUME NEW S, IsFiniteSet(S), NEW c \in [S -> Fraction]
    PROVE  \E g : Totals(g, c, S) /\ Total(c) = g[S]
<1> DEFINE step == [x \in S \X Fraction |-> Plus(c[x[1]], x[2])]
           Solves(g) == g = [s \in SUBSET S |->
                IF s = {} THEN Free ELSE Plus(c[Chosen(s)], g[s \ {Chosen(s)}])]
           iter == CHOOSE g : Solves(g)
<1>1. Total(c) = iter[S]
  <2>1. DOMAIN c = S
    OBVIOUS
  <2> QED
    BY <2>1 DEF Total, FoldFunction, FoldFunctionOnSet, MapThenFoldSet, Chosen
<1>2. Free \in Fraction
  BY DEF Free, Fraction
<1>4. \A p \in S : \A d \in Fraction : step[<<p, d>>] = Plus(c[p], d)
  OBVIOUS
<1>5. \A p \in S : \A d \in Fraction : Plus(c[p], d) \in Fraction
  BY PlusIsFraction
<1> HIDE DEF step
<1>6. StaysIn(step, S, Fraction)
  BY <1>4, <1>5 DEF StaysIn
<1>7. \A s \in SUBSET S : s # {} => Chosen(s) \in S /\ s \ {Chosen(s)} \in SUBSET S
  BY DEF Chosen
<1>8. PICK g : StepsOver(g, step, Free, S, Fraction)
  BY <1>2, <1>6, SubsetRecursion
<1>9. Solves(g)
  <2>1. \A s \in SUBSET S :
           g[s] = IF s = {} THEN Free ELSE Plus(c[Chosen(s)], g[s \ {Chosen(s)}])
    <3> SUFFICES ASSUME NEW s \in SUBSET S, s # {}
                 PROVE  g[s] = Plus(c[Chosen(s)], g[s \ {Chosen(s)}])
      BY <1>8 DEF StepsOver
    <3>1. g[s] = step[<<Chosen(s), g[s \ {Chosen(s)}]>>] /\ g[s \ {Chosen(s)}] \in Fraction
      BY <1>7, <1>8 DEF StepsOver
    <3> QED
      BY <1>4, <1>7, <3>1
  <2>2. g = [s \in SUBSET S |-> g[s]]
    BY <1>8 DEF StepsOver
  <2> QED
    BY <2>1, <2>2
<1>10. Solves(iter)
  <2> HIDE DEF Solves
  <2> QED
    BY <1>9
<1> HIDE DEF iter
<1>11. Totals(iter, c, S)
  BY <1>10, Zenon DEF Totals
<1> QED
  BY <1>1, <1>11

\* A sum of costs is a cost.
LEMMA TotalIsCost ==
    ASSUME NEW S, IsFiniteSet(S), NEW c \in [S -> Cost]
    PROVE  Total(c) \in Cost
<1>1. c \in [S -> Fraction]
  BY DEF Cost, Fraction
<1>2. PICK g : Totals(g, c, S) /\ Total(c) = g[S]
  BY <1>1, TotalTotals
<1>3. g[{}] \in Cost
  <2>1. g[{}] = Free /\ Free \in Cost
    BY <1>2 DEF Totals, Free, Cost
  <2> QED
    BY <2>1
<1>4. ASSUME NEW s \in SUBSET S, s # {}, g[s \ {Chosen(s)}] \in Cost PROVE g[s] \in Cost
  <2>1. g[s] = Plus(c[Chosen(s)], g[s \ {Chosen(s)}]) /\ c[Chosen(s)] \in Cost
    BY <1>2, <1>4 DEF Totals, Chosen
  <2> QED
    BY <1>4, <2>1, PlusIsCost
<1>5. \A s \in SUBSET S : g[s] \in Cost
  BY <1>3, <1>4, SubsetInvariant, Zenon
<1> QED
  BY <1>2, <1>5

LEMMA InputCostIsCost ==
    ASSUME NEW f \in Formulas, \A p \in Products : CostNow(p) \in Cost
    PROVE  InputCost(f) \in Cost
<1> DEFINE S == Inputs(f)
           terms == [p \in S |-> <<Needs[f][p] * CostNow(p)[1], CostNow(p)[2]>>]
<1>1. IsFiniteSet(S)
  BY CostingConstants, FS_Subset DEF Inputs
<1>2. terms \in [S -> Cost]
  <2> SUFFICES ASSUME NEW p \in S
               PROVE  <<Needs[f][p] * CostNow(p)[1], CostNow(p)[2]>> \in Cost
    OBVIOUS
  <2>1. Needs[f][p] \in Nat /\ CostNow(p) \in Cost
    BY CostingConstants DEF Inputs
  <2>2. Needs[f][p] * CostNow(p)[1] \in Nat
    BY <2>1 DEF Cost
  <2> QED
    BY <2>1, <2>2 DEF Cost
<1>3. InputCost(f) = Total(terms)
  BY DEF InputCost
<1> HIDE DEF S, terms
<1> QED
  BY <1>1, <1>2, <1>3, TotalIsCost

-----------------------------------------------------------------------------
(* Types.                                                                    *)

PricesRead == [opening : Openings, bill : [Lines -> Bill \cup {None}], log : Seq(Run)]
RowsRead == [bill : [Lines -> Bill \cup {None}], moves : {ms \in Seq(Move) : Movement(ms)}]

\* What workers have read is what a rebuild may read, and no run ever brings
\* in nothing.
TInv ==
    /\ TypeOK
    /\ \A p \in Products : Movement(moves[p])
    /\ seen \in [Workers -> PricesRead \cup {None}]
    /\ rows \in [Workers -> RowsRead \cup {None}]

LEMMA BillType ==
    ASSUME NEW b \in Bill
    PROVE  b # None /\ b.qty \in Nat \ {0} /\ b.net \in Nat
<1>1. b \in [qty : Nat \ {0}, net : Nat]
  BY CostingConstants DEF Bill
<1> QED
  BY <1>1, NoneIsNew

LEMMA ReadIsReadable ==
    ASSUME NEW ps \in PricesRead, NEW rs \in RowsRead
    PROVE  Readable(ps, rs, Cost)
<1>1. ps.opening \in Nat /\ <<ps.opening, 1>> \in Cost
  <2>1. ps.opening \in Openings
    BY DEF PricesRead
  <2>2. ps.opening \in Nat
    BY <2>1, CostingConstants
  <2> QED
    BY <2>2 DEF Cost
<1>2. ASSUME NEW k \in Lines
      PROVE  /\ rs.bill[k] # None => rs.bill[k].qty \in Nat \ {0}
             /\ ps.bill[k] # None => ps.bill[k].net \in Nat
  <2>1. rs.bill[k] \in Bill \cup {None} /\ ps.bill[k] \in Bill \cup {None}
    BY DEF PricesRead, RowsRead
  <2> QED
    BY <2>1, BillType
<1>3. Priced(rs.bill, ps.bill, Cost)
  BY <1>2 DEF Priced, Cost
<1>4. Movement(rs.moves)
  BY DEF RowsRead
<1>5. Logged(ps.log, Cost)
  <2>1. ps.log \in Seq(Run)
    BY DEF PricesRead
  <2>2. \A n \in 1..Len(ps.log) : ps.log[n] \in Run
    BY <2>1
  <2> QED
    BY <2>1, <2>2 DEF Logged, Run
<1> QED
  BY <1>1, <1>3, <1>4, <1>5 DEF Readable

LEMMA WalkReadType ==
    ASSUME NEW ps \in PricesRead, NEW rs \in RowsRead
    PROVE  Walk(ps, rs) \in Acc
<1>1. Walk(ps, rs) \in Within(Cost)
  BY ReadIsReadable, WalkWithin
<1> QED
  BY <1>1 DEF Within

LEMMA OwnLinesType ==
    ASSUME NEW p, NEW b \in [Lines -> Bill \cup {None}]
    PROVE  OwnLines(p, b) \in [Lines -> Bill \cup {None}]
BY DEF OwnLines

LEMMA NowIsRead ==
    ASSUME TInv, NEW p \in Products
    PROVE  PricesOf(p) \in PricesRead /\ RowsOf(p) \in RowsRead
<1>1. OwnLines(p, bill) \in [Lines -> Bill \cup {None}]
  BY OwnLinesType DEF TInv, TypeOK
<1>2. opening[p] \in Openings /\ log[p] \in Seq(Run) /\ moves[p] \in Seq(Move)
      /\ Movement(moves[p])
  BY DEF TInv, TypeOK
<1> QED
  BY <1>1, <1>2 DEF PricesOf, RowsOf, PricesRead, RowsRead

LEMMA WalkType ==
    ASSUME TInv, NEW p \in Products
    PROVE  WalkOf(p) \in Acc
BY NowIsRead, WalkReadType DEF WalkOf

\* What is stored of a walk.
LEMMA StoredType ==
    ASSUME NEW acc \in Acc, NEW old \in Cost
    PROVE  LedgerFrom(acc) \in Cost \cup {None} /\ PriceFrom(acc, old) \in Cost
BY DEF LedgerFrom, PriceFrom, Acc

LEMMA LedgerNowType ==
    ASSUME TInv, NEW p \in Products
    PROVE  LedgerNow(p) \in Cost \cup {None} /\ CostNow(p) \in Cost
<1>1. ledger[p] \in Cost \cup {None} /\ price[p] \in Cost
  BY DEF TInv, TypeOK
<1>2. LedgerNow(p) \in Cost \cup {None}
  BY <1>1, WalkType, StoredType DEF LedgerNow
<1>3. Free \in Cost
  BY DEF Free, Cost
<1> QED
  BY <1>2, <1>3 DEF CostNow

LEMMA MovementJoins ==
    ASSUME NEW a, NEW b, Movement(a), Movement(b)
    PROVE  Movement(a \o b)
<1>1. a \in Seq(Move) /\ b \in Seq(Move) /\ Len(a) \in Nat /\ Len(b) \in Nat
  BY DEF Movement
<1>2. a \o b \in Seq(Move) /\ Len(a \o b) = Len(a) + Len(b)
  BY <1>1
<1>3. ASSUME NEW i \in 1..Len(a \o b), (a \o b)[i].kind = "made"
      PROVE  (a \o b)[i].qty \in Nat \ {0}
  <2>1. CASE i <= Len(a)
    <3>1. i \in 1..Len(a) /\ (a \o b)[i] = a[i]
      BY <1>1, <1>2, <2>1
    <3> QED
      BY <1>3, <3>1 DEF Movement
  <2>2. CASE i > Len(a)
    <3>1. i - Len(a) \in 1..Len(b) /\ (a \o b)[i] = b[i - Len(a)]
      BY <1>1, <1>2, <2>2
    <3> QED
      BY <1>3, <3>1 DEF Movement
  <2> QED
    BY <1>1, <1>2, <2>1, <2>2
<1> QED
  BY <1>2, <1>3 DEF Movement

LEMMA MovementOfOne ==
    ASSUME NEW m \in Move, m.kind = "made" => m.qty \in Nat \ {0}
    PROVE  Movement(<<m>>)
BY DEF Movement

LEMMA MovementOfNone == Movement(<<>>)
BY DEF Movement
LEMMA TInvInit == Init => TInv
<1> SUFFICES ASSUME Init PROVE TInv
  OBVIOUS
<1>1. /\ bill = [k \in Lines |-> None] /\ moves = [p \in Products |-> <<>>]
      /\ log = [p \in Products |-> <<>>] /\ opening \in [Products -> Openings]
      /\ todo = [w \in Workers |-> {}] /\ stale = {}
      /\ seen = [w \in Workers |-> None] /\ rows = [w \in Workers |-> None]
  BY DEF Init
<1>2. \A p \in Products : Movement(moves[p])
  BY <1>1, MovementOfNone
<1>3. \A p \in Products : WalkOf(p) \in Acc /\ <<opening[p], 1>> \in Cost
  <2> SUFFICES ASSUME NEW p \in Products PROVE WalkOf(p) \in Acc /\ <<opening[p], 1>> \in Cost
    OBVIOUS
  <2>1. OwnLines(p, bill) \in [Lines -> Bill \cup {None}]
    BY <1>1, OwnLinesType
  <2>2. PricesOf(p) \in PricesRead /\ RowsOf(p) \in RowsRead
    BY <1>1, <1>2, <2>1 DEF PricesOf, RowsOf, PricesRead, RowsRead
  <2>3. opening[p] \in Nat
    BY <1>1, CostingConstants
  <2> QED
    BY <2>2, <2>3, WalkReadType DEF WalkOf, Cost
<1>4. ledger \in [Products -> Cost \cup {None}] /\ price \in [Products -> Cost]
  BY <1>3, StoredType DEF Init
<1>5. TypeOK
  BY <1>1, <1>4 DEF TypeOK, MayBe
<1> QED
  BY <1>1, <1>2, <1>5 DEF TInv

-----------------------------------------------------------------------------
(* The steps that change what a rebuild reads.                               *)

LEMMA ImportTypes ==
    ASSUME TInv, NEW w \in Workers, NEW f \in Uploads, Import(w, f)
    PROVE  TInv'
<1>1. Affected(f) \subseteq Products
  BY CostingConstants DEF Affected
<1>2. todo' \in [Workers -> SUBSET Products]
  BY <1>1 DEF Import, TInv, TypeOK
<1>3. \A v \in Workers : todo'[v] = {} => seen'[v] = None
  BY DEF Import, TInv, TypeOK, Idle
<1>4. bill' \in [Lines -> Bill \cup {None}] /\ \A k \in Lines : bill'[k] \in MayBe(k)
  BY DEF Import, Uploads
<1>5. TypeOK'
  BY <1>2, <1>3, <1>4 DEF Import, TInv, TypeOK
<1> QED
  BY <1>5 DEF TInv, Import

LEMMA MapLineTypes ==
    ASSUME TInv, NEW k \in Lines, NEW b \in Versions[k], MapLine(k, b)
    PROVE  TInv'
<1>1. b \in Bill /\ b \in MayBe(k) /\ ProductOf[k] \in Products
  BY CostingConstants DEF Bill, MayBe
<1>2. bill' \in [Lines -> Bill \cup {None}] /\ \A j \in Lines : bill'[j] \in MayBe(j)
  BY <1>1 DEF MapLine, TInv, TypeOK
<1>3. TypeOK'
  BY <1>1, <1>2 DEF MapLine, TInv, TypeOK
<1> QED
  BY <1>3 DEF TInv, MapLine

LEMMA RebuildTypes ==
    ASSUME TInv, NEW k \in Lines, NEW b \in MayBe(k), Rebuild(k, b)
    PROVE  TInv'
<1> DEFINE p == ProductOf[k]
           own == OwnLines(p, [bill EXCEPT ![k] = b])
           ps == [opening |-> opening[p], bill |-> own, log |-> log[p]]
           rs == [bill |-> own, moves |-> moves[p]]
           cost == Walk(ps, rs)
<1>1. p \in Products /\ b \in Bill \cup {None}
  BY CostingConstants DEF Bill, MayBe
<1>2. [bill EXCEPT ![k] = b] \in [Lines -> Bill \cup {None}]
  BY <1>1 DEF TInv, TypeOK
<1>3. own \in [Lines -> Bill \cup {None}]
  BY <1>2, OwnLinesType
<1>4. opening[p] \in Openings /\ log[p] \in Seq(Run) /\ moves[p] \in Seq(Move)
      /\ Movement(moves[p]) /\ price[p] \in Cost
  BY <1>1 DEF TInv, TypeOK
<1>5. cost \in Acc
  <2> HIDE DEF own
  <2>1. ps \in PricesRead /\ rs \in RowsRead
    BY <1>3, <1>4 DEF PricesRead, RowsRead
  <2> HIDE DEF ps, rs
  <2> QED
    BY <2>1, WalkReadType
<1>6. ledger' = [ledger EXCEPT ![p] = LedgerFrom(cost)]
      /\ price' = [price EXCEPT ![p] = PriceFrom(cost, price[p])]
  BY DEF Rebuild
<1> HIDE DEF cost
<1>7. ledger' \in [Products -> Cost \cup {None}] /\ price' \in [Products -> Cost]
  <2>1. LedgerFrom(cost) \in Cost \cup {None} /\ PriceFrom(cost, price[p]) \in Cost
    BY <1>4, <1>5, StoredType
  <2> QED
    BY <1>1, <1>6, <2>1 DEF TInv, TypeOK
<1>8. bill' \in [Lines -> Bill \cup {None}] /\ \A j \in Lines : bill'[j] \in MayBe(j)
  BY <1>1 DEF Rebuild, TInv, TypeOK
<1>9. TypeOK'
  BY <1>7, <1>8 DEF Rebuild, TInv, TypeOK
<1> QED
  BY <1>9 DEF TInv, Rebuild

LEMMA EditOpeningTypes ==
    ASSUME TInv, NEW w \in Workers, NEW p \in Products, NEW o \in Openings,
           EditOpening(w, p, o)
    PROVE  TInv'
<1>1. o \in Nat
  BY CostingConstants
<1>2. <<o, 1>> \in Cost
  BY <1>1 DEF Cost
<1>3. opening' \in [Products -> Openings] /\ price' \in [Products -> Cost]
  BY <1>2 DEF EditOpening, TInv, TypeOK
<1>4. todo' \in [Workers -> SUBSET Products]
  BY DEF EditOpening, TInv, TypeOK
<1>5. \A v \in Workers : todo'[v] = {} => seen'[v] = None
  BY DEF EditOpening, TInv, TypeOK
<1>6. TypeOK'
  BY <1>3, <1>4, <1>5 DEF EditOpening, TInv, TypeOK
<1> QED
  BY <1>6 DEF TInv, EditOpening

LEMMA CountTypes ==
    ASSUME TInv, NEW p \in Products, NEW n \in Levels, Count(p, n)
    PROVE  TInv'
<1> DEFINE m == [kind |-> "counted", qty |-> n - Stock(p), ref |-> None]
<1>1. n \in Int /\ Stock(p) \in Int
  BY WalkType, CostingConstants DEF Stock, Acc
<1>2. n - Stock(p) \in Int
  BY <1>1
<1>3. m \in Move /\ m.kind # "made"
  BY <1>2 DEF Move
<1>4. moves' = [moves EXCEPT ![p] = Append(moves[p], m)]
  BY DEF Count
<1> HIDE DEF m
<1>5. moves[p] \in Seq(Move) /\ Movement(moves[p])
  BY DEF TInv, TypeOK
<1>6. Append(moves[p], m) = moves[p] \o <<m>>
  BY <1>3, <1>5
<1>7. Movement(Append(moves[p], m))
  BY <1>3, <1>5, <1>6, MovementJoins, MovementOfOne
<1>8. moves' \in [Products -> Seq(Move)] /\ \A q \in Products : Movement(moves'[q])
  BY <1>4, <1>7 DEF TInv, TypeOK, Movement
<1>9. TypeOK'
  BY <1>8 DEF Count, TInv, TypeOK
<1> QED
  BY <1>8, <1>9 DEF TInv, Count
LEMMA RunTypes ==
    ASSUME TInv, NEW w \in Workers, NEW f \in Formulas, NEW loss \in Losses,
           NEW ref \in Refs, NEW t \in Tokens, RunConversion(w, f, loss, ref, t)
    PROVE  TInv'
<1> DEFINE out == OutputOf[f]
           good == Makes[f] - loss
           cost == InputCost(f)
           use(p) == [kind |-> "used", qty |-> -Needs[f][p], ref |-> ref]
           make == [kind |-> "made", qty |-> good, ref |-> ref]
           used(p) == IF Needs[f][p] = 0 THEN <<>> ELSE <<use(p)>>
           made(p) == IF p # out \/ good = 0 THEN <<>> ELSE <<make>>
           run == [ref |-> ref, token |-> t,
                   cost |-> IF good > 0 THEN <<cost[1], cost[2] * good>> ELSE Free]
<1>1. out \in Products /\ Makes[f] \in Nat /\ loss \in Nat /\ good >= 0
  BY CostingConstants DEF RunConversion
<1>2. good \in Nat
  BY <1>1
<1>3. cost \in Cost
  BY InputCostIsCost, LedgerNowType
<1>4. run \in Run
  <2>1. good > 0 => <<cost[1], cost[2] * good>> \in Cost
    <3> HIDE DEF cost, good
    <3>1. cost[1] \in Nat /\ cost[2] \in Nat \ {0}
      BY <1>3 DEF Cost
    <3>2. good > 0 => cost[2] * good \in Nat \ {0}
      BY <1>2, <3>1
    <3> QED
      BY <3>1, <3>2 DEF Cost
  <2>2. Free \in Cost
    BY DEF Free, Cost
  <2> HIDE DEF cost, good
  <2> QED
    BY <2>1, <2>2 DEF Run
<1>5. \A p \in Products : Movement(used(p)) /\ Movement(made(p))
  <2> SUFFICES ASSUME NEW p \in Products PROVE Movement(used(p)) /\ Movement(made(p))
    OBVIOUS
  <2>1. Needs[f][p] \in Nat
    BY CostingConstants
  <2>2. -Needs[f][p] \in Int
    BY <2>1
  <2>3. use(p) \in Move /\ use(p).kind # "made"
    BY <2>2 DEF Move
  <2>4. make \in Move /\ make.qty = good
    BY <1>2 DEF Move
  <2>5. Movement(<<use(p)>>)
    <3> HIDE DEF use
    <3> QED
      BY <2>3, MovementOfOne
  <2>6. good # 0 => Movement(<<make>>)
    <3> HIDE DEF make, good
    <3> QED
      BY <1>2, <2>4, MovementOfOne
  <2> HIDE DEF use, make, good
  <2> QED
    BY <2>5, <2>6, MovementOfNone
<1>6. /\ moves' = [p \in Products |->
            IF p \in Inputs(f) \cup {out} THEN moves[p] \o used(p) \o made(p) ELSE moves[p]]
      /\ log' = [log EXCEPT ![out] = Append(log[out], run)]
  BY DEF RunConversion
<1> HIDE DEF used, made, run, good, cost
<1>7. \A p \in Products : Movement(moves'[p])
  <2> SUFFICES ASSUME NEW p \in Products PROVE Movement(moves'[p])
    OBVIOUS
  <2>1. Movement(moves[p])
    BY DEF TInv
  <2>2. Movement(moves[p] \o used(p) \o made(p))
    BY <1>5, <2>1, MovementJoins
  <2> QED
    BY <1>6, <2>1, <2>2
<1>8. moves' \in [Products -> Seq(Move)]
  BY <1>6, <1>7 DEF Movement
<1>9. log' \in [Products -> Seq(Run)]
  BY <1>1, <1>4, <1>6 DEF TInv, TypeOK
<1>10. ledger' \in [Products -> Cost \cup {None}] /\ price' \in [Products -> Cost]
  <2>1. \A p \in Products : /\ ledger[p] \in Cost \cup {None} /\ price[p] \in Cost
                            /\ LedgerNow(p) \in Cost \cup {None}
                            /\ PriceFrom(WalkOf(p), price[p]) \in Cost
    BY WalkType, StoredType, LedgerNowType DEF TInv, TypeOK
  <2>2. /\ ledger' = [p \in Products |-> IF p \in Bare(f) THEN LedgerNow(p) ELSE ledger[p]]
        /\ price' = [p \in Products |->
              IF p \in Bare(f) THEN PriceFrom(WalkOf(p), price[p]) ELSE price[p]]
    BY DEF RunConversion
  <2> QED
    BY <2>1, <2>2
<1>11. todo' \in [Workers -> SUBSET Products]
  <2>1. Involved(f) \subseteq Products
    BY <1>1 DEF Involved, Inputs
  <2> QED
    BY <2>1 DEF RunConversion, TInv, TypeOK
<1>12. \A v \in Workers : todo'[v] = {} => seen'[v] = None
  BY DEF RunConversion, TInv, TypeOK, Involved
<1>13. UNCHANGED <<bill, opening, seen, rows, stale>>
  BY DEF RunConversion
<1>14. TypeOK'
  BY <1>8, <1>9, <1>10, <1>11, <1>12, <1>13 DEF TInv, TypeOK
<1> QED
  BY <1>7, <1>13, <1>14 DEF TInv

-----------------------------------------------------------------------------
(* The rebuild.                                                              *)

\* A batch has a first product.
LEMMA FirstInBatch ==
    ASSUME TInv, NEW w \in Workers, todo[w] # {}
    PROVE  First(w) \in todo[w] /\ First(w) \in Products
<1> DEFINE T == todo[w]
<1>1. T \subseteq Products /\ T \subseteq Nat /\ T # {}
  BY CostingConstants DEF TInv, TypeOK
<1>2. PICK n \in T : \A m \in T : ~(<<m, n>> \in OpToRel(<, Nat))
  <2> HIDE DEF T
  <2> QED
    BY <1>1, WFMin, NatLessThanWellFounded
<1>3. \A m \in T : n <= m
  <2> SUFFICES ASSUME NEW m \in T, m < n PROVE FALSE
    BY <1>1
  <2>1. m \in Nat /\ n \in Nat
    BY <1>1
  <2> HIDE DEF T
  <2> QED
    BY <1>2, <2>1 DEF OpToRel
<1>4. First(w) = CHOOSE x \in T : \A y \in T : x <= y
  BY DEF First, Min
<1> HIDE DEF T
<1>5. First(w) \in T
  BY <1>2, <1>3, <1>4
<1> QED
  BY <1>1, <1>5 DEF T

LEMMA VisitTypes ==
    ASSUME TInv, NEW w \in Workers, NEW p \in Products, Visit(w, p)
    PROVE  TInv'
<1>1. todo' \in [Workers -> SUBSET Products]
  BY DEF Visit, TInv, TypeOK
<1>2. \A v \in Workers : todo'[v] = {} => seen'[v] = None
  BY DEF Visit, TInv, TypeOK
<1>3. TypeOK'
  BY <1>1, <1>2 DEF Visit, TInv, TypeOK
<1> QED
  BY <1>3 DEF TInv, Visit

LEMMA ReadPricesTypes ==
    ASSUME TInv, NEW w \in Workers, ReadPrices(w)
    PROVE  TInv'
<1>1. PricesOf(First(w)) \in PricesRead
  BY FirstInBatch, NowIsRead DEF ReadPrices
<1>2. seen' \in [Workers -> PricesRead \cup {None}]
  BY <1>1 DEF ReadPrices, TInv
<1>3. \A v \in Workers : todo[v] = {} => seen'[v] = None
  BY DEF ReadPrices, TInv, TypeOK
<1>4. \A v \in Workers : seen'[v] = None => rows[v] = None
  BY DEF ReadPrices, TInv, TypeOK
<1>5. TypeOK'
  BY <1>3, <1>4 DEF ReadPrices, TInv, TypeOK
<1> QED
  BY <1>2, <1>5 DEF ReadPrices, TInv

LEMMA ReadRowsTypes ==
    ASSUME TInv, NEW w \in Workers, ReadRows(w)
    PROVE  TInv'
<1>1. todo[w] # {}
  BY DEF ReadRows, TInv, TypeOK
<1>2. RowsOf(First(w)) \in RowsRead
  BY <1>1, FirstInBatch, NowIsRead
<1>3. rows' \in [Workers -> RowsRead \cup {None}]
  BY <1>2 DEF ReadRows, TInv
<1>4. \A v \in Workers : seen[v] = None => rows'[v] = None
  BY DEF ReadRows, TInv, TypeOK
<1>5. TypeOK'
  BY <1>4 DEF ReadRows, TInv, TypeOK
<1> QED
  BY <1>3, <1>5 DEF ReadRows, TInv

LEMMA StoreTypes ==
    ASSUME TInv, NEW w \in Workers, Store(w)
    PROVE  TInv'
<1>1. /\ seen[w] \in PricesRead /\ rows[w] \in RowsRead /\ todo[w] # {}
      /\ todo[w] \subseteq Products
  BY DEF Store, TInv, TypeOK
<1>2. \A p \in Products : Rebuilt(w, p) \in Acc
  BY <1>1, WalkReadType, WalkType DEF Rebuilt
<1>3. \A p \in Products : /\ LedgerFrom(Rebuilt(w, p)) \in Cost \cup {None}
                          /\ PriceFrom(Rebuilt(w, p), price[p]) \in Cost
                          /\ ledger[p] \in Cost \cup {None} /\ price[p] \in Cost
  BY <1>2, StoredType DEF TInv, TypeOK
<1>4. ledger' \in [Products -> Cost \cup {None}] /\ price' \in [Products -> Cost]
  BY <1>3 DEF Store
<1>5. /\ todo' \in [Workers -> SUBSET Products]
      /\ seen' \in [Workers -> PricesRead \cup {None}]
      /\ rows' \in [Workers -> RowsRead \cup {None}]
  BY DEF Store, TInv, TypeOK
<1>6. \A v \in Workers : /\ todo'[v] = {} => seen'[v] = None
                         /\ seen'[v] = None => rows'[v] = None
  BY DEF Store, TInv, TypeOK
<1>7. stale' \subseteq Products
  BY <1>1, FirstInBatch DEF Store, TInv, TypeOK
<1>8. TypeOK'
  BY <1>4, <1>5, <1>6, <1>7 DEF Store, TInv, TypeOK
<1> QED
  BY <1>5, <1>8 DEF Store, TInv

LEMMA AbandonTypes ==
    ASSUME TInv, NEW w \in Workers, Abandon(w)
    PROVE  TInv'
<1>1. /\ todo' \in [Workers -> SUBSET Products]
      /\ seen' \in [Workers -> PricesRead \cup {None}]
      /\ rows' \in [Workers -> RowsRead \cup {None}]
  BY DEF Abandon, TInv, TypeOK
<1>2. \A v \in Workers : /\ todo'[v] = {} => seen'[v] = None
                         /\ seen'[v] = None => rows'[v] = None
  BY DEF Abandon, TInv, TypeOK
<1>3. stale' \subseteq Products
  BY DEF Abandon, TInv, TypeOK
<1>4. TypeOK'
  BY <1>1, <1>2, <1>3 DEF Abandon, TInv, TypeOK
<1> QED
  BY <1>1, <1>4 DEF Abandon, TInv

LEMMA TInvNext == TInv /\ [Next]_vars => TInv'
<1> SUFFICES ASSUME TInv, [Next]_vars PROVE TInv'
  OBVIOUS
<1>1. ASSUME NEW w \in Workers,
             \/ \E f \in Uploads : Import(w, f)
             \/ \E p \in Products, o \in Openings : EditOpening(w, p, o)
             \/ \E p \in Products : Visit(w, p)
      PROVE TInv'
  BY <1>1, ImportTypes, EditOpeningTypes, VisitTypes
<1>2. ASSUME NEW w \in Workers, NEW f \in Formulas, NEW loss \in Losses, NEW ref \in Refs,
             NEW t \in Tokens, RunConversion(w, f, loss, ref, t)
      PROVE TInv'
  BY <1>2, RunTypes
<1>3. ASSUME NEW w \in Workers, ReadPrices(w) \/ ReadRows(w) \/ Store(w) \/ Abandon(w)
      PROVE TInv'
  BY <1>3, ReadPricesTypes, ReadRowsTypes, StoreTypes, AbandonTypes
<1>4. ASSUME NEW k \in Lines, NEW b \in Versions[k], MapLine(k, b) PROVE TInv'
  BY <1>4, MapLineTypes
<1>5. ASSUME NEW k \in Lines, NEW b \in MayBe(k), Rebuild(k, b) PROVE TInv'
  BY <1>5, RebuildTypes
<1>6. ASSUME NEW p \in Products, NEW n \in Levels, Count(p, n) PROVE TInv'
  BY <1>6, CountTypes
<1>7. CASE UNCHANGED vars
  BY <1>7 DEF vars, TInv, TypeOK
<1> QED
  BY <1>1, <1>2, <1>3, <1>4, <1>5, <1>6, <1>7 DEF Next

\* Costs stay fractions with a positive denominator and stocks numbers, through
\* every average, every run and every rebuild from what was read before the
\* lock, for any bills, formulas and number of processes.
THEOREM CostingTypeCorrect == Spec => []TypeOK
<1>1. TInv => TypeOK
  BY DEF TInv
<1> QED
  BY <1>1, TInvInit, TInvNext, PTL DEF Spec

-----------------------------------------------------------------------------
\* What is now stored was received at the costs that were met.
LEMMA NowIsReadable ==
    ASSUME TInv, NEW p \in Products
    PROVE  CostsMet(p) \in SUBSET Cost /\ Readable(PricesOf(p), RowsOf(p), CostsMet(p))
<1> DEFINE own == OwnLines(p, bill)
           bills == {<<bill[k].net, bill[k].qty>> : k \in {j \in Purchases : own[j] # None}}
           runs == {log[p][i].cost : i \in 1..Len(log[p])}
<1>1. CostsMet(p) = bills \cup runs \cup {<<opening[p], 1>>}
  BY DEF CostsMet
<1>2. \A k \in Lines : own[k] # None =>
         own[k] = bill[k] /\ bill[k].qty \in Nat \ {0} /\ bill[k].net \in Nat
  BY BillType DEF OwnLines, TInv, TypeOK
<1>3. Priced(own, own, bills)
  BY <1>2 DEF Priced
<1>4. bills \subseteq Cost
  <2>1. Purchases \subseteq Lines
    BY CostingConstants
  <2> HIDE DEF own
  <2> QED
    BY <1>2, <2>1 DEF Cost
<1>5. opening[p] \in Nat
  <2>1. opening[p] \in Openings
    BY DEF TInv, TypeOK
  <2> QED
    BY <2>1, CostingConstants
<1>6. log[p] \in Seq(Run) /\ \A i \in 1..Len(log[p]) : log[p][i] \in Run
  BY DEF TInv, TypeOK
<1>7. runs \subseteq Cost
  BY <1>6 DEF Run
<1>8. <<opening[p], 1>> \in Cost
  BY <1>5 DEF Cost
<1>9. CostsMet(p) \in SUBSET Cost
  BY <1>1, <1>4, <1>7, <1>8
<1>10. Priced(own, own, CostsMet(p))
  BY <1>1, <1>3 DEF Priced
<1>11. Logged(log[p], CostsMet(p))
  BY <1>1, <1>6 DEF Logged
<1>12. Movement(moves[p])
  BY DEF TInv
<1>13. /\ PricesOf(p).opening = opening[p] /\ PricesOf(p).bill = own
       /\ PricesOf(p).log = log[p]
       /\ RowsOf(p).bill = own /\ RowsOf(p).moves = moves[p]
  BY DEF PricesOf, RowsOf
<1>14. <<opening[p], 1>> \in CostsMet(p)
  BY <1>1
<1> HIDE DEF own
<1> QED
  BY <1>5, <1>9, <1>10, <1>11, <1>12, <1>13, <1>14 DEF Readable

\* An average cost is never above the dearest nor below the cheapest unit that
\* its product was received at, for any ledger: oversold stock, counts, losses
\* and runs that share a document number included (_rebuild_product_wacc).
THEOREM CostsWithinCosts == Spec => []CostWithinCosts
<1>1. TInv => CostWithinCosts
  <2> SUFFICES ASSUME TInv, NEW p \in Products, ~IsZero(WalkOf(p).cost)
               PROVE  /\ \E c \in CostsMet(p) : AtMost(c, WalkOf(p).cost)
                      /\ \E c \in CostsMet(p) : AtMost(WalkOf(p).cost, c)
    BY DEF CostWithinCosts
  <2>1. WalkOf(p) \in Within(CostsMet(p))
    BY NowIsReadable, WalkWithin DEF WalkOf
  <2> QED
    BY <2>1 DEF Within
<1> QED
  BY <1>1, TInvInit, TInvNext, PTL DEF Spec
=============================================================================
