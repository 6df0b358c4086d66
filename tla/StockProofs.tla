----------------------------- MODULE StockProofs -----------------------------
(***************************************************************************)
(* Stock levels are sums over all the lines, so a step that rewrites the   *)
(* ledger keeps a level only when what it adds cancels out: pointwise, for *)
(* a held correction, or in the sum, for a re-point that compensates.      *)
(***************************************************************************)
EXTENDS CorrectionProofs, SumLemmas

\* What line k has on product p: its ledger rows and its hold offsets.
Share(p) == [k \in Lines |-> posted[k][p].q + offsets[k][p]]
Drift(p) == [k \in Lines |-> posted[k][p].q - posted'[k][p].q]

\* A stock level is the adjustments and the shares of all the lines.
LEMMA StockIsSum ==
    /\ \A p : Stock(p) = adjust[p] + SumFunctionOnSet(Share(p), Lines)
    /\ \A p : Stock(p)' = adjust'[p] + SumFunctionOnSet(Share(p)', Lines)
<1>1. \A p : Share(p) = [k \in Lines |-> posted[k][p].q + offsets[k][p]]
  BY DEF Share
<1>2. \A p : Share(p)' = [k \in Lines |-> posted'[k][p].q + offsets'[k][p]]
  BY DEF Share
<1> QED
  BY <1>1, <1>2 DEF Stock, SumFunction

\* Where no share and no adjustment changes, no stock level does.
LEMMA SharesKeepStock ==
    ASSUME adjust' = adjust, NEW p,
           \A k \in Lines : posted'[k][p].q + offsets'[k][p] = posted[k][p].q + offsets[k][p]
    PROVE  Stock(p)' = Stock(p)
<1>1. Share(p)' = Share(p)
  BY DEF Share
<1> QED
  BY <1>1, StockIsSum

-----------------------------------------------------------------------------
(* Re-points.                                                                *)

\* The rebuild within a re-point keeps to the products P it affects: what a line
\* posted on another product stands, and no line is posted there.  On a product
\* of P a line is left with rows only if the re-pointed history is on it.
LEMMA RepointStaysInside ==
    ASSUME TypeOK, NEW c \in Codes, NEW s \in Scopes, NEW p \in Products,
           Repoint(c, s, p, TRUE), NEW k \in Lines, NEW q \in Products
    PROVE  LET P == RepointProducts(c, s, p)
           IN  /\ q \notin P => posted'[k][q] = posted[k][q]
               /\ q \in P /\ Moved(c, s, p)[k].product # q => posted'[k][q] = NoRows
<1> DEFINE P == RepointProducts(c, s, p)
           moved == Moved(c, s, p)
           reset == Reset(moved, Lines, P)
           wiped == WipePosted(posted, Lines, P)
           replayed == Posts(reset, ratio, On(moved, P), k) /\ reset[k].product = q
<1>1. posted' = SyncPosted(wiped, reset, ratio, On(moved, P))
  BY DEF Repoint, RebuiltPosted
<1>2. ~replayed => posted'[k][q] = wiped[k][q]
  BY <1>1 DEF SyncPosted
<1>3. wiped[k][q] = IF q \in P THEN NoRows ELSE posted[k][q]
  BY DEF WipePosted
<1>4. replayed => q \in P /\ moved[k].product = q
  <2>1. ASSUME replayed PROVE k \in On(moved, P) /\ reset[k].product = q
    BY <2>1 DEF Posts
  <2>2. moved[k] # None => reset[k].product = moved[k].product
    <3>1. line \in LineMap
      BY DEF TypeOK, LineMap
    <3>2. ASSUME moved[k] # None PROVE moved[k] \in Line
      <4>1. CASE k \in CodeLines(c, s)
        <5>1. line[k] \in Line /\ moved[k] = [line[k] EXCEPT !.product = p, !.synced = FALSE]
          BY <3>1, <4>1 DEF Moved, CodeLines, LineMap
        <5> QED
          BY <5>1 DEF Line
      <4>2. CASE k \notin CodeLines(c, s)
        BY <3>1, <3>2, <4>2 DEF Moved, LineMap
      <4> QED
        BY <4>1, <4>2
    <3>3. reset[k] = moved[k] \/ reset[k] = [moved[k] EXCEPT !.synced = FALSE]
      BY DEF Reset
    <3> HIDE DEF moved, reset
    <3> QED
      BY <3>2, <3>3 DEF Line
  <2> QED
    BY <2>1, <2>2 DEF On
<1> HIDE DEF replayed
<1> QED
  BY <1>2, <1>3, <1>4

\* Hence the history leaves the products it stood on, all of which are in P.
LEMMA HistoryLeaves ==
    ASSUME TypeOK, NEW c \in Codes, NEW s \in Scopes, NEW p \in Products,
           Repoint(c, s, p, TRUE), NEW k \in CodeLines(c, s),
           line[k].product \notin {p, None}
    PROVE  posted'[k][line[k].product] = NoRows
<1>1. k \in Lines /\ line[k] \in Line
  BY DEF CodeLines, TypeOK
<1>2. line[k].product \in Products
  BY <1>1 DEF Line
<1>3. line[k].product \in RepointProducts(c, s, p)
  BY <1>2 DEF RepointProducts
<1>4. Moved(c, s, p)[k].product = p
  <2>1. Moved(c, s, p)[k] = [line[k] EXCEPT !.product = p, !.synced = FALSE]
    BY <1>1 DEF Moved
  <2> QED
    BY <1>1, <2>1 DEF Line
<1> QED
  BY <1>1, <1>2, <1>3, <1>4, RepointStaysInside

\* On a product of P the compensation is the sum of what the rebuild moved, line
\* by line; on every other product the rebuild moved nothing.
LEMMA CompensationKeepsStock ==
    ASSUME TypeOK, TypeOK', NEW c \in Codes, NEW s \in Scopes, NEW p \in Products,
           Repoint(c, s, p, TRUE), NEW q \in Products
    PROVE  Stock(q)' = Stock(q)
<1> DEFINE P == RepointProducts(c, s, p)
<1>1. CASE q \notin P
  <2>1. adjust'[q] = adjust[q] /\ offsets' = offsets
    BY <1>1 DEF Repoint, Compensated
  <2>2. \A k \in Lines : posted'[k][q] = posted[k][q]
    BY <1>1, RepointStaysInside
  <2>3. Share(q)' = Share(q)
    BY <2>1, <2>2 DEF Share
  <2> QED
    BY <2>1, <2>3, StockIsSum
<1>2. CASE q \in P
  <2>1. adjust'[q] = adjust[q] + SumFunction(Drift(q)) /\ offsets' = offsets
    BY <1>2 DEF Repoint, Compensated, Drift
  <2>2. /\ \A k \in Lines : posted[k][q].q \in Int /\ posted'[k][q].q \in Int
        /\ \A k \in Lines : offsets[k][q] \in Int
        /\ adjust[q] \in Int
    BY DEF TypeOK
  <2> DEFINE drift == Drift(q)
             before == Share(q)
             after == Share(q)'
  <2>3. \A k \in Lines :
           /\ drift[k] \in Int /\ after[k] \in Int
           /\ before[k] = drift[k] + after[k]
    BY <2>1, <2>2 DEF Drift, Share
  <2>4. SumFunction(drift) = SumFunctionOnSet(drift, Lines)
    BY DEF SumFunction, Drift
  <2> HIDE DEF drift, before, after
  <2>5. SumFunctionOnSet(before, Lines)
           = SumFunctionOnSet(drift, Lines) + SumFunctionOnSet(after, Lines)
    BY <2>3, ConstantTypes, SumOfSums
  <2>6. SumFunctionOnSet(drift, Lines) \in Int /\ SumFunctionOnSet(after, Lines) \in Int
    BY <2>3, ConstantTypes, SumInt
  <2>7. Stock(q) = adjust[q] + SumFunctionOnSet(before, Lines)
    BY StockIsSum DEF before
  <2>8. Stock(q)' = (adjust[q] + SumFunctionOnSet(drift, Lines)) + SumFunctionOnSet(after, Lines)
    BY <2>1, <2>4, StockIsSum DEF after, drift
  <2> QED
    BY <2>2, <2>5, <2>6, <2>7, <2>8
<1> QED
  BY <1>1, <1>2

\* A re-point that was asked to hold the stock takes the history off every product
\* it stood on and holds the stock of every product, for any number of lines,
\* units and processes.
THEOREM RepointsPreserveStock == Spec => RepointPreservesStock
<1>1. TypeOK /\ TypeOK' /\ [Next]_vars =>
        [\A c \in Codes, s \in Scopes, p \in Products :
            Repoint(c, s, p, TRUE) =>
               /\ \A k \in CodeLines(c, s) : line[k].product \notin {p, None} =>
                     posted'[k][line[k].product] = NoRows
               /\ \A q \in Products : Stock(q)' = Stock(q)]_vars
  BY CompensationKeepsStock, HistoryLeaves
<1> QED
  BY <1>1, TypeCorrect, PTL DEF Spec, RepointPreservesStock

-----------------------------------------------------------------------------
(* Held corrections.                                                         *)

\* An import that leaves the lines as they were has replaced and removed none.
LEMMA NothingReplaced ==
    ASSUME TypeOK, NEW side \in Tables, NEW f \in Files(side), NEW removals \in BOOLEAN,
           Import(side, f, removals), line' = line, NEW k \in Lines
    PROVE  ~Replaced(f, k) /\ ~Removed(side, f, removals, k)
<1>1. Replaced(f, k) => Unchanged(f, k)
  BY ImportedLine DEF Says, Unchanged
<1>2. ~Replaced(f, k) /\ Removed(side, f, removals, k) => line[k] = None /\ line[k] # None
  BY ImportedLine DEF Removed, Missing
<1> QED
  BY <1>1, <1>2 DEF Replaced

\* It can only have agreed with corrections, which keep their offsets.
LEMMA AgreeingKeepsStock ==
    ASSUME TypeOK, AllSecure, NEW side \in Tables, NEW f \in Files(side),
           NEW removals \in BOOLEAN, Import(side, f, removals), line' = line,
           NEW p \in Products
    PROVE  Stock(p)' = Stock(p)
<1>1. \A k \in Lines : ~Replaced(f, k) /\ ~Removed(side, f, removals, k)
  BY NothingReplaced
<1>2. ASSUME NEW k \in Lines, Overrules(f, k) PROVE FALSE
  <2>1. corr[k] # None /\ Considered(f, k) /\ ~Keeps(f, k) /\ ~Agrees(f, k)
    BY <1>2 DEF Overrules
  <2>2. StillCorrected(k) /\ line[k].qty = corr[k].qty /\ line[k].money = corr[k].money
    BY <2>1 DEF AllSecure, Active, Secure
  <2>3. Unchanged(f, k)
    BY <1>1, <2>1 DEF Replaced
  <2> QED
    BY <2>1, <2>2, <2>3 DEF Agrees, Unchanged, StillCorrected, SameButUnit
<1>3. \A k \in Lines : ~Retired(side, f, removals, k)
  BY <1>1, <1>2 DEF Retired
<1>4. Affected(side, f, removals) = {}
  BY <1>1, <1>3 DEF Affected, TableLines
<1>5. posted' = posted /\ adjust' = adjust
  BY <1>4 DEF Import
<1>6. \A k \in Lines : offsets'[k][p] = offsets[k][p]
  BY <1>3 DEF Import
<1> QED
  BY <1>5, <1>6, SharesKeepStock

\* What a held correction takes from the ledger row it gives to the offset.
LEMMA HoldingKeepsStock ==
    ASSUME TypeOK, NEW k \in Lines, NEW u \in Units, Apply(k, u, "hold"), NEW q \in Products
    PROVE  Stock(q)' = Stock(q)
<1> DEFINE p == line[k].product
           new == Effect(ratio, k, p, u, line[k].qty)
           off == posted[k][p].q - new
<1>1. line[k] \in Line /\ p \in Products
  BY DEF Apply, CanCorrect, TypeOK, Line
<1>2. /\ posted' = [posted EXCEPT ![k][p].q = new]
      /\ offsets' = [offsets EXCEPT ![k][p] = @ + off]
      /\ adjust' = adjust
  BY DEF Apply, Offset
<1>3. new \in Int
  BY <1>1, EffectType DEF Line, TypeOK, RatioMap
<1>4. posted[k][p].q \in Int /\ offsets[k][p] \in Int
  BY <1>1 DEF TypeOK
<1> HIDE DEF p, new
<1>5. posted'[k][p].q = new /\ offsets'[k][p] = offsets[k][p] + off
  BY <1>1, <1>2 DEF TypeOK
<1>6. ASSUME NEW j \in Lines
      PROVE  posted'[j][q].q + offsets'[j][q] = posted[j][q].q + offsets[j][q]
  <2>1. CASE j = k /\ q = p
    BY <1>3, <1>4, <1>5, <2>1
  <2>2. CASE ~(j = k /\ q = p)
    BY <1>1, <1>2, <2>2 DEF TypeOK
  <2> QED
    BY <2>1, <2>2
<1> QED
  BY <1>2, <1>6, SharesKeepStock

\* Cancelling it gives the same back.
LEMMA ReleasingKeepsStock ==
    ASSUME TypeOK, NEW k \in Lines, Cancel(k), corr[k].mode = "hold", NEW q \in Products
    PROVE  Stock(q)' = Stock(q)
<1> DEFINE p == corr[k].product
           new == Restored(k)
           off == corr[k].offset
<1>1. corr[k] # None /\ p \in Products /\ corr[k].express \in Units /\ off \in Int
  BY CorrectionType DEF Cancel, CanCancel
<1>2. /\ posted' = [posted EXCEPT ![k][p].q = new]
      /\ offsets' = [offsets EXCEPT ![k][p] = @ - off]
      /\ adjust' = adjust
      /\ new - posted[k][p].q = off
  BY DEF Cancel, CanCancel
<1>3. new \in Int
  <2>1. line[k] \in Line
    BY DEF Cancel, CanCancel, StillCorrected, TypeOK
  <2> QED
    BY <1>1, <2>1, EffectType DEF Restored, Line, TypeOK, RatioMap
<1>4. posted[k][p].q \in Int /\ offsets[k][p] \in Int
  BY <1>1 DEF TypeOK
<1> HIDE DEF p, new, off
<1>5. posted'[k][p].q = new /\ offsets'[k][p] = offsets[k][p] - off
  BY <1>1, <1>2 DEF TypeOK
<1>6. ASSUME NEW j \in Lines
      PROVE  posted'[j][q].q + offsets'[j][q] = posted[j][q].q + offsets[j][q]
  <2>1. CASE j = k /\ q = p
    BY <1>1, <1>2, <1>3, <1>4, <1>5, <2>1
  <2>2. CASE ~(j = k /\ q = p)
    BY <1>1, <1>2, <2>2 DEF TypeOK
  <2> QED
    BY <2>1, <2>2
<1> QED
  BY <1>2, <1>6, SharesKeepStock

\* No other step starts, ends or changes a correction.
LEMMA HeldStepsKeepStock ==
    ASSUME TypeOK, TypeOK', AllSecure, [Next]_vars, NEW k \in Lines, corr[k] # corr'[k],
           Held(corr[k]), Held(corr'[k]), line' = line \/ ~ImportStep, NEW q \in Products
    PROVE  Stock(q)' = Stock(q)
<1>1. \/ \E j \in Lines, u \in Units, mode \in {"hold", "move"} : Apply(j, u, mode)
      \/ \E j \in Lines : Cancel(j)
      \/ \E side \in Tables, removals \in BOOLEAN : \E f \in Files(side) : Import(side, f, removals)
  <2>1. corr' # corr
    OBVIOUS
  <2> QED
    BY <2>1, CorrectionSteps
<1>2. ASSUME NEW j \in Lines, NEW u \in Units, NEW mode \in {"hold", "move"}, Apply(j, u, mode)
      PROVE  Stock(q)' = Stock(q)
  <2>1. j = k
    BY <1>2 DEF Apply, TypeOK
  <2>2. corr'[k].mode = mode /\ corr'[k] # None
    <3>1. corr'[k] # None
      BY <1>2, <2>1 DEF Apply, CanCorrect
    <3>2. corr'[k].mode = mode
      BY <1>2, <2>1 DEF Apply, TypeOK
    <3> QED
      BY <3>1, <3>2
  <2>3. mode = "hold"
    BY <2>2 DEF Held
  <2> QED
    BY <1>2, <2>3, HoldingKeepsStock
<1>3. ASSUME NEW j \in Lines, Cancel(j) PROVE Stock(q)' = Stock(q)
  <2>1. j = k
    BY <1>3 DEF Cancel, TypeOK
  <2>2. corr[k].mode = "hold"
    BY <1>3, <2>1 DEF Cancel, CanCancel, Held
  <2> QED
    BY <1>3, <2>1, <2>2, ReleasingKeepsStock
<1>4. ASSUME NEW side \in Tables, NEW removals \in BOOLEAN, NEW f \in Files(side),
             Import(side, f, removals)
      PROVE  Stock(q)' = Stock(q)
  <2>1. line' = line
    BY <1>4 DEF ImportStep
  <2> QED
    BY <1>4, <2>1, AgreeingKeepsStock
<1> QED
  BY <1>1, <1>2, <1>3, <1>4

\* With one process and no script that deletes ratios, holding a correction,
\* cancelling a held one and Express coming to agree with it move no stock
\* level of any product, however many rows they rewrite.
THEOREM HoldsKeepStock ==
    ASSUME NEW w0, Workers = {w0}, ScriptDrops = {}
    PROVE  Spec => HoldKeepsStock
<1>1. TypeOK /\ TypeOK' /\ AllSecure /\ [Next]_vars =>
        [\A k \in Lines :
            /\ corr[k] # corr'[k] /\ Held(corr[k]) /\ Held(corr'[k])
            /\ line' = line \/ ~ImportStep
            => \A p \in Products : Stock(p)' = Stock(p)]_vars
  BY HeldStepsKeepStock
<1>2. CInv => TypeOK /\ AllSecure
  BY DEF CInv
<1> QED
  BY <1>1, <1>2, CorrectionsStaySecure, PTL DEF Spec, HoldKeepsStock
=============================================================================
