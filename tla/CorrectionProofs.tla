-------------------------- MODULE CorrectionProofs --------------------------
(***************************************************************************)
(* An active unit correction can always be cancelled, for every set of     *)
(* lines, products, units and ratios, under three conditions: one process, *)
(* no script that deletes a ratio, and no two sales lines of one document  *)
(* number.                                                                 *)
(*                                                                         *)
(* CancelAlwaysPossible is not inductive: it says that the measured offset *)
(* is the one recorded, which a rebuild of the product for the sake of     *)
(* another line reproduces only because the ledger row stands at today's   *)
(* ratio of the corrected unit.  Secure says so, and ChecksHold says that  *)
(* a ratio write still to come cannot change a ratio a correction needs.   *)
(***************************************************************************)
EXTENDS BsnLedgerProofs

\* What holds of an active correction of line k between any two steps.
Secure(k) ==
    LET c == corr[k]
    IN  /\ Side[k] = "sales"
        /\ line[k] # None /\ line[k].synced /\ StillCorrected(k)
        /\ line[k].qty = c.qty /\ line[k].money = c.money
        /\ line[k].qty > 0
        /\ RatioOf(ratio, c.product, c.express) # 0
        /\ RatioOf(ratio, c.product, c.corrected) # 0
        /\ posted[k][c.product].q =
              Effect(ratio, k, c.product, c.corrected, line[k].qty)
        /\ c.mode = "hold" => c.offset = Restored(k) - posted[k][c.product].q

AllSecure == \A k \in Active : Secure(k)

\* A ratio that passed its checks creates a ratio, repeats one, or belongs to
\* a product without corrections.
ChecksHold ==
    \A w \in Workers : checked[w] # None =>
        \/ ratio[checked[w].product][checked[w].unit] \in {0, checked[w].ratio}
        \/ ~BlockedProducts({checked[w].product})

\* A step that leaves the correction of k, its line, its ledger quantity and
\* every ratio of its product that is in use as they were.
Undisturbed(k) ==
    /\ corr[k] # None /\ corr'[k] = corr[k] /\ line'[k] = line[k]
    /\ posted'[k][corr[k].product].q = posted[k][corr[k].product].q
    /\ \A u \in Units : RatioOf(ratio, corr[k].product, u) # 0 =>
          RatioOf(ratio', corr[k].product, u) = RatioOf(ratio, corr[k].product, u)

-----------------------------------------------------------------------------
(* Lemmas about the operators.                                               *)

LEMMA CorrectionType ==
    ASSUME TypeOK, NEW k \in Lines, corr[k] # None
    PROVE  /\ corr[k].product \in Products /\ corr[k].express \in Units
           /\ corr[k].corrected \in Units /\ corr[k].offset \in Int
BY DEF TypeOK, Correction

LEMMA UndisturbedStaysSecure ==
    ASSUME TypeOK, NEW k \in Lines, Secure(k), Undisturbed(k)
    PROVE  Secure(k)'
<1> DEFINE c == corr[k]
<1>1. c.product \in Products /\ c.express \in Units /\ c.corrected \in Units
  BY CorrectionType DEF Undisturbed
<1>2. /\ RatioOf(ratio', c.product, c.express) = RatioOf(ratio, c.product, c.express)
      /\ RatioOf(ratio', c.product, c.corrected) = RatioOf(ratio, c.product, c.corrected)
  BY <1>1 DEF Undisturbed, Secure
<1>3. corr'[k] = c /\ line'[k] = line[k] /\ posted'[k][c.product].q = posted[k][c.product].q
  BY DEF Undisturbed
<1> QED
  BY <1>2, <1>3 DEF Secure, Effect, Restored, StillCorrected

\* A synced line is no concern of a sync.
LEMMA SyncLeavesSynced ==
    ASSUME NEW ln, NEW post, NEW rat, NEW S, NEW k \in Lines, ln[k].synced
    PROVE  /\ SyncLines(ln, rat, S)[k] = ln[k]
           /\ \A p \in Products : SyncPosted(post, ln, rat, S)[k][p] = post[k][p]
BY DEF SyncLines, SyncPosted, Posts

\* A rebuild leaves a synced line of another product, and its ledger row.
LEMMA RebuiltElsewhere ==
    ASSUME NEW ln, NEW rat, NEW P, NEW k \in Lines, ln[k].synced, ln[k].product \notin P
    PROVE  /\ Rebuilt(ln, rat, P)[k] = ln[k]
           /\ \A p \in Products \ P : RebuiltPosted(ln, rat, P)[k][p] = posted[k][p]
<1> DEFINE reset == Reset(ln, Lines, P)
           wiped == WipePosted(posted, Lines, P)
<1>1. reset[k] = ln[k]
  BY DEF Reset
<1>2. \A p \in Products \ P : wiped[k][p] = posted[k][p]
  BY DEF WipePosted
<1>3. Rebuilt(ln, rat, P) = SyncLines(reset, rat, On(ln, P))
  BY DEF Rebuilt
<1>4. RebuiltPosted(ln, rat, P) = SyncPosted(wiped, reset, rat, On(ln, P))
  BY DEF RebuiltPosted
<1> HIDE DEF reset, wiped
<1>5. /\ SyncLines(reset, rat, On(ln, P))[k] = reset[k]
      /\ \A p \in Products :
            SyncPosted(wiped, reset, rat, On(ln, P))[k][p] = wiped[k][p]
  BY <1>1, SyncLeavesSynced
<1> QED
  BY <1>1, <1>2, <1>3, <1>4, <1>5

LEMMA RatioElsewhere ==
    ASSUME TypeOK, NEW p \in Products, NEW u \in Units, NEW r, NEW q \in Products,
           NEW v \in Units, q # p \/ ratio[p][u] \in {0, r}, RatioOf(ratio, q, v) # 0
    PROVE  RatioOf(SetRatio(p, u, r), q, v) = RatioOf(ratio, q, v)
<1>1. CASE v = Base[q]
  BY <1>1 DEF RatioOf
<1>2. CASE v # Base[q]
  <2>1. ratio[q][v] # 0
    BY <1>2 DEF RatioOf
  <2>2. SetRatio(p, u, r)[q][v] = ratio[q][v]
    BY <2>1 DEF SetRatio, TypeOK
  <2> QED
    BY <1>2, <2>2 DEF RatioOf
<1> QED
  BY <1>1, <1>2

\* A positive quantity at a ratio moves stock.
LEMMA EffectMoves ==
    ASSUME TypeOK, NEW k \in Lines, NEW p \in Products, NEW u \in Units,
           NEW qty \in Qtys, RatioOf(ratio, p, u) # 0, qty > 0
    PROVE  Effect(ratio, k, p, u, qty) # 0
<1> DEFINE r == RatioOf(ratio, p, u)
<1>1. r \in Nat /\ qty \in Nat
  <2>1. ratio[p][u] \in Ratios \cup {0}
    BY DEF TypeOK
  <2>2. Ratios \cup {0} \subseteq Nat /\ Qtys \subseteq Nat
    BY ConstantTypes
  <2>3. ratio[p][u] \in Nat /\ qty \in Nat
    BY <2>1, <2>2
  <2> QED
    BY <2>3 DEF RatioOf
<1>2. r > 0
  BY <1>1
<1> HIDE DEF r
<1>3. qty * r > 0
  BY <1>1, <1>2
<1>4. qty * r \in Int
  BY <1>1
<1>5. Sign(k) = 1 \/ Sign(k) = -1
  BY DEF Sign
<1> QED
  BY <1>3, <1>4, <1>5 DEF Effect, r

-----------------------------------------------------------------------------
(* One lemma per operation that could disturb a correction.                  *)

\* What Secure and the ledger say of the line of an active correction.
LEMMA SecureLine ==
    ASSUME TypeOK, LedgerMatchesLines, NEW k \in Lines, corr[k] # None, Secure(k)
    PROVE  /\ line[k] \in Line /\ line[k].synced /\ line[k].qty \in Qtys
           /\ line[k].product = corr[k].product /\ line[k].product \in Products
           /\ line[k].unit = corr[k].corrected /\ line[k].product # None
           /\ Code[k] \notin NonStock
<1>1. line[k] \in Line /\ line[k] # None /\ line[k].synced
  BY DEF Secure, TypeOK
<1>2. line[k].product = corr[k].product /\ line[k].unit = corr[k].corrected
  BY DEF Secure, StillCorrected
<1>3. corr[k].product \in Products
  BY CorrectionType
<1>4. line[k].product # None /\ Code[k] \notin NonStock
  BY <1>1 DEF LedgerMatchesLines, Matches
<1> QED
  BY <1>1, <1>2, <1>3, <1>4 DEF Line

LEMMA ImportSecures ==
    ASSUME TypeOK, LedgerMatchesLines, NEW side \in Tables, NEW f \in Files(side),
           NEW removals \in BOOLEAN, Import(side, f, removals),
           NEW k \in Lines, corr'[k] # None, corr[k] # None => Secure(k)
    PROVE  Undisturbed(k)
<1> DEFINE P == Affected(side, f, removals)
           S == TableLines(side)
           diffed == LinesAfterDiff(side, f, removals)
           reset == Reset(diffed, S, P)
           wiped == WipePosted(posted, S, P)
           p == corr[k].product
<1>1. /\ corr'[k] = corr[k] /\ corr[k] # None
      /\ ~Retired(side, f, removals, k) /\ ~Agrees(f, k)
  BY DEF Import
<1>2. diffed[k] = line[k]
  <2>1. ~Replaced(f, k) /\ ~Removed(side, f, removals, k)
    BY <1>1 DEF Replaced, Retired, Overrules
  <2> QED
    BY <2>1 DEF LinesAfterDiff
<1>3. /\ line[k] \in Line /\ line[k].synced /\ line[k].product = p /\ p \in Products
      /\ line[k].unit = corr[k].corrected /\ Code[k] \notin NonStock /\ p # None
  BY <1>1, SecureLine
<1>4. /\ line' = IF P = {} THEN diffed ELSE SyncLines(reset, ratio, S)
      /\ posted' = IF P = {} THEN posted ELSE SyncPosted(wiped, reset, ratio, S)
      /\ ratio' = ratio
  BY DEF Import
<1>5. line'[k] = line[k] /\ posted'[k][p].q = posted[k][p].q
  <2>1. CASE P = {}
    BY <1>2, <1>4, <2>1
  <2>2. CASE P # {} /\ ~(k \in S /\ p \in P)
    <3>1. reset[k] = line[k]
      BY <1>2, <1>3, <2>2 DEF Reset
    <3>2. wiped[k][p] = posted[k][p]
      BY <1>3, <2>2 DEF WipePosted
    <3> HIDE DEF P, S, reset, wiped
    <3>3. /\ SyncLines(reset, ratio, S)[k] = reset[k]
          /\ SyncPosted(wiped, reset, ratio, S)[k][p] = wiped[k][p]
      BY <1>3, <3>1, SyncLeavesSynced
    <3> QED
      BY <1>4, <2>2, <3>1, <3>2, <3>3
  <2>3. CASE P # {} /\ k \in S /\ p \in P
    <3>1. reset[k] = [line[k] EXCEPT !.synced = FALSE]
      <4>1. diffed[k] # None
        BY <1>2, <1>3, SentinelsAreNew
      <4> QED
        BY <1>2, <1>3, <2>3, <4>1 DEF Reset
    <3>2. wiped[k][p] = NoRows
      BY <1>3, <2>3 DEF WipePosted
    <3>3. /\ reset[k] \in Line /\ ~reset[k].synced /\ reset[k].product = p
          /\ reset[k].unit = corr[k].corrected /\ reset[k].qty = line[k].qty
          /\ [reset[k] EXCEPT !.synced = TRUE] = line[k]
      BY <1>3, <3>1 DEF Line
    <3>4. RatioOf(ratio, p, corr[k].corrected) # 0 /\ line[k].qty > 0
      BY <1>1 DEF Secure
    <3> HIDE DEF P, S, diffed, reset, wiped
    <3>5. Posts(reset, ratio, S, k)
      BY <1>3, <2>3, <3>3, <3>4, SentinelsAreNew DEF Posts
    <3>6. line'[k] = line[k]
      BY <1>4, <2>3, <3>3, <3>5 DEF SyncLines
    <3>7. posted'[k][p].q =
             0 + Effect(ratio, k, p, corr[k].corrected, line[k].qty)
      BY <1>3, <1>4, <2>3, <3>2, <3>3, <3>4, <3>5 DEF SyncPosted, NoRows
    <3>8. posted[k][p].q = Effect(ratio, k, p, corr[k].corrected, line[k].qty)
          /\ posted[k][p].q \in Int
      BY <1>1, <1>3 DEF Secure, TypeOK
    <3> QED
      BY <3>6, <3>7, <3>8
  <2> QED
    BY <2>1, <2>2, <2>3
<1> QED
  BY <1>1, <1>4, <1>5 DEF Undisturbed

LEMMA WritePendingSecures ==
    ASSUME TypeOK, LedgerMatchesLines, NEW w \in Workers, WritePending(w),
           FreshRead(reading[w]), NEW k \in Lines, corr[k] # None, Secure(k)
    PROVE  Undisturbed(k)
<1> DEFINE rd == reading[w]
           p == corr[k].product
<1>1. line[k] \in Line /\ line[k].synced /\ line[k].product = p /\ p \in Products
      /\ line[k].product # None
  BY SecureLine
<1>2. LinkedLines(rd)[k] = line[k]
  <2>1. k \notin ToLink(rd)
    BY <1>1 DEF ToLink, Unlinked, FreshRead
  <2> QED
    BY <2>1 DEF LinkedLines
<1>3. ~Posts(SyncedFrom(rd), ratio, Synced(rd), k)
  <2>1. CASE Stale(rd, k)
    <3>1. rd.rows[k] = None
      BY <1>1, <2>1 DEF Stale, FreshRead, TableLines
    <3> QED
      BY <2>1, <3>1 DEF SyncedFrom, Posts
  <2>2. CASE ~Stale(rd, k)
    BY <1>1, <1>2, <2>2 DEF SyncedFrom, Posts
  <2> QED
    BY <2>1, <2>2
<1>4. line'[k] = line[k]
  BY <1>2, <1>3 DEF WritePending
<1>5. posted'[k][p] = posted[k][p]
  BY <1>1, <1>3 DEF WritePending, SyncPosted
<1> QED
  BY <1>4, <1>5 DEF WritePending, Undisturbed

LEMMA WriteRatioSecures ==
    ASSUME TypeOK, LedgerMatchesLines, ChecksHold, NEW w \in Workers, WriteRatio(w),
           NEW k \in Lines, corr[k] # None, Secure(k)
    PROVE  Undisturbed(k)
<1> DEFINE c == checked[w]
           p == corr[k].product
<1>1. /\ line[k].synced /\ p \in Products
  BY SecureLine
<1>2. /\ c # None /\ c.product \in Products /\ c.unit \in Units
  BY DEF WriteRatio, TypeOK, RatioWrite
<1>3. p # c.product \/ ratio[c.product][c.unit] \in {0, c.ratio}
  BY <1>2 DEF ChecksHold, BlockedProducts, Active
<1>4. ratio' = SetRatio(c.product, c.unit, c.ratio)
  BY DEF WriteRatio
<1>5. \A u \in Units : RatioOf(ratio, p, u) # 0 =>
         RatioOf(ratio', p, u) = RatioOf(ratio, p, u)
  BY <1>1, <1>2, <1>3, <1>4, RatioElsewhere
<1>6. PICK rat : /\ line' = line \/ line' = SyncLines(line, rat, Lines)
                 /\ posted' = posted \/ posted' = SyncPosted(posted, line, rat, Lines)
  BY DEF WriteRatio
<1>7. line'[k] = line[k] /\ posted'[k][p] = posted[k][p]
  <2>1. /\ SyncLines(line, rat, Lines)[k] = line[k]
        /\ SyncPosted(posted, line, rat, Lines)[k][p] = posted[k][p]
    BY <1>1, SyncLeavesSynced
  <2> QED
    BY <1>6, <2>1
<1> QED
  BY <1>5, <1>7 DEF Undisturbed, WriteRatio

LEMMA RebuildsSecure ==
    ASSUME TypeOK, LedgerMatchesLines, NEW k \in Lines, corr[k] # None, Secure(k)
    PROVE  /\ \A p \in Products, u \in Units, r \in Ratios :
                 UpdateRatio(p, u, r) => Undisturbed(k)
           /\ \A c \in Codes, s \in Scopes, p \in Products, preserve \in BOOLEAN :
                 Repoint(c, s, p, preserve) => Undisturbed(k)
<1> DEFINE q == corr[k].product
<1>1. line[k].synced /\ q \in Products /\ line[k].product = q
  BY SecureLine
<1>2. ASSUME NEW p \in Products, NEW u \in Units, NEW r \in Ratios, UpdateRatio(p, u, r)
      PROVE  Undisturbed(k)
  <2>1. q \notin {p}
    BY <1>2 DEF UpdateRatio, BlockedProducts, Active
  <2>2. PICK rat : /\ rat = ratio \/ rat = SetRatio(p, u, r)
                   /\ ratio' = rat
                   /\ line' = Rebuilt(line, rat, {p})
                   /\ posted' = RebuiltPosted(line, rat, {p})
    BY <1>2 DEF UpdateRatio
  <2>3. \A v \in Units : RatioOf(ratio, q, v) # 0 =>
           RatioOf(ratio', q, v) = RatioOf(ratio, q, v)
    BY <1>1, <2>1, <2>2, RatioElsewhere
  <2>4. line'[k] = line[k] /\ posted'[k][q] = posted[k][q]
    BY <1>1, <2>1, <2>2, RebuiltElsewhere
  <2> QED
    BY <1>2, <2>3, <2>4 DEF UpdateRatio, Undisturbed
<1>3. ASSUME NEW c \in Codes, NEW s \in Scopes, NEW p \in Products,
             NEW preserve \in BOOLEAN, Repoint(c, s, p, preserve)
      PROVE  Undisturbed(k)
  <2> DEFINE P == RepointProducts(c, s, p)
             moved == Moved(c, s, p)
  <2>1. q \notin P /\ Code[k] # c
    BY <1>3 DEF Repoint, BlockedProducts, BlockedCode, Active
  <2>2. moved[k] = line[k]
    BY <2>1 DEF Moved, CodeLines
  <2>3. line' = Rebuilt(moved, ratio, P) /\ posted' = RebuiltPosted(moved, ratio, P)
    BY <1>3 DEF Repoint
  <2> HIDE DEF P, moved
  <2>4. line'[k] = line[k] /\ posted'[k][q] = posted[k][q]
    BY <1>1, <2>1, <2>2, <2>3, RebuiltElsewhere
  <2> QED
    BY <1>3, <2>4 DEF Repoint, Undisturbed
<1> QED
  BY <1>2, <1>3

\* The deletions leave the line of an active correction alone.
LEMMA DeletionsSecure ==
    ASSUME TypeOK, LedgerMatchesLines, NEW k \in Lines, corr[k] # None, Secure(k)
    PROVE  /\ \A p \in Products, u \in Units : Dismiss(p, u) => Undisturbed(k)
           /\ \A d : ApplyReconcileFlag(d) => Undisturbed(k)
<1>1. line[k].synced
  BY SecureLine
<1>2. ASSUME NEW p \in Products, NEW u \in Units, Dismiss(p, u)
      PROVE  Undisturbed(k)
  <2>1. line'[k] = line[k]
    BY <1>1, <1>2 DEF Dismiss, Waiting
  <2> QED
    BY <1>2, <2>1 DEF Dismiss, Undisturbed
<1>3. ASSUME NEW d, ApplyReconcileFlag(d) PROVE Undisturbed(k)
  <2>1. k \notin DocumentLines(d)
    BY <1>3 DEF ApplyReconcileFlag, BlockedDocument, Active, DocumentLines
  <2>2. line'[k] = line[k]
    BY <1>3, <2>1 DEF ApplyReconcileFlag
  <2>3. \A p \in Products : posted'[k][p] = posted[k][p]
    BY <1>3, <2>1 DEF ApplyReconcileFlag, WipePosted
  <2>4. corr[k].product \in Products
    BY CorrectionType
  <2> QED
    BY <1>3, <2>2, <2>3, <2>4 DEF ApplyReconcileFlag, Undisturbed
<1> QED
  BY <1>2, <1>3

\* A new correction is secure from its first moment.
LEMMA ApplySecures ==
    ASSUME TypeOK, LedgerMatchesLines, NEW k \in Lines, NEW u \in Units,
           NEW mode \in {"hold", "move"}, Apply(k, u, mode)
    PROVE  Secure(k)'
<1> DEFINE p == line[k].product
           new == Effect(ratio, k, p, u, line[k].qty)
           off == Offset(k, p, new, mode)
<1>1. /\ Side[k] = "sales" /\ line[k] # None /\ p # None /\ line[k].synced
      /\ RatioOf(ratio, p, u) # 0 /\ RatioOf(ratio, p, line[k].unit) # 0
      /\ posted[k][p].n = 1
      /\ posted[k][p].q = Effect(ratio, k, p, line[k].unit, line[k].qty)
  BY DEF Apply, CanCorrect, OneLedgerRow
<1>2. line[k] \in Line /\ p \in Products
  BY <1>1 DEF TypeOK, Line
<1>3. line[k].qty > 0
  BY <1>1, <1>2 DEF LedgerMatchesLines, Matches
<1>4. /\ line' = [line EXCEPT ![k].unit = u]
      /\ posted' = [posted EXCEPT ![k][p].q = new]
      /\ corr' = [corr EXCEPT ![k] =
                    [product |-> p, express |-> line[k].unit, corrected |-> u,
                     qty |-> line[k].qty, money |-> line[k].money,
                     mode |-> mode, offset |-> off]]
      /\ ratio' = ratio
  BY DEF Apply
<1>5. /\ corr'[k] = [product |-> p, express |-> line[k].unit, corrected |-> u,
                     qty |-> line[k].qty, money |-> line[k].money,
                     mode |-> mode, offset |-> off]
      /\ line'[k] = [line[k] EXCEPT !.unit = u]
      /\ posted'[k][p].q = new
  BY <1>2, <1>4 DEF TypeOK
<1>6. /\ line'[k] \in Line /\ line'[k] # None /\ line'[k].synced
      /\ line'[k].unit = u /\ line'[k].product = p /\ line'[k].qty = line[k].qty
      /\ line'[k].money = line[k].money
  <2>1. line'[k] \in Line
    BY <1>2, <1>5 DEF Line
  <2> QED
    BY <1>1, <1>2, <1>5, <2>1, SentinelsAreNew DEF Line
<1>7. mode = "hold" => off = Effect(ratio, k, p, line[k].unit, line[k].qty) - new
  BY <1>1 DEF Offset
<1> HIDE DEF p, new, off
<1>8. /\ corr'[k].product = p /\ corr'[k].express = line[k].unit
      /\ corr'[k].corrected = u /\ corr'[k].mode = mode /\ corr'[k].offset = off
      /\ corr'[k].qty = line[k].qty /\ corr'[k].money = line[k].money
  BY <1>5
<1>9. StillCorrected(k)'
  BY <1>6, <1>8 DEF StillCorrected
<1>10. new = Effect(ratio', k, p, u, line'[k].qty)
  BY <1>4, <1>6 DEF new
<1>11. Restored(k)' = Effect(ratio, k, p, line[k].unit, line[k].qty)
  BY <1>4, <1>6, <1>8 DEF Restored
<1> QED
  BY <1>1, <1>3, <1>4, <1>5, <1>6, <1>7, <1>8, <1>9, <1>10, <1>11 DEF Secure

\* Applying or cancelling a correction disturbs no other one.
LEMMA OtherCorrections ==
    ASSUME TypeOK, NEW k \in Lines, corr[k] # None, NEW j \in Lines, j # k
    PROVE  /\ \A u \in Units, mode \in {"hold", "move"} : Apply(j, u, mode) => Undisturbed(k)
           /\ Cancel(j) => Undisturbed(k)
<1>1. ASSUME NEW u \in Units, NEW mode \in {"hold", "move"}, Apply(j, u, mode)
      PROVE  Undisturbed(k)
  <2>1. line'[k] = line[k] /\ posted'[k] = posted[k] /\ corr'[k] = corr[k] /\ ratio' = ratio
    BY <1>1 DEF Apply, TypeOK
  <2> QED
    BY <2>1 DEF Undisturbed
<1>2. ASSUME Cancel(j) PROVE Undisturbed(k)
  <2>1. line'[k] = line[k] /\ posted'[k] = posted[k] /\ corr'[k] = corr[k] /\ ratio' = ratio
    BY <1>2 DEF Cancel, TypeOK
  <2> QED
    BY <2>1 DEF Undisturbed
<1> QED
  BY <1>1, <1>2

\* The operations that touch no correction, bill line or ledger row.
LEMMA BystandersSecure ==
    ASSUME TypeOK, NEW k \in Lines, corr[k] # None
    PROVE  /\ \A c \in Codes, v \in Products \cup {Ignored} :
                 SetMapping(c, v) => Undisturbed(k)
           /\ \A w \in Workers, side \in Tables : ReadUnsynced(w, side) => Undisturbed(k)
           /\ \A w \in Workers, side \in Tables, j \in Lines :
                 ReadUnlinked(w, side, j) => Undisturbed(k)
           /\ \A w \in Workers, p \in Products, u \in Units, r \in Ratios,
                 resync \in BOOLEAN : CheckRatio(w, p, u, r, resync) => Undisturbed(k)
           /\ \A p \in Products, u \in Units, r \in Ratios :
                 AddCatalogueRatio(p, u, r) => Undisturbed(k)
           /\ \A p \in Products, level \in Levels : SetStock(p, level) => Undisturbed(k)
           /\ UNCHANGED vars => Undisturbed(k)
<1>1. ASSUME UNCHANGED <<line, posted, corr, ratio>> PROVE Undisturbed(k)
  BY <1>1 DEF Undisturbed
<1>2. ASSUME NEW p \in Products, NEW u \in Units, NEW r \in Ratios,
             AddCatalogueRatio(p, u, r)
      PROVE  Undisturbed(k)
  <2>1. /\ ratio[p][u] = 0 /\ ratio' = SetRatio(p, u, r)
        /\ UNCHANGED <<line, posted, corr>>
    BY <1>2 DEF AddCatalogueRatio
  <2>2. \A v \in Units : RatioOf(ratio, corr[k].product, v) # 0 =>
           RatioOf(ratio', corr[k].product, v) = RatioOf(ratio, corr[k].product, v)
    BY <2>1, CorrectionType, RatioElsewhere
  <2> QED
    BY <2>1, <2>2 DEF Undisturbed
<1> QED
  BY <1>1, <1>2 DEF SetMapping, ReadUnsynced, ReadUnlinked, CheckRatio, SetStock, vars

-----------------------------------------------------------------------------
(* The inductive invariant.                                                  *)

\* Nothing but a check and the write after it changes what is checked.
LEMMA OnlyChecks ==
    ASSUME [Next]_vars, checked' # checked
    PROVE  \E w \in Workers :
              \/ WriteRatio(w)
              \/ \E p \in Products, u \in Units, r \in Ratios, resync \in BOOLEAN :
                    CheckRatio(w, p, u, r, resync)
<1>1. /\ \A c \in Codes, v \in Products \cup {Ignored} : ~SetMapping(c, v)
      /\ \A side \in Tables, removals \in BOOLEAN :
            \A f \in Files(side) : ~Import(side, f, removals)
      /\ \A p \in Products, u \in Units, r \in Ratios :
            ~AddCatalogueRatio(p, u, r) /\ ~UpdateRatio(p, u, r)
      /\ \A p \in Products, u \in Units : ~DropRatio(p, u) /\ ~Dismiss(p, u)
  BY DEF SetMapping, Import, AddCatalogueRatio, UpdateRatio, DropRatio, Dismiss
<1>2. /\ \A c \in Codes, s \in Scopes, p \in Products, preserve \in BOOLEAN :
            ~Repoint(c, s, p, preserve)
      /\ \A p \in Products, level \in Levels : ~SetStock(p, level)
      /\ \A k \in Lines, u \in Units, mode \in {"hold", "move"} : ~Apply(k, u, mode)
      /\ \A k \in Lines : ~Cancel(k)
      /\ \A d : ~ApplyReconcileFlag(d)
  BY DEF Repoint, SetStock, Apply, Cancel, ApplyReconcileFlag
<1>3. /\ \A w \in Workers, side \in Tables :
            ~ReadUnsynced(w, side) /\ \A k \in Lines : ~ReadUnlinked(w, side, k)
      /\ \A w \in Workers : ~WritePending(w)
      /\ ~UNCHANGED vars
  BY DEF ReadUnsynced, ReadUnlinked, WritePending, vars
<1> QED
  BY <1>1, <1>2, <1>3 DEF Next

\* Between its check and its write the only process does nothing else.
LEMMA ChecksStay ==
    ASSUME NEW w0, Workers = {w0}, ScriptDrops = {}, TypeOK, ReadsFresh, ChecksHold,
           [Next]_vars
    PROVE  ChecksHold'
<1>1. CASE checked'[w0] = None
  BY <1>1 DEF ChecksHold
<1>2. CASE checked'[w0] # None /\ checked[w0] # None
  <2>1. ~Idle /\ \A w \in Workers : ~Free(w) /\ ~WritePending(w) /\ ~WriteRatio(w)
    <3>1. ~WriteRatio(w0)
      BY <1>2 DEF WriteRatio, TypeOK
    <3>2. ~WritePending(w0)
      BY <1>2 DEF WritePending, ReadsFresh
    <3> QED
      BY <1>2, <3>1, <3>2 DEF Idle, Free
  <2>2. \A p \in Products, u \in Units : ~DropRatio(p, u)
    BY DEF DropRatio
  <2>3. /\ \A w \in Workers, side \in Tables :
              ~ReadUnsynced(w, side) /\ \A k \in Lines : ~ReadUnlinked(w, side, k)
        /\ \A w \in Workers, p \in Products, u \in Units, r \in Ratios, resync \in BOOLEAN :
              ~CheckRatio(w, p, u, r, resync)
    BY <2>1 DEF Resolving, ReadUnlinked, ReadUnsynced, CheckRatio
  <2>4. /\ \A c \in Codes, v \in Products \cup {Ignored} : ~SetMapping(c, v)
        /\ \A side \in Tables, removals \in BOOLEAN :
              \A f \in Files(side) : ~Import(side, f, removals)
        /\ \A p \in Products, u \in Units, r \in Ratios :
              ~AddCatalogueRatio(p, u, r) /\ ~UpdateRatio(p, u, r)
        /\ \A p \in Products, u \in Units : ~Dismiss(p, u)
        /\ \A c \in Codes, s \in Scopes, p \in Products, preserve \in BOOLEAN :
              ~Repoint(c, s, p, preserve)
    BY <2>1 DEF SetMapping, Import, AddCatalogueRatio, UpdateRatio, Dismiss, Repoint
  <2>5. /\ \A p \in Products, level \in Levels : ~SetStock(p, level)
        /\ \A k \in Lines, u \in Units, mode \in {"hold", "move"} : ~Apply(k, u, mode)
        /\ \A k \in Lines : ~Cancel(k)
        /\ \A d : ~ApplyReconcileFlag(d)
    BY <2>1 DEF SetStock, Apply, Cancel, ApplyReconcileFlag
  <2>6. UNCHANGED vars
    BY <2>1, <2>2, <2>3, <2>4, <2>5 DEF Next
  <2> QED
    BY <2>6 DEF vars, ChecksHold, BlockedProducts, Active
<1>3. CASE checked'[w0] # None /\ checked[w0] = None
  <2>1. checked' # checked
    BY <1>3
  <2>2. \A w \in Workers : ~WriteRatio(w)
    BY <1>3 DEF WriteRatio
  <2>3. \E p \in Products, u \in Units, r \in Ratios, resync \in BOOLEAN :
           CheckRatio(w0, p, u, r, resync)
    BY <2>1, <2>2, OnlyChecks
  <2>4. PICK p \in Products, u \in Units, r \in Ratios, resync \in BOOLEAN :
           CheckRatio(w0, p, u, r, resync)
    BY <2>3
  <2>5. checked'[w0] = [product |-> p, unit |-> u, ratio |-> r, resync |-> resync]
    BY <2>4 DEF CheckRatio, TypeOK
  <2>6. ratio'[p][u] \in {0, r} \/ ~BlockedProducts({p})'
    BY <2>4 DEF CheckRatio, BlockedProducts, Active
  <2> QED
    BY <2>5, <2>6 DEF ChecksHold
<1> QED
  BY <1>1, <1>2, <1>3

\* Only applying, cancelling and importing start, end or change a correction.
LEMMA CorrectionSteps ==
    ASSUME [Next]_vars, corr' # corr
    PROVE  \/ \E j \in Lines, u \in Units, mode \in {"hold", "move"} : Apply(j, u, mode)
           \/ \E j \in Lines : Cancel(j)
           \/ \E side \in Tables, removals \in BOOLEAN :
                 \E f \in Files(side) : Import(side, f, removals)
<1>1. \A c, v : ~SetMapping(c, v)
  BY DEF SetMapping
<1>2. \A w, side : ~ReadUnsynced(w, side) /\ \A k : ~ReadUnlinked(w, side, k)
  BY DEF ReadUnlinked, ReadUnsynced
<1>3. \A w : ~WritePending(w) /\ ~WriteRatio(w)
  BY DEF WritePending, WriteRatio
<1>4. \A w, p, u, r, resync : ~CheckRatio(w, p, u, r, resync)
  BY DEF CheckRatio
<1>5. \A p, u, r : ~AddCatalogueRatio(p, u, r) /\ ~UpdateRatio(p, u, r)
  BY DEF AddCatalogueRatio, UpdateRatio
<1>6. \A p, u : ~DropRatio(p, u) /\ ~Dismiss(p, u)
  BY DEF DropRatio, Dismiss
<1>7. \A c, s, p, preserve : ~Repoint(c, s, p, preserve)
  BY DEF Repoint
<1>8. \A p, level : ~SetStock(p, level)
  BY DEF SetStock
<1>9. \A d : ~ApplyReconcileFlag(d)
  BY DEF ApplyReconcileFlag
<1>10. Next
  BY DEF vars
<1> QED
  BY <1>1, <1>2, <1>3, <1>4, <1>5, <1>6, <1>7, <1>8, <1>9, <1>10 DEF Next

LEMMA SecureStays ==
    ASSUME NEW w0, Workers = {w0}, ScriptDrops = {}, TypeOK, LedgerMatchesLines,
           ReadsFresh, ChecksHold, AllSecure, [Next]_vars
    PROVE  AllSecure'
<1> SUFFICES ASSUME NEW k \in Lines, corr'[k] # None
             PROVE  (Secure(k) /\ Undisturbed(k)) \/ Secure(k)'
  BY UndisturbedStaysSecure DEF AllSecure, Active
<1>1. corr[k] # None => Secure(k)
  BY DEF AllSecure, Active
<1>2. ASSUME NEW u \in Units, NEW mode \in {"hold", "move"}, Apply(k, u, mode)
      PROVE  Secure(k)'
  BY <1>2, ApplySecures
<1>3. ~Cancel(k)
  BY DEF Cancel, TypeOK
<1>4. ASSUME NEW side \in Tables, NEW f \in Files(side), NEW removals \in BOOLEAN,
             Import(side, f, removals)
      PROVE  Secure(k) /\ Undisturbed(k)
  <2>1. Undisturbed(k)
    BY <1>1, <1>4, ImportSecures
  <2> QED
    BY <1>1, <2>1 DEF Undisturbed
<1>5. CASE corr[k] = None
  <2>1. corr' # corr
    BY <1>5
  <2>2. \A j \in Lines : ~Cancel(j)
    BY <1>5 DEF Cancel, TypeOK
  <2>3. \A j \in Lines, u \in Units, mode \in {"hold", "move"} :
           j # k => ~Apply(j, u, mode)
    BY <1>5 DEF Apply, TypeOK
  <2>4. \/ \E u \in Units, mode \in {"hold", "move"} : Apply(k, u, mode)
        \/ \E side \in Tables, removals \in BOOLEAN :
              \E f \in Files(side) : Import(side, f, removals)
    BY <2>1, <2>2, <2>3, CorrectionSteps
  <2> QED
    BY <1>2, <1>4, <2>4
<1>6. CASE corr[k] # None
  <2>1. Secure(k)
    BY <1>1, <1>6
  <2>2. ASSUME NEW w \in Workers, WritePending(w) PROVE Undisturbed(k)
    <3>1. FreshRead(reading[w])
      BY <2>2 DEF WritePending, ReadsFresh
    <3> QED
      BY <1>6, <2>1, <2>2, <3>1, WritePendingSecures
  <2>3. ASSUME NEW w \in Workers, WriteRatio(w) PROVE Undisturbed(k)
    BY <1>6, <2>1, <2>3, WriteRatioSecures
  <2>4. \A p \in Products, u \in Units : ~DropRatio(p, u)
    BY DEF DropRatio
  <2>5. ASSUME NEW j \in Lines, NEW u \in Units, NEW mode \in {"hold", "move"},
               Apply(j, u, mode)
        PROVE  Undisturbed(k) \/ Secure(k)'
    BY <1>2, <1>6, <2>5, OtherCorrections
  <2>6. ASSUME NEW j \in Lines, Cancel(j) PROVE Undisturbed(k)
    BY <1>3, <1>6, <2>6, OtherCorrections
  <2>7. ASSUME NEW p \in Products, NEW u \in Units, NEW r \in Ratios, UpdateRatio(p, u, r)
        PROVE  Undisturbed(k)
    BY <1>6, <2>1, <2>7, RebuildsSecure
  <2>8. ASSUME NEW c \in Codes, NEW s \in Scopes, NEW p \in Products,
               NEW preserve \in BOOLEAN, Repoint(c, s, p, preserve)
        PROVE  Undisturbed(k)
    BY <1>6, <2>1, <2>8, RebuildsSecure
  <2>9. /\ \A p \in Products, u \in Units : Dismiss(p, u) => Undisturbed(k)
        /\ \A d : ApplyReconcileFlag(d) => Undisturbed(k)
    BY <1>6, <2>1, DeletionsSecure
  <2>10. /\ \A c \in Codes, v \in Products \cup {Ignored} :
               SetMapping(c, v) => Undisturbed(k)
         /\ \A w \in Workers, side \in Tables : ReadUnsynced(w, side) => Undisturbed(k)
         /\ \A w \in Workers, side \in Tables, j \in Lines :
               ReadUnlinked(w, side, j) => Undisturbed(k)
         /\ \A w \in Workers, p \in Products, u \in Units, r \in Ratios,
               resync \in BOOLEAN : CheckRatio(w, p, u, r, resync) => Undisturbed(k)
         /\ \A p \in Products, u \in Units, r \in Ratios :
               AddCatalogueRatio(p, u, r) => Undisturbed(k)
         /\ \A p \in Products, level \in Levels : SetStock(p, level) => Undisturbed(k)
         /\ UNCHANGED vars => Undisturbed(k)
    BY <1>6, BystandersSecure
  <2>11. Undisturbed(k) \/ Secure(k)'
    BY <1>4, <2>2, <2>3, <2>4, <2>5, <2>6, <2>7, <2>8, <2>9, <2>10 DEF Next
  <2> QED
    BY <2>1, <2>11
<1> QED
  BY <1>5, <1>6

\* The documents' numbers tell the sales lines apart.
UniqueNumbers ==
    \A j, k \in TableLines("sales") : DocNo[j] = DocNo[k] => j = k

LEMMA SecureCanCancel ==
    ASSUME UniqueNumbers, TypeOK, LedgerMatchesLines, AllSecure
    PROVE  CancelAlwaysPossible
<1> SUFFICES ASSUME NEW k \in Active
             PROVE  line[k] # None /\ line[k].synced /\ CanCancel(k)
  BY DEF CancelAlwaysPossible
<1>1. k \in Lines /\ corr[k] # None /\ Secure(k)
  BY DEF Active, AllSecure
<1> DEFINE p == corr[k].product
<1>2. /\ line[k] \in Line /\ line[k].synced /\ line[k].qty \in Qtys
      /\ line[k].product = p /\ p \in Products
  BY <1>1, SecureLine
<1>3. line[k] # None /\ StillCorrected(k) /\ line[k].qty > 0
      /\ RatioOf(ratio, p, corr[k].express) # 0 /\ Side[k] = "sales"
  BY <1>1 DEF Secure
<1>4. Restored(k) # 0
  BY <1>1, <1>2, <1>3, EffectMoves, CorrectionType DEF Restored
<1>5. OneLedgerRow(k, p)
  <2>1. posted[k][p].n = 1
    BY <1>1, <1>2, <1>3 DEF LedgerMatchesLines, Matches
  <2>2. \A j \in TableLines("sales") \ {k} : DocNo[j] # DocNo[k]
    BY <1>1, <1>3 DEF UniqueNumbers, TableLines
  <2> QED
    BY <2>1, <2>2 DEF OneLedgerRow
<1>6. corr[k].mode = "hold" => Restored(k) - posted[k][p].q = corr[k].offset
  BY <1>1 DEF Secure
<1> QED
  BY <1>1, <1>2, <1>3, <1>4, <1>5, <1>6 DEF CanCancel

CInv == TypeOK /\ LedgerMatchesLines /\ ReadsFresh /\ ChecksHold /\ AllSecure

\* The inductive invariant of the corrections.
LEMMA CorrectionsStaySecure ==
    ASSUME NEW w0, Workers = {w0}, ScriptDrops = {}
    PROVE  Spec => []CInv
<1>1. Init => CInv
  <2> SUFFICES ASSUME Init PROVE CInv
    OBVIOUS
  <2>1. TypeOK /\ LedgerMatchesLines
    BY InitHolds
  <2>2. ReadsFresh /\ ChecksHold
    BY DEF Init, ReadsFresh, ChecksHold
  <2>3. AllSecure
    BY DEF Init, AllSecure, Active
  <2> QED
    BY <2>1, <2>2, <2>3 DEF CInv
<1>2. CInv /\ [Next]_vars => CInv'
  <2> SUFFICES ASSUME CInv, [Next]_vars PROVE CInv'
    OBVIOUS
  <2>1. IInv'
    BY SingleProcessStep DEF CInv, IInv
  <2>2. ChecksHold' /\ AllSecure'
    BY ChecksStay, SecureStays DEF CInv
  <2> QED
    BY <2>1, <2>2 DEF CInv, IInv
<1> QED
  BY <1>1, <1>2, PTL DEF Spec

\* With one process, no script that deletes ratios and no document number on
\* two sales lines, the operator can always take an active correction back,
\* whatever imports, re-points, rebuilds and deletions came in between.
THEOREM CancelStaysPossible ==
    ASSUME NEW w0, Workers = {w0}, ScriptDrops = {}, UniqueNumbers
    PROVE  Spec => []CancelAlwaysPossible
<1>1. CInv => CancelAlwaysPossible
  BY SecureCanCancel DEF CInv
<1> QED
  BY <1>1, CorrectionsStaySecure, PTL
=============================================================================
