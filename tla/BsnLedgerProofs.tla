--------------------------- MODULE BsnLedgerProofs ---------------------------
(***************************************************************************)
(* Theorems about BsnLedger for every set of lines, products, units,       *)
(* ratios, processes and scripts.                                          *)
(*                                                                         *)
(* TypeOK is inductive.  LedgerMatchesLines is kept by every operation but *)
(* WritePending, and by that one when nothing changed since its read.  The *)
(* argument has two halves, one per lemma: a sync keeps Matches, and a     *)
(* wipe of the products P over the lines of S keeps it too, provided every *)
(* line that the writer changed was unposted or stood on a product of P.   *)
(* With one process nothing can change between the read and the write, so  *)
(* LedgerMatchesLines is then an invariant.                                *)
(***************************************************************************)
EXTENDS BsnLedger, FiniteSetTheorems, TLAPS

LineMap == [Lines -> Line \cup {None}]
PostedMap == [Lines -> [Products -> [n : Nat, q : Int]]]
RatioMap == [Products -> [Units -> Ratios \cup {0}]]

\* The quantity _sync_bsn_to_stock posts is a number.
LEMMA EffectType ==
    ASSUME NEW rat \in RatioMap, NEW k \in Lines, NEW p \in Products,
           NEW u \in Units, NEW qty \in Qtys
    PROVE  Effect(rat, k, p, u, qty) \in Int
<1>1. RatioOf(rat, p, u) \in Nat
  <2>1. rat[p][u] \in Ratios \cup {0}
    BY DEF RatioMap
  <2>2. Ratios \cup {0} \subseteq Nat
    BY ConstantTypes
  <2>3. CASE u = Base[p]
    BY <2>3 DEF RatioOf
  <2>4. CASE u # Base[p]
    BY <2>1, <2>2, <2>4 DEF RatioOf
  <2> QED
    BY <2>3, <2>4
<1>2. Sign(k) \in Int
  BY DEF Sign
<1>3. qty \in Nat
  BY ConstantTypes
<1>4. qty * RatioOf(rat, p, u) \in Int
  BY <1>1, <1>3
<1> QED
  BY <1>2, <1>4 DEF Effect

\* A sync of any set of lines keeps lines and ledger rows typed and together.
LEMMA SyncKeeps ==
    ASSUME NEW ln \in LineMap, NEW post \in PostedMap, NEW rat \in RatioMap,
           NEW S
    PROVE  /\ SyncLines(ln, rat, S) \in LineMap
           /\ SyncPosted(post, ln, rat, S) \in PostedMap
           /\ Matches(ln, post) =>
                 Matches(SyncLines(ln, rat, S), SyncPosted(post, ln, rat, S))
<1> DEFINE ln2 == SyncLines(ln, rat, S)
           post2 == SyncPosted(post, ln, rat, S)
<1>1. ASSUME NEW k \in Lines, Posts(ln, rat, S, k)
      PROVE  /\ ln[k] \in Line /\ ln[k].product \in Products /\ ~ln[k].synced
             /\ ln[k].unit \in Units /\ ln[k].qty \in Qtys
             /\ Code[k] \notin NonStock
             /\ ln2[k] = [ln[k] EXCEPT !.synced = TRUE]
  BY <1>1 DEF Posts, LineMap, Line, SyncLines
<1>2. ASSUME NEW k \in Lines, ~Posts(ln, rat, S, k)
      PROVE  ln2[k] = ln[k] /\ post2[k] = post[k]
  BY <1>2 DEF SyncLines, SyncPosted, PostedMap
<1>3. ln2 \in LineMap
  <2>1. ASSUME NEW k \in Lines PROVE ln2[k] \in Line \cup {None}
    BY <1>1, <1>2 DEF Line, LineMap
  <2> QED
    BY <2>1 DEF LineMap, SyncLines
<1>4. post2 \in PostedMap
  <2>1. ASSUME NEW k \in Lines, NEW p \in Products
        PROVE  post2[k][p] \in [n : Nat, q : Int]
    <3>1. CASE Posts(ln, rat, S, k) /\ ln[k].product = p /\ ln[k].qty > 0
      <4>1. Effect(rat, k, p, ln[k].unit, ln[k].qty) \in Int
        BY <1>1, <3>1, EffectType
      <4>2. post[k][p].n \in Nat /\ post[k][p].q \in Int
        BY DEF PostedMap
      <4> QED
        BY <3>1, <4>1, <4>2 DEF SyncPosted
    <3>2. CASE ~(Posts(ln, rat, S, k) /\ ln[k].product = p /\ ln[k].qty > 0)
      BY <3>2 DEF SyncPosted, PostedMap
    <3> QED
      BY <3>1, <3>2
  <2> QED
    BY <2>1 DEF PostedMap, SyncPosted
<1>5. ASSUME Matches(ln, post) PROVE Matches(ln2, post2)
  <2> SUFFICES ASSUME NEW k \in Lines
               PROVE  /\ ln2[k] # None /\ ln2[k].synced =>
                            ln2[k].product # None /\ Code[k] \notin NonStock
                      /\ \A p \in Products :
                            /\ post2[k][p].n =
                                  IF /\ ln2[k] # None /\ ln2[k].synced
                                     /\ ln2[k].product = p /\ ln2[k].qty > 0
                                  THEN 1 ELSE 0
                            /\ post2[k][p].n = 0 => post2[k][p].q = 0
    BY DEF Matches
  <2>1. CASE ~Posts(ln, rat, S, k)
    BY <1>2, <1>5, <2>1 DEF Matches
  <2>2. CASE Posts(ln, rat, S, k)
    <3>1. /\ ln2[k] # None /\ ln2[k].synced
          /\ ln2[k].product = ln[k].product /\ ln2[k].qty = ln[k].qty
          /\ ln2[k].product # None
      <4>1. ln2[k] = [ln[k] EXCEPT !.synced = TRUE] /\ ln[k] \in Line
        BY <1>1, <2>2
      <4>2. ln2[k] \in Line
        BY <4>1 DEF Line
      <4>3. ln[k].product \in Products
        BY <1>1, <2>2
      <4> QED
        BY <4>1, <4>2, <4>3, SentinelsAreNew DEF Line
    <3>2. ASSUME NEW p \in Products
          PROVE  /\ post2[k][p].n =
                       IF /\ ln2[k] # None /\ ln2[k].synced
                          /\ ln2[k].product = p /\ ln2[k].qty > 0
                       THEN 1 ELSE 0
                 /\ post2[k][p].n = 0 => post2[k][p].q = 0
      <4>1. post[k][p].n = 0 /\ post[k][p].q = 0
        BY <1>1, <1>5, <2>2 DEF Matches
      <4>2. CASE ln[k].product = p /\ ln[k].qty > 0
        BY <2>2, <3>1, <4>1, <4>2 DEF SyncPosted
      <4>3. CASE ~(ln[k].product = p /\ ln[k].qty > 0)
        <5>1. post2[k][p] = post[k][p]
          BY <4>3 DEF SyncPosted
        <5> QED
          BY <3>1, <4>1, <4>3, <5>1
      <4> QED
        BY <4>2, <4>3
    <3>3. Code[k] \notin NonStock
      BY <1>1, <2>2
    <3> QED
      BY <3>1, <3>2, <3>3
  <2> QED
    BY <2>1, <2>2
<1> QED
  BY <1>3, <1>4, <1>5

\* Every line that a writer changed was unposted or stood on a product of P.
ChangesWithin(old, ln, S, P) ==
    \A k \in Lines : ln[k] # old[k] =>
        /\ k \in S
        /\ old[k] = None \/ ~old[k].synced \/ old[k].product \in P
        /\ ln[k] = None \/ ~ln[k].synced

\* Deleting what the lines of S posted on the products P, and resetting the
\* lines of S now on P, keeps rows and lines together.
LEMMA WipeKeeps ==
    ASSUME NEW old \in LineMap, NEW ln \in LineMap, NEW post \in PostedMap,
           NEW S, NEW P
    PROVE  /\ Reset(ln, S, P) \in LineMap
           /\ WipePosted(post, S, P) \in PostedMap
           /\ Matches(old, post) /\ ChangesWithin(old, ln, S, P) =>
                 Matches(Reset(ln, S, P), WipePosted(post, S, P))
<1> DEFINE ln2 == Reset(ln, S, P)
           post2 == WipePosted(post, S, P)
<1>1. ASSUME NEW k \in Lines, k \in S, ln[k] # None, ln[k].product \in P
      PROVE  /\ ln2[k] = [ln[k] EXCEPT !.synced = FALSE]
             /\ ln2[k] \in Line /\ ~ln2[k].synced
  BY <1>1 DEF Reset, LineMap, Line
<1>2. ASSUME NEW k \in Lines, ~(k \in S /\ ln[k] # None /\ ln[k].product \in P)
      PROVE  ln2[k] = ln[k]
  BY <1>2 DEF Reset
<1>3. ln2 \in LineMap
  <2>1. ASSUME NEW k \in Lines PROVE ln2[k] \in Line \cup {None}
    BY <1>1, <1>2 DEF LineMap
  <2> QED
    BY <2>1 DEF LineMap, Reset
<1>4. post2 \in PostedMap
  BY DEF WipePosted, NoRows, PostedMap
<1>5. ASSUME Matches(old, post), ChangesWithin(old, ln, S, P)
      PROVE  Matches(ln2, post2)
  <2> SUFFICES ASSUME NEW k \in Lines
               PROVE  /\ ln2[k] # None /\ ln2[k].synced =>
                            ln2[k].product # None /\ Code[k] \notin NonStock
                      /\ \A p \in Products :
                            /\ post2[k][p].n =
                                  IF /\ ln2[k] # None /\ ln2[k].synced
                                     /\ ln2[k].product = p /\ ln2[k].qty > 0
                                  THEN 1 ELSE 0
                            /\ post2[k][p].n = 0 => post2[k][p].q = 0
    BY DEF Matches
  <2>1. CASE k \notin S
    <3>1. ln2[k] = old[k]
      BY <1>2, <1>5, <2>1 DEF ChangesWithin
    <3>2. post2[k] = post[k]
      BY <2>1 DEF WipePosted, PostedMap
    <3> QED
      BY <1>5, <3>1, <3>2 DEF Matches
  <2>2. CASE k \in S
    <3>1. ln2[k] # None /\ ln2[k].synced =>
             ln2[k] = old[k] /\ ln2[k].product \notin P
      BY <1>1, <1>2, <1>5, <2>2 DEF ChangesWithin
    <3>2. old[k] # None /\ old[k].synced /\ ~(ln2[k] # None /\ ln2[k].synced) =>
             old[k].product \in P
      BY <1>1, <1>2, <1>5, <2>2 DEF ChangesWithin
    <3>3. ASSUME NEW p \in Products, p \in P
          PROVE  post2[k][p] = NoRows
      BY <2>2, <3>3 DEF WipePosted
    <3>4. ASSUME NEW p \in Products, p \notin P
          PROVE  post2[k][p] = post[k][p]
      BY <3>4 DEF WipePosted
    <3>5. CASE ln2[k] # None /\ ln2[k].synced
      BY <1>5, <3>1, <3>3, <3>4, <3>5 DEF Matches, NoRows
    <3>6. CASE ~(ln2[k] # None /\ ln2[k].synced)
      BY <1>5, <3>2, <3>3, <3>4, <3>6 DEF Matches, NoRows
    <3> QED
      BY <3>5, <3>6
  <2> QED
    BY <2>1, <2>2
<1> QED
  BY <1>3, <1>4, <1>5

-----------------------------------------------------------------------------
(* The initial states.                                                       *)

LEMMA InitHolds == Init => TypeOK /\ LedgerMatchesLines
<1> SUFFICES ASSUME Init PROVE TypeOK /\ LedgerMatchesLines
  OBVIOUS
<1>1. TypeOK
  <2>1. NoRows \in [n : Nat, q : Int]
    BY DEF NoRows
  <2>2. AnyUnit \in Scopes
    BY ConstantTypes
  <2> QED
    BY <2>1, <2>2 DEF Init, TypeOK
<1>2. LedgerMatchesLines
  BY DEF Init, LedgerMatchesLines, Matches, NoRows
<1> QED
  BY <1>1, <1>2

\* Setting one ratio keeps the ratio table typed.
LEMMA SetRatioType ==
    ASSUME ratio \in RatioMap, NEW p \in Products, NEW u \in Units,
           NEW r \in Ratios \cup {0}
    PROVE  SetRatio(p, u, r) \in RatioMap
BY DEF SetRatio, RatioMap

\* A rebuild of the products P keeps rows and lines together when every line
\* that the writer changed was unposted or stood on a product of P.
LEMMA RebuildKeeps ==
    ASSUME TypeOK, NEW ln \in LineMap, NEW rat \in RatioMap, NEW P
    PROVE  /\ Rebuilt(ln, rat, P) \in LineMap
           /\ RebuiltPosted(ln, rat, P) \in PostedMap
           /\ LedgerMatchesLines /\ ChangesWithin(line, ln, Lines, P) =>
                 Matches(Rebuilt(ln, rat, P), RebuiltPosted(ln, rat, P))
<1>1. line \in LineMap /\ posted \in PostedMap
  BY DEF TypeOK, LineMap, PostedMap
<1>2. /\ Reset(ln, Lines, P) \in LineMap
      /\ WipePosted(posted, Lines, P) \in PostedMap
      /\ Matches(line, posted) /\ ChangesWithin(line, ln, Lines, P) =>
            Matches(Reset(ln, Lines, P), WipePosted(posted, Lines, P))
  BY <1>1, WipeKeeps
<1> QED
  BY <1>2, SyncKeeps DEF Rebuilt, RebuiltPosted, LedgerMatchesLines

-----------------------------------------------------------------------------
(* One lemma per operation that writes lines or ledger rows.                 *)

\* A step keeps the types, and keeps rows and lines together if they were.
Kept == TypeOK' /\ (LedgerMatchesLines => LedgerMatchesLines')

LEMMA ForgetType ==
    ASSUME TypeOK, NEW gone
    PROVE  Forget(gone) \in [Workers -> PendingRead \cup {None}]
BY DEF Forget, TypeOK, PendingRead

LEMMA ReadPendingKeeps ==
    ASSUME TypeOK, NEW w \in Workers, NEW side \in Tables
    PROVE  /\ \A k \in Lines : ReadUnlinked(w, side, k) => Kept
           /\ ReadUnsynced(w, side) => Kept
<1>1. ASSUME NEW K PROVE RowsRead(K) \in [Lines -> Line \cup {None}]
  BY DEF RowsRead, TypeOK
<1>2. ASSUME NEW k \in Lines, ReadUnlinked(w, side, k) PROVE Kept
  <2>1. MapRow(Code[k], line[k].unit) \in Products
    BY <1>2 DEF ReadUnlinked, Linkable
  <2>2. [side |-> side, first |-> k, to |-> MapRow(Code[k], line[k].unit),
         rows |-> RowsRead(Linkable(side)), alive |-> Lines] \in PendingRead
    BY <1>1, <2>1 DEF PendingRead
  <2> QED
    BY <1>2, <2>2 DEF ReadUnlinked, TypeOK, Kept, LedgerMatchesLines, Matches
<1>3. ASSUME ReadUnsynced(w, side) PROVE Kept
  <2> DEFINE K == {k \in TableLines(side) :
                     line[k] # None /\ line[k].product # None /\ ~line[k].synced}
  <2>1. [side |-> side, first |-> None, to |-> None, rows |-> RowsRead(K),
         alive |-> Lines] \in PendingRead
    BY <1>1 DEF PendingRead
  <2> QED
    BY <1>3, <2>1 DEF ReadUnsynced, TypeOK, Kept, LedgerMatchesLines, Matches
<1> QED
  BY <1>2, <1>3

LEMMA LinkedType ==
    ASSUME TypeOK, NEW rd \in PendingRead
    PROVE  LinkedLines(rd) \in LineMap
<1>1. line \in LineMap
  BY DEF TypeOK, LineMap
<1>2. ASSUME NEW k \in Lines, k \in ToLink(rd)
      PROVE  /\ line[k] \in Line
             /\ LinkedLines(rd)[k] = [line[k] EXCEPT !.product = Link(rd, k)]
             /\ LinkedLines(rd)[k] \in Line
  <2>1. line[k] # None
    BY <1>2 DEF ToLink, Unlinked
  <2>2. line[k] \in Line
    BY <1>1, <2>1 DEF LineMap
  <2>3. Link(rd, k) \in Products \cup {None}
    BY <2>2 DEF Link, PendingRead, Line
  <2>4. LinkedLines(rd)[k] = [line[k] EXCEPT !.product = Link(rd, k)]
    BY <1>2 DEF LinkedLines
  <2> QED
    BY <2>2, <2>3, <2>4 DEF Line
<1>3. ASSUME NEW k \in Lines, k \notin ToLink(rd)
      PROVE  LinkedLines(rd)[k] = line[k]
  BY <1>3 DEF LinkedLines
<1>4. ASSUME NEW k \in Lines PROVE LinkedLines(rd)[k] \in Line \cup {None}
  BY <1>1, <1>2, <1>3 DEF LineMap
<1> QED
  BY <1>4 DEF LineMap, LinkedLines

LEMMA WritePendingType ==
    ASSUME TypeOK, NEW w \in Workers, WritePending(w)
    PROVE  TypeOK'
<1> DEFINE rd == reading[w]
<1>1. /\ line \in LineMap /\ posted \in PostedMap /\ ratio \in RatioMap
      /\ rd \in PendingRead
  BY DEF WritePending, TypeOK, LineMap, PostedMap, RatioMap
<1>2. LinkedLines(rd) \in LineMap
  BY <1>1, LinkedType
<1>3. SyncedFrom(rd) \in LineMap
  <2>1. ASSUME NEW k \in Lines PROVE SyncedFrom(rd)[k] \in Line \cup {None}
    BY <1>1, <1>2 DEF SyncedFrom, PendingRead, LineMap
  <2> QED
    BY <2>1 DEF LineMap, SyncedFrom
<1>4. posted' \in PostedMap
  BY <1>1, <1>3, SyncKeeps DEF WritePending
<1>5. line' \in LineMap
  <2>1. ASSUME NEW k \in Lines PROVE line'[k] \in Line \cup {None}
    <3>1. LinkedLines(rd)[k] \in Line \cup {None}
      BY <1>2 DEF LineMap
    <3>2. line[k] # None => LinkedLines(rd)[k] \in Line
      <4>1. line[k] # None => line[k] \in Line
        BY <1>1 DEF LineMap
      <4>2. ASSUME line[k] # None
            PROVE  LinkedLines(rd)[k] # None
        <5>1. Link(rd, k) \in Products \cup {None}
          BY <1>1, <4>1, <4>2 DEF Link, PendingRead, Line
        <5>2. [line[k] EXCEPT !.product = Link(rd, k)] \in Line
          BY <4>1, <4>2, <5>1 DEF Line
        <5> QED
          BY <4>2, <5>2, SentinelsAreNew DEF LinkedLines
      <4> QED
        BY <3>1, <4>2
    <3>3. \/ line'[k] = LinkedLines(rd)[k]
          \/ line[k] # None /\ line'[k] = [LinkedLines(rd)[k] EXCEPT !.synced = TRUE]
      BY DEF WritePending
    <3>4. LinkedLines(rd)[k] \in Line =>
             [LinkedLines(rd)[k] EXCEPT !.synced = TRUE] \in Line
      BY DEF Line
    <3> QED
      BY <3>1, <3>2, <3>3, <3>4
  <2>2. line' = [k \in Lines |-> line'[k]]
    BY DEF WritePending
  <2> QED
    BY <2>1, <2>2 DEF LineMap
<1>6. reading' \in [Workers -> PendingRead \cup {None}]
  BY DEF WritePending, TypeOK
<1> QED
  BY <1>4, <1>5, <1>6 DEF WritePending, TypeOK, LineMap, PostedMap

\* Nothing that the read saw has changed: unlinked rows are still unlinked,
\* and the unsynced rows of the table are still exactly the rows read.
FreshRead(rd) ==
    /\ rd.alive = Lines
    /\ rd.first # None =>
          \A k \in Lines : rd.rows[k] # None => line[k] # None /\ line[k].product = None
    /\ rd.first = None =>
          \A k \in TableLines(rd.side) :
             rd.rows[k] = IF line[k] # None /\ line[k].product # None /\ ~line[k].synced
                          THEN line[k] ELSE None

LEMMA WritePendingMatches ==
    ASSUME TypeOK, LedgerMatchesLines, NEW w \in Workers, WritePending(w),
           FreshRead(reading[w])
    PROVE  LedgerMatchesLines'
<1> DEFINE rd == reading[w]
           linked == LinkedLines(rd)
           S == Synced(rd)
<1>1. /\ line \in LineMap /\ posted \in PostedMap /\ ratio \in RatioMap
      /\ rd \in PendingRead /\ Matches(line, posted)
  BY DEF WritePending, TypeOK, LedgerMatchesLines, LineMap, PostedMap, RatioMap
<1>2. linked \in LineMap
  BY <1>1, LinkedType
<1>3. ASSUME NEW k \in Lines
      PROVE  \/ linked[k] = line[k]
             \/ /\ line[k] # None /\ ~line[k].synced
                /\ linked[k] # None /\ ~linked[k].synced
  <2>1. CASE k \notin ToLink(rd)
    BY <2>1 DEF LinkedLines
  <2>2. CASE k \in ToLink(rd)
    <3>1. line[k] # None /\ line[k].product = None
      BY <2>2 DEF ToLink, Unlinked, FreshRead
    <3>2. line[k] \in Line /\ ~line[k].synced
      BY <1>1, <3>1 DEF Matches, LineMap
    <3>3. linked[k] = [line[k] EXCEPT !.product = Link(rd, k)]
      BY <2>2 DEF LinkedLines
    <3>4. Link(rd, k) \in Products \cup {None}
      BY <1>1, <3>2 DEF Link, PendingRead, Line
    <3>5. linked[k] \in Line /\ ~linked[k].synced
      BY <3>2, <3>3, <3>4 DEF Line
    <3> QED
      BY <3>1, <3>2, <3>5, SentinelsAreNew
  <2> QED
    BY <2>1, <2>2
<1>4. Matches(linked, posted)
  BY <1>1, <1>3 DEF Matches
<1>5. ASSUME NEW k \in Lines
      PROVE  /\ Posts(SyncedFrom(rd), ratio, S, k) <=> Posts(linked, ratio, S, k)
             /\ Posts(linked, ratio, S, k) => SyncedFrom(rd)[k] = linked[k]
             /\ Posts(linked, ratio, S, k) => line[k] # None
  <2>1. CASE ~Stale(rd, k)
    <3>1. SyncedFrom(rd)[k] = linked[k]
      BY <2>1 DEF SyncedFrom
    <3>2. line[k] = None => linked[k] = None
      BY <1>3
    <3> QED
      BY <3>1, <3>2 DEF Posts
  <2>2. CASE Stale(rd, k)
    <3>1. linked[k] = line[k]
      <4>1. k \notin ToLink(rd)
        BY <2>2 DEF ToLink, Unlinked, TableLines, Stale
      <4> QED
        BY <4>1 DEF LinkedLines
    <3>2. SyncedFrom(rd)[k] =
             IF line[k] # None /\ line[k].product # None /\ ~line[k].synced
             THEN line[k] ELSE None
      BY <2>2 DEF SyncedFrom, Stale, FreshRead, TableLines
    <3> QED
      BY <3>1, <3>2 DEF Posts
  <2> QED
    BY <2>1, <2>2
<1>6. posted' = SyncPosted(posted, linked, ratio, S)
  BY <1>5 DEF WritePending, SyncPosted
<1>7. line' = SyncLines(linked, ratio, S)
  BY <1>5 DEF WritePending, SyncLines, FreshRead
<1> QED
  BY <1>1, <1>2, <1>4, <1>6, <1>7, SyncKeeps DEF LedgerMatchesLines

\* What Express's file says of a line is a well-formed line, and pass 1 only
\* touches lines that were unposted or stood on an affected product.
LEMMA DiffIsLocal ==
    ASSUME TypeOK, NEW side \in Tables, NEW f \in Files(side), NEW removals \in BOOLEAN
    PROVE  /\ LinesAfterDiff(side, f, removals) \in LineMap
           /\ LedgerMatchesLines =>
                 ChangesWithin(line, LinesAfterDiff(side, f, removals),
                               TableLines(side), Affected(side, f, removals))
<1> DEFINE diffed == LinesAfterDiff(side, f, removals)
<1>1. line \in LineMap
  BY DEF TypeOK, LineMap
<1>2. PICK K \in (SUBSET TableLines(side)) \ {{}} : f \in [K -> Entry]
  BY DEF Files
<1>3. ASSUME NEW k \in Lines
      PROVE  Linked(f, k) \in Products \cup {None}
  BY <1>1, <1>3 DEF Linked, LineMap, Line
<1>4. ASSUME NEW k \in Lines, Replaced(f, k)
      PROVE  /\ k \in TableLines(side)
             /\ diffed[k] \in Line /\ ~diffed[k].synced
  <2>1. k \in DOMAIN f
    BY <1>4 DEF Replaced, Considered
  <2>2. k \in K /\ f[k] \in Entry
    BY <1>2, <2>1
  <2>3. Linked(f, k) \in Products \cup {None}
    BY <1>3
  <2>4. diffed[k] = [product |-> Linked(f, k), unit |-> f[k].unit,
                     qty |-> f[k].qty, money |-> f[k].money, synced |-> FALSE]
    BY <1>4 DEF LinesAfterDiff
  <2>5. diffed[k] \in Line
    BY <2>2, <2>3, <2>4 DEF Entry, Line
  <2> QED
    BY <1>2, <2>2, <2>4, <2>5
<1>5. ASSUME NEW k \in Lines, ~Replaced(f, k), Removed(side, f, removals, k)
      PROVE  diffed[k] = None /\ k \in TableLines(side) /\ line[k] # None
  BY <1>5 DEF LinesAfterDiff, Removed, Missing, TableLines
<1>6. ASSUME NEW k \in Lines, ~Replaced(f, k), ~Removed(side, f, removals, k)
      PROVE  diffed[k] = line[k]
  BY <1>6 DEF LinesAfterDiff
<1>7. diffed \in LineMap
  <2>1. ASSUME NEW k \in Lines PROVE diffed[k] \in Line \cup {None}
    BY <1>1, <1>4, <1>5, <1>6 DEF LineMap
  <2> QED
    BY <2>1 DEF LineMap, LinesAfterDiff
<1>8. ASSUME LedgerMatchesLines, NEW k \in Lines, diffed[k] # line[k],
             line[k] # None, line[k].synced
      PROVE  line[k].product \in Affected(side, f, removals)
  <2>1. line[k].product \in Products
    BY <1>1, <1>8 DEF LedgerMatchesLines, Matches, LineMap, Line
  <2>2. k \in TableLines(side)
    BY <1>4, <1>5, <1>6, <1>8
  <2>3. Replaced(f, k) \/ Removed(side, f, removals, k)
    BY <1>6, <1>8
  <2> QED
    BY <1>8, <2>1, <2>2, <2>3 DEF Affected
<1>9. ASSUME NEW k \in Lines, diffed[k] # line[k]
      PROVE  k \in TableLines(side) /\ (diffed[k] = None \/ ~diffed[k].synced)
  BY <1>4, <1>5, <1>6, <1>9
<1> QED
  BY <1>7, <1>8, <1>9 DEF ChangesWithin

LEMMA ImportKeeps ==
    ASSUME TypeOK, NEW side \in Tables, NEW f \in Files(side), NEW removals \in BOOLEAN,
           Import(side, f, removals)
    PROVE  Kept
<1> DEFINE P == Affected(side, f, removals)
           S == TableLines(side)
           diffed == LinesAfterDiff(side, f, removals)
           reset == Reset(diffed, S, P)
           wiped == WipePosted(posted, S, P)
<1>1. /\ line \in LineMap /\ posted \in PostedMap /\ ratio \in RatioMap
  BY DEF TypeOK, LineMap, PostedMap, RatioMap
<1>2. /\ reset \in LineMap /\ wiped \in PostedMap /\ diffed \in LineMap
      /\ LedgerMatchesLines => Matches(reset, wiped)
  BY <1>1, DiffIsLocal, WipeKeeps DEF LedgerMatchesLines
<1>3. P = {} => reset = diffed /\ wiped = posted
  BY <1>1, <1>2 DEF Reset, WipePosted, LineMap, PostedMap
<1>4. /\ line' = IF P = {} THEN diffed ELSE SyncLines(reset, ratio, S)
      /\ posted' = IF P = {} THEN posted ELSE SyncPosted(wiped, reset, ratio, S)
  BY DEF Import
<1>5. /\ line' \in LineMap /\ posted' \in PostedMap
      /\ LedgerMatchesLines => Matches(line', posted')
  <2>1. CASE P = {}
    BY <1>2, <1>3, <1>4, <2>1
  <2>2. CASE P # {}
    BY <1>1, <1>2, <1>4, <2>2, SyncKeeps
  <2> QED
    BY <2>1, <2>2
<1>6. offsets' \in [Lines -> [Products -> Int]]
  <2>1. ASSUME NEW k \in Lines, NEW p \in Products, corr[k] # None
        PROVE  corr[k].offset \in Int /\ offsets[k][p] \in Int
    BY <2>1 DEF TypeOK, Correction
  <2>2. ASSUME NEW k \in Lines, Retired(side, f, removals, k)
        PROVE  corr[k] # None
    BY <2>2 DEF Retired, Overrules
  <2>3. ASSUME NEW k \in Lines, NEW p \in Products
        PROVE  offsets[k][p] \in Int
    BY DEF TypeOK
  <2> QED
    BY <2>1, <2>2, <2>3 DEF Import
<1>7. corr' \in [Lines -> Correction \cup {None}]
  BY DEF Import, TypeOK
<1>8. mapping' \in [Codes -> [Scopes -> Products \cup {None, Ignored, NoRow}]]
  BY DEF Import, TypeOK
<1>9. reading' \in [Workers -> PendingRead \cup {None}]
  BY ForgetType DEF Import
<1> QED
  BY <1>5, <1>6, <1>7, <1>8, <1>9
     DEF Kept, Import, TypeOK, LedgerMatchesLines, LineMap, PostedMap

LEMMA CheckRatioKeeps ==
    ASSUME TypeOK, NEW w \in Workers, NEW p \in Products, NEW u \in Units,
           NEW r \in Ratios, NEW resync \in BOOLEAN, CheckRatio(w, p, u, r, resync)
    PROVE  Kept
<1>1. [product |-> p, unit |-> u, ratio |-> r, resync |-> resync] \in RatioWrite
  BY DEF RatioWrite
<1> QED
  BY <1>1 DEF Kept, CheckRatio, TypeOK, LedgerMatchesLines, Matches

LEMMA WriteRatioKeeps ==
    ASSUME TypeOK, NEW w \in Workers, WriteRatio(w)
    PROVE  Kept
<1>1. /\ line \in LineMap /\ posted \in PostedMap /\ ratio \in RatioMap
  BY DEF TypeOK, LineMap, PostedMap, RatioMap
<1>2. checked[w] \in RatioWrite
  BY DEF WriteRatio, TypeOK
<1>3. ratio' \in RatioMap
  <2>1. /\ checked[w].product \in Products /\ checked[w].unit \in Units
        /\ checked[w].ratio \in Ratios \cup {0}
    BY <1>2 DEF RatioWrite
  <2> QED
    BY <1>1, <2>1, SetRatioType DEF WriteRatio
<1>4. /\ line' \in LineMap /\ posted' \in PostedMap
      /\ LedgerMatchesLines => Matches(line', posted')
  <2>1. CASE checked[w].resync
    BY <1>1, <1>3, <2>1, SyncKeeps DEF WriteRatio, LedgerMatchesLines
  <2>2. CASE ~checked[w].resync
    BY <1>1, <2>2 DEF WriteRatio, LedgerMatchesLines
  <2> QED
    BY <2>1, <2>2
<1>5. checked' \in [Workers -> RatioWrite \cup {None}]
  BY DEF WriteRatio, TypeOK
<1> QED
  BY <1>3, <1>4, <1>5
     DEF Kept, WriteRatio, TypeOK, LedgerMatchesLines, LineMap, PostedMap, RatioMap

LEMMA UpdateRatioKeeps ==
    ASSUME TypeOK, NEW p \in Products, NEW u \in Units, NEW r \in Ratios,
           UpdateRatio(p, u, r)
    PROVE  Kept
<1> DEFINE rat == IF ratio[p][u] = 0 THEN ratio ELSE SetRatio(p, u, r)
<1>1. /\ line \in LineMap /\ ratio \in RatioMap
  BY DEF TypeOK, LineMap, RatioMap
<1>2. rat \in RatioMap
  BY <1>1, SetRatioType
<1>3. ratio' = rat /\ line' = Rebuilt(line, rat, {p}) /\ posted' = RebuiltPosted(line, rat, {p})
  BY DEF UpdateRatio
<1>4. /\ line' \in LineMap /\ posted' \in PostedMap
      /\ LedgerMatchesLines => Matches(line', posted')
  <2>1. ChangesWithin(line, line, Lines, {p})
    BY DEF ChangesWithin
  <2> QED
    BY <1>1, <1>2, <1>3, <2>1, RebuildKeeps
<1> QED
  BY <1>2, <1>3, <1>4
     DEF Kept, UpdateRatio, TypeOK, LedgerMatchesLines, LineMap, PostedMap, RatioMap

LEMMA DismissKeeps ==
    ASSUME TypeOK, NEW p \in Products, NEW u \in Units, Dismiss(p, u)
    PROVE  Kept
<1>1. \A k \in Lines : line'[k] = line[k] \/ (line'[k] = None /\ ~line[k].synced)
  BY DEF Dismiss, Waiting
<1>2. \A k \in Lines : k \in Waiting(p, u) => line[k] # None
  BY DEF Waiting, On
<1>3. line' \in [Lines -> Line \cup {None}]
  BY DEF Dismiss, TypeOK
<1>4. LedgerMatchesLines => LedgerMatchesLines'
  BY <1>1, <1>2 DEF Dismiss, LedgerMatchesLines, Matches
<1>5. reading' \in [Workers -> PendingRead \cup {None}]
  BY ForgetType DEF Dismiss
<1> QED
  BY <1>3, <1>4, <1>5 DEF Kept, Dismiss, TypeOK

LEMMA ApplyReconcileFlagKeeps ==
    ASSUME TypeOK, NEW d, ApplyReconcileFlag(d)
    PROVE  Kept
<1> DEFINE K == DocumentLines(d)
<1>1. /\ line' = [k \in Lines |-> IF k \in K THEN None ELSE line[k]]
      /\ posted' = WipePosted(posted, K, Products)
      /\ reading' = Forget(K)
      /\ UNCHANGED <<offsets, adjust, ratio, mapping, corr, checked>>
  BY DEF ApplyReconcileFlag
<1> HIDE DEF K
<1>2. line' \in [Lines -> Line \cup {None}]
  BY <1>1 DEF TypeOK
<1>3. posted' \in [Lines -> [Products -> [n : Nat, q : Int]]]
  BY <1>1 DEF TypeOK, WipePosted, NoRows
<1>4. LedgerMatchesLines => LedgerMatchesLines'
  <2> SUFFICES ASSUME Matches(line, posted), NEW k \in Lines
               PROVE  /\ line'[k] # None /\ line'[k].synced =>
                            line'[k].product # None /\ Code[k] \notin NonStock
                      /\ \A p \in Products :
                            /\ posted'[k][p].n =
                                  IF /\ line'[k] # None /\ line'[k].synced
                                     /\ line'[k].product = p /\ line'[k].qty > 0
                                  THEN 1 ELSE 0
                            /\ posted'[k][p].n = 0 => posted'[k][p].q = 0
    BY DEF LedgerMatchesLines, Matches
  <2>1. CASE k \in K
    <3>1. line'[k] = None /\ \A p \in Products : posted'[k][p] = NoRows
      BY <1>1, <2>1 DEF WipePosted
    <3> QED
      BY <3>1 DEF NoRows
  <2>2. CASE k \notin K
    <3>1. line'[k] = line[k] /\ \A p \in Products : posted'[k][p] = posted[k][p]
      BY <1>1, <2>2 DEF WipePosted
    <3> QED
      BY <3>1 DEF Matches
  <2> QED
    BY <2>1, <2>2
<1>5. reading' \in [Workers -> PendingRead \cup {None}]
  BY <1>1, ForgetType
<1> QED
  BY <1>1, <1>2, <1>3, <1>4, <1>5 DEF Kept, TypeOK

LEMMA RepointKeeps ==
    ASSUME TypeOK, NEW c \in Codes, NEW s \in Scopes, NEW p \in Products,
           NEW preserve \in BOOLEAN, Repoint(c, s, p, preserve)
    PROVE  Kept
<1> DEFINE P == RepointProducts(c, s, p)
           moved == Moved(c, s, p)
           target == IF CodeRows(c, s) = {} THEN {s} ELSE CodeRows(c, s)
<1>1. line \in LineMap /\ ratio \in RatioMap
  BY DEF TypeOK, LineMap, RatioMap
<1>2. ASSUME NEW k \in Lines, k \in CodeLines(c, s)
      PROVE  /\ line[k] \in Line
             /\ moved[k] = [line[k] EXCEPT !.product = p, !.synced = FALSE]
             /\ moved[k] \in Line /\ ~moved[k].synced
             /\ LedgerMatchesLines /\ line[k].synced => line[k].product \in P
  <2>1. line[k] \in Line
    BY <1>1, <1>2 DEF CodeLines, LineMap
  <2>2. moved[k] = [line[k] EXCEPT !.product = p, !.synced = FALSE]
    BY <1>2 DEF Moved
  <2>3. moved[k] \in Line /\ ~moved[k].synced
    BY <2>1, <2>2 DEF Line
  <2>4. ASSUME LedgerMatchesLines, line[k].synced PROVE line[k].product \in P
    <3>1. line[k].product \in Products
      BY <1>2, <2>1, <2>4 DEF LedgerMatchesLines, Matches, CodeLines, Line
    <3> QED
      BY <1>2, <3>1 DEF RepointProducts
  <2> QED
    BY <2>1, <2>2, <2>3, <2>4
<1>3. ASSUME NEW k \in Lines, k \notin CodeLines(c, s)
      PROVE  moved[k] = line[k]
  BY <1>3 DEF Moved
<1>4. moved \in LineMap
  <2>1. ASSUME NEW k \in Lines PROVE moved[k] \in Line \cup {None}
    BY <1>1, <1>2, <1>3 DEF LineMap
  <2> QED
    BY <2>1 DEF LineMap, Moved
<1>5. LedgerMatchesLines => ChangesWithin(line, moved, Lines, P)
  BY <1>2, <1>3 DEF ChangesWithin
<1>6. line' = Rebuilt(moved, ratio, P) /\ posted' = RebuiltPosted(moved, ratio, P)
  BY DEF Repoint
<1>7. /\ line' \in LineMap /\ posted' \in PostedMap
      /\ LedgerMatchesLines => Matches(line', posted')
  BY <1>1, <1>4, <1>5, <1>6, RebuildKeeps
<1>8. mapping' \in [Codes -> [Scopes -> Products \cup {None, Ignored, NoRow}]]
  BY DEF Repoint, TypeOK
<1>9. adjust' \in [Products -> Int]
  BY ConstantTypes DEF Repoint, AdjustRange
<1> QED
  BY <1>7, <1>8, <1>9
     DEF Kept, Repoint, TypeOK, LedgerMatchesLines, LineMap, PostedMap

\* Rewriting the unit of one synced line and the quantity of its one ledger
\* row in place: what `apply` and `cancel` do.
LEMMA RewriteKeeps ==
    ASSUME TypeOK, NEW k \in Lines, NEW p \in Products, NEW u \in Units, NEW q \in Int,
           line[k] # None, posted[k][p].n = 1,
           line' = [line EXCEPT ![k].unit = u],
           posted' = [posted EXCEPT ![k][p].q = q]
    PROVE  /\ line' \in LineMap
           /\ posted' \in PostedMap
           /\ LedgerMatchesLines => Matches(line', posted')
<1>1. line \in LineMap /\ posted \in PostedMap
  BY DEF TypeOK, LineMap, PostedMap
<1>2. line[k] \in Line
  BY <1>1 DEF LineMap
<1>3. line'[k] = [line[k] EXCEPT !.unit = u]
  BY <1>1 DEF LineMap
<1>4. /\ line'[k] \in Line /\ line'[k] # None
      /\ line'[k].synced = line[k].synced
      /\ line'[k].product = line[k].product
      /\ line'[k].qty = line[k].qty
  BY <1>2, <1>3, SentinelsAreNew DEF Line
<1>5. \A j \in Lines : j # k => line'[j] = line[j] /\ posted'[j] = posted[j]
  BY <1>1 DEF LineMap, PostedMap
<1>6. line' \in LineMap
  BY <1>1, <1>4, <1>5 DEF LineMap
<1>7. \A x \in Products : x # p => posted'[k][x] = posted[k][x]
  BY <1>1 DEF PostedMap
<1>8. posted'[k][p] = [n |-> 1, q |-> q]
  BY <1>1 DEF PostedMap
<1>9. posted' \in PostedMap
  BY <1>1 DEF PostedMap
<1>10. ASSUME LedgerMatchesLines PROVE Matches(line', posted')
  <2>1. ASSUME NEW j \in Lines
        PROVE  /\ line'[j] # None /\ line'[j].synced =>
                     line'[j].product # None /\ Code[j] \notin NonStock
               /\ \A x \in Products :
                     /\ posted'[j][x].n = IF /\ line'[j] # None /\ line'[j].synced
                                             /\ line'[j].product = x /\ line'[j].qty > 0
                                          THEN 1 ELSE 0
                     /\ posted'[j][x].n = 0 => posted'[j][x].q = 0
    <3>1. CASE j # k
      BY <1>5, <1>10, <3>1 DEF LedgerMatchesLines, Matches
    <3>2. CASE j = k
      <4>1. \A x \in Products : posted'[k][x].n = posted[k][x].n
        BY <1>7, <1>8
      <4> QED
        BY <1>4, <1>7, <1>8, <1>10, <3>2, <4>1 DEF LedgerMatchesLines, Matches
    <3> QED
      BY <3>1, <3>2
  <2> QED
    BY <2>1 DEF Matches
<1> QED
  BY <1>6, <1>9, <1>10

LEMMA ApplyKeeps ==
    ASSUME TypeOK, NEW k \in Lines, NEW u \in Units, NEW mode \in {"hold", "move"},
           Apply(k, u, mode)
    PROVE  Kept
<1> DEFINE p == line[k].product
           new == Effect(ratio, k, p, u, line[k].qty)
           off == Offset(k, p, new, mode)
<1>1. /\ line[k] \in Line /\ line[k] # None /\ p \in Products
      /\ posted[k][p].n = 1
  BY DEF Apply, CanCorrect, OneLedgerRow, TypeOK, Line
<1>2. new \in Int
  BY <1>1, EffectType DEF Line, TypeOK, RatioMap
<1>3. posted[k][p].q \in Int /\ offsets[k][p] \in Int
  BY <1>1 DEF TypeOK
<1>4. off \in Int
  BY <1>2, <1>3 DEF Offset
<1>5. /\ line' = [line EXCEPT ![k].unit = u]
      /\ posted' = [posted EXCEPT ![k][p].q = new]
      /\ offsets' = [offsets EXCEPT ![k][p] = @ + off]
      /\ corr' = [corr EXCEPT ![k] =
                    [product |-> p, express |-> line[k].unit, corrected |-> u,
                     qty |-> line[k].qty, money |-> line[k].money,
                     mode |-> mode, offset |-> off]]
  BY DEF Apply
<1>6. /\ line' \in LineMap /\ posted' \in PostedMap
      /\ LedgerMatchesLines => Matches(line', posted')
  BY <1>1, <1>2, <1>5, RewriteKeeps
<1>7. offsets' \in [Lines -> [Products -> Int]]
  BY <1>1, <1>3, <1>4, <1>5 DEF TypeOK
<1>8. corr' \in [Lines -> Correction \cup {None}]
  <2>1. [product |-> p, express |-> line[k].unit, corrected |-> u,
         qty |-> line[k].qty, money |-> line[k].money,
         mode |-> mode, offset |-> off] \in Correction
    BY <1>1, <1>4 DEF Line, Correction
  <2> QED
    BY <1>5, <2>1 DEF TypeOK
<1> QED
  BY <1>6, <1>7, <1>8
     DEF Kept, Apply, TypeOK, LedgerMatchesLines, LineMap, PostedMap

LEMMA CancelKeeps ==
    ASSUME TypeOK, NEW k \in Lines, Cancel(k)
    PROVE  Kept
<1> DEFINE p == corr[k].product
<1>1. /\ corr[k] \in Correction /\ line[k] \in Line /\ line[k] # None
      /\ p \in Products /\ corr[k].express \in Units /\ corr[k].offset \in Int
      /\ posted[k][p].n = 1
  BY DEF Cancel, CanCancel, StillCorrected, OneLedgerRow, TypeOK, Correction
<1>2. Restored(k) \in Int
  BY <1>1, EffectType DEF Restored, Line, TypeOK, RatioMap
<1>3. /\ line' = [line EXCEPT ![k].unit = corr[k].express]
      /\ posted' = [posted EXCEPT ![k][p].q = Restored(k)]
      /\ offsets' = [offsets EXCEPT ![k][p] = @ - corr[k].offset]
      /\ corr' = [corr EXCEPT ![k] = None]
  BY DEF Cancel
<1>4. /\ line' \in LineMap /\ posted' \in PostedMap
      /\ LedgerMatchesLines => Matches(line', posted')
  BY <1>1, <1>2, <1>3, RewriteKeeps
<1>5. offsets' \in [Lines -> [Products -> Int]]
  <2>1. offsets[k][p] \in Int
    BY <1>1 DEF TypeOK
  <2> QED
    BY <1>1, <1>3, <2>1 DEF TypeOK
<1>6. corr' \in [Lines -> Correction \cup {None}]
  BY <1>3 DEF TypeOK
<1> QED
  BY <1>4, <1>5, <1>6
     DEF Kept, Cancel, TypeOK, LedgerMatchesLines, LineMap, PostedMap

\* The operations that write neither a line nor a ledger row of a bill.
LEMMA OthersKeep ==
    ASSUME TypeOK
    PROVE  /\ \A c \in Codes, v \in Products \cup {Ignored} : SetMapping(c, v) => Kept
           /\ \A p \in Products, u \in Units, r \in Ratios :
                 AddCatalogueRatio(p, u, r) => Kept
           /\ \A p \in Products, u \in Units : DropRatio(p, u) => Kept
           /\ \A p \in Products, level \in Levels : SetStock(p, level) => Kept
           /\ UNCHANGED vars => Kept
<1> USE DEF Kept, LedgerMatchesLines, Matches
<1>1. ASSUME NEW c \in Codes, NEW v \in Products \cup {Ignored}, SetMapping(c, v)
      PROVE  Kept
  BY <1>1 DEF SetMapping, TypeOK
<1>2. ASSUME NEW p \in Products, NEW u \in Units, NEW r \in Ratios,
             AddCatalogueRatio(p, u, r)
      PROVE  Kept
  <2>1. ratio' \in RatioMap
    BY <1>2, SetRatioType DEF AddCatalogueRatio, TypeOK, RatioMap
  <2> QED
    BY <1>2, <2>1 DEF AddCatalogueRatio, TypeOK, RatioMap
<1>3. ASSUME NEW p \in Products, NEW u \in Units, DropRatio(p, u)
      PROVE  Kept
  <2>1. ratio' \in RatioMap
    BY <1>3, SetRatioType DEF DropRatio, TypeOK, RatioMap
  <2> QED
    BY <1>3, <2>1 DEF DropRatio, TypeOK, RatioMap
<1>4. ASSUME NEW p \in Products, NEW level \in Levels, SetStock(p, level)
      PROVE  Kept
  <2>1. adjust' \in [Products -> Int]
    BY <1>4, ConstantTypes DEF SetStock, AdjustRange
  <2> QED
    BY <1>4, <2>1 DEF SetStock, TypeOK
<1>5. ASSUME UNCHANGED vars PROVE Kept
  BY <1>5 DEF vars, TypeOK
<1> QED
  BY <1>1, <1>2, <1>3, <1>4, <1>5

\* Every step of the system keeps the types, and every step but the late
\* writing of a pending read keeps rows and lines together.
LEMMA StepKeeps ==
    ASSUME TypeOK, [Next]_vars
    PROVE  /\ TypeOK'
           /\ (\A w \in Workers : ~WritePending(w)) => Kept
<1> USE DEF Kept
<1>1. CASE \E c \in Codes, v \in Products \cup {Ignored} : SetMapping(c, v)
  BY <1>1, OthersKeep
<1>2. CASE \E side \in Tables, removals \in BOOLEAN :
              \E f \in Files(side) : Import(side, f, removals)
  BY <1>2, ImportKeeps
<1>3. CASE \E w \in Workers, side \in Tables : \E k \in Lines : ReadUnlinked(w, side, k)
  BY <1>3, ReadPendingKeeps
<1>4. CASE \E w \in Workers, p \in Products, u \in Units, r \in Ratios, resync \in BOOLEAN :
              CheckRatio(w, p, u, r, resync)
  BY <1>4, CheckRatioKeeps
<1>5. CASE \E w \in Workers : WriteRatio(w)
  BY <1>5, WriteRatioKeeps
<1>6. CASE \E p \in Products, u \in Units, r \in Ratios : AddCatalogueRatio(p, u, r)
  BY <1>6, OthersKeep
<1>7. CASE \E p \in Products, u \in Units, r \in Ratios : UpdateRatio(p, u, r)
  BY <1>7, UpdateRatioKeeps
<1>8. CASE \E p \in Products, u \in Units : DropRatio(p, u)
  BY <1>8, OthersKeep
<1>9. CASE \E p \in Products, u \in Units : Dismiss(p, u)
  BY <1>9, DismissKeeps
<1>10. CASE \E c \in Codes, s \in Scopes, p \in Products, preserve \in BOOLEAN :
               Repoint(c, s, p, preserve)
  BY <1>10, RepointKeeps
<1>11. CASE \E p \in Products, level \in Levels : SetStock(p, level)
  BY <1>11, OthersKeep
<1>12. CASE \E k \in Lines, u \in Units, mode \in {"hold", "move"} : Apply(k, u, mode)
  BY <1>12, ApplyKeeps
<1>13. CASE \E k \in Lines : Cancel(k)
  BY <1>13, CancelKeeps
<1>14. CASE \E w \in Workers, side \in Tables : ReadUnsynced(w, side)
  BY <1>14, ReadPendingKeeps
<1>15. CASE \E w \in Workers : WritePending(w)
  BY <1>15, WritePendingType
<1>16. CASE \E d \in {DocBase[k] : k \in Lines} : ApplyReconcileFlag(d)
  BY <1>16, ApplyReconcileFlagKeeps
<1>17. CASE UNCHANGED vars
  BY <1>17, OthersKeep
<1> QED
  BY <1>1, <1>2, <1>3, <1>4, <1>5, <1>6, <1>7, <1>8, <1>9, <1>10, <1>11, <1>12,
     <1>13, <1>14, <1>15, <1>16, <1>17 DEF Next

\* The variables keep their types, whatever the operators, the importer, the
\* maintenance scripts and any number of processes do.
THEOREM TypeCorrect == Spec => []TypeOK
<1>1. Init => TypeOK
  BY InitHolds
<1>2. TypeOK /\ [Next]_vars => TypeOK'
  BY StepKeeps
<1> QED
  BY <1>1, <1>2, PTL DEF Spec

-----------------------------------------------------------------------------
(* A rebuild that is accepted replays what it deleted.                       *)

\* A line on a rebuilt product that comes out synced was posted by this very
\* rebuild, so at the ratios given to it.
LEMMA RebuiltLine ==
    ASSUME TypeOK, NEW ln \in LineMap, NEW rat \in RatioMap, NEW P, NEW k \in Lines,
           ln[k] # None, ln[k].product \in P, Rebuilt(ln, rat, P)[k].synced
    PROVE  LET b == Rebuilt(ln, rat, P)[k]
           IN  RebuiltPosted(ln, rat, P)[k][b.product].q =
                   Effect(rat, k, b.product, b.unit, b.qty)
<1> DEFINE reset == Reset(ln, Lines, P)
           wiped == WipePosted(posted, Lines, P)
           S == On(ln, P)
           b == Rebuilt(ln, rat, P)[k]
<1>1. reset[k] = [ln[k] EXCEPT !.synced = FALSE] /\ ln[k] \in Line
  BY DEF Reset, LineMap
<1>2. reset[k] \in Line /\ ~reset[k].synced
  BY <1>1 DEF Line
<1>3. Posts(reset, rat, S, k) /\ b = [reset[k] EXCEPT !.synced = TRUE]
  BY <1>2 DEF Rebuilt, SyncLines
<1>4. /\ b.product = reset[k].product /\ b.unit = reset[k].unit
      /\ b.qty = reset[k].qty
  BY <1>2, <1>3 DEF Line
<1>5. b.product = ln[k].product /\ b.product \in Products
  BY <1>1, <1>2, <1>3, <1>4 DEF Posts, Line
<1>6. wiped[k][b.product] = NoRows
  BY <1>5 DEF WipePosted
<1>7. /\ Effect(rat, k, b.product, b.unit, b.qty) \in Int
      /\ b.qty \in Qtys /\ b.unit \in Units
  BY <1>2, <1>4, <1>5, EffectType DEF Line
<1>8. CASE b.qty > 0
  <2>1. RebuiltPosted(ln, rat, P)[k][b.product].q =
           0 + Effect(rat, k, b.product, b.unit, b.qty)
    BY <1>3, <1>4, <1>5, <1>6, <1>8 DEF RebuiltPosted, SyncPosted, NoRows
  <2> QED
    BY <1>7, <2>1
<1>9. CASE ~(b.qty > 0)
  <2>1. b.qty = 0
    <3>1. Qtys \subseteq Nat
      BY ConstantTypes
    <3> HIDE DEF b
    <3>2. b.qty \in Nat
      BY <1>7, <3>1
    <3> QED
      BY <1>9, <3>2
  <2>2. RebuiltPosted(ln, rat, P)[k][b.product].q = 0
    BY <1>4, <1>5, <1>6, <1>9 DEF RebuiltPosted, SyncPosted, NoRows
  <2>3. RatioOf(rat, b.product, b.unit) \in Nat
    <3>1. rat[b.product][b.unit] \in Ratios \cup {0}
      BY <1>5, <1>7 DEF RatioMap
    <3>2. Ratios \cup {0} \subseteq Nat
      BY ConstantTypes
    <3> QED
      BY <3>1, <3>2 DEF RatioOf
  <2>4. 0 * RatioOf(rat, b.product, b.unit) = 0
    BY <2>3
  <2>5. Effect(rat, k, b.product, b.unit, b.qty) = 0
    <3>1. b.qty * RatioOf(rat, b.product, b.unit) = 0
      BY <2>1, <2>4
    <3>2. Sign(k) \in Int
      BY DEF Sign
    <3>3. Effect(rat, k, b.product, b.unit, b.qty) = Sign(k) * 0
      BY <3>1 DEF Effect
    <3> QED
      BY <3>2, <3>3
  <2> QED
    BY <2>2, <2>5
<1> QED
  BY <1>8, <1>9

LEMMA UpdateRatioReplays ==
    ASSUME TypeOK, NEW p \in Products, NEW u \in Units, NEW r \in Ratios,
           UpdateRatio(p, u, r)
    PROVE  Replayed({p})
<1> DEFINE rat == IF ratio[p][u] = 0 THEN ratio ELSE SetRatio(p, u, r)
<1>1. line \in LineMap /\ ratio \in RatioMap
  BY DEF TypeOK, LineMap, RatioMap
<1>2. rat \in RatioMap
  BY <1>1, SetRatioType
<1>3. /\ ratio' = rat /\ line' = Rebuilt(line, rat, {p})
      /\ posted' = RebuiltPosted(line, rat, {p})
      /\ NothingLost(line, rat, {p})
  BY DEF UpdateRatio
<1>4. ASSUME NEW k \in On(line, {p}), line[k].synced
      PROVE  /\ line'[k].synced
             /\ posted'[k][line'[k].product].q =
                   Effect(ratio', k, line'[k].product, line'[k].unit, line'[k].qty)
  <2>1. Rebuilt(line, rat, {p})[k].synced
    BY <1>3, <1>4 DEF NothingLost
  <2>2. k \in Lines /\ line[k] # None /\ line[k].product \in {p}
    BY <1>4 DEF On
  <2> QED
    BY <1>1, <1>2, <1>3, <2>1, <2>2, RebuiltLine
<1> QED
  BY <1>4 DEF Replayed

LEMMA RepointReplays ==
    ASSUME TypeOK, NEW c \in Codes, NEW s \in Scopes, NEW p \in Products,
           NEW preserve \in BOOLEAN, Repoint(c, s, p, preserve)
    PROVE  Replayed(RepointProducts(c, s, p))
<1> DEFINE P == RepointProducts(c, s, p)
           moved == Moved(c, s, p)
<1>1. line \in LineMap /\ ratio \in RatioMap
  BY DEF TypeOK, LineMap, RatioMap
<1>2. moved \in LineMap
  <2>1. ASSUME NEW k \in Lines, k \in CodeLines(c, s)
        PROVE  moved[k] \in Line
    <3>1. line[k] \in Line
      BY <1>1, <2>1 DEF CodeLines, LineMap
    <3>2. moved[k] = [line[k] EXCEPT !.product = p, !.synced = FALSE]
      BY <2>1 DEF Moved
    <3> QED
      BY <3>1, <3>2 DEF Line
  <2>2. ASSUME NEW k \in Lines, k \notin CodeLines(c, s)
        PROVE  moved[k] = line[k]
    BY <2>2 DEF Moved
  <2>3. ASSUME NEW k \in Lines PROVE moved[k] \in Line \cup {None}
    BY <1>1, <2>1, <2>2 DEF LineMap
  <2> QED
    BY <2>3 DEF LineMap, Moved
<1>3. /\ ratio' = ratio /\ line' = Rebuilt(moved, ratio, P)
      /\ posted' = RebuiltPosted(moved, ratio, P)
      /\ NothingLost(moved, ratio, P)
  BY DEF Repoint
<1>4. ASSUME NEW k \in On(line, P), line[k].synced
      PROVE  /\ line'[k].synced
             /\ posted'[k][line'[k].product].q =
                   Effect(ratio', k, line'[k].product, line'[k].unit, line'[k].qty)
  <2>1. Rebuilt(moved, ratio, P)[k].synced
    BY <1>3, <1>4 DEF NothingLost
  <2>2. k \in Lines /\ line[k] \in Line /\ line[k] # None /\ line[k].product \in P
    BY <1>1, <1>4 DEF On, LineMap
  <2>3. moved[k] # None /\ moved[k].product \in P
    <3>1. CASE k \in CodeLines(c, s)
      <4>1. moved[k] = [line[k] EXCEPT !.product = p, !.synced = FALSE]
        BY <2>2, <3>1 DEF Moved
      <4>2. moved[k] \in Line /\ moved[k].product = p
        BY <2>2, <4>1 DEF Line
      <4> QED
        BY <4>2, SentinelsAreNew DEF RepointProducts
    <3>2. CASE k \notin CodeLines(c, s)
      BY <2>2, <3>2 DEF Moved
    <3> QED
      BY <3>1, <3>2
  <2> QED
    BY <1>1, <1>2, <1>3, <2>1, <2>2, <2>3, RebuiltLine
<1> QED
  BY <1>4 DEF Replayed

\* Whatever order operators, importer, scripts and any number of processes
\* act in, a ratio rebuild or a re-point that is accepted brings back every
\* movement it deleted, at the ratios of the moment.
THEOREM RebuildsReplayEverything == Spec => RebuildReplaysEverything
<1> DEFINE Rebuilds ==
             /\ \A p \in Products, u \in Units, r \in Ratios :
                   UpdateRatio(p, u, r) => Replayed({p})
             /\ \A c \in Codes, s \in Scopes, p \in Products, preserve \in BOOLEAN :
                   Repoint(c, s, p, preserve) => Replayed(RepointProducts(c, s, p))
<1>1. TypeOK => Rebuilds
  BY UpdateRatioReplays, RepointReplays
<1> HIDE DEF Rebuilds
<1>2. TypeOK /\ [Next]_vars => [Rebuilds]_vars
  BY <1>1
<1>3. Spec => [][Rebuilds]_vars
  BY <1>2, TypeCorrect, PTL DEF Spec
<1> QED
  BY <1>3 DEF RebuildReplaysEverything, Rebuilds

-----------------------------------------------------------------------------
(* One process: what was read when the write comes is what is there.         *)

ReadsFresh ==
    \A w \in Workers : reading[w] # None => checked[w] = None /\ FreshRead(reading[w])

\* The operations that a process with a pending read or write cannot start,
\* and what they do to the reads of the others.
LEMMA OtherSteps ==
    ASSUME [Next]_vars
    PROVE  \/ Idle /\ (reading' = reading \/ \E gone : reading' = Forget(gone))
           \/ UNCHANGED <<line, reading, checked>>
           \/ \E w \in Workers :
                 \/ \E side \in Tables : \E k \in Lines : ReadUnlinked(w, side, k)
                 \/ \E side \in Tables : ReadUnsynced(w, side)
                 \/ WritePending(w)
                 \/ Free(w) /\ reading' = reading
                 \/ checked[w] # None /\ reading' = reading
<1> DEFINE Quiet == reading' = reading \/ \E gone : reading' = Forget(gone)
<1>1. ASSUME NEW c \in Codes, NEW v \in Products \cup {Ignored}, SetMapping(c, v)
      PROVE  Idle /\ Quiet
  BY <1>1 DEF SetMapping
<1>2. ASSUME NEW side \in Tables, NEW f, NEW removals \in BOOLEAN,
             Import(side, f, removals)
      PROVE  Idle /\ Quiet
  <2>1. Idle /\ reading' = Forget({k \in Lines : \/ Replaced(f, k) /\ line[k] # None
                                                \/ Removed(side, f, removals, k)})
    BY <1>2 DEF Import
  <2> QED
    BY <2>1
<1>3. ASSUME NEW p \in Products, NEW u \in Units, NEW r \in Ratios,
             AddCatalogueRatio(p, u, r) \/ UpdateRatio(p, u, r)
      PROVE  Idle /\ Quiet
  BY <1>3 DEF AddCatalogueRatio, UpdateRatio
<1>4. ASSUME NEW p \in Products, NEW u \in Units, Dismiss(p, u)
      PROVE  Idle /\ Quiet
  <2>1. Idle /\ reading' = Forget(Waiting(p, u))
    BY <1>4 DEF Dismiss
  <2> QED
    BY <2>1
<1>5. ASSUME NEW c \in Codes, NEW s \in Scopes, NEW p \in Products,
             NEW preserve \in BOOLEAN, Repoint(c, s, p, preserve)
      PROVE  Idle /\ Quiet
  BY <1>5 DEF Repoint
<1>6. ASSUME NEW p \in Products, NEW level \in Levels, SetStock(p, level)
      PROVE  Idle /\ Quiet
  BY <1>6 DEF SetStock
<1>7. ASSUME NEW k \in Lines, NEW u \in Units, NEW mode \in {"hold", "move"},
             Apply(k, u, mode)
      PROVE  Idle /\ Quiet
  BY <1>7 DEF Apply
<1>8. ASSUME NEW k \in Lines, Cancel(k) PROVE Idle /\ Quiet
  BY <1>8 DEF Cancel
<1>9. ASSUME NEW p \in Products, NEW u \in Units, DropRatio(p, u)
      PROVE  UNCHANGED <<line, reading, checked>>
  BY <1>9 DEF DropRatio
<1>10. ASSUME NEW w \in Workers, NEW p \in Products, NEW u \in Units, NEW r \in Ratios,
              NEW resync \in BOOLEAN, CheckRatio(w, p, u, r, resync)
       PROVE  Free(w) /\ reading' = reading
  BY <1>10 DEF CheckRatio
<1>11. ASSUME NEW w \in Workers, WriteRatio(w)
       PROVE  checked[w] # None /\ reading' = reading
  BY <1>11 DEF WriteRatio
<1>12. UNCHANGED vars => UNCHANGED <<line, reading, checked>>
  BY DEF vars
<1>13. ASSUME NEW d, ApplyReconcileFlag(d) PROVE Idle /\ Quiet
  <2>1. Idle /\ reading' = Forget(DocumentLines(d))
    BY <1>13 DEF ApplyReconcileFlag
  <2> QED
    BY <2>1
<1> HIDE DEF Quiet
<1>14. \/ Idle /\ Quiet
       \/ UNCHANGED <<line, reading, checked>>
       \/ \E w \in Workers :
             \/ \E side \in Tables : \E k \in Lines : ReadUnlinked(w, side, k)
             \/ \E side \in Tables : ReadUnsynced(w, side)
             \/ WritePending(w)
             \/ Free(w) /\ reading' = reading
             \/ checked[w] # None /\ reading' = reading
  BY <1>1, <1>2, <1>3, <1>4, <1>5, <1>6, <1>7, <1>8, <1>9, <1>10, <1>11, <1>12,
     <1>13
     DEF Next
<1> QED
  BY <1>14 DEF Quiet

\* Between its read and its write the only process does nothing else, and
\* a script that deletes a ratio changes no line.
LEMMA ReadsStayFresh ==
    ASSUME NEW w0, Workers = {w0}, TypeOK, ReadsFresh, [Next]_vars
    PROVE  ReadsFresh'
<1>1. CASE reading[w0] # None
  <2>1. ~Idle
    BY <1>1 DEF Idle, Free
  <2>2. checked[w0] = None /\ FreshRead(reading[w0])
    BY <1>1 DEF ReadsFresh
  <2>3. CASE WritePending(w0)
    <3>1. reading'[w0] = None
      BY <2>3 DEF WritePending, TypeOK
    <3> QED
      BY <3>1 DEF ReadsFresh
  <2>4. CASE ~WritePending(w0)
    <3>1. \A w \in Workers : ~Free(w) /\ checked[w] = None /\ ~WritePending(w)
      BY <1>1, <2>2, <2>4 DEF Free
    <3>2. \A w \in Workers, side \in Tables :
             ~ReadUnsynced(w, side) /\ \A k \in Lines : ~ReadUnlinked(w, side, k)
      BY <3>1 DEF Resolving, ReadUnlinked, ReadUnsynced
    <3>3. UNCHANGED <<line, reading, checked>>
      BY <2>1, <3>1, <3>2, OtherSteps
    <3> QED
      BY <2>2, <3>3 DEF ReadsFresh, FreshRead
  <2> QED
    BY <2>3, <2>4
<1>2. CASE reading[w0] = None
  <2>1. CASE reading'[w0] = None
    BY <2>1 DEF ReadsFresh
  <2>2. CASE reading'[w0] # None
    <3>1. \/ \E side \in Tables : \E k \in Lines : ReadUnlinked(w0, side, k)
          \/ \E side \in Tables : ReadUnsynced(w0, side)
      <4>1. \A w \in Workers : ~WritePending(w)
        BY <1>2 DEF WritePending
      <4>2. reading' # reading /\ \A gone : reading' # Forget(gone)
        BY <1>2, <2>2 DEF Forget
      <4> QED
        BY <4>1, <4>2, OtherSteps
    <3>2. ASSUME NEW side \in Tables, NEW k \in Lines, ReadUnlinked(w0, side, k)
          PROVE  ReadsFresh'
      <4>1. reading'[w0] =
               [side |-> side, first |-> k, to |-> MapRow(Code[k], line[k].unit),
                rows |-> RowsRead(Linkable(side)), alive |-> Lines]
        BY <3>2 DEF ReadUnlinked, TypeOK
      <4>2. FreshRead(reading[w0])'
        BY <3>2, <4>1, SentinelsAreNew
           DEF ReadUnlinked, FreshRead, RowsRead, Linkable, Unlinked
      <4>3. checked'[w0] = None
        BY <3>2 DEF ReadUnlinked, Resolving, Free
      <4> QED
        BY <4>2, <4>3 DEF ReadsFresh
    <3>3. ASSUME NEW side \in Tables, ReadUnsynced(w0, side)
          PROVE  ReadsFresh'
      <4> DEFINE K == {k \in TableLines(side) :
                         line[k] # None /\ line[k].product # None /\ ~line[k].synced}
      <4>1. reading'[w0] = [side |-> side, first |-> None, to |-> None,
                            rows |-> RowsRead(K), alive |-> Lines]
        BY <3>3 DEF ReadUnsynced, TypeOK
      <4>2. FreshRead(reading[w0])'
        BY <3>3, <4>1 DEF ReadUnsynced, FreshRead, RowsRead, TableLines
      <4>3. checked'[w0] = None
        BY <3>3 DEF ReadUnsynced, Resolving, Free
      <4> QED
        BY <4>2, <4>3 DEF ReadsFresh
    <3> QED
      BY <3>1, <3>2, <3>3
  <2> QED
    BY <2>1, <2>2
<1> QED
  BY <1>1, <1>2

\* The inductive invariant of the system with one process.
IInv == TypeOK /\ LedgerMatchesLines /\ ReadsFresh

LEMMA SingleProcessStep ==
    ASSUME NEW w0, Workers = {w0}, IInv, [Next]_vars
    PROVE  IInv'
<1>1. TypeOK'
  BY StepKeeps DEF IInv
<1>2. ReadsFresh'
  BY ReadsStayFresh DEF IInv
<1>3. LedgerMatchesLines'
  <2>1. CASE \E w \in Workers : WritePending(w)
    <3>1. PICK w \in Workers : WritePending(w)
      BY <2>1
    <3>2. FreshRead(reading[w])
      BY <3>1 DEF WritePending, IInv, ReadsFresh
    <3> QED
      BY <3>1, <3>2, WritePendingMatches DEF IInv
  <2>2. CASE \A w \in Workers : ~WritePending(w)
    BY <2>2, StepKeeps DEF IInv, Kept
  <2> QED
    BY <2>1, <2>2
<1> QED
  BY <1>1, <1>2, <1>3 DEF IInv

\* With one process, in every reachable state a bill line that counts as
\* synced has exactly one ledger row, on its own product, and nothing else has
\* any.  With two processes this is false: see the run TwoProcesses.
THEOREM LedgerAlwaysMatches ==
    ASSUME NEW w0, Workers = {w0}
    PROVE  Spec => []LedgerMatchesLines
<1>1. Init => IInv
  BY InitHolds DEF IInv, ReadsFresh, Init
<1>2. IInv /\ [Next]_vars => IInv'
  BY SingleProcessStep
<1>3. IInv => LedgerMatchesLines
  BY DEF IInv
<1> QED
  BY <1>1, <1>2, <1>3, PTL DEF Spec

-----------------------------------------------------------------------------
(* Which steps take a bill line away.                                        *)

\* Neither half of a rebuild loses a line.
LEMMA RebuildLosesNoLine ==
    ASSUME NEW ln \in LineMap, NEW rat, NEW S, NEW P, NEW k \in Lines, ln[k] # None
    PROVE  SyncLines(ln, rat, S)[k] # None /\ Reset(ln, S, P)[k] # None
<1>1. ln[k] \in Line
  BY DEF LineMap
<1>2. [ln[k] EXCEPT !.synced = TRUE] \in Line /\ [ln[k] EXCEPT !.synced = FALSE] \in Line
  BY <1>1 DEF Line
<1>3. [ln[k] EXCEPT !.synced = TRUE] # None /\ [ln[k] EXCEPT !.synced = FALSE] # None
  BY <1>2, SentinelsAreNew
<1> QED
  BY <1>3 DEF SyncLines, Reset

\* Nor does a rebuild of the products P from lines that are all there.
LEMMA RebuiltLosesNoLine ==
    ASSUME NEW ln \in LineMap, NEW rat, NEW P, NEW k \in Lines, ln[k] # None,
           TypeOK
    PROVE  Rebuilt(ln, rat, P)[k] # None
<1> DEFINE reset == Reset(ln, Lines, P)
<1>1. reset \in LineMap
  <2>1. posted \in PostedMap
    BY DEF TypeOK, PostedMap
  <2> QED
    BY <2>1, WipeKeeps
<1>2. reset[k] # None
  BY RebuildLosesNoLine
<1> HIDE DEF reset
<1>3. SyncLines(reset, rat, On(ln, P))[k] # None
  BY <1>1, <1>2, RebuildLosesNoLine
<1> QED
  BY <1>3 DEF reset, Rebuilt

LEMMA RepointLosesNoLine ==
    ASSUME TypeOK, NEW c \in Codes, NEW s \in Scopes, NEW p \in Products,
           NEW preserve \in BOOLEAN, Repoint(c, s, p, preserve),
           NEW k \in Lines, line[k] # None
    PROVE  line'[k] # None
<1> DEFINE moved == Moved(c, s, p)
<1>1. line \in LineMap
  BY DEF TypeOK, LineMap
<1>2. ASSUME NEW j \in Lines
      PROVE  moved[j] \in Line \cup {None} /\ (line[j] # None => moved[j] # None)
  <2>1. CASE j \in CodeLines(c, s)
    <3>1. line[j] \in Line
      BY <1>1, <2>1 DEF CodeLines, LineMap
    <3>2. [line[j] EXCEPT !.product = p, !.synced = FALSE] \in Line
      BY <3>1 DEF Line
    <3>3. moved[j] = [line[j] EXCEPT !.product = p, !.synced = FALSE]
      BY <2>1 DEF Moved
    <3> QED
      BY <3>2, <3>3, SentinelsAreNew
  <2>2. CASE j \notin CodeLines(c, s)
    BY <1>1, <2>2 DEF Moved, LineMap
  <2> QED
    BY <2>1, <2>2
<1>3. moved = [j \in Lines |-> moved[j]]
  BY DEF Moved
<1> HIDE DEF moved
<1>4. moved \in LineMap
  BY <1>2, <1>3 DEF LineMap
<1>5. Rebuilt(moved, ratio, RepointProducts(c, s, p))[k] # None
  BY <1>2, <1>4, RebuiltLosesNoLine
<1> QED
  BY <1>5 DEF Repoint, moved

LEMMA WritePendingLosesNoLine ==
    ASSUME TypeOK, NEW w \in Workers, WritePending(w), NEW k \in Lines, line[k] # None
    PROVE  line'[k] # None
<1> DEFINE rd == reading[w]
<1>1. rd \in PendingRead
  BY DEF WritePending, TypeOK
<1>2. line[k] \in Line
  BY DEF TypeOK
<1>3. Link(rd, k) \in Products \cup {None}
  BY <1>1, <1>2 DEF Link, PendingRead, Line
<1>4. [line[k] EXCEPT !.product = Link(rd, k)] \in Line
  BY <1>2, <1>3 DEF Line
<1>5. LinkedLines(rd)[k] \in Line
  BY <1>2, <1>4 DEF LinkedLines
<1>6. \/ line'[k] = LinkedLines(rd)[k]
      \/ line'[k] = [LinkedLines(rd)[k] EXCEPT !.synced = TRUE]
  BY DEF WritePending
<1>7. [LinkedLines(rd)[k] EXCEPT !.synced = TRUE] \in Line
  BY <1>5 DEF Line
<1> QED
  BY <1>5, <1>6, <1>7, SentinelsAreNew

\* A correction and its cancelling rewrite the unit of one line.
LEMMA CorrectionsLoseNoLine ==
    ASSUME TypeOK, NEW k \in Lines, line[k] # None
    PROVE  /\ \A j \in Lines, u \in Units, mode \in {"hold", "move"} :
                 Apply(j, u, mode) => line'[k] # None
           /\ \A j \in Lines : Cancel(j) => line'[k] # None
<1>1. line[k] \in Line
  BY DEF TypeOK
<1>2. ASSUME NEW u \in Units
      PROVE  [line[k] EXCEPT !.unit = u] \in Line /\ [line[k] EXCEPT !.unit = u] # None
  <2>1. [line[k] EXCEPT !.unit = u] \in Line
    BY <1>1 DEF Line
  <2> QED
    BY <2>1, SentinelsAreNew
<1>3. ASSUME NEW j \in Lines, NEW u \in Units, NEW mode \in {"hold", "move"},
             Apply(j, u, mode)
      PROVE  line'[k] # None
  <2>1. line' = [line EXCEPT ![j].unit = u]
    BY <1>3 DEF Apply
  <2> QED
    BY <1>2, <2>1 DEF TypeOK
<1>4. ASSUME NEW j \in Lines, Cancel(j) PROVE line'[k] # None
  <2>1. line' = [line EXCEPT ![j].unit = corr[j].express]
    BY <1>4 DEF Cancel
  <2>2. corr[j].express \in Units
    BY <1>4 DEF Cancel, CanCancel, TypeOK, Correction
  <2> QED
    BY <1>2, <2>1, <2>2 DEF TypeOK
<1> QED
  BY <1>3, <1>4

\* Every other step than an import, a dismissal and an applied flag.
LEMMA LinesStay ==
    ASSUME TypeOK, [Next]_vars, NEW k \in Lines, line[k] # None, line'[k] = None
    PROVE  \/ ImportStep
           \/ \E p \in Products, u \in Units : Dismiss(p, u)
           \/ \E d \in {DocBase[j] : j \in Lines} : ApplyReconcileFlag(d)
<1>1. line \in LineMap
  BY DEF TypeOK, LineMap
<1>2. \A w \in Workers : ~WritePending(w) /\ ~WriteRatio(w)
  <2>1. ASSUME NEW w \in Workers, WriteRatio(w) PROVE FALSE
    <3>1. line' = line \/ line' = SyncLines(line, ratio', Lines)
      BY <2>1 DEF WriteRatio
    <3> QED
      BY <1>1, <3>1, RebuildLosesNoLine
  <2> QED
    BY <2>1, WritePendingLosesNoLine
<1>3. \A p \in Products, u \in Units, r \in Ratios : ~UpdateRatio(p, u, r)
  <2>1. ASSUME NEW p \in Products, NEW u \in Units, NEW r \in Ratios, UpdateRatio(p, u, r)
        PROVE  FALSE
    <3>1. \E rat : line' = Rebuilt(line, rat, {p})
      BY <2>1 DEF UpdateRatio
    <3> QED
      BY <1>1, <3>1, RebuiltLosesNoLine
  <2> QED
    BY <2>1
<1>4. \A c \in Codes, s \in Scopes, p \in Products, preserve \in BOOLEAN :
         ~Repoint(c, s, p, preserve)
  BY RepointLosesNoLine
<1>5. /\ \A j \in Lines, u \in Units, mode \in {"hold", "move"} : ~Apply(j, u, mode)
      /\ \A j \in Lines : ~Cancel(j)
  BY CorrectionsLoseNoLine
<1>6. line' # line
  OBVIOUS
<1>7. /\ \A c \in Codes, v \in Products \cup {Ignored} : ~SetMapping(c, v)
      /\ \A w \in Workers, side \in Tables :
            ~ReadUnsynced(w, side) /\ \A j \in Lines : ~ReadUnlinked(w, side, j)
  BY <1>6 DEF SetMapping, ReadUnsynced, ReadUnlinked
<1>8. /\ \A w \in Workers, p \in Products, u \in Units, r \in Ratios, resync \in BOOLEAN :
            ~CheckRatio(w, p, u, r, resync)
      /\ \A p \in Products, u \in Units, r \in Ratios : ~AddCatalogueRatio(p, u, r)
      /\ \A p \in Products, u \in Units : ~DropRatio(p, u)
      /\ \A p \in Products, level \in Levels : ~SetStock(p, level)
      /\ ~UNCHANGED vars
  BY <1>6 DEF CheckRatio, AddCatalogueRatio, DropRatio, SetStock, vars
<1> QED
  BY <1>2, <1>3, <1>4, <1>5, <1>7, <1>8 DEF Next, ImportStep

\* An applied flag leaves nothing of its document: no line, no ledger row
\* under its numbers and no active correction.
LEMMA FlagDeletesDocument ==
    ASSUME TypeOK, LedgerMatchesLines, NEW d, ApplyReconcileFlag(d), NEW k \in Lines,
           line[k] # None, line'[k] = None
    PROVE  Side[k] = "sales" /\ DocumentDeleted(DocBase[k])
<1> DEFINE K == DocumentLines(d)
<1>1. /\ line' = [j \in Lines |-> IF j \in K THEN None ELSE line[j]]
      /\ posted' = WipePosted(posted, K, Products)
      /\ \A j \in Active : DocBase[j] # d
  BY DEF ApplyReconcileFlag, BlockedDocument
<1>2. k \in K
  BY <1>1
<1>3. Side[k] = "sales" /\ DocBase[k] = d
  BY <1>2 DEF DocumentLines, TableLines
<1>4. ASSUME NEW j \in TableLines("sales"), DocBase[j] = d
      PROVE  /\ line'[j] = None /\ corr[j] = None
             /\ \A p \in Products : posted'[j][p] = NoRows
  <2>1. j \in Lines /\ corr[j] = None
    BY <1>1, <1>4 DEF TableLines, Active
  <2>2. CASE line[j] = None
    <3>1. j \notin K
      BY <2>2 DEF DocumentLines
    <3>2. line'[j] = None /\ \A p \in Products : posted'[j][p] = posted[j][p]
      BY <1>1, <2>1, <2>2, <3>1 DEF WipePosted
    <3>3. ASSUME NEW p \in Products PROVE posted[j][p] = NoRows
      <4>1. posted[j][p] \in [n : Nat, q : Int]
        BY <2>1 DEF TypeOK
      <4>2. posted[j][p].n = 0 /\ posted[j][p].q = 0
        BY <2>1, <2>2 DEF LedgerMatchesLines, Matches
      <4> QED
        BY <4>1, <4>2 DEF NoRows
    <3> QED
      BY <2>1, <3>2, <3>3
  <2>3. CASE line[j] # None
    <3>1. j \in K
      BY <1>4, <2>3 DEF DocumentLines
    <3>2. line'[j] = None /\ \A p \in Products : posted'[j][p] = NoRows
      BY <1>1, <2>1, <3>1 DEF WipePosted
    <3> QED
      BY <2>1, <3>2
  <2> QED
    BY <2>2, <2>3
<1> QED
  BY <1>3, <1>4 DEF DocumentDeleted

\* With one process, a stored line disappears only by an import, with its whole
\* pending group, or with its whole document and all that the document posted.
THEOREM LinesNeverVanishAlone ==
    ASSUME NEW w0, Workers = {w0}
    PROVE  Spec => LinesVanishWhole
<1> DEFINE Vanishes(k) == ImportStep \/ GroupDismissed(k)
                          \/ (Side[k] = "sales" /\ DocumentDeleted(DocBase[k]))
           Whole == \A k \in Lines : line[k] # None /\ line'[k] = None => Vanishes(k)
<1>1. TypeOK /\ LedgerMatchesLines /\ [Next]_vars => [Whole]_vars
  <2> SUFFICES ASSUME TypeOK, LedgerMatchesLines, [Next]_vars,
                      NEW k \in Lines, line[k] # None, line'[k] = None
               PROVE  Vanishes(k)
    OBVIOUS
  <2>1. ASSUME NEW p \in Products, NEW u \in Units, Dismiss(p, u)
        PROVE  GroupDismissed(k)
    <3>1. k \in Waiting(p, u)
      BY <2>1 DEF Dismiss
    <3>2. line[k].product = p /\ line[k].unit = u /\ ~line[k].synced
      BY <3>1 DEF Waiting, On
    <3>3. \A j \in Waiting(p, u) : Code[j] \notin NonStock /\ line'[j] = None
      BY <2>1 DEF Dismiss, Waiting, On
    <3> QED
      BY <3>2, <3>3 DEF GroupDismissed
  <2>2. ASSUME NEW d, ApplyReconcileFlag(d)
        PROVE  Side[k] = "sales" /\ DocumentDeleted(DocBase[k])
    BY <2>2, FlagDeletesDocument
  <2> QED
    BY <2>1, <2>2, LinesStay
<1>2. Spec => []TypeOK
  BY TypeCorrect
<1>3. Spec => []LedgerMatchesLines
  BY LedgerAlwaysMatches
<1>4. [Whole]_vars => [\A k \in Lines : line[k] # None /\ line'[k] = None =>
          \/ ImportStep
          \/ GroupDismissed(k)
          \/ Side[k] = "sales" /\ DocumentDeleted(DocBase[k])]_vars
  OBVIOUS
<1> QED
  BY <1>1, <1>2, <1>3, <1>4, PTL DEF Spec, LinesVanishWhole

-----------------------------------------------------------------------------
(* The same file once more.                                                  *)

\* The three sentinels of a mapping row are told apart.
LEMMA SentinelsDiffer == None # Ignored /\ None # NoRow /\ Ignored # NoRow
<1>1. ASSUME NEW x, NEW y PROVE Cardinality({x} \cup {y}) # 3
  <2>1. IsFiniteSet({x}) /\ Cardinality({x}) = 1
    BY FS_Singleton
  <2>2. Cardinality({x} \cup {y}) = IF y \in {x} THEN Cardinality({x}) ELSE Cardinality({x}) + 1
    BY <2>1, FS_AddElement
  <2> QED
    BY <2>1, <2>2
<1>2. ASSUME NEW x, NEW y, {None, Ignored, NoRow} = {x} \cup {y} PROVE FALSE
  BY <1>1, <1>2, SentinelsAreNew
<1>3. None = Ignored => {None, Ignored, NoRow} = {None} \cup {NoRow}
  OBVIOUS
<1>4. None = NoRow => {None, Ignored, NoRow} = {None} \cup {Ignored}
  OBVIOUS
<1>5. Ignored = NoRow => {None, Ignored, NoRow} = {None} \cup {Ignored}
  OBVIOUS
<1> QED
  BY <1>2, <1>3, <1>4, <1>5

LineOf(p, u, q, m, b) ==
    [product |-> p, unit |-> u, qty |-> q, money |-> m, synced |-> b]

Flagged(ln, b) == [ln EXCEPT !.synced = b]

\* Setting the flag of a line changes nothing else of it.
LEMMA FlagSet ==
    ASSUME NEW p, NEW u, NEW q, NEW m, NEW b, NEW c
    PROVE  /\ Flagged(LineOf(p, u, q, m, b), c) = LineOf(p, u, q, m, c)
           /\ LineOf(p, u, q, m, b).product = p /\ LineOf(p, u, q, m, b).unit = u
           /\ LineOf(p, u, q, m, b).qty = q /\ LineOf(p, u, q, m, b).money = m
BY DEF LineOf, Flagged

\* What an import leaves of a line: the file's version if it replaced it,
\* nothing if it removed it, and else what was there, but for the flag.
Says(ln, p, u, q, m) ==
    ln # None /\ ln.product = p /\ ln.unit = u /\ ln.qty = q /\ ln.money = m

LEMMA ImportedLine ==
    ASSUME TypeOK, NEW side \in Tables, NEW f \in Files(side), NEW removals \in BOOLEAN,
           Import(side, f, removals), NEW k \in Lines
    PROVE  /\ Replaced(f, k) =>
                 Says(line'[k], Linked(f, k), f[k].unit, f[k].qty, f[k].money)
           /\ ~Replaced(f, k) /\ (Removed(side, f, removals, k) \/ line[k] = None) =>
                 line'[k] = None
           /\ ~Replaced(f, k) /\ ~Removed(side, f, removals, k) /\ line[k] # None =>
                 Says(line'[k], line[k].product, line[k].unit, line[k].qty, line[k].money)
<1> DEFINE P == Affected(side, f, removals)
           S == TableLines(side)
           diffed == LinesAfterDiff(side, f, removals)
           reset == Reset(diffed, S, P)
<1>1. line'[k] = IF P = {} THEN diffed[k] ELSE SyncLines(reset, ratio, S)[k]
  BY DEF Import
<1>2. diffed[k] = IF Replaced(f, k)
                  THEN LineOf(Linked(f, k), f[k].unit, f[k].qty, f[k].money, FALSE)
                  ELSE IF Removed(side, f, removals, k) THEN None ELSE line[k]
  BY DEF LinesAfterDiff, LineOf
<1>3. reset[k] = IF k \in S /\ diffed[k] # None /\ diffed[k].product \in P
                 THEN Flagged(diffed[k], FALSE) ELSE diffed[k]
  BY DEF Reset, Flagged
<1> HIDE DEF reset, diffed, P, S
<1>4. SyncLines(reset, ratio, S)[k]
        = IF Posts(reset, ratio, S, k) THEN Flagged(reset[k], TRUE) ELSE reset[k]
  BY DEF SyncLines, Flagged
<1>5. Posts(reset, ratio, S, k) => reset[k] # None
  BY DEF Posts
<1>6. ASSUME NEW p \in Products \cup {None}, NEW u \in Units, NEW q \in Qtys,
             NEW m \in Moneys, NEW c \in BOOLEAN, diffed[k] = LineOf(p, u, q, m, c)
      PROVE  Says(line'[k], p, u, q, m)
  <2> DEFINE d(b) == LineOf(p, u, q, m, b)
  <2>1. \A a, b : Flagged(d(a), b) = d(b)
    BY FlagSet
  <2>2. \A b : d(b).product = p /\ d(b).unit = u /\ d(b).qty = q /\ d(b).money = m
    BY FlagSet
  <2>3. \A b \in BOOLEAN : d(b) # None
    BY SentinelsAreNew DEF Line, LineOf
  <2>4. diffed[k] = d(c)
    BY <1>6
  <2> HIDE DEF d
  <2>5. \E b \in BOOLEAN : reset[k] = d(b)
    BY <1>3, <2>1, <2>4
  <2>6. \E b \in BOOLEAN : line'[k] = d(b)
    BY <1>1, <1>4, <2>1, <2>4, <2>5
  <2> QED
    BY <2>2, <2>3, <2>6 DEF Says
<1>7. diffed[k] = None => line'[k] = None
  <2>1. diffed[k] = None => reset[k] = None
    BY <1>3
  <2> QED
    BY <1>1, <1>4, <1>5, <2>1
<1>8. CASE Replaced(f, k)
  <2>1. f[k] \in Entry /\ Linked(f, k) \in Products \cup {None}
    BY <1>8 DEF Replaced, Considered, Files, Linked, TypeOK, Line
  <2>2. f[k].unit \in Units /\ f[k].qty \in Qtys /\ f[k].money \in Moneys
    BY <2>1 DEF Entry
  <2> QED
    BY <1>2, <1>6, <1>8, <2>1, <2>2
<1>9. CASE ~Replaced(f, k) /\ ~Removed(side, f, removals, k) /\ line[k] # None
  <2>1. line[k] \in Line
    BY <1>9 DEF TypeOK
  <2>2. line[k] = LineOf(line[k].product, line[k].unit, line[k].qty,
                         line[k].money, line[k].synced)
    BY <2>1 DEF Line, LineOf
  <2>3. /\ line[k].product \in Products \cup {None} /\ line[k].unit \in Units
        /\ line[k].qty \in Qtys /\ line[k].money \in Moneys /\ line[k].synced \in BOOLEAN
    BY <2>1 DEF Line
  <2>4. diffed[k] = line[k]
    BY <1>2, <1>9
  <2> QED
    BY <1>6, <1>9, <2>2, <2>3, <2>4
<1>10. CASE ~Replaced(f, k) /\ (Removed(side, f, removals, k) \/ line[k] = None)
  <2>1. diffed[k] = None
    BY <1>2, <1>10
  <2> QED
    BY <1>7, <1>10, <2>1
<1> QED
  BY <1>8, <1>9, <1>10

\* Registering a code as unmapped maps and ignores nothing.
LEMMA ImportMapsNothing ==
    ASSUME TypeOK, NEW side \in Tables, NEW f \in Files(side), NEW removals \in BOOLEAN,
           Import(side, f, removals), NEW c \in Codes, NEW u \in Units
    PROVE  /\ MapRow(c, u)' = Ignored <=> MapRow(c, u) = Ignored
           /\ MapRow(c, u)' \in Products <=> MapRow(c, u) \in Products
           /\ MapRow(c, u) \in Products => MapRow(c, u)' = MapRow(c, u)
<1>1. AnyUnit \in Scopes /\ u # AnyUnit
  BY ConstantTypes, SentinelsAreNew
<1>2. mapping[c] \in [Scopes -> Products \cup {None, Ignored, NoRow}]
  BY DEF TypeOK
<1>3. CASE NewCode(f, c)
  <2>1. mapping[c][AnyUnit] = NoRow
    BY <1>3, <1>1 DEF NewCode, MapRow
  <2>2. mapping'[c] = [mapping[c] EXCEPT ![AnyUnit] = None]
    BY <1>3 DEF Import
  <2>3. mapping'[c][AnyUnit] = None /\ \A s \in Scopes : s # AnyUnit => mapping'[c][s] = mapping[c][s]
    BY <1>1, <1>2, <2>2
  <2> QED
    BY <1>1, <2>1, <2>3, SentinelsDiffer, SentinelsAreNew DEF MapRow
<1>4. CASE ~NewCode(f, c)
  <2>1. mapping'[c] = mapping[c]
    BY <1>4 DEF Import
  <2> QED
    BY <2>1 DEF MapRow
<1> QED
  BY <1>3, <1>4

\* After the import the same file finds every line it carries as it says, or
\* held by a correction that it knows, and no line left to remove.
LEMMA ReimportFindsNothing ==
    ASSUME TypeOK, NEW side \in Tables, NEW f \in Files(side), NEW removals \in BOOLEAN,
           Import(side, f, removals)
    PROVE  /\ \A k \in Lines : ~Replaced(f, k)' /\ ~Removed(side, f, removals, k)'
           /\ Affected(side, f, removals)' = {}
<1>1. PICK K \in (SUBSET TableLines(side)) \ {{}} : f \in [K -> Entry]
  BY DEF Files
<1>2. ASSUME NEW k \in Lines, k \in DOMAIN f
      PROVE  /\ Considered(f, k)' <=> Considered(f, k)
             /\ MapRow(Code[k], f[k].unit)' \in Products <=> MapRow(Code[k], f[k].unit) \in Products
             /\ MapRow(Code[k], f[k].unit) \in Products =>
                   MapRow(Code[k], f[k].unit)' = MapRow(Code[k], f[k].unit)
             /\ ~Removed(side, f, removals, k)
  <2>1. f[k].unit \in Units /\ Code[k] \in Codes
    BY <1>1, <1>2, ConstantTypes DEF Entry
  <2> QED
    BY <1>2, <2>1, ImportMapsNothing DEF Considered, Skipped, Removed, Missing
<1>3. ASSUME NEW k \in Lines, Considered(f, k), line'[k] # None,
             line'[k].product = Linked(f, k)
      PROVE  Linked(f, k)' = Linked(f, k)
  BY <1>2, <1>3 DEF Linked, Considered
<1>4. ASSUME NEW k \in Lines, Keeps(f, k)
      PROVE  Keeps(f, k)'
  <2>1. /\ Considered(f, k) /\ corr[k] # None /\ line[k] # None /\ ~Replaced(f, k)
        /\ line[k].unit = corr[k].corrected /\ line[k].product = corr[k].product
    BY <1>4 DEF Keeps, StillCorrected, Replaced
  <2>2. k \in DOMAIN f /\ ~Removed(side, f, removals, k) /\ Considered(f, k)'
    BY <1>2, <2>1 DEF Considered
  <2>3. corr'[k] = corr[k]
    BY <1>4, <2>2 DEF Import, Retired, Overrules, Agrees
  <2>4. Says(line'[k], line[k].product, line[k].unit, line[k].qty, line[k].money)
    BY <2>1, <2>2, ImportedLine
  <2>5. Linked(f, k) = corr[k].product
    BY <1>4 DEF Keeps, SameButUnit
  <2>6. Linked(f, k)' = corr[k].product
    BY <1>3, <2>1, <2>4, <2>5 DEF Says
  <2> QED
    BY <1>4, <2>1, <2>2, <2>3, <2>4, <2>6 DEF Keeps, StillCorrected, SameButUnit, Says
<1>5. ASSUME NEW k \in Lines PROVE ~Replaced(f, k)'
  <2>1. SUFFICES ASSUME Considered(f, k), k \in DOMAIN f, ~Keeps(f, k)
                 PROVE  Unchanged(f, k)'
    BY <1>2, <1>4 DEF Replaced, Considered
  <2>2. CASE Replaced(f, k)
    <3>1. Says(line'[k], Linked(f, k), f[k].unit, f[k].qty, f[k].money)
      BY <2>2, ImportedLine
    <3> QED
      BY <1>3, <2>1, <3>1 DEF Unchanged, Says
  <2>3. CASE ~Replaced(f, k)
    <3>1. Unchanged(f, k) /\ ~Removed(side, f, removals, k)
      BY <1>2, <2>1, <2>3 DEF Replaced
    <3>2. Says(line'[k], line[k].product, line[k].unit, line[k].qty, line[k].money)
      BY <2>3, <3>1, ImportedLine DEF Unchanged
    <3> QED
      BY <1>3, <2>1, <3>1, <3>2 DEF Unchanged, Says
  <2> QED
    BY <2>2, <2>3
<1>6. ASSUME NEW k \in Lines PROVE ~Removed(side, f, removals, k)'
  <2>1. SUFFICES ASSUME Removed(side, f, removals, k)' PROVE FALSE
    OBVIOUS
  <2>2. removals /\ Side[k] = side /\ line'[k] # None /\ k \notin DOMAIN f
        /\ \E j \in DOMAIN f : DocBase[j] = DocBase[k]
    BY <2>1 DEF Removed, Missing
  <2>3. ~Replaced(f, k)
    BY <2>2 DEF Replaced, Considered
  <2>4. Removed(side, f, removals, k) \/ line[k] = None
    BY <2>2 DEF Removed, Missing
  <2> QED
    BY <2>2, <2>3, <2>4, ImportedLine
<1>7. ASSUME NEW k \in Lines PROVE ~Retired(side, f, removals, k)'
  <2>1. SUFFICES ASSUME Overrules(f, k)' PROVE FALSE
    BY <1>6 DEF Retired
  <2>2. Considered(f, k)' /\ corr'[k] # None /\ ~Keeps(f, k)'
    BY <2>1 DEF Overrules
  <2>3. k \in DOMAIN f /\ Considered(f, k)
    BY <1>2, <2>2 DEF Considered
  <2>4. corr[k] # None /\ ~Overrules(f, k) /\ ~Agrees(f, k)
    BY <2>2 DEF Import, Retired
  <2> QED
    BY <1>4, <2>2, <2>3, <2>4 DEF Overrules
<1>8. Affected(side, f, removals)' = {}
  BY <1>5, <1>6, <1>7 DEF Affected, TableLines
<1> QED
  BY <1>5, <1>6, <1>8

\* "Re-uploading an identical line is a true no-op": any number of processes,
\* whatever corrections were kept, agreed with or overruled the first time.
THEOREM ReimportsAreNoOps == Spec => ReimportIsNoOp
<1> DEFINE A == line' # line =>
         \A side \in Tables, removals \in BOOLEAN : \A f \in Files(side) :
            Import(side, f, removals) =>
              /\ \A k \in Lines : ~Replaced(f, k)' /\ ~Removed(side, f, removals, k)'
              /\ Affected(side, f, removals)' = {}
<1>1. TypeOK => A
  BY ReimportFindsNothing
<1>2. Spec => []TypeOK
  BY TypeCorrect
<1> QED
  BY <1>1, <1>2, PTL DEF ReimportIsNoOp
=============================================================================
