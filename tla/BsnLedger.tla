------------------------------ MODULE BsnLedger ------------------------------
(***************************************************************************)
(* Bill lines copied from Express, and the stock ledger posted from them.  *)
(*                                                                         *)
(* A line lives in sales_transactions or purchase_transactions.  Once it   *)
(* names a product and its unit has a ratio, _sync_bsn_to_stock posts one  *)
(* ledger row for it in `transactions` and sets synced_to_stock.  Every    *)
(* writer that changes a line, a mapping or a ratio deletes ledger rows by *)
(* product and posts them again; this module is about whether those two    *)
(* halves stay together.                                                   *)
(*                                                                         *)
(* One action is one SQLite write transaction, except where the code reads *)
(* before it takes the write lock: CheckRatio then WriteRatio, and         *)
(* ReadUnlinked or ReadUnsynced then WritePending.                         *)
(***************************************************************************)
EXTENDS Integers, FiniteSets, Functions

CONSTANTS
    Lines,       \* line keys: (doc_no, bsn_code), and line_seq for a purchase
    Side,        \* [Lines -> {"sales", "purchase"}]: the table of the line
    DocNo,       \* [Lines -> documents as printed, with the "-N" suffix]
    DocBase,     \* [Lines -> documents without the suffix]
    Code,        \* [Lines -> Codes]
    Returned,    \* the lines of SR and GR documents (credit notes)
    Codes,       \* BSN product codes
    NonStock,    \* codes that bill a service: money, never goods
    Products,
    Units,       \* unit words, already normalised
    Base,        \* [Products -> Units]: products.unit_type
    Qtys,        \* quantities a line may carry
    Moneys,      \* (unit_price, net) pairs a line may carry
    Ratios,      \* ratios an operator may type
    Hazards,     \* <<product, unit, ratio>> that cross_unit_hazard blocks
    Scopes,      \* bsn_unit values of mapping rows, AnyUnit among them
    AnyUnit,     \* the blank bsn_unit: the catch-all row of a code
    Levels,      \* stock counts an operator may enter
    ScriptDrops, \* <<product, unit>> whose ratio a maintenance script deletes
    Workers,     \* gunicorn processes
    MaxActive,   \* bound: corrections active at once
    MaxAdjust,   \* bound: size of the adjustments kept per product
    None, Ignored, NoRow

Tables == {"sales", "purchase"}

Line == [product : Products \cup {None}, unit : Units, qty : Qtys,
         money : Moneys, synced : BOOLEAN]
Entry == [unit : Units, qty : Qtys, money : Moneys]
Correction == [product : Products, express : Units, corrected : Units,
               qty : Qtys, money : Moneys, mode : {"hold", "move"},
               offset : Int]
RatioWrite == [product : Products, unit : Units, ratio : Ratios,
               resync : BOOLEAN]
PendingRead == [side : Tables, first : Lines \cup {None},
                to : Products \cup {None}, rows : [Lines -> Line \cup {None}],
                alive : SUBSET Lines]

ASSUME ConstantTypes ==
    /\ IsFiniteSet(Lines)
    /\ Side \in [Lines -> Tables]
    /\ Code \in [Lines -> Codes]
    /\ Base \in [Products -> Units]
    /\ Qtys \subseteq Nat
    /\ Ratios \subseteq Nat \ {0}
    /\ MaxAdjust \in Nat
    /\ MaxActive \in Nat
    /\ AnyUnit \in Scopes
    /\ Scopes \subseteq Units \cup {AnyUnit}
ASSUME SentinelsAreNew ==
    /\ None \notin Products
    /\ None \notin Line
    /\ None \notin Correction
    /\ None \notin RatioWrite
    /\ None \notin PendingRead
    /\ None \notin Lines
    /\ Ignored \notin Products
    /\ NoRow \notin Products
    /\ Cardinality({None, Ignored, NoRow}) = 3
    /\ AnyUnit \notin Units

VARIABLES
    line,     \* line[k]: the stored bill line, None when there is none
    posted,   \* posted[k][p]: ledger rows on p that line k put there
    offsets,  \* offsets[k][p]: sum of the hold offsets of line k kept on p
    adjust,   \* adjust[p]: sum of every other ledger row of p
    ratio,    \* ratio[p][u]: unit_conversions, 0 when there is no row
    mapping,  \* mapping[c][s]: the product_code_mapping row of c for scope s
    corr,     \* corr[k]: the active unit correction of line k
    checked,  \* checked[w]: a ratio write that passed its unlocked checks
    reading   \* reading[w]: pending rows that worker w read without the lock

vars == <<line, posted, offsets, adjust, ratio, mapping, corr, checked, reading>>

-----------------------------------------------------------------------------
(* The ledger of one product.  posted[k][p] = [n, q] stands for n rows with  *)
(* total quantity q; stock_levels is the sum that the triggers maintain.     *)

NoRows == [n |-> 0, q |-> 0]

Stock(p) == adjust[p] + SumFunction([k \in Lines |-> posted[k][p].q + offsets[k][p]])

AdjustRange == (-MaxAdjust) .. MaxAdjust

\* A purchase raises stock and a sale lowers it; a credit note does the reverse.
Sign(k) == IF (Side[k] = "purchase") = (k \notin Returned) THEN 1 ELSE -1

RatioOf(rat, p, u) == IF u = Base[p] THEN 1 ELSE rat[p][u]

Effect(rat, k, p, u, qty) == Sign(k) * (qty * RatioOf(rat, p, u))

(* _sync_bsn_to_stock over the lines of S, given lines ln and ratios rat.    *)
Posts(ln, rat, S, k) ==
    /\ k \in S
    /\ ln[k] # None
    /\ ln[k].product # None
    /\ ~ln[k].synced
    /\ Code[k] \notin NonStock
    /\ RatioOf(rat, ln[k].product, ln[k].unit) # 0

SyncLines(ln, rat, S) ==
    [k \in Lines |->
        IF Posts(ln, rat, S, k) THEN [ln[k] EXCEPT !.synced = TRUE] ELSE ln[k]]

SyncPosted(post, ln, rat, S) ==
    [k \in Lines |-> [p \in Products |->
        IF Posts(ln, rat, S, k) /\ ln[k].product = p /\ ln[k].qty > 0
        THEN [n |-> post[k][p].n + 1,
              q |-> post[k][p].q + Effect(rat, k, p, ln[k].unit, ln[k].qty)]
        ELSE post[k][p]]]

(* The first half of every rebuild: delete what the lines of S posted on the *)
(* products P, and reset synced_to_stock of the lines of S now on P.         *)
WipePosted(post, S, P) ==
    [k \in Lines |-> [p \in Products |->
        IF k \in S /\ p \in P THEN NoRows ELSE post[k][p]]]

\* Mutant: the flags of both tables are reset, the rows of one deleted.
ResetBothTables(ln, S, P) ==
    [k \in Lines |->
        IF ln[k] # None /\ ln[k].product \in P
        THEN [ln[k] EXCEPT !.synced = FALSE] ELSE ln[k]]

Reset(ln, S, P) ==
    [k \in Lines |->
        IF k \in S /\ ln[k] # None /\ ln[k].product \in P
        THEN [ln[k] EXCEPT !.synced = FALSE] ELSE ln[k]]

TableLines(side) == {k \in Lines : Side[k] = side}

On(ln, P) == {k \in Lines : ln[k] # None /\ ln[k].product \in P}

-----------------------------------------------------------------------------
(* Corrections that refuse other writers: line_unit_correction.blocking.     *)

Active == {k \in Lines : corr[k] # None}


\* Mutant: the writers of a product do not ask.
NeverBlocked(P) == FALSE

BlockedProducts(P) == \E k \in Active : corr[k].product \in P
BlockedCode(c) == \E k \in Active : Code[k] = c

\* A process between its unlocked read and its write serves nothing else.
Free(w) == checked[w] = None /\ reading[w] = None
Idle == \E w \in Workers : Free(w)

\* Lines deleted or replaced by others are no longer the rows that were read.
Forget(gone) ==
    [w \in Workers |-> IF reading[w] = None THEN None
                       ELSE [reading[w] EXCEPT !.alive = @ \ gone]]

-----------------------------------------------------------------------------
TypeOK ==
    /\ line \in [Lines -> Line \cup {None}]
    /\ posted \in [Lines -> [Products -> [n : Nat, q : Int]]]
    /\ offsets \in [Lines -> [Products -> Int]]
    /\ adjust \in [Products -> Int]
    /\ ratio \in [Products -> [Units -> Ratios \cup {0}]]
    /\ mapping \in [Codes -> [Scopes -> Products \cup {None, Ignored, NoRow}]]
    /\ corr \in [Lines -> Correction \cup {None}]
    /\ checked \in [Workers -> RatioWrite \cup {None}]
    /\ reading \in [Workers -> PendingRead \cup {None}]

Init ==
    /\ line = [k \in Lines |-> None]
    /\ posted = [k \in Lines |-> [p \in Products |-> NoRows]]
    /\ offsets = [k \in Lines |-> [p \in Products |-> 0]]
    /\ adjust = [p \in Products |-> 0]
    /\ ratio = [p \in Products |-> [u \in Units |-> 0]]
    /\ mapping = [c \in Codes |-> [s \in Scopes |-> NoRow]]
    /\ corr = [k \in Lines |-> None]
    /\ checked = [w \in Workers |-> None]
    /\ reading = [w \in Workers |-> None]

-----------------------------------------------------------------------------
(* Mapping.  _resolve_mapping prefers the row of the line's own unit and     *)
(* falls back on the catch-all row.                                          *)

MapRow(c, u) ==
    IF u \in Scopes /\ mapping[c][u] # NoRow THEN mapping[c][u] ELSE mapping[c][AnyUnit]

\* upsert_mapping from the mapping page: map a code, or ignore it
SetMapping(c, v) ==
    /\ Idle
    /\ v \in Products \cup {Ignored}
    /\ v = Ignored => c \notin NonStock
    /\ mapping' = [mapping EXCEPT ![c][AnyUnit] = v]
    /\ UNCHANGED <<line, posted, offsets, adjust, ratio, corr, checked, reading>>

(* resolve_pending_mappings: for each table, link the unlinked lines, then    *)
(* sync.  Nothing is written, so nothing is locked, until the first line that *)
(* can be linked or posted; what was read until then may be stale at the      *)
(* write.  The lines after that one are resolved and posted under the lock.   *)

Unlinked(side) == {k \in TableLines(side) : line[k] # None /\ line[k].product = None}

Linkable(side) == {k \in Unlinked(side) : MapRow(Code[k], line[k].unit) \in Products}

Postable(side) == {k \in TableLines(side) : Posts(line, ratio, Lines, k)}

NothingPending(side) == Linkable(side) = {} /\ Postable(side) = {}

RowsRead(K) == [k \in Lines |-> IF k \in K THEN line[k] ELSE None]

Resolving(w, side) == Free(w) /\ (side = "purchase" => NothingPending("sales"))

ReadUnlinked(w, side, k) ==
    /\ Resolving(w, side)
    /\ k \in Linkable(side)
    /\ reading' = [reading EXCEPT ![w] =
                    [side |-> side, first |-> k, to |-> MapRow(Code[k], line[k].unit),
                     rows |-> RowsRead(Linkable(side)), alive |-> Lines]]
    /\ UNCHANGED <<line, posted, offsets, adjust, ratio, mapping, corr, checked>>

ReadUnsynced(w, side) ==
    /\ Resolving(w, side)
    /\ Linkable(side) = {} /\ Postable(side) # {}
    /\ reading' = [reading EXCEPT ![w] =
                    [side |-> side, first |-> None, to |-> None,
                     rows |-> RowsRead({k \in TableLines(side) :
                                line[k] # None /\ line[k].product # None /\ ~line[k].synced}),
                     alive |-> Lines]]
    /\ UNCHANGED <<line, posted, offsets, adjust, ratio, mapping, corr, checked>>

\* The product a line is linked to; a row that was read is linked blindly.
Link(rd, k) ==
    IF k = rd.first THEN rd.to
    ELSE IF MapRow(Code[k], line[k].unit) \in Products
         THEN MapRow(Code[k], line[k].unit) ELSE line[k].product

ToLink(rd) ==
    {k \in rd.alive : line[k] # None /\ rd.first # None /\ rd.rows[k] # None}
    \cup (IF rd.side = "sales" THEN Unlinked("purchase") ELSE {})

LinkedLines(rd) ==
    [k \in Lines |->
        IF k \in ToLink(rd) THEN [line[k] EXCEPT !.product = Link(rd, k)] ELSE line[k]]

\* Without a link the first table is synced from the rows read without lock.
Stale(rd, k) == rd.first = None /\ Side[k] = rd.side

SyncedFrom(rd) ==
    [k \in Lines |-> IF Stale(rd, k) THEN rd.rows[k] ELSE LinkedLines(rd)[k]]

Synced(rd) == IF rd.side = "sales" THEN Lines ELSE TableLines("purchase")

WritePending(w) ==
    LET rd == reading[w]
    IN  /\ rd # None
        /\ posted' = SyncPosted(posted, SyncedFrom(rd), ratio, Synced(rd))
        /\ line' = [k \in Lines |->
                      IF /\ Posts(SyncedFrom(rd), ratio, Synced(rd), k)
                         /\ line[k] # None
                         /\ Stale(rd, k) => k \in rd.alive
                      THEN [LinkedLines(rd)[k] EXCEPT !.synced = TRUE]
                      ELSE LinkedLines(rd)[k]]
        /\ reading' = [reading EXCEPT ![w] = None]
        /\ UNCHANGED <<offsets, adjust, ratio, mapping, corr, checked>>

-----------------------------------------------------------------------------
(* import_weekly: one file f of one table, a function from the line keys it  *)
(* carries to what Express says of each.                                     *)

Files(side) == UNION {[K -> Entry] : K \in (SUBSET TableLines(side)) \ {{}}}

Skipped(f, k) == MapRow(Code[k], f[k].unit) = Ignored /\ Code[k] \notin NonStock

\* Mutant: link to what the mapping row holds without asking if it is mapped.
LinkedUnchecked(f, k) == MapRow(Code[k], f[k].unit)

\* The product of the incoming line: the mapping's, else the stored link.
Linked(f, k) ==
    LET row == MapRow(Code[k], f[k].unit)
    IN  IF row \in Products THEN row
        ELSE IF line[k] # None THEN line[k].product ELSE None

\* line_unit_correction.verdict for the line's active correction
StillCorrected(k) ==
    line[k] # None /\ line[k].unit = corr[k].corrected /\ line[k].product = corr[k].product

SameButUnit(f, k) ==
    f[k].qty = corr[k].qty /\ f[k].money = corr[k].money /\ Linked(f, k) = corr[k].product

Considered(f, k) == k \in DOMAIN f /\ ~Skipped(f, k)

Keeps(f, k) ==
    /\ Considered(f, k) /\ corr[k] # None
    /\ StillCorrected(k) /\ SameButUnit(f, k) /\ f[k].unit = corr[k].express

Agrees(f, k) ==
    /\ Considered(f, k) /\ corr[k] # None /\ ~Keeps(f, k)
    /\ StillCorrected(k) /\ SameButUnit(f, k) /\ f[k].unit = corr[k].corrected

Overrules(f, k) ==
    Considered(f, k) /\ corr[k] # None /\ ~Keeps(f, k) /\ ~Agrees(f, k)

\* Mutant: compare the product with SQL's =, for which NULL never equals NULL.
UnchangedSqlEqual(f, k) ==
    /\ line[k] # None
    /\ line[k].unit = f[k].unit /\ line[k].qty = f[k].qty /\ line[k].money = f[k].money
    /\ line[k].product # None /\ line[k].product = Linked(f, k)

\* bsn_line.field_diff finds nothing: qty, unit, price, net and product agree
Unchanged(f, k) ==
    /\ line[k] # None
    /\ line[k].unit = f[k].unit /\ line[k].qty = f[k].qty /\ line[k].money = f[k].money
    /\ line[k].product = Linked(f, k)

Replaced(f, k) == Considered(f, k) /\ ~Keeps(f, k) /\ ~Unchanged(f, k)

\* _detect_removed_lines: a stored line of a document the file mentions
Missing(side, f, k) ==
    /\ Side[k] = side /\ line[k] # None /\ k \notin DOMAIN f
    /\ \E j \in DOMAIN f : DocBase[j] = DocBase[k]

Removed(side, f, removals, k) == removals /\ Missing(side, f, k)

\* Mutant: an agreement also takes the hold offset back.
RetiredOnAgreement(side, f, removals, k) ==
    \/ Overrules(f, k) \/ Agrees(f, k)
    \/ (Removed(side, f, removals, k) /\ corr[k] # None)

Retired(side, f, removals, k) ==
    \/ Overrules(f, k)
    \/ (Removed(side, f, removals, k) /\ corr[k] # None)

\* Mutant: the product a replaced line leaves is not rebuilt.
AffectedByNewLink(side, f, removals) ==
    {p \in Products : \E k \in TableLines(side) :
        \/ Replaced(f, k) /\ Linked(f, k) = p
        \/ Removed(side, f, removals, k) /\ line[k].product = p
        \/ Retired(side, f, removals, k) /\ corr[k].product = p}

\* affected_pids: the products whose ledger pass 2 rebuilds
Affected(side, f, removals) ==
    {p \in Products : \E k \in TableLines(side) :
        \/ Replaced(f, k) /\ Linked(f, k) = p
        \/ Replaced(f, k) /\ line[k] # None /\ line[k].product = p
        \/ Removed(side, f, removals, k) /\ line[k].product = p
        \/ Retired(side, f, removals, k) /\ corr[k].product = p}

LinesAfterDiff(side, f, removals) ==
    [k \in Lines |->
        IF Replaced(f, k)
        THEN [product |-> Linked(f, k), unit |-> f[k].unit, qty |-> f[k].qty,
              money |-> f[k].money, synced |-> FALSE]
        ELSE IF Removed(side, f, removals, k) THEN None ELSE line[k]]

\* A code seen without any mapping row is registered as unmapped.
NewCode(f, c) ==
    \E k \in DOMAIN f :
        Code[k] = c /\ MapRow(c, f[k].unit) = NoRow /\ Linked(f, k) = None

Import(side, f, removals) ==
    /\ Idle
    /\ LET P == Affected(side, f, removals)
           S == TableLines(side)
           diffed == LinesAfterDiff(side, f, removals)
           reset == Reset(diffed, S, P)
           wiped == WipePosted(posted, S, P)
       IN  /\ line' = IF P = {} THEN diffed ELSE SyncLines(reset, ratio, S)
           /\ posted' = IF P = {} THEN posted ELSE SyncPosted(wiped, reset, ratio, S)
    /\ offsets' = [k \in Lines |-> [p \in Products |->
                    IF Retired(side, f, removals, k) /\ corr[k].product = p
                    THEN offsets[k][p] - corr[k].offset ELSE offsets[k][p]]]
    /\ corr' = [k \in Lines |->
                    IF Retired(side, f, removals, k) \/ Agrees(f, k) THEN None ELSE corr[k]]
    /\ mapping' = [c \in Codes |->
                    IF NewCode(f, c)
                    THEN [mapping[c] EXCEPT ![AnyUnit] = None] ELSE mapping[c]]
    /\ reading' = Forget({k \in Lines : \/ Replaced(f, k) /\ line[k] # None
                                        \/ Removed(side, f, removals, k)})
    /\ UNCHANGED <<adjust, ratio, checked>>

-----------------------------------------------------------------------------
(* Ratios.  save_unit_conversions and upsert_unit_conversion run their       *)
(* checks before the first write of their transaction, so without the write  *)
(* lock: another process may commit between CheckRatio and WriteRatio.       *)

SetRatio(p, u, r) == [ratio EXCEPT ![p][u] = r]

CheckRatio(w, p, u, r, resync) ==
    /\ Free(w)
    /\ u # Base[p]
    /\ <<p, u, r>> \notin Hazards
    /\ ratio[p][u] \notin {0, r} => ~BlockedProducts({p})
    /\ checked' = [checked EXCEPT
                    ![w] = [product |-> p, unit |-> u, ratio |-> r, resync |-> resync]]
    /\ UNCHANGED <<line, posted, offsets, adjust, ratio, mapping, corr, reading>>

WriteRatio(w) ==
    /\ checked[w] # None
    /\ ratio' = SetRatio(checked[w].product, checked[w].unit, checked[w].ratio)
    /\ line' = IF checked[w].resync THEN SyncLines(line, ratio', Lines) ELSE line
    /\ posted' = IF checked[w].resync THEN SyncPosted(posted, line, ratio', Lines) ELSE posted
    /\ checked' = [checked EXCEPT ![w] = None]
    /\ UNCHANGED <<offsets, adjust, mapping, corr, reading>>

\* add_catalogue_unit_conversion: a unit no bill is waiting for
AddCatalogueRatio(p, u, r) ==
    /\ Idle
    /\ u # Base[p]
    /\ ratio[p][u] = 0
    /\ \A k \in On(line, {p}) :
          line[k].unit = u /\ ~line[k].synced => Code[k] \in NonStock
    /\ <<p, u, r>> \notin Hazards
    /\ ratio' = SetRatio(p, u, r)
    /\ UNCHANGED <<line, posted, offsets, adjust, mapping, corr, checked, reading>>

\* Delete and replay everything the bills put on the products P, starting
\* from lines ln; refused when a line that had a ledger row would lose it.
Rebuilt(ln, rat, P) == SyncLines(Reset(ln, Lines, P), rat, On(ln, P))

\* Mutant: the replay also posts what waits on other products.
RebuiltPostedEverywhere(ln, rat, P) ==
    SyncPosted(WipePosted(posted, Lines, P), Reset(ln, Lines, P), rat, Lines)

RebuiltPosted(ln, rat, P) ==
    SyncPosted(WipePosted(posted, Lines, P), Reset(ln, Lines, P), rat, On(ln, P))

\* Mutant: the replay is not compared with what was deleted.
NothingLostUnchecked(ln, rat, P) == TRUE

NothingLost(ln, rat, P) ==
    \A k \in On(line, P) : line[k].synced => Rebuilt(ln, rat, P)[k].synced

UpdateRatio(p, u, r) ==
    LET rat == IF ratio[p][u] = 0 THEN ratio ELSE SetRatio(p, u, r)
    IN  /\ Idle
        /\ u # Base[p]
        /\ <<p, u, r>> \notin Hazards
        /\ ~BlockedProducts({p})
        /\ ratio' = rat
        /\ line' = Rebuilt(line, rat, {p})
        /\ posted' = RebuiltPosted(line, rat, {p})
        /\ NothingLost(line, rat, {p})
        /\ UNCHANGED <<offsets, adjust, mapping, corr, checked, reading>>

\* A script under scripts/ deletes a unit_conversions row.
DropRatio(p, u) ==
    /\ <<p, u>> \in ScriptDrops
    /\ ratio[p][u] # 0
    /\ ratio' = SetRatio(p, u, 0)
    /\ UNCHANGED <<line, posted, offsets, adjust, mapping, corr, checked, reading>>

\* dismiss_pending_unit_conversion: delete the lines that wait for (p, u)
Waiting(p, u) == {k \in On(line, {p}) : line[k].unit = u /\ ~line[k].synced}

\* Mutant: drop the goods of the group and leave its billable services.
DismissGoodsOnly(p, u) ==
    /\ Idle
    /\ ~BlockedProducts({p})
    /\ line' = [k \in Lines |->
                  IF k \in Waiting(p, u) /\ Code[k] \notin NonStock THEN None ELSE line[k]]
    /\ reading' = Forget(Waiting(p, u))
    /\ UNCHANGED <<posted, offsets, adjust, ratio, mapping, corr, checked>>

Dismiss(p, u) ==
    /\ Idle
    /\ ~BlockedProducts({p})
    /\ \A k \in Waiting(p, u) : Code[k] \notin NonStock
    /\ line' = [k \in Lines |-> IF k \in Waiting(p, u) THEN None ELSE line[k]]
    /\ reading' = Forget(Waiting(p, u))
    /\ UNCHANGED <<posted, offsets, adjust, ratio, mapping, corr, checked>>

-----------------------------------------------------------------------------
(* repoint_bsn_code: move a code, or one unit of it, with its whole history  *)
(* to product p.  Scope AnyUnit is the call without a unit: the whole code.  *)

CodeLines(c, s) ==
    {k \in Lines : line[k] # None /\ Code[k] = c /\ s \in {AnyUnit, line[k].unit}}

CodeRows(c, s) == {x \in Scopes : mapping[c][x] # NoRow /\ s \in {AnyUnit, x}}

\* Mutant: the products that lines stand on against the mapping are forgotten.
RepointMappedProducts(c, s, p) ==
    {p} \cup {q \in Products : \E x \in CodeRows(c, s) : mapping[c][x] = q}

\* affected: the products that the re-point wipes, replays and compensates
RepointProducts(c, s, p) ==
    {p} \cup {q \in Products : \/ \E x \in CodeRows(c, s) : mapping[c][x] = q
                               \/ \E k \in CodeLines(c, s) : line[k].product = q}

Convertible(c, s, p) ==
    c \in NonStock \/ \A k \in CodeLines(c, s) : RatioOf(ratio, p, line[k].unit) # 0

Moved(c, s, p) ==
    [k \in Lines |-> IF k \in CodeLines(c, s)
                     THEN [line[k] EXCEPT !.product = p, !.synced = FALSE] ELSE line[k]]

\* The adjustments that put the stock levels of the products P, and of no other,
\* back where they were.
Compensated(post, P) ==
    [p \in Products |->
        IF p \in P
        THEN adjust[p] + SumFunction([k \in Lines |-> posted[k][p].q - post[k][p].q])
        ELSE adjust[p]]

Repoint(c, s, p, preserve) ==
    LET P == RepointProducts(c, s, p)
        moved == Moved(c, s, p)
        target == IF CodeRows(c, s) = {} THEN {s} ELSE CodeRows(c, s)
    IN  /\ Idle
        /\ ~BlockedCode(c) /\ ~BlockedProducts(P)
        /\ Convertible(c, s, p)
        /\ mapping' = [mapping EXCEPT ![c] =
                        [x \in Scopes |-> IF x \in target THEN p ELSE @[x]]]
        /\ line' = Rebuilt(moved, ratio, P)
        /\ posted' = RebuiltPosted(moved, ratio, P)
        /\ NothingLost(moved, ratio, P)
        /\ adjust' = IF preserve THEN Compensated(posted', P) ELSE adjust
        /\ adjust' \in [Products -> AdjustRange]
        /\ UNCHANGED <<offsets, ratio, corr, checked, reading>>

-----------------------------------------------------------------------------
\* set_stock_to: one ADJUST row for the difference, read under the write lock
SetStock(p, level) ==
    /\ Idle
    /\ adjust' = [adjust EXCEPT ![p] = @ + (level - Stock(p))]
    /\ adjust' \in [Products -> AdjustRange]
    /\ UNCHANGED <<line, posted, offsets, ratio, mapping, corr, checked, reading>>

-----------------------------------------------------------------------------
(* Unit corrections of one sales line (ADR 0021).                            *)

\* _ledger_row: exactly one sales ledger row for (doc_no, product)
OneLedgerRow(k, p) ==
    /\ posted[k][p].n = 1
    /\ \A j \in TableLines("sales") \ {k} : DocNo[j] = DocNo[k] => posted[j][p].n = 0

NoTwin(k, p) ==
    \A j \in On(line, {p}) : j # k /\ Side[j] = "sales" => DocNo[j] # DocNo[k]

CanCorrect(k, u) ==
    /\ Side[k] = "sales" /\ corr[k] = None
    /\ line[k] # None /\ line[k].product # None /\ line[k].synced
    /\ NoTwin(k, line[k].product)
    /\ u # line[k].unit
    /\ RatioOf(ratio, line[k].product, u) # 0
    /\ OneLedgerRow(k, line[k].product)
    /\ LET p == line[k].product
       IN  /\ RatioOf(ratio, p, line[k].unit) # 0
           /\ posted[k][p].q = Effect(ratio, k, p, line[k].unit, line[k].qty)
           /\ Effect(ratio, k, p, u, line[k].qty) # 0

\* `hold` posts the measured difference, `move` nothing.
Offset(k, p, new, mode) == IF mode = "hold" THEN posted[k][p].q - new ELSE 0

\* The ledger row is rewritten in place.
Apply(k, u, mode) ==
    /\ Idle
    /\ Cardinality(Active) < MaxActive
    /\ CanCorrect(k, u)
    /\ LET p == line[k].product
           new == Effect(ratio, k, p, u, line[k].qty)
           off == Offset(k, p, new, mode)
       IN  /\ offsets[k][p] + off \in AdjustRange
           /\ line' = [line EXCEPT ![k].unit = u]
           /\ posted' = [posted EXCEPT ![k][p].q = new]
           /\ offsets' = [offsets EXCEPT ![k][p] = @ + off]
           /\ corr' = [corr EXCEPT ![k] =
                         [product |-> p, express |-> line[k].unit, corrected |-> u,
                          qty |-> line[k].qty, money |-> line[k].money,
                          mode |-> mode, offset |-> off]]
    /\ UNCHANGED <<adjust, ratio, mapping, checked, reading>>

\* What the restored line posts again, and every refusal of `cancel`
Restored(k) == Effect(ratio, k, corr[k].product, corr[k].express, line[k].qty)

CanCancel(k) ==
    /\ corr[k] # None
    /\ StillCorrected(k)
    /\ RatioOf(ratio, corr[k].product, corr[k].express) # 0
    /\ Restored(k) # 0
    /\ OneLedgerRow(k, corr[k].product)
    /\ corr[k].mode = "hold" =>
          Restored(k) - posted[k][corr[k].product].q = corr[k].offset

Cancel(k) ==
    /\ Idle
    /\ CanCancel(k)
    /\ LET p == corr[k].product
       IN  /\ line' = [line EXCEPT ![k].unit = corr[k].express]
           /\ posted' = [posted EXCEPT ![k][p].q = Restored(k)]
           /\ offsets' = [offsets EXCEPT ![k][p] = @ - corr[k].offset]
           /\ corr' = [corr EXCEPT ![k] = None]
    /\ UNCHANGED <<adjust, ratio, mapping, checked, reading>>

-----------------------------------------------------------------------------
(* apply_reconcile_flag: delete a whole sales document that Express no longer *)
(* has.  The flag's payload must equal the live lines under the write lock,   *)
(* so the step depends only on the lines as they are.                         *)

DocumentLines(d) == {k \in TableLines("sales") : line[k] # None /\ DocBase[k] = d}

\* Mutant: the ledger check alone is trusted, which cannot see an offset.
DocumentNeverBlocked(d) == FALSE

BlockedDocument(d) == \E k \in Active : DocBase[k] = d

\* _ledger_check for one line: every ledger row under its document number is
\* its own, and is the row that the sync would post for it today.
SoundLedger(k) ==
    /\ line[k].synced =>
          LET p == line[k].product
          IN  /\ OneLedgerRow(k, p)
              /\ Sign(k) * posted[k][p].q > 0
              /\ RatioOf(ratio, p, line[k].unit) # 0 =>
                    posted[k][p].q = Effect(ratio, k, p, line[k].unit, line[k].qty)
    /\ \A j \in Lines, p \in Products : DocNo[j] = DocNo[k] /\ posted[j][p].n > 0 =>
          line[k].synced /\ j = k /\ p = line[k].product

\* Only the rows that the check has found to be the lines' own are deleted.
ApplyReconcileFlag(d) ==
    LET K == DocumentLines(d)
    IN  /\ Idle
        /\ K # {}
        /\ ~BlockedDocument(d)
        /\ \A k \in K : SoundLedger(k)
        /\ line' = [k \in Lines |-> IF k \in K THEN None ELSE line[k]]
        /\ posted' = WipePosted(posted, K, Products)
        /\ reading' = Forget(K)
        /\ UNCHANGED <<offsets, adjust, ratio, mapping, corr, checked>>

-----------------------------------------------------------------------------
Next ==
    \/ \E c \in Codes, v \in Products \cup {Ignored} : SetMapping(c, v)
    \/ \E w \in Workers, side \in Tables : \E k \in Lines : ReadUnlinked(w, side, k)
    \/ \E w \in Workers, side \in Tables : ReadUnsynced(w, side)
    \/ \E w \in Workers : WritePending(w)
    \/ \E side \in Tables, removals \in BOOLEAN :
          \E f \in Files(side) : Import(side, f, removals)
    \/ \E w \in Workers, p \in Products, u \in Units, r \in Ratios, resync \in BOOLEAN :
          CheckRatio(w, p, u, r, resync)
    \/ \E w \in Workers : WriteRatio(w)
    \/ \E p \in Products, u \in Units, r \in Ratios : AddCatalogueRatio(p, u, r)
    \/ \E p \in Products, u \in Units, r \in Ratios : UpdateRatio(p, u, r)
    \/ \E p \in Products, u \in Units : DropRatio(p, u)
    \/ \E p \in Products, u \in Units : Dismiss(p, u)
    \/ \E c \in Codes, s \in Scopes, p \in Products, preserve \in BOOLEAN :
          Repoint(c, s, p, preserve)
    \/ \E p \in Products, level \in Levels : SetStock(p, level)
    \/ \E k \in Lines, u \in Units, mode \in {"hold", "move"} : Apply(k, u, mode)
    \/ \E k \in Lines : Cancel(k)
    \/ \E d \in {DocBase[k] : k \in Lines} : ApplyReconcileFlag(d)

Spec == Init /\ [][Next]_vars

-----------------------------------------------------------------------------
(* Properties of the ledger.                                                 *)

\* Exactly one ledger row for a line that counts as synced, on its own
\* product, and none for any other line or on any other product.  Every writer
\* (import pass 2, ratio rebuild, re-point, sync) deletes rows by product and
\* resets flags by line; a half that reaches further than the other breaks it.
Matches(ln, post) ==
    \A k \in Lines :
        /\ ln[k] # None /\ ln[k].synced =>
              ln[k].product # None /\ Code[k] \notin NonStock
        /\ \A p \in Products :
              /\ post[k][p].n = IF /\ ln[k] # None /\ ln[k].synced
                                   /\ ln[k].product = p /\ ln[k].qty > 0
                                THEN 1 ELSE 0
              /\ post[k][p].n = 0 => post[k][p].q = 0

LedgerMatchesLines == Matches(line, posted)

\* A ratio rebuild or a re-point replays every movement it deleted, at the
\* ratios of the moment: no line that held a ledger row on a rebuilt product
\* comes out without one, whatever scripts did to the ratio table before.
Replayed(P) ==
    \A k \in On(line, P) : line[k].synced =>
        /\ line'[k].synced
        /\ posted'[k][line'[k].product].q =
              Effect(ratio', k, line'[k].product, line'[k].unit, line'[k].qty)

RebuildReplaysEverything ==
    [][/\ \A p \in Products, u \in Units, r \in Ratios :
             UpdateRatio(p, u, r) => Replayed({p})
       /\ \A c \in Codes, s \in Scopes, p \in Products, preserve \in BOOLEAN :
             Repoint(c, s, p, preserve) => Replayed(RepointProducts(c, s, p))]_vars

\* A stored line disappears only when an import says so, when its whole
\* pending group (product, unit) is dismissed, which never includes a line
\* with a ledger row and never happens to a group holding a billable service,
\* or when its whole sales document is deleted with every ledger row under the
\* document's numbers, none of its lines holding a correction or its stock.
ImportStep ==
    \E side \in Tables, removals \in BOOLEAN :
        \E f \in Files(side) : Import(side, f, removals)

GroupDismissed(k) ==
    /\ ~line[k].synced
    /\ \A j \in Waiting(line[k].product, line[k].unit) :
          Code[j] \notin NonStock /\ line'[j] = None

DocumentDeleted(d) ==
    \A j \in TableLines("sales") : DocBase[j] = d =>
        /\ line'[j] = None /\ corr[j] = None
        /\ \A p \in Products : posted'[j][p] = NoRows

LinesVanishWhole ==
    [][\A k \in Lines : line[k] # None /\ line'[k] = None =>
          \/ ImportStep
          \/ GroupDismissed(k)
          \/ Side[k] = "sales" /\ DocumentDeleted(DocBase[k])]_vars

\* Uploading the file just imported once more finds nothing to replace, to
\* remove or to rebuild: "re-uploading an identical line is a true no-op".
ReimportIsNoOp ==
    [][line' # line =>
         \A side \in Tables, removals \in BOOLEAN : \A f \in Files(side) :
            Import(side, f, removals) =>
              /\ \A k \in Lines : ~Replaced(f, k)' /\ ~Removed(side, f, removals, k)'
              /\ Affected(side, f, removals)' = {}]_vars

\* A re-point with preserve_stock takes the movements of a code off the products
\* that its lines stood on, yet no product of the shop changes its stock level:
\* the products that are wiped, replayed and compensated are the same ones, and
\* every product that a line leaves is among them (repoint_bsn_code, affected).
RepointPreservesStock ==
    [][\A c \in Codes, s \in Scopes, p \in Products :
          Repoint(c, s, p, TRUE) =>
             /\ \A k \in CodeLines(c, s) : line[k].product \notin {p, None} =>
                   posted'[k][line[k].product] = NoRows
             /\ \A q \in Products : Stock(q)' = Stock(q)]_vars

\* A ledger row's quantity is the line's quantity at today's ratio.  The code
\* does not keep this: CheckRatio/WriteRatio change a ratio without a rebuild.
LedgerFollowsRatio ==
    \A k \in Lines : line[k] # None /\ line[k].synced /\ line[k].qty > 0 =>
        posted[k][line[k].product].q =
            Effect(ratio, k, line[k].product, line[k].unit, line[k].qty)

-----------------------------------------------------------------------------
(* Properties of unit corrections.                                           *)

\* While a correction is active its line still carries it, on one ledger row,
\* and the ledger still holds what cancelling needs: the operator can always
\* take it back, so the writers that refuse until then are never stuck.
CancelAlwaysPossible ==
    \A k \in Active : line[k] # None /\ line[k].synced /\ CanCancel(k)

\* Holding a correction, cancelling a held one and Express coming to agree
\* with it move no stock level, however many rows they rewrite.
Held(c) == c = None \/ c.mode = "hold"

HoldKeepsStock ==
    [][\A k \in Lines :
          /\ corr[k] # corr'[k] /\ Held(corr[k]) /\ Held(corr'[k])
          /\ line' = line \/ ~ImportStep
          => \A p \in Products : Stock(p)' = Stock(p)]_vars
=============================================================================
