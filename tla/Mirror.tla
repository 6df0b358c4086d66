-------------------------------- MODULE Mirror --------------------------------
(***************************************************************************)
(* The mirror of marketplace stock: platform_skus.stock of each listing,   *)
(* set by the platform's own files or by hand, and moved in between by     *)
(* imported orders, whose effect is recorded in platform_stock_deductions  *)
(* so that a cancelled order gives back exactly what it took.              *)
(*                                                                         *)
(* import_marketplace_orders holds the write lock from BEGIN IMMEDIATE to  *)
(* its commit and applies its file order by order: BeginImport takes the   *)
(* lock, each ApplyOrder handles the next order, the last one commits.     *)
(* update_platform_sku reads the old figure before it has the lock:        *)
(* ReadFigure, then SaveFigure.  Every other action is one transaction.    *)
(***************************************************************************)
EXTENDS Integers, Sequences, FiniteSets, Functions

CONSTANTS
    Orders,      \* orders of the platforms whose orders deduct
    OrderDate,   \* [Orders -> Times]: order_date, padded to seconds
    Listings,    \* listings that an order line can name without ambiguity
    Qtys,        \* units of one listing that one order may carry
    Figures,     \* stock figures that a file or an operator may state
    Times,       \* the clock
    Workers,     \* gunicorn processes
    MaxFile,     \* bound: orders in one file
    None

\* What a file says of an order: is it still active (its status is not one of
\* RESTOCK_STATUSES), its date if readable, and its resolved units.
Row == [order : Orders, active : BOOLEAN, date : Times \cup {None},
        units : [Listings -> Qtys]]
Edit == [listing : Listings, typed : Figures \cup {None}, before : Nat \cup {None}]

ASSUME MirrorConstants ==
    /\ IsFiniteSet(Orders)
    /\ Times \subseteq Nat
    /\ OrderDate \in [Orders -> Times]
    /\ Qtys \subseteq Nat
    /\ Figures \subseteq Nat
    /\ MaxFile \in Nat
    /\ None \notin Nat
    /\ None \notin Edit

VARIABLES
    now,      \* the clock that datetime('now') reads
    stock,    \* stock[l]: platform_skus.stock, None when NULL
    asof,     \* asof[l]: stock_as_of or else imported_at, None without a row
    units,    \* units[o][l]: platform_stock_deductions, 0 when there is no row
    date,     \* date[o]: marketplace_orders.order_date, None if unreadable
    file,     \* file[w]: the orders that w has still to apply under its lock
    edit,     \* edit[w]: a saved form whose old figure w has read
    figure,   \* history: the last figure stated by a file or by hand
    imported  \* history: the last order file, <<>> after any other write

vars == <<now, stock, asof, units, date, file, edit, figure, imported>>

Locked == \E w \in Workers : file[w] # <<>>
Free(w) == file[w] = <<>> /\ edit[w] = None
Idle == \E w \in Workers : Free(w)

TypeOK ==
    /\ now \in Times
    /\ stock \in [Listings -> Nat \cup {None}]
    /\ asof \in [Listings -> Times \cup {None}]
    /\ units \in [Orders -> [Listings -> Nat]]
    /\ date \in [Orders -> Times \cup {None}]
    /\ file \in [Workers -> Seq(Row)]
    /\ edit \in [Workers -> Edit \cup {None}]
    /\ figure \in [Listings -> Nat \cup {None}]
    /\ imported \in Seq(Row)

Init ==
    /\ now \in Times
    /\ stock = [l \in Listings |-> None]
    /\ asof = [l \in Listings |-> None]
    /\ units = [o \in Orders |-> [l \in Listings |-> 0]]
    /\ date = [o \in Orders |-> None]
    /\ file = [w \in Workers |-> <<>>]
    /\ edit = [w \in Workers |-> None]
    /\ figure = [l \in Listings |-> None]
    /\ imported = <<>>

\* What each order took from listing l, by its record.
Records(l) == [o \in Orders |-> units[o][l]]

\* Time passes between requests.
Tick ==
    /\ now + 1 \in Times
    /\ now' = now + 1
    /\ UNCHANGED <<stock, asof, units, date, file, edit, figure, imported>>

-----------------------------------------------------------------------------
(* import_platform_skus: a Seller Center file states the stock, as of its    *)
(* export, of the listings in its domain.                                    *)

Later(d, t) == d # None /\ d > t

\* Mutant: keep what was recorded at the very moment of the export as well.
KeptAtExport(o, ts) == date[o] # None /\ date[o] >= ts

\* The file was exported before the order, so its figures do not include it.
Kept(o, ts) == Later(date[o], ts)

Stated(f, l) == l \in DOMAIN f

\* Mutant: re-apply every kept order to the figure as the file stated it.
RoomWithoutOthers(f, ts, rank, o, l) == f[l]

\* What is left of the fresh figure when the re-apply comes to order o.
Room(f, ts, rank, o, l) ==
    f[l] - SumFunctionOnSet(Records(l), {x \in Orders : Kept(x, ts) /\ rank[x] < rank[o]})

\* _supersede_deduction_provenance on one recorded order
Reapplied(f, ts, rank, o, l) ==
    IF ~Kept(o, ts) \/ f[l] = None THEN 0
    ELSE IF units[o][l] <= Room(f, ts, rank, o, l) THEN units[o][l]
    ELSE IF Room(f, ts, rank, o, l) \in Nat THEN Room(f, ts, rank, o, l) ELSE 0

\* Mutant: re-apply below zero.
StockLeftUnclamped(f, ts, l) ==
    f[l] - SumFunctionOnSet(Records(l), {x \in Orders : Kept(x, ts)})

StockLeft(f, ts, l) ==
    LET left == f[l] - SumFunctionOnSet(Records(l), {x \in Orders : Kept(x, ts)})
    IN  IF left \in Nat THEN left ELSE 0

\* f: the figures of the file; rank: the order its SELECT meets the records in
ImportListings(f, ts, rank) ==
    /\ Idle /\ ~Locked
    /\ ts <= now
    /\ stock' = [l \in Listings |->
                    IF ~Stated(f, l) THEN stock[l]
                    ELSE IF f[l] = None THEN None ELSE StockLeft(f, ts, l)]
    /\ asof' = [l \in Listings |-> IF Stated(f, l) THEN ts ELSE asof[l]]
    /\ units' = [o \in Orders |-> [l \in Listings |->
                    IF Stated(f, l) THEN Reapplied(f, ts, rank, o, l) ELSE units[o][l]]]
    /\ figure' = [l \in Listings |-> IF Stated(f, l) THEN f[l] ELSE figure[l]]
    /\ imported' = <<>>
    /\ UNCHANGED <<now, date, file, edit>>

-----------------------------------------------------------------------------
(* import_marketplace_orders and _apply_order_stock_effect.                  *)

\* An order of a listing counts when it is later than the figure.
Gated(r, l) == asof[l] = None \/ ~Later(r.date, asof[l])

\* wanted[listing]: the units this order should have taken
Wanted(r, l) == IF r.active /\ ~Gated(r, l) THEN r.units[l] ELSE 0

\* Mutant: ask for all the units again, without those already taken.
TakenAgain(r, l) ==
    LET delta == Wanted(r, l)
    IN  IF stock[l] = None THEN 0
        ELSE IF delta <= stock[l] THEN delta ELSE stock[l]

\* The units that move now, negative for a credit: a deduction stops at zero
\* stock, a credit does not, and a listing without a figure takes nothing.
Taken(r, l) ==
    LET delta == Wanted(r, l) - units[r.order][l]
    IN  IF delta <= 0 THEN delta
        ELSE IF stock[l] = None THEN 0
        ELSE IF delta <= stock[l] THEN delta ELSE stock[l]

Recorded(r, l) == units[r.order][l] + Taken(r, l)

\* Each order once, with the date the platform gave it, or an unreadable one.
Files ==
    UNION {{f \in [1..n -> Row] :
              /\ IsInjective([i \in 1..n |-> f[i].order])
              /\ \A i \in 1..n : f[i].date \in {OrderDate[f[i].order], None}}
           : n \in 1..MaxFile}

BeginImport(w, f) ==
    /\ Free(w) /\ ~Locked
    /\ \A i \in DOMAIN f : OrderDate[f[i].order] <= now
    /\ file' = [file EXCEPT ![w] = f]
    /\ imported' = f
    /\ UNCHANGED <<now, stock, asof, units, date, edit, figure>>

ApplyOrder(w) ==
    /\ file[w] # <<>>
    /\ LET r == Head(file[w])
       IN  /\ date' = [date EXCEPT ![r.order] = r.date]
           /\ stock' = [l \in Listings |->
                          IF stock[l] = None THEN None ELSE stock[l] - Taken(r, l)]
           /\ units' = [units EXCEPT ![r.order] = [l \in Listings |-> Recorded(r, l)]]
    /\ file' = [file EXCEPT ![w] = Tail(@)]
    /\ UNCHANGED <<now, asof, edit, figure, imported>>

-----------------------------------------------------------------------------
(* update_platform_sku: the edit form of a listing.                          *)

ReadFigure(w, l, typed) ==
    /\ Free(w) /\ ~Locked
    /\ asof[l] # None
    /\ edit' = [edit EXCEPT ![w] = [listing |-> l, typed |-> typed, before |-> stock[l]]]
    /\ UNCHANGED <<now, stock, asof, units, date, file, figure, imported>>

\* The typed figure supersedes the records only when it moved the old one.
SaveFigure(w) ==
    LET l == edit[w].listing
        typed == edit[w].typed
        moved == edit[w].before # typed
    IN  /\ edit[w] # None /\ ~Locked
        /\ stock' = [stock EXCEPT ![l] = typed]
        /\ asof' = IF moved THEN [asof EXCEPT ![l] = now] ELSE asof
        /\ units' = IF moved THEN [o \in Orders |-> [units[o] EXCEPT ![l] = 0]] ELSE units
        /\ figure' = IF moved THEN [figure EXCEPT ![l] = typed] ELSE figure
        /\ edit' = [edit EXCEPT ![w] = None]
        /\ imported' = <<>>
        /\ UNCHANGED <<now, date, file>>

-----------------------------------------------------------------------------
Next ==
    \/ Tick
    \/ \E K \in SUBSET Listings : \E f \in [K -> Figures \cup {None}] :
          \E ts \in Times, rank \in Injection(Orders, 1..Cardinality(Orders)) :
             ImportListings(f, ts, rank)
    \/ \E w \in Workers : \E f \in Files : BeginImport(w, f)
    \/ \E w \in Workers : ApplyOrder(w)
    \/ \E w \in Workers, l \in Listings, typed \in Figures \cup {None} :
          ReadFigure(w, l, typed)
    \/ \E w \in Workers : SaveFigure(w)

Spec == Init /\ [][Next]_vars

-----------------------------------------------------------------------------
\* The stock shown for a listing is the last authoritative figure less what
\* the recorded orders took from it, whatever was clamped, re-applied or given
\* back since; a listing without a figure has no record to give back.
StockIsFigureLessRecords ==
    \A l \in Listings :
        /\ stock[l] = None <=> figure[l] = None
        /\ stock[l] = None => \A o \in Orders : units[o][l] = 0
        /\ stock[l] # None =>
              stock[l] = figure[l] - SumFunction(Records(l))

\* A record is kept only for an order later than the listing's figure: the
\* figure does not include it, so giving it back cannot invent stock.
RecordsAreLive ==
    \A o \in Orders, l \in Listings :
        units[o][l] # 0 => asof[l] # None /\ Later(date[o], asof[l])

\* "Idempotent by construction": the order just applied, applied once more,
\* would take and give back nothing.
ReapplyIsNoOp ==
    [][\A w \in Workers : ApplyOrder(w) =>
          \A r \in {Head(file[w])}, l \in Listings : Taken(r, l)' = 0]_vars

\* The same of a whole file.  The code does not keep this: an order clamped
\* early in the file could take units that a later order of it gives back.
ReimportIsNoOp ==
    ~Locked => \A i \in DOMAIN imported :
                  \A l \in Listings : Taken(imported[i], l) = 0
=============================================================================
