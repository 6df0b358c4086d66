-------------------------------- MODULE Costing --------------------------------
(***************************************************************************)
(* The weighted average cost of the products: the walk over a product's    *)
(* ledger rows that computes it, the conversions that pass cost from       *)
(* inputs to an output, and the recomputation that follows a commit.       *)
(*                                                                         *)
(* A change of the ledger is committed first and the cost is recomputed in *)
(* a second transaction, whose first product is read before the write lock *)
(* is taken.  Another process may commit in between, and a process may be  *)
(* killed in between.  A cost is then stale; the module says which costs   *)
(* can be, and that every other one is current.                            *)
(***************************************************************************)
EXTENDS Integers, Sequences, FiniteSets, FiniteSetsExt, Functions

CONSTANTS
    Products,    \* numbered; a batch is recomputed in this order
    LastLine,    \* bill lines 1..LastLine, numbered in the order of the walk
    ProductOf,   \* [Lines -> Products]: the product that the line's code maps to
    Purchases,   \* the purchase lines; the others are sales
    LastEarly,   \* lines up to this one are dated before the opening balance
    LastPast,    \* and up to this one before the conversions and counts
    Versions,    \* [Lines -> what the bill of the line may say]
    Openings,    \* opening_cost values
    Formulas,    \* active conversion formulas
    Needs,       \* [Formulas -> [Products -> Nat]]: conversion_formula_inputs
    OutputOf,    \* [Formulas -> Products]
    Makes,       \* [Formulas -> quantity]: output_qty times the multiplier
    Losses,      \* writeoff_qty values that may be typed
    Refs,        \* document numbers that an operator may give a run
    Tokens,      \* run_token: one per rendering of the run page
    Levels,      \* stock counts that may be typed
    Workers,     \* gunicorn processes
    MaxMoves,    \* bound: conversions and counts per product
    None

Lines == 1..LastLine

ASSUME CostingConstants ==
    /\ Products \subseteq Nat /\ IsFiniteSet(Products)
    /\ LastLine \in Nat /\ LastEarly \in 0..LastLine /\ LastPast \in 0..LastLine
    /\ ProductOf \in [Lines -> Products]
    /\ Purchases \subseteq Lines
    /\ Versions \in [Lines -> SUBSET [qty : Nat \ {0}, net : Nat]]
    /\ Openings \subseteq Nat
    /\ Needs \in [Formulas -> [Products -> Nat]]
    /\ OutputOf \in [Formulas -> Products]
    /\ Makes \in [Formulas -> Nat \ {0}]
    /\ Losses \subseteq Nat
    /\ Levels \subseteq Int
    /\ MaxMoves \in Nat

\* Conversions and counts are stamped now, and _WACC_INITIAL_DATE is past.
ASSUME OpeningIsPast == LastEarly <= LastPast

\* conversion_pair, where formulas are made, refuses a pack that is its own loose
\* product or packaging.
ASSUME OutputIsNoInput == \A f \in Formulas : Needs[f][OutputOf[f]] = 0

\* A bill line with the ledger row that the sync posted for it (BsnLedger).
Bill == UNION {Versions[k] : k \in Lines}
MayBe(k) == Versions[k] \cup {None}

\* Costs are fractions <<n, d>>.
Cost == Nat \X (Nat \ {0})
Free == <<0, 1>>
Move == [kind : {"made", "used", "counted"}, qty : Int, ref : Refs \cup {None}]
Run == [ref : Refs, cost : Cost, token : Tokens]

ASSUME NoneIsNew == None \notin Bill \cup Cost \cup Refs

VARIABLES
    bill,     \* bill[k]: the line of purchase_ or sales_transactions, or None
    moves,    \* moves[p]: later ledger rows of p, conversions and counts
    log,      \* log[p]: conversion_cost_log rows whose output is p
    opening,  \* products.opening_cost
    ledger,   \* wacc_after of the last product_cost_ledger row, None without one
    price,    \* products.cost_price
    todo,     \* todo[w]: products that worker w has still to recompute
    seen,     \* seen[w]: what the recomputation read first, or None
    rows,     \* rows[w]: the ledger rows it read next, or None
    stale     \* history: products whose cost was left behind

vars == <<bill, moves, log, opening, ledger, price, todo, seen, rows, stale>>
work == <<todo, seen, rows>>

-----------------------------------------------------------------------------
(* The walk of _rebuild_product_wacc                                         *)

OwnLines(p, b) == [k \in Lines |-> IF ProductOf[k] = p THEN b[k] ELSE None]

\* What a rebuild reads: the prices first, then the rows to walk over.
PricesOf(p) == [opening |-> opening[p], bill |-> OwnLines(p, bill), log |-> log[p]]
RowsOf(p) == [bill |-> OwnLines(p, bill), moves |-> moves[p]]

IsZero(c) == c[1] = 0

Average(s, c, q, d) == <<s * c[1] * d[2] + q * d[1] * c[2], c[2] * d[2] * (s + q)>>

\* Mutant: a purchase under negative stock is averaged like any other.
ReceivedUnfrozen(acc, q, c) ==
    [stock |-> acc.stock + q, entries |-> TRUE,
     cost |-> IF IsZero(acc.cost) \/ acc.stock = 0 \/ acc.stock + q = 0 THEN c
              ELSE Average(acc.stock, acc.cost, q, c)]

\* Mutant: with no stock left the carried cost is kept.
ReceivedAtOldCost(acc, q, c) ==
    [stock |-> acc.stock + q, entries |-> TRUE,
     cost |-> IF acc.stock <= 0 /\ ~IsZero(acc.cost) THEN acc.cost
              ELSE IF IsZero(acc.cost) THEN c
              ELSE Average(acc.stock, acc.cost, q, c)]

\* q units come in at unit cost c: frozen under negative stock, taken over when
\* there is no cost or no stock, averaged otherwise.
Received(acc, q, c) ==
    [stock |-> acc.stock + q, entries |-> TRUE,
     cost |-> IF acc.stock < 0 THEN acc.cost
              ELSE IF acc.stock = 0 \/ IsZero(acc.cost) THEN c
              ELSE Average(acc.stock, acc.cost, q, c)]

Uncosted(acc, q) == [acc EXCEPT !.stock = @ + q]

\* The opening balance sets the cost that later rows start from.
Seeded(acc, o) == IF o > 0 THEN [acc EXCEPT !.cost = <<o, 1>>, !.entries = TRUE] ELSE acc

LineStep(acc, k, prices, own) ==
    IF own[k] = None THEN acc
    ELSE IF k \notin Purchases THEN Uncosted(acc, -own[k].qty)
    ELSE IF prices[k] = None \/ prices[k].net = 0 THEN Uncosted(acc, own[k].qty)
    ELSE Received(acc, own[k].qty, <<prices[k].net, own[k].qty>>)

\* The cost of the i-th move, a conversion's output: a document number that
\* several runs share is resolved by position.
MadeAt(ms, i, runs) ==
    LET pos == Cardinality({j \in 1..i : ms[j].kind = "made" /\ ms[j].ref = ms[i].ref})
        Upto(n) == {j \in 1..n : runs[j].ref = ms[i].ref}
        found == {n \in Upto(Len(runs)) : Cardinality(Upto(n)) = pos}
    IN  IF found = {} THEN Free ELSE runs[CHOOSE n \in found : TRUE].cost

MoveStep(acc, i, ms, runs) ==
    IF ms[i].kind = "made" /\ ~IsZero(MadeAt(ms, i, runs))
    THEN Received(acc, ms[i].qty, MadeAt(ms, i, runs))
    ELSE Uncosted(acc, ms[i].qty)

\* Lines, then the moves that were made after them, then the lines dated later.
Walk(ps, rs) ==
    LET start == [stock |-> 0, cost |-> Free, entries |-> FALSE]
        WithMoves(acc) ==
            LET over[i \in 0..Len(rs.moves)] ==
                    IF i = 0 THEN acc ELSE MoveStep(over[i - 1], i, rs.moves, ps.log)
            IN  over[Len(rs.moves)]
        over[k \in 0..LastLine] ==
            LET acc == IF k = 0 THEN start ELSE LineStep(over[k - 1], k, ps.bill, rs.bill)
                seeded == IF k = LastEarly THEN Seeded(acc, ps.opening) ELSE acc
            IN  IF k = LastPast THEN WithMoves(seeded) ELSE seeded
    IN  over[LastLine]

WalkOf(p) == Walk(PricesOf(p), RowsOf(p))
Stock(p) == WalkOf(p).stock

\* The last row of the cost ledger, and the price, after a rebuild.
LedgerFrom(acc) == IF acc.entries THEN acc.cost ELSE None
PriceFrom(acc, old) == IF IsZero(acc.cost) THEN old ELSE acc.cost

-----------------------------------------------------------------------------
TypeOK ==
    /\ bill \in [Lines -> Bill \cup {None}] /\ \A k \in Lines : bill[k] \in MayBe(k)
    /\ moves \in [Products -> Seq(Move)]
    /\ log \in [Products -> Seq(Run)]
    /\ opening \in [Products -> Openings]
    /\ ledger \in [Products -> Cost \cup {None}]
    /\ price \in [Products -> Cost]
    /\ todo \in [Workers -> SUBSET Products]
    /\ \A w \in Workers : todo[w] = {} => seen[w] = None
    /\ \A w \in Workers : seen[w] = None => rows[w] = None
    /\ stale \subseteq Products

Init ==
    /\ bill = [k \in Lines |-> None]
    /\ moves = [p \in Products |-> <<>>]
    /\ log = [p \in Products |-> <<>>]
    /\ opening \in [Products -> Openings]
    /\ ledger = [p \in Products |-> LedgerFrom(WalkOf(p))]
    /\ price = [p \in Products |-> PriceFrom(WalkOf(p), <<opening[p], 1>>)]
    /\ todo = [w \in Workers |-> {}]
    /\ seen = [w \in Workers |-> None]
    /\ rows = [w \in Workers |-> None]
    /\ stale = {}

Idle(w) == todo[w] = {}

\* The products whose lines differ between the stored bills and f.
Affected(f) == {ProductOf[k] : k \in {j \in Lines : f[j] # bill[j]}}

Uploads == {f \in [Lines -> Bill \cup {None}] : \A k \in Lines : f[k] \in MayBe(k)}

-----------------------------------------------------------------------------
(* Commits.  Each takes the write lock before its first read or reads        *)
(* nothing it acts on, so each is one action.                                *)

\* _import_weekly, and a ratio replay: the commit, the rebuild still to come.
Import(w, f) ==
    /\ Idle(w)
    /\ f # bill
    /\ bill' = f
    /\ todo' = [todo EXCEPT ![w] = Affected(f)]
    /\ UNCHANGED <<moves, log, opening, ledger, price, seen, rows, stale>>

\* resolve_pending_mappings posts imported lines of a code that gets its
\* mapping, and recomputes nothing.
MapLine(k, b) ==
    /\ bill[k] = None
    /\ bill' = [bill EXCEPT ![k] = b]
    /\ stale' = stale \cup {ProductOf[k]}
    /\ UNCHANGED <<moves, log, opening, ledger, price, todo, seen, rows>>

\* repoint_bsn_code and a unit correction rebuild the cost in the transaction
\* that moves the line.
Rebuild(k, b) ==
    LET p == ProductOf[k]
        own == OwnLines(p, [bill EXCEPT ![k] = b])
        cost == Walk([opening |-> opening[p], bill |-> own, log |-> log[p]],
                     [bill |-> own, moves |-> moves[p]])
    IN
    /\ bill[k] # b
    /\ bill' = [bill EXCEPT ![k] = b]
    /\ ledger' = [ledger EXCEPT ![p] = LedgerFrom(cost)]
    /\ price' = [price EXCEPT ![p] = PriceFrom(cost, @)]
    /\ stale' = stale \ {p}
    /\ UNCHANGED <<moves, log, opening, todo, seen, rows>>

\* product_edit: the typed basis is the cost until the rebuild.
EditOpening(w, p, o) ==
    /\ Idle(w)
    /\ opening[p] # o
    /\ opening' = [opening EXCEPT ![p] = o]
    /\ price' = [price EXCEPT ![p] = <<o, 1>>]
    /\ todo' = [todo EXCEPT ![w] = {p}]
    /\ UNCHANGED <<bill, moves, log, ledger, seen, rows, stale>>

\* set_stock_to
Count(p, n) ==
    /\ n # Stock(p)
    /\ Len(moves[p]) < MaxMoves
    /\ moves' = [moves EXCEPT ![p] =
            Append(@, [kind |-> "counted", qty |-> n - Stock(p), ref |-> None])]
    /\ stale' = stale \cup {p}
    /\ UNCHANGED <<bill, log, opening, ledger, price, todo, seen, rows>>

\* What a run of f takes: get_current_wacc of each input, rebuilt when the
\* product has no cost ledger yet.
Inputs(f) == {p \in Products : Needs[f][p] > 0}
Bare(f) == {p \in Inputs(f) : ledger[p] = None}
LedgerNow(p) == IF ledger[p] = None THEN LedgerFrom(WalkOf(p)) ELSE ledger[p]
CostNow(p) == IF LedgerNow(p) = None THEN Free ELSE LedgerNow(p)

Plus(c, d) == <<c[1] * d[2] + d[1] * c[2], c[2] * d[2]>>
Total(c) == FoldFunction(Plus, Free, c)
InputCost(f) == Total([p \in Inputs(f) |-> <<Needs[f][p] * CostNow(p)[1], CostNow(p)[2]>>])

\* Mutant: the rows of the output stand uncounted for the recomputation.
InvolvedInputs(f) == Inputs(f)
Involved(f) == Inputs(f) \cup {OutputOf[f]}

UsedTokens == UNION {{log[p][i].token : i \in 1..Len(log[p])} : p \in Products}

\* run_conversion: scrapped units enter no stock, and the cost of the inputs is
\* spread over the good ones.  The log row is written even when none is good.
RunConversion(w, f, loss, ref, t) ==
    LET out == OutputOf[f]
        good == Makes[f] - loss
        cost == InputCost(f)
        used(p) == IF Needs[f][p] = 0 THEN <<>>
                   ELSE <<[kind |-> "used", qty |-> -Needs[f][p], ref |-> ref]>>
        made(p) == IF p # out \/ good = 0 THEN <<>>
                   ELSE <<[kind |-> "made", qty |-> good, ref |-> ref]>>
    IN
    /\ Idle(w)
    /\ t \notin UsedTokens
    /\ good >= 0
    /\ \A p \in Inputs(f) : Needs[f][p] <= Stock(p)
    /\ moves' = [p \in Products |->
            IF p \in Inputs(f) \cup {out} THEN moves[p] \o used(p) \o made(p) ELSE moves[p]]
    /\ \A p \in Products : Len(moves'[p]) <= MaxMoves
    /\ log' = [log EXCEPT ![out] = Append(@,
            [ref |-> ref, token |-> t,
             cost |-> IF good > 0 THEN <<cost[1], cost[2] * good>> ELSE Free])]
    /\ ledger' = [p \in Products |-> IF p \in Bare(f) THEN LedgerNow(p) ELSE ledger[p]]
    /\ price' = [p \in Products |->
            IF p \in Bare(f) THEN PriceFrom(WalkOf(p), price[p]) ELSE price[p]]
    /\ todo' = [todo EXCEPT ![w] = Involved(f)]
    /\ UNCHANGED <<bill, opening, seen, rows, stale>>

-----------------------------------------------------------------------------
(* The rebuild of a batch (recalculate_waccs_for_products)                   *)

\* A page that shows a cost rebuilds it when there is no cost ledger.
Visit(w, p) ==
    /\ Idle(w)
    /\ ledger[p] = None
    /\ todo' = [todo EXCEPT ![w] = {p}]
    /\ UNCHANGED <<bill, moves, log, opening, ledger, price, seen, rows, stale>>

First(w) == Min(todo[w])

ReadPrices(w) ==
    /\ todo[w] # {} /\ seen[w] = None
    /\ seen' = [seen EXCEPT ![w] = PricesOf(First(w))]
    /\ UNCHANGED <<bill, moves, log, opening, ledger, price, todo, rows, stale>>

ReadRows(w) ==
    /\ seen[w] # None /\ rows[w] = None
    /\ rows' = [rows EXCEPT ![w] = RowsOf(First(w))]
    /\ UNCHANGED <<bill, moves, log, opening, ledger, price, todo, seen, stale>>

\* Mutant: the whole batch is rebuilt from the rows of its first product.
RebuiltAlike(w, p) == Walk(seen[w], rows[w])

\* The first product is rebuilt from what was read before the write lock, the
\* others from what they are.
Rebuilt(w, p) == IF p = First(w) THEN Walk(seen[w], rows[w]) ELSE WalkOf(p)

Outrun(w) == seen[w] # PricesOf(First(w)) \/ rows[w] # RowsOf(First(w))

Store(w) ==
    /\ rows[w] # None
    /\ ledger' = [p \in Products |->
            IF p \in todo[w] THEN LedgerFrom(Rebuilt(w, p)) ELSE ledger[p]]
    /\ price' = [p \in Products |->
            IF p \in todo[w] THEN PriceFrom(Rebuilt(w, p), price[p]) ELSE price[p]]
    /\ todo' = [todo EXCEPT ![w] = {}]
    /\ seen' = [seen EXCEPT ![w] = None]
    /\ rows' = [rows EXCEPT ![w] = None]
    /\ stale' = (stale \ todo[w]) \cup (IF Outrun(w) THEN {First(w)} ELSE {})
    /\ UNCHANGED <<bill, moves, log, opening>>

\* The process is killed after its commit, or preflight_batch refuses the
\* batch (WaccIdentityError): nothing comes back to these products.
Abandon(w) ==
    /\ todo[w] # {}
    /\ todo' = [todo EXCEPT ![w] = {}]
    /\ seen' = [seen EXCEPT ![w] = None]
    /\ rows' = [rows EXCEPT ![w] = None]
    /\ stale' = stale \cup todo[w]
    /\ UNCHANGED <<bill, moves, log, opening, ledger, price>>

Next ==
    \/ \E w \in Workers :
           \/ \E f \in Uploads : Import(w, f)
           \/ \E p \in Products, o \in Openings : EditOpening(w, p, o)
           \/ \E f \in Formulas, loss \in Losses, ref \in Refs, t \in Tokens :
                  RunConversion(w, f, loss, ref, t)
           \/ \E p \in Products : Visit(w, p)
           \/ ReadPrices(w)
           \/ ReadRows(w)
           \/ Store(w)
           \/ Abandon(w)
    \/ \E k \in Lines : \E b \in Versions[k] : MapLine(k, b)
    \/ \E k \in Lines : \E b \in MayBe(k) : Rebuild(k, b)
    \/ \E p \in Products, n \in Levels : Count(p, n)

\* A request that has committed runs on: it reads and stores unless it is killed.
Fairness == \A w \in Workers : WF_vars(ReadPrices(w) \/ ReadRows(w) \/ Store(w))

Spec == Init /\ [][Next]_vars
FairSpec == Spec /\ Fairness

-----------------------------------------------------------------------------
(* Properties                                                                *)

Owed == UNION {todo[w] : w \in Workers}

\* The cost ledger of p ends with the cost of its rows, and the price follows it.
Current(p) ==
    /\ ledger[p] = LedgerFrom(WalkOf(p))
    /\ ~IsZero(WalkOf(p).cost) => price[p] = WalkOf(p).cost

\* With any number of processes, a product's cost is current unless a rebuild of
\* it is still owed, was abandoned, was outrun by another commit, or the change
\* asked for none (mapping save, stock count); every other operation keeps the
\* cost of every product it touches (recalculate_waccs_for_products and its callers).
CostIsCurrent == \A p \in Products \ (Owed \cup stale) : Current(p)

AtMost(c, d) == c[1] * d[2] <= d[1] * c[2]

\* The unit costs that p was ever received at.
CostsMet(p) ==
    {<<bill[k].net, bill[k].qty>> : k \in {j \in Purchases : OwnLines(p, bill)[j] # None}}
        \cup {log[p][i].cost : i \in 1..Len(log[p])} \cup {<<opening[p], 1>>}

\* An average cost lies between the lowest and the highest cost that its
\* product was received at, oversold stock and corrections included
\* (_rebuild_product_wacc, the freeze under negative stock).
CostWithinCosts ==
    \A p \in Products : WalkOf(p).entries /\ ~IsZero(WalkOf(p).cost) =>
        /\ \E c \in CostsMet(p) : AtMost(c, WalkOf(p).cost)
        /\ \E c \in CostsMet(p) : AtMost(WalkOf(p).cost, c)

Value ==
    Total([p \in Products |-> <<WalkOf(p).stock * WalkOf(p).cost[1], WalkOf(p).cost[2]>>])

\* A conversion moves value and makes none: with current, positive input costs,
\* an output that is not oversold, no bill dated later, and no total loss under
\* the same document number, what the stock is worth is the same after the run
\* (run_conversion).
ConversionKeepsValue ==
    [][\A w \in Workers, f \in Formulas, loss \in Losses, ref \in Refs, t \in Tokens :
        LET out == OutputOf[f] IN
        /\ RunConversion(w, f, loss, ref, t)
        /\ \A i \in 1..Len(log'[out]) : log'[out][i].ref = ref => ~IsZero(log'[out][i].cost)
        /\ \A k \in Lines : k > LastPast => bill[k] = None
        /\ \A p \in Inputs(f) : p \notin Owed \cup stale /\ ~IsZero(WalkOf(p).cost)
        /\ WalkOf(out).stock = 0 \/ (WalkOf(out).stock > 0 /\ ~IsZero(WalkOf(out).cost))
        => AtMost(Value, Value') /\ AtMost(Value', Value)]_vars

\* Every committed change reaches the cost: a product that is owed a rebuild is
\* at some time current, or was abandoned or outrun (imports.py, conversions.py).
CostCatchesUp == \A p \in Products : p \in Owed ~> (Current(p) \/ p \in stale)
==============================================================================
