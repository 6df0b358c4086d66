# Verification of the Sendy ERP core: stock, cost, marketplaces and payroll

Sendy ERP copies the bills of a trading company from its accounting system
(Express, also called BSN here) into SQLite, derives a stock ledger from them
and adds what Express does not know: unit ratios, product mappings, corrections
of mistyped units, packing conversions, marketplaces, payroll. This directory
models the parts where one wrong step silently changes stock, cost or pay,
checks them with TLC and proves the main results with TLAPS.

## 1. Inventory of the system

The program is a Flask application run by gunicorn with two processes
(`Procfile`: `-w 2 --preload --timeout 60`) on one SQLite database in WAL mode.
A SELECT takes no lock; the first INSERT, UPDATE or DELETE of a transaction
takes the write lock (others wait up to the busy timeout). So whatever a
request reads before its first write may be stale when it writes, unless it
began with BEGIN IMMEDIATE (`database.py`, `immediate`). Some requests also
commit twice: an import or a conversion first, the cost of its products later.
That is the only concurrency of the program, and every model has its granularity
from it: one action is one write transaction, and an unlocked read before it is
an action of its own.

| Component | State | Operations | Hard behaviour | What makes it correct |
|---|---|---|---|---|
| Bill-line sync and unit ratios (`models/bsn_sync.py`) | bill lines with `synced_to_stock`, `transactions`, `unit_conversions` | sync, save ratios, change a ratio with rebuild, catalogue ratio, dismiss pending | unlocked reads; delete by product, reset by flag; ratios deleted by scripts | one ledger row per synced line; no rebuild loses a movement |
| Import (`models/imports.py`, `models/bsn_line.py`) | the same, plus mappings and corrections | diff, replace, remove, rebuild, heal | a line that changes product; two tables sharing products; corrections ended by a file | identical upload is a no-op; ledger follows lines |
| Mapping and re-pointing (`models/mapping.py`) | `product_code_mapping` per code and unit | save mapping, resolve pending, re-point with or without holding stock | unlocked reads; several products rebuilt at once | as above; held stock really held |
| Unit corrections (`line_unit_correction.py`, ADR 0021) | `sales_line_unit_corrections`, offset rows | apply (hold or move), cancel, verdicts of an import, blocking of other writers | five ways to end; everything that runs in between | can always be cancelled; holding moves no stock |
| Stock levels and adjustments (`data/schema.sql` triggers, `models/transactions.py`) | `stock_levels` | three triggers, set stock to a count | read-then-write of the difference | level is the sum of the ledger |
| Marketplace mirror (`models/marketplace.py`, `models/platform_skus.py`) | `platform_skus.stock`, `stock_as_of`, `platform_stock_deductions` | order import, stock file, edit form | files out of order; clamping at zero; re-import; stale form | stock is figure less records; records are live |
| Weighted average cost (`models/wacc.py`) | `product_cost_ledger`, `products.cost_price` | preflight, walk, rebuild | recomputed after the import's commit, reads before the lock, killed in between | the stored cost is that of the rows, or is known to be stale |
| Conversions (`models/conversions.py`) | formulas, ledger rows, `conversion_cost_log` | run, edit a recipe | losses, repeated document numbers, double submit; inputs without a cost | a run moves value and makes none |
| Reconciliation (`models/reconcile.py`, `express_registers.py`) | drift flags, registers | scan, apply, dismiss, reopen | a payload of an old scan applied to newer lines; lines corrected or re-rated since | only what was seen is deleted, whole, with exactly the rows it posted |
| Import routing (`import_router.py`, `express_dbf_source.py`, `parse_weekly.py`) | none of its own | parse, commit a sequence of imports | time-out between two commits | every part may be repeated |
| Database, migrations, backup (`database.py`, `db_backup.py`) | schema version, the file | migrate at start, backup, restore | half-applied script; restore under open connections | all or nothing |
| Payments and credit notes (`models/payments.py`, `payments_alloc.py`) | receipts and allocations | import; plan a first-in first-out allocation | few: the plan is recomputed from dated rows on each call and writes nothing | never allocates more than is open |
| Payroll (`hr.py`, `hr_queries.py`) | `payroll_runs`, `payroll_items`, leave requests, roster | generate, edit, finalise, reopen; approve, waive leave | a draft remembers other months, advances and leave; months closed in any order | advances and debts are taken once; an issued slip is fixed |
| Cashbook (`cashbook_ledger.py`) | `cashbook_transactions`, `salary_advances` | pay and void a salary, post and cancel an advance, free rows | rows that the payroll has consumed | a payment carries the net pay of an issued slip |
| Promotions (`models/promotions.py`) | promotions with dates | create, edit, replace | few: the overlap is checked under BEGIN IMMEDIATE, and the triggers of migration 177 abort an overlapping row | one promotion per slot |
| Commission, VAT book, AR and cash flow, prices, call cards, products and names, access control, templates | rows of their own or none | single-row edits, reports | few | arithmetic |

`PROJECT.json` lists each with its status and the reason when it is not modelled,
and the hazards with the line where each one bites.

Components interact through the database alone: an import writes lines, retires
corrections and rebuilds the ledger in one transaction; corrections refuse the
mapping and ratio writers while they are active (`blocking`); the triggers keep
the levels; the cost walk reads the ledger; the mirror shares only the triggers
of `platform_stock_deductions` with an old bill walk that is retired.

## 2. Plan

Modules in order of importance, with what each composes and what is proved:

1. `BsnLedger` (done): lines, ledger, ratios, mappings, imports, re-points,
   corrections, deletion of flagged documents, in one module because each writer
   refuses or rebuilds for the others. Proved: types, no lost movement, one row
   per line, nothing vanishes in part, a second upload is a no-op, every
   correction can be cancelled, held stock stays held in a re-point and in a correction.
2. `Mirror` (done): marketplace stock. Proved: types, stock is figure less
   records, live records, one order applied twice.
3. `Costing` (done): the cost walk and the conversions, in one module because a
   conversion takes its cost from the walk and feeds it to another product; the
   race of recomputations, kills and lost rebuilds. Proved: types, which costs
   are current, that a cost lies between the costs paid, that conversions make
   no value. Liveness: a committed change reaches the cost.
4. `Payslips`, `Payroll` (done): what the payroll screens promise, and the
   payroll that implements it. Proved: types, the refinement, advances, debts,
   waivers, regenerating.
5. The life of a review flag (scan, suppression, dismissal, reappearance) and a
   migration that stops half-way (open; not modelled).

## 3. Modules

| Module | What it is |
|---|---|
| `BsnLedger` | bill lines and their ledger: state, one action per operation, properties, and the mutated operators used to test the properties |
| `MCBsnLedger` | lines, documents, codes and units for TLC |
| `BsnLedgerProofs` | theorems about `BsnLedger` |
| `CorrectionProofs` | theorem about the unit corrections of `BsnLedger` |
| `StockProofs` | theorems about the stock levels of `BsnLedger` |
| `SumLemmas` | induction over finite sets; sums over finite sets; what a recursion over a set or a range keeps |
| `Mirror` | marketplace stock |
| `MCMirror` | orders and clock for TLC |
| `MirrorProofs` | theorems about `Mirror` |
| `Costing` | weighted average costs, conversions, the rebuild after a commit |
| `MCCosting` | two products, four bills, two formulas for TLC |
| `CostingProofs` | theorems about which costs of `Costing` are current and what a conversion does to the value of the stock |
| `CostRangeProofs` | theorems about the types and the range of the costs of `Costing` |
| `Payslips` | abstract: what the screens promise of a payslip |
| `Payroll` | runs, slips, advances, debts, leave, payments; implements `Payslips` |
| `MCPayroll` | employees, advances and leave requests for TLC |
| `PayrollProofs` | theorems about `Payroll`, the refinement among them |

Operators whose comment begins with "Mutant:" are not used by the
specification. Each is a plausible bug of the operator after it; with the bug in
place TLC finds the property of the run that `PROJECT.json` names violated.

### BsnLedger

State and code: `line` is the union of `sales_transactions` and
`purchase_transactions` by line key; `posted[k][p]` the ledger rows (count and
quantity) that line `k` put on product `p`; `offsets` the hold offsets and
`adjust` all other ledger rows; `ratio` is `unit_conversions`; `mapping` is
`product_code_mapping` by unit scope; `corr` the active row of
`sales_line_unit_corrections`. `checked` and `reading` are what a process has
read without the lock. `Stock(p)` is the level that the triggers of
`data/schema.sql` maintain.

| Action | Code |
|---|---|
| `SetMapping` | `upsert_mapping` |
| `ReadUnlinked`, `ReadUnsynced`, `WritePending` | `resolve_pending_mappings` and the `_sync_bsn_to_stock` it calls, split where the write lock is taken |
| `Import` | `_import_weekly`: diff, correction verdicts, replace, remove, wipe, reset, replay, heal, new codes |
| `CheckRatio`, `WriteRatio` | `upsert_unit_conversion`, and `save_unit_conversions` when `resync` |
| `AddCatalogueRatio`, `UpdateRatio`, `Dismiss` | the functions of those names in `bsn_sync.py` |
| `DropRatio` | the clean-up scripts that delete ratios |
| `Repoint` | `repoint_bsn_code`, whole code or one unit, with `preserve_stock` |
| `SetStock` | `set_stock_to` |
| `Apply`, `Cancel` | `line_unit_correction.apply`, `cancel` |
| `ApplyReconcileFlag` | `apply_reconcile_flag` with `_cas_compare`, `_ledger_check` and the two deletes |

Abstractions: unit price, discounts and net are one value; unit spellings are
already normalised (ADR 0018 keys are not modelled); quantities are natural
numbers, so the rounding to four decimals does not occur; `save_unit_conversions`
saves one item; the `history_import` compensating row, the branch for a missing
product (a foreign key forbids it), VAT books, platform deductions and cost
recomputation are left out; `cross_unit_hazard` is the constant `Hazards`; a
file holds no line key twice; the replay of the affected products followed by
the heal of the whole table is one sync of the table; a base-unit change of a
product is not modelled; `ReadUnlinked` keeps only rows that can be linked. A
review flag is an input: any document may have one, its payload is the live rows
because the comparison under BEGIN IMMEDIATE refuses anything else, and the
refusal of platform customers and of two lines with one key (a line key has one
line here) is left out.

### Mirror

State: `stock[l]` and `asof[l]` are `platform_skus.stock` and `stock_as_of` (or
`imported_at`); `units[o][l]` is `platform_stock_deductions`; `date[o]` the
stored order date; `file[w]` the orders an import has still to apply under its
lock; `edit[w]` a submitted form whose old figure has been read. `figure` and
`imported` are history.

| Action | Code |
|---|---|
| `Tick` | time, as `datetime('now')` reads it |
| `ImportListings` | `import_platform_skus` with `_supersede_deduction_provenance` |
| `BeginImport`, `ApplyOrder` | `import_marketplace_orders` from BEGIN IMMEDIATE to commit, one `_apply_order_stock_effect` per step; nobody writes in between |
| `ReadFigure`, `SaveFigure` | `update_platform_sku`, split at its first write |

Abstractions: an order row carries the resolved units per listing, any number of
them at each import, which covers edited orders and lines that resolve to
another listing than before; unresolvable, ambiguous and fractional lines carry
no units; figures are natural numbers; an import that fails rolls back and is
not a step; the rows that the retired bill walk left
(`source_table='sales_transactions'`) and TikTok files are left out. The order
in which the SELECT of the supersession meets records is not defined by the
code, so `rank` is any order.

### Costing

State: `bill[k]` is an imported line together with the ledger row that the sync
posted for it (`BsnLedger` says when that is so); `moves[p]` the later ledger
rows of `p`, conversions and stock counts, in the order of their ids; `log[p]`
the `conversion_cost_log` rows whose output is `p`; `opening` is
`products.opening_cost`, `ledger` the `wacc_after` of the last
`product_cost_ledger` row, `price` is `products.cost_price`. `todo[w]`, `seen[w]`
and `rows[w]` are a process between its commit and the store of the costs: the
products left, the prices it has read, the rows it has read. `stale` is history:
products whose cost was left behind.

| Action | Code |
|---|---|
| `Import` | the commit of `_import_weekly` or of a ratio replay; the rebuild is owed |
| `MapLine` | `resolve_pending_mappings`, which recomputes no cost |
| `Rebuild` | `repoint_bsn_code` and unit corrections, which rebuild in their own transaction |
| `EditOpening` | `product_edit` |
| `Count` | `set_stock_to`, which recomputes no cost |
| `RunConversion` | `run_conversion`: shortage, cost of the inputs (rebuilt if there is none), losses, ledger and log rows, replay guard |
| `Visit` | `get_cost_history` on a product without a cost ledger |
| `ReadPrices`, `ReadRows`, `Store` | `recalculate_waccs_for_products`; the first product is read before the write lock, the others under it |
| `Abandon` | the process is killed, or `preflight_batch` refuses the batch |

`Walk` is the loop of `_rebuild_product_wacc`, row by row, in exact fractions: a
purchase is frozen under negative stock, taken over when there is no stock or no
cost, averaged otherwise. Abstractions: costs are not rounded; a line's place in
the walk is its number, and all conversions and counts lie between two bills
(`LastPast`), so that bills dated before and after them both occur; the opening
balance lies at `LastEarly`; a unit price that is missing is a net of zero;
history pairs of codes, rows without provenance, outlier alerts and audit rows
are left out; a conversion's formula is fixed.

### Payroll and Payslips

`Payslips` says what a reader of the screens may rely on: a month is worked on,
issued, taken back while nothing is paid; an issued slip keeps its net pay and
is paid once, in that amount. `Payroll` implements it with
`slip <- NetPay of the item`: `SlipsKeepTheirPromise` is `Promise!Spec`.

State of `Payroll`: `status` is `payroll_runs.status`; `reopened` the months with
a reopen marker in `audit_log`; `item[m][e]` the `payroll_items` row, whose
`advances` field keeps which advances `salary_advance_deduction` is the sum of;
`advance[a]` is `salary_advances.deducted_in_run_id`; `leave`, `waived` the
requests; `active` the roster; `cash` the linked cashbook row. `confirmed` and
`late` are history.

| Action | Code |
|---|---|
| `Generate` | `generate_run_counting_kept` with `_build_item`, the roster refusals and the un-stamping |
| `EditItem` | `update_payroll_item` |
| `Finalize` | `finalize_run` with its three refusals `Covers`, `DebtCurrent`, `LeaveCurrent` |
| `Reopen` | `reopen_run` |
| `PaySalary`, `VoidSalary` | `cashbook_ledger.post_salary`, `cancel_salary` |
| `PostAdvance`, `CancelAdvance` | `post_advance`, `cancel_manual` |
| `DecideLeave`, `Waive` | the leave writers of `hr_queries.py`, `set_pay_waiver` |
| `ChangeRoster` | `create_employee`, `update_employee` |

Every one of them takes the write lock before its first read (`_ConnCtx(lock=True)`,
`database.immediate`), hence one action each and no process in the model.
`UnpaidDays` is the walk of the leave of a year: month by month, in a month
request by request, days above the shared allowance are unpaid; waived ones use
the allowance up all the same. Abstractions: one company; everybody works whole
months at one salary, so proration, pay rises, SSO, diligence and commission are
part of `Base`; hand-typed additions and deductions are one figure; whole days;
maternity episodes, whose days are not shared, are left out; a warning that a
checkbox confirms refuses nobody and is not a guard (a confirmed reopen of a
consumed debt is remembered in `confirmed`).

## 4. Runs

`Costing` runs under `FairSpec`, all others under `Init /\ [][Next]_vars`. The
program is driven by requests and nothing obliges a request to come, so no
action that starts one is fair. A request that has committed, though, is a
Python thread that runs on: the rebuild after the commit is reached unless the
process is killed or the rebuild refuses, which is the action `Abandon`. Hence
weak fairness, per process, of `ReadPrices \/ ReadRows \/ Store`, and of nothing
else.

| Run | Instance and why it is enough | Shows |
|---|---|---|
| `Ledger` | one line, two products, two units, two processes; scripts drop ratios | types; a rebuild or re-point never loses or misprices what it deleted |
| `Repoint` | two lines of one code, whose mapping is split off for one unit, so that a line of the code stands on either product, against the mapping too, or waits there for a ratio; one process | one ledger row per synced line; `preserve_stock` takes the history off the products it stood on and holds every level |
| `Sides` | a sales, a service and a purchase line of one product | the same across the two tables; pending groups dismissed and flagged documents deleted whole; re-import no-op |
| `Corrections` | two lines of one document, both correctable, two ratios | every active correction can be cancelled, also when its document is flagged as deleted; hold moves no stock |
| `Mirror` | two orders, two listings, three instants; figures smaller and larger than what two orders take, so clamping and re-applying occur | stock is figure less records; records live; one order idempotent |
| `TwoProcesses` | one line, two products, two processes | finding 1 |
| `RatioEdit` | one line, one process, two ratios | finding 2 |
| `Costing` | two products that are packed into each other, four bills (before the opening, before and after the conversions), losses, a repeated document number, two processes; `OneStory` below | costs are current, owed or known to be stale; a cost lies between the costs paid; conversions make no value; every owed rebuild comes or is known lost |
| `Payroll` | three months in any order, so that a month lies below, between and above others; four employees who owe, draw (two of them) or rest; an allowance that three requests overrun | stamped advances are withheld; debts chain; the refinement of `Payslips`; waivers spare issued slips; regenerating clears every refusal |
| `MirrorReimport` | one listing, files of two orders | finding 3 |
| `PayrollAdvance` | one employee, one advance, three months | finding 4 |
| `PayrollDebt` | one employee, three months, no reopening | finding 5 |

Bounds: `MaxActive` (corrections at once) and `MaxAdjust` (size of the kept
adjustments and offsets) in `BsnLedger`, `MaxFile` (orders per file) and `Times`
in `Mirror`, `MaxMoves` (conversions and counts per product) in `Costing`,
`MaxReopened` (months that are ever reopened) in `Payroll`; all sets are those of
the .cfg files. `MCCosting` and `MCPayroll` also have a state constraint
`OneStory`, because the questions are independent and their product is too
large: in `MCCosting` either one process goes through all runs, losses and two
bills without interruption, or two processes interleave over two bills and a
count; in `MCPayroll` a behaviour has debtors only (with payments, edits and
reopening), people with advances only, or one person with leave only. `CostCatchesUp` is a
liveness property checked under a constraint, which shows less than it would
without: a behaviour that needs two rebuilds whose reads overlap, or two stale
products at once, leaves the constraint and is not judged. Two lines suffice for the
ledger because every clause of its properties is about one line or a pair; the
proofs remove the bounds where they exist. In `BsnLedger` and `Mirror`
reading and writing steps of one process cannot be interleaved when `Workers` has
one member; the runs of a property that needs this use one process and the text
says so. Deadlock is checked in every run.

## 5. Findings

1. `TwoProcesses` / `LedgerMatchesLines`. `resolve_pending_mappings` reads the
   unlinked rows before it holds the write lock and then links the first of them
   blindly. In the run a mapping save has read a line as unlinked and mapped to
   p1; the other process re-points the code to p2, which links and posts the
   line; the save then links it back to p1. The line stands on p1 and its one
   ledger row is on p2, although `_ledger_check` (`models/reconcile.py`) aborts
   its scan unless product and row agree.
   The run stops at this shortest trace. The sync that follows has the same gap
   (`ReadUnsynced`, `WritePending`): a line that the other process posts between
   its read and its write gets a second row from the stale copy, which breaks the
   same invariant in longer behaviours.
2. `RatioEdit` / `LedgerFollowsRatio`. The mapping page and the unit screen
   change an existing ratio without a rebuild, which the docstring of
   `add_catalogue_unit_conversion` says must not happen.
3. `MirrorReimport` / `ReimportIsNoOp`. Orders of one file are applied in file
   order and clamped at zero. A new order listed before the cancellation of an
   old one takes less than it sold, and the cancellation then shows stock that
   is not there until the same file is imported once more.
4. `PayrollAdvance` / `AdvanceWithheldOnce`. The drafts of two months are open and
   both withhold an advance. The earlier one is closed and stamps it; the later
   one is not generated again and is closed as well, because `finalize_run`
   refuses a slip that withholds too little, not one that withholds too much.
5. `PayrollDebt` / `DebtNeverTakenTwice`. A month with a debt is closed, the month
   after next takes the debt over and is closed, then the month between is
   generated for the first time: it takes the same debt over. The rule against
   this looks only at months below the one that is generated.

Not findings, but limits that the models make visible: with two processes
`CancelAlwaysPossible` fails, since the ratio upserts read their guard without
the lock (accepted in ADR 0021); with two processes `StockIsFigureLessRecords`
fails in the window between the read and the write of `update_platform_sku`. A
cost whose process was killed after the commit stays stale until something else
rebuilds the product, and importing the same file again does not; a mapping save
and a stock count never rebuild (`stale` in `Costing`). A total loss writes a log row of
cost zero and no ledger row, so a later run under the same document number is
matched by position to that zero; `ConversionKeepsValue` excludes it. A reopened
month that is closed without being generated again can stamp an advance that
its slip does not withhold; `StampsAreWithheld` is about the other months.

## 6. Proofs

`BsnLedgerProofs`, for any lines, products, units, codes, ratios:

- `TypeCorrect`: `TypeOK` is inductive, any number of processes.
- `RebuildsReplayEverything`: from `TypeOK` and the guard `NothingLost`, which
  compares identities of lines and not counts, no matter what ran before.
- `LedgerAlwaysMatches`: with one process. `LedgerMatchesLines` is not inductive:
  a pending write posts rows read earlier. The strengthening adds `ReadsFresh`:
  what a process read is still so. Two lemmas carry every writer: a sync of any
  set of lines keeps the match, and a wipe by product with a reset of flags by
  line keeps it when both reach the same lines and every changed line stood on a
  wiped product or had no row.
- `LinesNeverVanishAlone`: with one process. No rebuild, re-point, late write or
  correction loses a line, so a vanished one was imported away, dismissed with
  its group or deleted with its document; that nothing else remains under the
  document's numbers needs `LedgerMatchesLines`, for the lines that were gone
  already.
- `ReimportsAreNoOps`: any number of processes. After an import every line of the
  file stands as the file says, with the product it is linked to, or is kept by a
  correction that knows what Express says of it; registering a new code as
  unmapped links and skips nothing, so the second upload takes the same view.

`CorrectionProofs`, on top of it:

- `CancelStaysPossible`: with one process, no script that deletes ratios, and
  document numbers that tell sales lines apart (`UniqueNumbers`; without it a
  second line posted under the number makes `cancel` refuse for ever).
  `CancelAlwaysPossible` is not inductive, since a rebuild for another line
  posts the corrected line again: the strengthening `AllSecure` says that its
  ledger row stands at today's ratio of the corrected unit, so that the same
  quantity comes back, and `ChecksHold` that a ratio write which passed its check
  cannot change a ratio in use by a correction. Nearly every step is then
  `Undisturbed` for each correction it does not end.

`SumLemmas` holds no theorem about the program. The library states induction
with an operator as a parameter, which the provers here cannot instantiate; the
lemmas state it for sets (`NatSetInduction`, `SubsetInduction`), so that the
induction hypothesis is membership in a set of numbers or of subsets. From them
follow the sums of the community modules (`SumChange`: one summand changes;
`SumOfSums`: two sums in one; `SumMonotone`) and what a recursion over a range or
a set keeps (`RangeInvariant`, `SubsetInvariant`). All sums and walks of the
models are written with operators that these lemmas speak of.

`StockProofs`, on top of both:

- `RepointsPreserveStock`: any number of processes. A re-point that holds stock
  compensates only the products it affects. There the adjustments are sums of
  differences, line by line, of what was posted and what is posted, and added to
  the sum of what is posted they give the old sum. On every other product the
  rebuild has to leave each line as it was (`RepointStaysInside`): the wipe keeps
  to the affected products, and so does the replay, because it posts only lines
  that stand on one of them. That the history is gone from the products it stood
  on (`HistoryLeaves`) needs the other half: each of them is affected.
- `HoldsKeepStock`: with one process and no script that deletes ratios. Applying
  and cancelling change one summand of one product by the offset they post or
  take back; that the ledger holds what was measured is `AllSecure`. A re-upload
  that agrees with a correction ends it and leaves the lines, and then rebuilds
  nothing. Unique document numbers are not needed here.

`CostRangeProofs`, for any products, bills, formulas, losses and processes:

- `CostingTypeCorrect`: `TypeOK` is not inductive, because a cost is a fraction
  whose denominator has to stay positive and a run divides by the units that are
  good. The strengthening `Movement` says that made quantities are positive and
  gives the types of what a process has read.
- `CostsWithinCosts`: the walk is two nested recursions, over the lines and over
  the rows between two lines. Each step averages the cost so far with a cost
  paid, takes one of the two, or keeps the first, so both recursions stay in
  `Within(M)`, the costs between the lowest and the highest one paid.

`CostingProofs`, on top of it:

- `CostsAreCurrent`: `Shape /\ CostIsCurrent` is inductive, where `Shape` only
  says that every variable is a function on its domain. The walk stays opaque:
  what the proof needs is that two walks over equal rows are equal, so each
  action has to show which rows it left alone and that it owes, rebuilds or gives
  up every product whose rows it changed. The rebuild of the first product is
  current exactly when nothing outran it.
- `ConversionsKeepValue`: the value of the stock is a sum of fractions whose
  denominators a run changes, so it is compared over one common denominator
  (`CommonDenominator`, `TotalScaled`), where the output gains what the inputs
  lose. That the walk of each product does just that needs three things. With no
  bill dated after the conversions the walk ends with them, so that the appended
  row is the last step and every earlier step is what it was
  (`WalkEndsWithMoves`, `WalkTakesMove`). The walk finds the cost of the output
  in the log by document number and position; that this is the run's own entry
  is the invariant `AllPaired`: of each document number the log has at least as
  many entries as there are made rows, and as many when every entry has a cost,
  because only a total loss logs an entry without a row. And the cost that the run took of an input is the
  one the input's rows have, which is `CostsAreCurrent`.

`PayrollProofs`, for any employees, months, amounts, advances and leave:

- `PayslipsKeepTheirPromise`: `Spec => Promise!Spec`. The invariant `Shape` says
  that the variables are functions on their domains and that slips belong to
  runs, so that an edited slip is one of a draft; every action is then a step of
  `Payslips` or a stutter.
- `AdvancesAreWithheld`: the strengthening `NoEarlyStamp` says that a month which
  was never reopened has no stamps before it is issued, so that those it has are
  the ones that `Covers` compared.
- `DebtsFormAChain`: issuing or taking back a month moves the source only of
  later slips, and whoever has an issued one is in `late` from then on; for the
  others the source is the same month as before. That a set of months has a largest element comes from
  well-founded induction.
- `PayrollTypeCorrect`: beside the types, every amount that a slip takes off, an
  advance, a debt or unpaid days, stays a natural number.
- `WaiversSpareIssued`: a waived request uses the allowance up all the same,
  so the unpaid days of every other request are what they were, and a request in
  an issued month is not waived at all.
- `RegeneratingUnblocks`: the three refusals of `finalize_run` compare a slip
  with sums over advances and leave; the slip that `Generate` has just built
  withholds those very sums.

`MirrorProofs`, for any orders, listings, files and processes:

- `MirrorTypeCorrect`: no figure and no record falls below zero.
- `StockFollowsFigure`: any number of processes, for the behaviours in which
  none saves an edit form over a figure that changed after the form read it
  (`NoOvertaking`); `StockIsAlwaysFigureLessRecords`: with one process, which can
  overtake nobody. An order changes one record of a listing and its stock by the
  same amount; a stock file drops exactly the records it supersedes.
- `RecordsStayLive`: `TypeOK /\ RecordsAreLive` is inductive; the case that
  matters is a stock file, which re-dates the figure and keeps exactly the
  records later than it.
- `OneOrderIsIdempotent`: a clamped order leaves zero stock, any other one a
  record equal to what it wants; both leave a difference of nothing to take.

Assumptions are the named ASSUMEs of the component modules; TLC evaluates them
in every run. Besides the types of the constants and sentinels outside the other
sets they say that lines, orders, products, advances and leave requests are
finitely many (they are rows of a database), that a hand-typed figure may be
zero (its default) and that a counted level is an integer. Two are about the
costs: the opening balance precedes the conversions and counts (`OpeningIsPast`;
its date is the constant `_WACC_INITIAL_DATE`, theirs is the clock), and no
formula needs what it makes (`OutputIsNoInput`; `conversion_pair`, where formulas
are made, refuses it).

The hypotheses of single theorems are the conditions under which the code keeps
the property, and the findings and limits of section 5 show what happens without
them: one process, where the code reads before it takes the write lock; no
script that deletes ratios; unique document numbers.

Only model-checked: `CostCatchesUp`, because liveness under fairness is out of
the prover's reach.

## 7. Not modelled

The components with status `not_modelled` in `PROJECT.json`. The life of a
review flag (`dismiss_reconcile_flag` reads the state without the lock and
updates by id, so it can overwrite an application that came in between) and migrations
keep state that several steps could break; they are next in the plan. Promotion
slots are checked under the write lock and guarded by triggers, and payment
allocation is a plan that writes nothing. Restoring a backup replaces a file under open
connections, below the transactions the models are made of. Reports, parsers,
arithmetic over imported rows, text generation, access control and the web layer
keep no such state. Within the modelled components, the abstractions of section 3
name what is left out.
