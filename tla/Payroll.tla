-------------------------------- MODULE Payroll --------------------------------
(***************************************************************************)
(* The monthly payroll of one company: runs, payslips, salary advances,    *)
(* debts carried from a month that could not pay them, leave that is not   *)
(* paid, and the cashbook rows that pay the slips.                         *)
(*                                                                         *)
(* Every writer takes the write lock before its first read, so each is one *)
(* action and any number of processes behaves as one.  What is hard here   *)
(* is the order of the months: a draft remembers figures of other months,  *)
(* of advances and of leave that move on after it was generated.           *)
(***************************************************************************)
EXTENDS Integers, FiniteSets, FiniteSetsExt, Functions

CONSTANTS
    Employees,
    LastMonth,    \* months are 1..LastMonth; their runs are made in any order
    Base,         \* what a month pays before leave, edits, advances and debt
    DayRate,      \* withheld per unpaid day, at most Base in a month
    Manuals,      \* sums of the hand-typed deductions less the additions
    Taxes,        \* withholding taxes that may be typed into a slip
    StandingTax,  \* [Employees -> Taxes]: employee_wht_history
    Advances, AdvanceOf, AdvanceMonth, AdvanceAmount,
    Requests,     \* leave requests, numbered by (start_date, id)
    LeaveOf,      \* [Requests -> Employees]
    LeaveDays,    \* [Requests -> [Months -> Nat]]: _split_by_month
    IsPaid,       \* [Requests -> BOOLEAN]: a type with an allowance
    YearOf,       \* [Requests -> years]: the year in which it starts
    Entitlement,  \* days per employee and year that a paid type grants
    MaxReopened,  \* bound: months that are ever reopened
    None

Months == 1..LastMonth
NotDeducted == 0   \* deducted_in_run_id IS NULL

ASSUME PayrollConstants ==
    /\ LastMonth \in Nat
    /\ Base \in Nat /\ DayRate \in Nat /\ Entitlement \in Nat
    /\ Manuals \subseteq Int /\ 0 \in Manuals /\ Taxes \subseteq Nat
    /\ StandingTax \in [Employees -> Taxes]
    /\ AdvanceOf \in [Advances -> Employees]
    /\ AdvanceMonth \in [Advances -> Months]
    /\ AdvanceAmount \in [Advances -> Nat]
    /\ Requests \subseteq Nat
    /\ IsFiniteSet(Advances) /\ IsFiniteSet(Requests)
    /\ LeaveOf \in [Requests -> Employees]
    /\ LeaveDays \in [Requests -> [Months -> Nat]]
    /\ IsPaid \in [Requests -> BOOLEAN]
    /\ None \notin Nat

\* A payslip; advances are the rows that salary_advance_deduction is the sum of.
Item == [days : Nat, advances : SUBSET Advances, carriedIn : Nat,
         manual : Manuals, tax : Taxes]

ASSUME NoItem == None \notin Item

VARIABLES
    status,     \* status[m]: payroll_runs.status, "none" without a row
    reopened,   \* months whose audit_log holds a reopen marker
    item,       \* item[m][e]: the payroll_items row, or None
    advance,    \* advance[a]: None without a row, else deducted_in_run_id
    leave,      \* leave[q]: is the request approved
    waived,     \* leave_requests.pay_waived
    active,     \* employees with is_active = 1 and on_payroll = 1
    cash,       \* cash[m][e]: amount of the linked cashbook row, or None
    confirmed,  \* history: a reopen was confirmed although its debt was taken on
    late        \* history: a slip was issued or reopened below an issued one

vars == <<status, reopened, item, advance, leave, waived, active, cash, confirmed, late>>

TypeOK ==
    /\ status \in [Months -> {"none", "draft", "finalized"}]
    /\ reopened \subseteq Months
    /\ item \in [Months -> [Employees -> Item \cup {None}]]
    /\ advance \in [Advances -> {None, NotDeducted} \cup Months]
    /\ leave \in [Requests -> BOOLEAN]
    /\ waived \in [Requests -> BOOLEAN]
    /\ active \subseteq Employees
    /\ cash \in [Months -> [Employees -> Nat \cup {None}]]
    /\ confirmed \subseteq Employees
    /\ late \subseteq Employees

Init ==
    /\ status = [m \in Months |-> "none"]
    /\ reopened = {}
    /\ item = [m \in Months |-> [e \in Employees |-> None]]
    /\ advance = [a \in Advances |-> None]
    /\ leave = [q \in Requests |-> FALSE]
    /\ waived = [q \in Requests |-> FALSE]
    /\ active \in SUBSET Employees
    /\ cash = [m \in Months |-> [e \in Employees |-> None]]
    /\ confirmed = {}
    /\ late = {}

On(m) == {e \in Employees : item[m][e] # None}
Finalized == {m \in Months : status[m] = "finalized"}

-----------------------------------------------------------------------------
(* _compute_unpaid_days and _allocate_excess_by_month                        *)

\* Mutant: a waived request no longer consumes the allowance.
CountedUnlessWaived(e, q) ==
    {r \in Requests : LeaveOf[r] = e /\ leave[r] /\ ~waived[r]
                      /\ IsPaid[r] /\ YearOf[r] = YearOf[q]}

\* The requests that share q's allowance, waived ones included.
Cohort(e, q) ==
    {r \in Requests : LeaveOf[r] = e /\ leave[r] /\ IsPaid[r] /\ YearOf[r] = YearOf[q]}

\* Days of the allowance that are used up when the walk, month by month and
\* in a month by request, comes to the days of q in month m.
UsedBefore(e, q, m) ==
    SumFunctionOnSet(
        [r \in Requests |->
            SumFunctionOnSet(LeaveDays[r], {k \in Months : k < m \/ (k = m /\ r < q)})],
        Cohort(e, q))

Excess(e, q, m) ==
    LET used == UsedBefore(e, q, m)
        room == IF used < Entitlement THEN Entitlement - used ELSE 0
    IN  IF LeaveDays[q][m] > room THEN LeaveDays[q][m] - room ELSE 0

UnpaidDays(e, m) ==
    SumFunctionOnSet([q \in Requests |->
                         IF IsPaid[q] THEN Excess(e, q, m) ELSE LeaveDays[q][m]],
                     {q \in Requests : LeaveOf[q] = e /\ leave[q] /\ ~waived[q]})

-----------------------------------------------------------------------------
(* _recompute_totals on a payslip                                            *)

Smaller(x, y) == IF x < y THEN x ELSE y
Amount(as) == SumFunctionOnSet(AdvanceAmount, as)

NetBeforeClamp(i) ==
    Base - Smaller(i.days * DayRate, Base) - i.manual - i.tax - Amount(i.advances) - i.carriedIn
NetPay(i) == IF NetBeforeClamp(i) < 0 THEN 0 ELSE NetBeforeClamp(i)

\* Mutant: the remainder of a slip is not clamped, so a surplus is carried on.
CarriedUnclamped(i) == -NetBeforeClamp(i)

CarriedOut(i) == IF NetBeforeClamp(i) < 0 THEN -NetBeforeClamp(i) ELSE 0

\* _carried_in_for: the latest issued slip before month m, 0 when there is none
Source(e, m) ==
    LET earlier == {k \in Finalized : k < m /\ item[k][e] # None}
    IN  IF earlier = {} THEN 0 ELSE Max(earlier)

Carried(e, m) == IF Source(e, m) = 0 THEN 0 ELSE CarriedOut(item[Source(e, m)][e])

\* _assert_carry_chronology
Chronological(e, m) ==
    \A k \in Months :
        Source(e, m) < k /\ k < m /\ status[k] # "finalized" /\ item[k][e] # None
            => item[k][e].carriedIn = 0 /\ CarriedOut(item[k][e]) = 0

Pending(e, m) ==
    {a \in Advances : AdvanceOf[a] = e /\ AdvanceMonth[a] <= m /\ advance[a] = NotDeducted}

\* What _build_item withholds: the pending advances and those of this run.
Withheld(e, m) == Pending(e, m) \cup {a \in Advances : AdvanceOf[a] = e /\ advance[a] = m}

\* Mutant: a rebuild keeps the withheld advances of the old row as well.
BuiltOnOldAdvances(e, m) ==
    [days |-> UnpaidDays(e, m),
     advances |-> IF item[m][e] = None THEN Withheld(e, m) ELSE item[m][e].advances,
     carriedIn |-> Carried(e, m),
     manual |-> IF item[m][e] = None THEN 0 ELSE item[m][e].manual,
     tax |-> StandingTax[e]]

\* _build_item, and the values of the old row that survive a rebuild
Built(e, m) ==
    [days |-> UnpaidDays(e, m),
     advances |-> Withheld(e, m),
     carriedIn |-> Carried(e, m),
     manual |-> IF item[m][e] = None THEN 0 ELSE item[m][e].manual,
     tax |-> StandingTax[e]]

-----------------------------------------------------------------------------
(* The runs                                                                  *)

IssuedLater(e, m) == \E k \in Finalized : k > m /\ item[k][e] # None

\* generate_run_counting_kept; the branch of a finalized run changes nothing.
Generate(m) ==
    /\ status[m] # "finalized"
    /\ On(m) \subseteq active
    /\ m \in reopened => active \subseteq On(m)
    /\ \A e \in active : Chronological(e, m)
    /\ status' = [status EXCEPT ![m] = "draft"]
    /\ item' = [item EXCEPT ![m] =
            [e \in Employees |-> IF e \in active THEN Built(e, m) ELSE None]]
    /\ advance' = [a \in Advances |->
            IF advance[a] = m /\ AdvanceOf[a] \notin active THEN NotDeducted ELSE advance[a]]
    /\ UNCHANGED <<reopened, leave, waived, active, cash, confirmed, late>>

\* update_payroll_item
EditItem(m, e, x, t) ==
    /\ status[m] # "finalized"
    /\ item[m][e] # None
    /\ item' = [item EXCEPT ![m][e].manual = x, ![m][e].tax = t]
    /\ UNCHANGED <<status, reopened, advance, leave, waived, active, cash, confirmed, late>>

\* Mutant: a colleague's withheld advance hides one that is not withheld.
CoversTotal(m) ==
    Amount(UNION {Pending(e, m) : e \in On(m)})
        <= MapThenSumSet(LAMBDA e : Amount(item[m][e].advances), On(m))

\* pending_advance_stamp: per employee, nothing is stamped beyond what is withheld.
Covers(m) == \A e \in On(m) : Amount(Pending(e, m)) <= Amount(item[m][e].advances)

\* Mutant: finalize without looking at the earlier month again.
DebtUnchecked(m) == m \in Months

\* stale_carry_in
DebtCurrent(m) == \A e \in On(m) : item[m][e].carriedIn = Carried(e, m)

\* stale_unpaid_leave
LeaveCurrent(m) == \A e \in On(m) : item[m][e].days = UnpaidDays(e, m)

\* finalize_run.  The two warnings that a checkbox confirms, of a debt that is
\* carried on and of a waiver typed twice, hold nobody back and are left out.
Finalize(m) ==
    /\ status[m] = "draft"
    /\ Covers(m)
    /\ DebtCurrent(m)
    /\ LeaveCurrent(m)
    /\ status' = [status EXCEPT ![m] = "finalized"]
    /\ advance' = [a \in Advances |->
            IF a \in UNION {Pending(e, m) : e \in On(m)} THEN m ELSE advance[a]]
    /\ late' = late \cup {e \in On(m) : IssuedLater(e, m)}
    /\ UNCHANGED <<reopened, item, leave, waived, active, cash, confirmed>>

\* carry_consumed_by
ConsumedBy(m) ==
    {e \in On(m) :
        /\ CarriedOut(item[m][e]) > 0
        /\ IssuedLater(e, m)
        /\ item[Min({k \in Finalized : k > m /\ item[k][e] # None})][e].carriedIn > 0}

\* Mutant: reopen a month although its salaries are paid.
ReopenablePaid(m) == status[m] = "finalized"

Reopenable(m) ==
    /\ status[m] = "finalized"
    /\ \A e \in Employees : cash[m][e] = None

\* reopen_run: the stamps stay.  Both warnings can be confirmed; the operator
\* who confirms that a later month already took the debt is remembered.
Reopen(m) ==
    /\ Reopenable(m)
    /\ Cardinality(reopened \cup {m}) <= MaxReopened
    /\ status' = [status EXCEPT ![m] = "draft"]
    /\ reopened' = reopened \cup {m}
    /\ confirmed' = confirmed \cup ConsumedBy(m)
    /\ late' = late \cup {e \in On(m) : IssuedLater(e, m)}
    /\ UNCHANGED <<item, advance, leave, waived, active, cash>>

-----------------------------------------------------------------------------
(* The cashbook                                                              *)

\* post_salary
PaySalary(m, e) ==
    /\ status[m] = "finalized"
    /\ item[m][e] # None
    /\ NetPay(item[m][e]) > 0
    /\ cash[m][e] = None
    /\ cash' = [cash EXCEPT ![m][e] = NetPay(item[m][e])]
    /\ UNCHANGED <<status, reopened, item, advance, leave, waived, active, confirmed, late>>

\* cancel_salary
VoidSalary(m, e) ==
    /\ cash[m][e] # None
    /\ cash' = [cash EXCEPT ![m][e] = None]
    /\ UNCHANGED <<status, reopened, item, advance, leave, waived, active, confirmed, late>>

\* post_advance: is_active is asked, the ceiling of check_advance_cap is a
\* warning that the operator confirms.
PostAdvance(a) ==
    /\ advance[a] = None
    /\ AdvanceOf[a] \in active
    /\ advance' = [advance EXCEPT ![a] = NotDeducted]
    /\ UNCHANGED <<status, reopened, item, leave, waived, active, cash, confirmed, late>>

\* cancel_manual on an advance; amend_manual refuses one.
CancelAdvance(a) ==
    /\ advance[a] = NotDeducted
    /\ advance' = [advance EXCEPT ![a] = None]
    /\ UNCHANGED <<status, reopened, item, leave, waived, active, cash, confirmed, late>>

-----------------------------------------------------------------------------
(* Leave and the roster                                                      *)

\* A request is approved, or leaves that status again: approve, reject, cancel,
\* edit or delete.  Each of them ends a waiver.
DecideLeave(q) ==
    /\ leave' = [leave EXCEPT ![q] = ~@]
    /\ waived' = [waived EXCEPT ![q] = FALSE]
    /\ UNCHANGED <<status, reopened, item, advance, active, cash, confirmed, late>>

Touches(q) == {m \in Months : LeaveDays[q][m] > 0}

\* set_pay_waiver
Waive(q) ==
    /\ leave[q]
    /\ Touches(q) \cap Finalized = {}
    /\ waived' = [waived EXCEPT ![q] = ~@]
    /\ UNCHANGED <<status, reopened, item, advance, leave, active, cash, confirmed, late>>

\* create_employee and update_employee: hire, leave, come back.
ChangeRoster(e) ==
    /\ active' = IF e \in active THEN active \ {e} ELSE active \cup {e}
    /\ UNCHANGED <<status, reopened, item, advance, leave, waived, cash, confirmed, late>>

Next ==
    \/ \E m \in Months : Generate(m) \/ Finalize(m) \/ Reopen(m)
    \/ \E m \in Months, e \in Employees :
           \/ \E x \in Manuals, t \in Taxes : EditItem(m, e, x, t)
           \/ PaySalary(m, e)
           \/ VoidSalary(m, e)
    \/ \E a \in Advances : PostAdvance(a) \/ CancelAdvance(a)
    \/ \E q \in Requests : DecideLeave(q) \/ Waive(q)
    \/ \E e \in Employees : ChangeRoster(e)

Spec == Init /\ [][Next]_vars

-----------------------------------------------------------------------------
(* Properties                                                                *)

\* A payslip is worked on, issued, paid and taken back as the screens promise:
\* an issued slip keeps its net pay, a cashbook row carries exactly the net pay
\* of an issued slip, and no month with a paid slip goes back to draft
\* (update_payroll_item, post_salary, reopen_run).
SlipOf == [m \in Months |-> [e \in Employees |->
              IF item[m][e] = None THEN 0 ELSE NetPay(item[m][e])]]

Promise == INSTANCE Payslips WITH slip <- SlipOf, Unpaid <- None

SlipsKeepTheirPromise == Promise!Spec

\* An advance that a month marks as deducted was withheld on the slip of that
\* month: no stamp is larger than its slip's deduction (pending_advance_stamp,
\* finalize_run), as long as the month was never reopened.
StampsAreWithheld ==
    \A m \in Finalized \ reopened, e \in Employees :
        LET stamped == {a \in Advances : AdvanceOf[a] = e /\ advance[a] = m}
        IN  stamped # {} => item[m][e] # None /\ Amount(stamped) <= Amount(item[m][e].advances)

\* Debts form one chain: an issued slip takes over exactly what the issued slip
\* before it carried out, so none is collected twice or forgiven, as long as
\* months are closed in order (stale_carry_in, _carried_in_for, reopen_run).
DebtChain ==
    \A m \in Finalized : \A e \in On(m) \ late : item[m][e].carriedIn = Carried(e, m)

\* No debt is collected twice in whatever order the months are made and closed:
\* the issued slips of an employee take over no more than issued slips carried
\* out, unless a reopen was confirmed against the warning
\* (_assert_carry_chronology, carry_consumed_by).
DebtNeverTakenTwice ==
    \A e \in Employees \ confirmed :
        LET issued == {m \in Finalized : e \in On(m)}
        IN  MapThenSumSet(LAMBDA m : item[m][e].carriedIn, issued)
                <= MapThenSumSet(LAMBDA m : CarriedOut(item[m][e]), issued)

\* No advance is withheld on two issued slips: a month that is issued marks the
\* advances it withheld, so that a later month leaves them out (finalize_run).
AdvanceWithheldOnce ==
    \A m, k \in Finalized : m # k =>
        \A e \in On(m) \cap On(k) : item[m][e].advances \cap item[k][e].advances = {}

\* Waiving a leave changes no slip that is issued: not the month of the leave,
\* nor a later one that shares the allowance (set_pay_waiver,
\* _allocate_excess_by_month).
WaiverSparesIssued ==
    [][\A q \in Requests : waived'[q] # waived[q] /\ leave' = leave =>
           \A m \in Finalized, e \in Employees : UnpaidDays(e, m)' = UnpaidDays(e, m)]_vars

\* Generating a run again removes every reason for which finalize_run refuses
\* it: its advances, its debt and its leave are current (finalize_run, whose
\* refusals all send the operator back to generate_run).
RegenerateUnblocks ==
    [][\A m \in Months : Generate(m) => (Covers(m) /\ DebtCurrent(m) /\ LeaveCurrent(m))']_vars
==============================================================================
