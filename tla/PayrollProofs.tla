----------------------------- MODULE PayrollProofs -----------------------------
(***************************************************************************)
(* Proofs about Payroll for any employees, months, advances, leave and     *)
(* amounts: payslips keep their promise, advances that are marked as       *)
(* deducted were withheld, and debts form one chain.                       *)
(*                                                                         *)
(* Most arguments leave sums of amounts opaque.  Those about unpaid leave, *)
(* and about a run that is generated again, are about sums of which parts  *)
(* are added or left out (SumLemmas).                                      *)
(***************************************************************************)
EXTENDS Payroll, SumLemmas

\* Every variable is a function on its domain, and slips belong to runs.
Shape ==
    /\ status \in [Months -> {"none", "draft", "finalized"}]
    /\ item = [m \in Months |-> [e \in Employees |-> item[m][e]]]
    /\ advance = [a \in Advances |-> advance[a]]
    /\ cash = [m \in Months |-> [e \in Employees |-> cash[m][e]]]
    /\ \A m \in Months : status[m] = "none" => On(m) = {}

LEMMA InitShape == Init => Shape
BY DEF Init, Shape, On

\* An item that is replaced in one month leaves the shape as it is.
LEMMA ItemShape ==
    ASSUME Shape, NEW m \in Months, NEW f, item' = [item EXCEPT ![m] = f],
           f = [e \in Employees |-> f[e]]
    PROVE  /\ item' = [k \in Months |-> [e \in Employees |-> item'[k][e]]]
           /\ item'[m] = f
           /\ \A k \in Months : k # m => item'[k] = item[k] /\ On(k)' = On(k)
<1>1. item'[m] = f
  BY DEF Shape
<1>2. \A k \in Months : k # m => item'[k] = item[k]
  BY DEF Shape
<1>3. \A k \in Months : item'[k] = [e \in Employees |-> item'[k][e]]
  BY <1>1, <1>2 DEF Shape
<1>4. item' = [k \in Months |-> item'[k]]
  BY DEF Shape
<1>5. item' = [k \in Months |-> [e \in Employees |-> item'[k][e]]]
  BY <1>3, <1>4
<1>6. \A k \in Months : k # m => On(k)' = On(k)
  BY <1>2 DEF On
<1> QED
  BY <1>1, <1>2, <1>5, <1>6

\* A rebuilt run: one slip per active employee, none for the others.
LEMMA GenerateShape ==
    ASSUME Shape, NEW m \in Months, Generate(m)
    PROVE  /\ Shape'
           /\ \A k \in Months : k # m => item'[k] = item[k] /\ On(k)' = On(k)
<1> DEFINE f == [e \in Employees |-> IF e \in active THEN Built(e, m) ELSE None]
<1>1. item' = [item EXCEPT ![m] = f] /\ f = [e \in Employees |-> f[e]]
  BY DEF Generate
<1> HIDE DEF f
<1>2. /\ item' = [k \in Months |-> [e \in Employees |-> item'[k][e]]]
      /\ \A k \in Months : k # m => item'[k] = item[k] /\ On(k)' = On(k)
  BY <1>1, ItemShape
<1>3. status' = [status EXCEPT ![m] = "draft"] /\ cash' = cash
      /\ advance' = [a \in Advances |-> advance'[a]]
  BY DEF Generate
<1>4. \A k \in Months : status'[k] = "none" => On(k)' = {}
  BY <1>2, <1>3 DEF Shape
<1> QED
  BY <1>2, <1>3, <1>4 DEF Shape

LEMMA EditItemShape ==
    ASSUME Shape, NEW m \in Months, NEW e \in Employees, NEW x, NEW t, EditItem(m, e, x, t)
    PROVE  /\ Shape'
           /\ status[m] = "draft"
           /\ \A k \in Months : k # m => item'[k] = item[k] /\ On(k)' = On(k)
<1> DEFINE f == [item[m] EXCEPT ![e] = [item[m][e] EXCEPT !.manual = x, !.tax = t]]
<1>1. status[m] = "draft"
  BY DEF EditItem, Shape, On
<1>2. item' = [item EXCEPT ![m] = item'[m]] /\ item'[m] = [d \in Employees |-> item'[m][d]]
  BY DEF EditItem, Shape
<1>3. /\ item' = [k \in Months |-> [d \in Employees |-> item'[k][d]]]
      /\ \A k \in Months : k # m => item'[k] = item[k] /\ On(k)' = On(k)
  BY <1>2, ItemShape
<1>4. UNCHANGED <<status, advance, cash>>
  BY DEF EditItem
<1>5. \A k \in Months : status'[k] = "none" => On(k)' = {}
  BY <1>1, <1>3, <1>4 DEF Shape
<1> QED
  BY <1>1, <1>3, <1>4, <1>5 DEF Shape

\* Every other step keeps the slips.
Others ==
    \/ \E m \in Months : Finalize(m) \/ Reopen(m)
    \/ \E m \in Months, e \in Employees : PaySalary(m, e) \/ VoidSalary(m, e)
    \/ \E a \in Advances : PostAdvance(a) \/ CancelAdvance(a)
    \/ \E q \in Requests : DecideLeave(q) \/ Waive(q)
    \/ \E e \in Employees : ChangeRoster(e)

LEMMA NextCases ==
    ASSUME Next
    PROVE  \/ \E m \in Months : Generate(m)
           \/ \E m \in Months, e \in Employees, x \in Manuals, t \in Taxes : EditItem(m, e, x, t)
           \/ Others
BY DEF Next, Others

LEMMA OthersKeepItems ==
    ASSUME Others
    PROVE  item' = item /\ \A m : On(m)' = On(m)
<1>1. item' = item
  BY DEF Others, Finalize, Reopen, PaySalary, VoidSalary, PostAdvance, CancelAdvance,
         DecideLeave, Waive, ChangeRoster
<1> QED
  BY <1>1 DEF On

LEMMA OthersShape ==
    ASSUME Shape, Others
    PROVE  Shape'
<1>1. item' = item /\ \A m : On(m)' = On(m)
  BY OthersKeepItems
<1>2. ASSUME NEW m \in Months, Finalize(m) PROVE Shape'
  BY <1>1, <1>2 DEF Finalize, Shape
<1>3. ASSUME NEW m \in Months, Reopen(m) PROVE Shape'
  BY <1>1, <1>3 DEF Reopen, Shape
<1>4. ASSUME NEW m \in Months, NEW e \in Employees, PaySalary(m, e) PROVE Shape'
  <2> DEFINE n == NetPay(item[m][e])
  <2>1. cash' = [cash EXCEPT ![m][e] = n] /\ UNCHANGED <<status, advance>>
    BY <1>4 DEF PaySalary
  <2> HIDE DEF n
  <2>2. cash' = [k \in Months |-> [d \in Employees |-> cash'[k][d]]]
    BY <2>1 DEF Shape
  <2>3. \A k \in Months : status'[k] = "none" => On(k)' = {}
    BY <1>1, <2>1 DEF Shape
  <2> QED
    BY <1>1, <2>1, <2>2, <2>3 DEF Shape
<1>5. ASSUME NEW m \in Months, NEW e \in Employees, VoidSalary(m, e) PROVE Shape'
  <2>1. cash' = [cash EXCEPT ![m][e] = None] /\ UNCHANGED <<status, advance>>
    BY <1>5 DEF VoidSalary
  <2>2. cash' = [k \in Months |-> [d \in Employees |-> cash'[k][d]]]
    BY <2>1 DEF Shape
  <2>3. \A k \in Months : status'[k] = "none" => On(k)' = {}
    BY <1>1, <2>1 DEF Shape
  <2> QED
    BY <1>1, <2>1, <2>2, <2>3 DEF Shape
<1>6. ASSUME NEW a \in Advances, PostAdvance(a) \/ CancelAdvance(a) PROVE Shape'
  BY <1>1, <1>6 DEF PostAdvance, CancelAdvance, Shape
<1>7. ASSUME NEW q \in Requests, DecideLeave(q) \/ Waive(q) PROVE Shape'
  BY <1>1, <1>7 DEF DecideLeave, Waive, Shape
<1>8. ASSUME NEW e \in Employees, ChangeRoster(e) PROVE Shape'
  BY <1>1, <1>8 DEF ChangeRoster, Shape
<1> QED
  BY <1>2, <1>3, <1>4, <1>5, <1>6, <1>7, <1>8 DEF Others

LEMMA ShapeHolds == Spec => []Shape
<1>1. Shape /\ [Next]_vars => Shape'
  <2> SUFFICES ASSUME Shape, [Next]_vars PROVE Shape'
    OBVIOUS
  <2>1. CASE UNCHANGED vars
    BY <2>1 DEF vars, Shape, On
  <2>2. CASE Next
    BY <2>2, NextCases, GenerateShape, EditItemShape, OthersShape
  <2> QED
    BY <2>1, <2>2
<1> QED
  BY <1>1, InitShape, PTL DEF Spec

-----------------------------------------------------------------------------
(* Payslips keep their promise: Payroll implements Payslips.                 *)

LEMMA InitPromise == Init => Promise!Init
BY DEF Init, Promise!Init, SlipOf

\* The slips of the other months do not move when their items do not.
LEMMA OneMonth ==
    ASSUME NEW m \in Months, \A k \in Months : k # m => item'[k] = item[k]
    PROVE  SlipOf' = [SlipOf EXCEPT ![m] = SlipOf'[m]]
<1>1. /\ SlipOf = [k \in Months |-> SlipOf[k]]
      /\ SlipOf' = [k \in Months |-> SlipOf'[k]]
  BY DEF SlipOf
<1>2. \A k \in Months : k # m => SlipOf'[k] = SlipOf[k]
  BY DEF SlipOf
<1> QED
  BY <1>1, <1>2

LEMMA SameSlips ==
    ASSUME item' = item
    PROVE  SlipOf' = SlipOf
BY DEF SlipOf

LEMMA GenerateIsWork ==
    ASSUME Shape, NEW m \in Months, Generate(m)
    PROVE  Promise!Work(m)
<1>1. SlipOf' = [SlipOf EXCEPT ![m] = SlipOf'[m]]
  BY GenerateShape, OneMonth
<1> QED
  BY <1>1 DEF Generate, Promise!Work

LEMMA EditItemIsWork ==
    ASSUME Shape, NEW m \in Months, NEW e \in Employees, NEW x, NEW t, EditItem(m, e, x, t)
    PROVE  Promise!Work(m)
<1>1. SlipOf' = [SlipOf EXCEPT ![m] = SlipOf'[m]]
  BY EditItemShape, OneMonth
<1>2. status[m] = "draft"
  BY EditItemShape
<1>3. status' = status
  BY DEF EditItem
<1>4. status' = [status EXCEPT ![m] = "draft"]
  BY <1>2, <1>3 DEF Shape
<1> QED
  BY <1>1, <1>4 DEF EditItem, Promise!Work

LEMMA FinalizeIsIssue ==
    ASSUME NEW m \in Months, Finalize(m)
    PROVE  Promise!Issue(m)
BY SameSlips DEF Finalize, Promise!Issue

LEMMA ReopenIsTakeBack ==
    ASSUME NEW m \in Months, Reopen(m)
    PROVE  Promise!TakeBack(m)
BY SameSlips DEF Reopen, Reopenable, Promise!TakeBack

LEMMA PaySalaryIsPay ==
    ASSUME NEW m \in Months, NEW e \in Employees, PaySalary(m, e)
    PROVE  Promise!Pay(m, e)
<1>1. SlipOf[m][e] = NetPay(item[m][e])
  BY DEF PaySalary, SlipOf
<1> QED
  BY <1>1, SameSlips DEF PaySalary, Promise!Pay

LEMMA VoidSalaryIsVoid ==
    ASSUME NEW m \in Months, NEW e \in Employees, VoidSalary(m, e)
    PROVE  Promise!Void(m, e)
BY SameSlips DEF VoidSalary, Promise!Void

\* What happens to advances, leave and the roster moves no payslip.
LEMMA RestStutters ==
    ASSUME \/ \E a \in Advances : PostAdvance(a) \/ CancelAdvance(a)
           \/ \E q \in Requests : DecideLeave(q) \/ Waive(q)
           \/ \E e \in Employees : ChangeRoster(e)
           \/ UNCHANGED vars
    PROVE  UNCHANGED Promise!vars
<1>1. UNCHANGED <<status, item, cash>>
  BY DEF PostAdvance, CancelAdvance, DecideLeave, Waive, ChangeRoster, vars
<1> QED
  BY <1>1, SameSlips DEF Promise!vars

\* Payroll implements Payslips: an issued slip keeps its net pay until the
\* month is taken back unpaid, and is paid in exactly that amount
\* (update_payroll_item, generate_run, finalize_run, reopen_run, post_salary).
THEOREM PayslipsKeepTheirPromise == Spec => SlipsKeepTheirPromise
<1>1. Shape /\ [Next]_vars => [Promise!Next]_(Promise!vars)
  <2> SUFFICES ASSUME Shape, Next \/ UNCHANGED vars
               PROVE  Promise!Next \/ UNCHANGED Promise!vars
    OBVIOUS
  <2>1. ASSUME NEW m \in Months, Generate(m) PROVE Promise!Next
    BY <2>1, GenerateIsWork DEF Promise!Next
  <2>2. ASSUME NEW m \in Months, NEW e \in Employees, NEW x \in Manuals, NEW t \in Taxes,
               EditItem(m, e, x, t)
        PROVE  Promise!Next
    BY <2>2, EditItemIsWork DEF Promise!Next
  <2>3. ASSUME NEW m \in Months, Finalize(m) \/ Reopen(m) PROVE Promise!Next
    BY <2>3, FinalizeIsIssue, ReopenIsTakeBack DEF Promise!Next
  <2>4. ASSUME NEW m \in Months, NEW e \in Employees, PaySalary(m, e) \/ VoidSalary(m, e)
        PROVE  Promise!Next
    BY <2>4, PaySalaryIsPay, VoidSalaryIsVoid DEF Promise!Next
  <2> QED
    BY <2>1, <2>2, <2>3, <2>4, RestStutters DEF Next
<1> QED
  BY <1>1, InitPromise, ShapeHolds, PTL DEF Spec, SlipsKeepTheirPromise, Promise!Spec

-----------------------------------------------------------------------------
(* What a month marks as deducted was withheld.                              *)

Stamped(m, e) == {a \in Advances : AdvanceOf[a] = e /\ advance[a] = m}

\* A month that was never closed has stamped nothing.
NoEarlyStamp ==
    \A m \in Months \ reopened : status[m] # "finalized" => \A a \in Advances : advance[a] # m

StampInv == Shape /\ NoEarlyStamp /\ StampsAreWithheld

LEMMA Numbers == 0 \notin Months /\ None \notin Months /\ None # 0
BY PayrollConstants DEF Months

\* The stamps of a closed month are covered by its slips after a step that
\* moves neither.
LEMMA SameStamps ==
    ASSUME StampsAreWithheld, NEW m \in Months, m \notin reopened, status[m] = "finalized",
           item'[m] = item[m],
           \A a \in Advances : advance'[a] = m <=> advance[a] = m
    PROVE  \A e \in Employees :
               Stamped(m, e)' # {} =>
                   item'[m][e] # None /\ Amount(Stamped(m, e)') <= Amount(item'[m][e].advances)
<1> SUFFICES ASSUME NEW e \in Employees, Stamped(m, e)' # {}
             PROVE  item'[m][e] # None /\ Amount(Stamped(m, e)') <= Amount(item'[m][e].advances)
  OBVIOUS
<1>1. Stamped(m, e)' = Stamped(m, e)
  BY DEF Stamped
<1>2. item[m][e] # None /\ Amount(Stamped(m, e)) <= Amount(item[m][e].advances)
  BY <1>1 DEF StampsAreWithheld, Stamped, Finalized
<1> QED
  BY <1>1, <1>2

\* The invariant after a step, read off month by month.
LEMMA StampsFrom ==
    ASSUME \A m \in Months : m \notin reopened' /\ status'[m] = "finalized" =>
               \A e \in Employees :
                   Stamped(m, e)' # {} =>
                       item'[m][e] # None /\ Amount(Stamped(m, e)') <= Amount(item'[m][e].advances)
    PROVE  StampsAreWithheld'
BY DEF StampsAreWithheld, Stamped, Finalized

LEMMA InitStamps == Init => StampInv
<1> SUFFICES ASSUME Init PROVE NoEarlyStamp /\ StampsAreWithheld
  BY InitShape DEF StampInv
<1>1. \A m \in Months : status[m] = "none"
  BY DEF Init
<1>2. \A a \in Advances, m \in Months : advance[a] # m
  BY Numbers DEF Init
<1> QED
  BY <1>1, <1>2 DEF NoEarlyStamp, StampsAreWithheld, Finalized

\* A rebuild moves the slips and the stamps of a month that is not closed.
LEMMA GenerateStamps ==
    ASSUME StampInv, NEW m \in Months, Generate(m)
    PROVE  NoEarlyStamp' /\ StampsAreWithheld'
<1>1. \A k \in Months : k # m => item'[k] = item[k]
  BY GenerateShape DEF StampInv
<1>2. reopened' = reopened /\ \A k \in Months : status'[k] = IF k = m THEN "draft" ELSE status[k]
  BY DEF Generate, StampInv, Shape
<1>3. \A a \in Advances : advance'[a] = advance[a] \/ (advance'[a] = 0 /\ advance[a] = m)
  BY DEF Generate, NotDeducted
<1>4. NoEarlyStamp'
  BY <1>2, <1>3, Numbers DEF Generate, StampInv, NoEarlyStamp
<1>5. \A k \in Months : k # m => \A a \in Advances : advance'[a] = k <=> advance[a] = k
  BY <1>3, Numbers
<1> QED
  BY <1>1, <1>2, <1>4, <1>5, SameStamps, StampsFrom DEF StampInv

LEMMA EditItemStamps ==
    ASSUME StampInv, NEW m \in Months, NEW e \in Employees, NEW x, NEW t, EditItem(m, e, x, t)
    PROVE  NoEarlyStamp' /\ StampsAreWithheld'
<1>1. status[m] = "draft" /\ \A k \in Months : k # m => item'[k] = item[k]
  BY EditItemShape DEF StampInv
<1>2. UNCHANGED <<status, reopened, advance>>
  BY DEF EditItem
<1>3. \A k \in Months : status[k] = "finalized" => item'[k] = item[k]
  BY <1>1
<1> QED
  BY <1>2, <1>3, SameStamps, StampsFrom DEF StampInv, NoEarlyStamp

\* The month that is closed had stamped nothing: what it stamps now is what
\* was pending, employee by employee, and that is what Covers compares.
LEMMA FinalizeStamps ==
    ASSUME StampInv, NEW m \in Months, Finalize(m)
    PROVE  NoEarlyStamp' /\ StampsAreWithheld'
<1> DEFINE P == UNION {Pending(e, m) : e \in On(m)}
<1>1. \A a \in P : advance[a] = 0
  BY DEF Pending, NotDeducted
<1>2. \A a \in Advances : advance'[a] = IF a \in P THEN m ELSE advance[a]
  <2>1. advance' = [a \in Advances |-> IF a \in P THEN m ELSE advance[a]]
    BY DEF Finalize
  <2> HIDE DEF P
  <2> QED
    BY <2>1
<1>3. UNCHANGED <<item, reopened>> /\ status' = [status EXCEPT ![m] = "finalized"]
  BY DEF Finalize
<1>4. NoEarlyStamp'
  BY <1>2, <1>3, Numbers DEF StampInv, Shape, NoEarlyStamp
<1>5. \A k \in Months : k # m => \A a \in Advances : advance'[a] = k <=> advance[a] = k
  BY <1>1, <1>2, Numbers
<1>6. ASSUME m \notin reopened, NEW e \in Employees, Stamped(m, e)' # {}
      PROVE  item'[m][e] # None /\ Amount(Stamped(m, e)') <= Amount(item'[m][e].advances)
  <2>1. \A a \in Advances : advance[a] # m
    BY <1>6 DEF StampInv, NoEarlyStamp, Finalize
  <2>2. \A a \in Advances : advance'[a] = m <=> a \in P
    BY <1>2, <2>1
  <2>3. \A a \in P : AdvanceOf[a] \in On(m) /\ a \in Pending(AdvanceOf[a], m) /\ a \in Advances
    BY DEF Pending
  <2>4. e \in On(m)
    BY <1>6, <2>2, <2>3 DEF Stamped
  <2>5. Stamped(m, e)' = Pending(e, m)
    BY <2>2, <2>3, <2>4 DEF Stamped, Pending
  <2>6. Amount(Pending(e, m)) <= Amount(item[m][e].advances)
    BY <2>4 DEF Finalize, Covers
  <2> QED
    BY <1>3, <2>4, <2>5, <2>6 DEF On
<1>7. \A k \in Months : k # m => status'[k] = status[k]
  BY <1>3 DEF StampInv, Shape
<1> QED
  BY <1>3, <1>4, <1>5, <1>6, <1>7, SameStamps, StampsFrom DEF StampInv

\* A month that is taken back keeps its stamps and is excused from now on.
LEMMA ReopenStamps ==
    ASSUME StampInv, NEW m \in Months, Reopen(m)
    PROVE  NoEarlyStamp' /\ StampsAreWithheld'
<1>1. /\ UNCHANGED <<item, advance>> /\ reopened' = reopened \cup {m}
      /\ \A k \in Months : k # m => status'[k] = status[k]
  BY DEF Reopen, StampInv, Shape
<1> QED
  BY <1>1, SameStamps, StampsFrom DEF StampInv, NoEarlyStamp

LEMMA AdvanceStamps ==
    ASSUME StampInv, NEW a \in Advances, PostAdvance(a) \/ CancelAdvance(a)
    PROVE  NoEarlyStamp' /\ StampsAreWithheld'
<1>1. UNCHANGED <<item, status, reopened>>
  BY DEF PostAdvance, CancelAdvance
<1>2. \A b \in Advances, k \in Months : advance'[b] = k <=> advance[b] = k
  BY Numbers DEF PostAdvance, CancelAdvance, NotDeducted, StampInv, Shape
<1> QED
  BY <1>1, <1>2, SameStamps, StampsFrom DEF StampInv, NoEarlyStamp

LEMMA RestStamps ==
    ASSUME StampInv, UNCHANGED <<item, status, reopened, advance>>
    PROVE  NoEarlyStamp' /\ StampsAreWithheld'
BY SameStamps, StampsFrom DEF StampInv, NoEarlyStamp

\* No month marks more advances as deducted than its slips withheld, as long
\* as it was never reopened (pending_advance_stamp, finalize_run).
THEOREM AdvancesAreWithheld == Spec => []StampsAreWithheld
<1>1. StampInv /\ [Next]_vars => NoEarlyStamp' /\ StampsAreWithheld'
  <2> SUFFICES ASSUME StampInv, [Next]_vars PROVE NoEarlyStamp' /\ StampsAreWithheld'
    OBVIOUS
  <2> DEFINE Goal == NoEarlyStamp' /\ StampsAreWithheld'
  <2>1. ASSUME NEW m \in Months, Generate(m) PROVE Goal
    BY <2>1, GenerateStamps
  <2>2. ASSUME NEW m \in Months, NEW e \in Employees, NEW x \in Manuals, NEW t \in Taxes,
               EditItem(m, e, x, t)
        PROVE  Goal
    BY <2>2, EditItemStamps
  <2>3. ASSUME NEW m \in Months, Finalize(m) PROVE Goal
    BY <2>3, FinalizeStamps
  <2>4. ASSUME NEW m \in Months, Reopen(m) PROVE Goal
    BY <2>4, ReopenStamps
  <2>5. ASSUME NEW a \in Advances, PostAdvance(a) \/ CancelAdvance(a) PROVE Goal
    BY <2>5, AdvanceStamps
  <2>6. ASSUME NEW m \in Months, NEW e \in Employees, PaySalary(m, e) \/ VoidSalary(m, e)
        PROVE  Goal
    BY <2>6, RestStamps DEF PaySalary, VoidSalary
  <2>7. ASSUME NEW q \in Requests, DecideLeave(q) \/ Waive(q) PROVE Goal
    BY <2>7, RestStamps DEF DecideLeave, Waive
  <2>8. ASSUME NEW e \in Employees, ChangeRoster(e) PROVE Goal
    BY <2>8, RestStamps DEF ChangeRoster
  <2>9. CASE UNCHANGED vars
    BY <2>9, RestStamps DEF vars
  <2> QED
    BY <2>1, <2>2, <2>3, <2>4, <2>5, <2>6, <2>7, <2>8, <2>9 DEF Next
<1>2. Shape /\ NoEarlyStamp /\ StampsAreWithheld <=> StampInv
  BY DEF StampInv
<1> QED
  BY <1>1, <1>2, InitStamps, ShapeHolds, PTL DEF Spec

-----------------------------------------------------------------------------
(* Debts form one chain.                                                     *)

Earlier(e, m) == {k \in Finalized : k < m /\ item[k][e] # None}

\* A set of months that is not empty has a largest member.
LEMMA MaxOfMonths ==
    ASSUME NEW S \in SUBSET Months, S # {}
    PROVE  Max(S) \in S
<1> DEFINE T == {LastMonth - k : k \in S}
<1>1. \A k \in S : k \in Int /\ LastMonth - k \in Nat
  BY PayrollConstants DEF Months
<1>2. PICK t \in T : \A u \in T : ~(<<u, t>> \in OpToRel(<, Nat))
  <2>1. T \subseteq Nat /\ T # {}
    BY <1>1
  <2> HIDE DEF T
  <2> QED
    BY <2>1, WFMin, NatLessThanWellFounded
<1>3. PICK k \in S : t = LastMonth - k
  OBVIOUS
<1>4. ASSUME NEW j \in S PROVE ~(LastMonth - j < LastMonth - k)
  <2>1. LastMonth - j \in T
    OBVIOUS
  <2>2. ~(<<LastMonth - j, LastMonth - k>> \in OpToRel(<, Nat))
    BY <1>2, <1>3, <2>1
  <2> QED
    BY <1>1, <2>2 DEF OpToRel
<1>5. \A j \in S : k >= j
  BY <1>1, <1>4, PayrollConstants
<1> QED
  BY <1>5 DEF Max

LEMMA SourceFacts ==
    ASSUME NEW e, NEW m
    PROVE  Source(e, m) # 0 => Source(e, m) \in Earlier(e, m)
<1>1. Earlier(e, m) \in SUBSET Months
  BY DEF Earlier, Finalized
<1> QED
  BY <1>1, MaxOfMonths DEF Source, Earlier

\* The debt that a slip takes over depends on the issued slips below it.
LEMMA SameCarry ==
    ASSUME NEW e \in Employees, NEW m \in Months,
           Earlier(e, m)' = Earlier(e, m),
           \A k \in Earlier(e, m) : item'[k] = item[k]
    PROVE  Carried(e, m)' = Carried(e, m)
<1>1. Source(e, m)' = Source(e, m)
  BY DEF Source, Earlier
<1>2. Source(e, m) # 0 => item'[Source(e, m)] = item[Source(e, m)]
  BY SourceFacts
<1> QED
  BY <1>1, <1>2 DEF Carried

\* A step that keeps the status and the slips of issued months keeps the chain.
LEMMA RestChain ==
    ASSUME DebtChain, Finalized' = Finalized, late' = late,
           \A k \in Finalized : item'[k] = item[k]
    PROVE  DebtChain'
<1> SUFFICES ASSUME NEW m \in Finalized, NEW e \in On(m)' \ late'
             PROVE  item'[m][e].carriedIn = Carried(e, m)'
  BY DEF DebtChain
<1>1. m \in Months /\ e \in Employees /\ e \in On(m) \ late
  BY DEF Finalized, On
<1>2. Earlier(e, m)' = Earlier(e, m) /\ \A k \in Earlier(e, m) : item'[k] = item[k]
  BY DEF Earlier
<1>3. Carried(e, m)' = Carried(e, m)
  BY <1>1, <1>2, SameCarry
<1> QED
  BY <1>1, <1>3 DEF DebtChain

LEMMA GenerateChain ==
    ASSUME Shape, DebtChain, NEW m \in Months, Generate(m)
    PROVE  DebtChain'
<1>1. \A k \in Months : k # m => item'[k] = item[k]
  BY GenerateShape
<1>2. Finalized' = Finalized /\ m \notin Finalized
  BY DEF Generate, Finalized, Shape
<1>3. late' = late
  BY DEF Generate
<1> QED
  BY <1>1, <1>2, <1>3, RestChain DEF Finalized

LEMMA EditItemChain ==
    ASSUME Shape, DebtChain, NEW m \in Months, NEW e \in Employees, NEW x, NEW t,
           EditItem(m, e, x, t)
    PROVE  DebtChain'
<1>1. \A k \in Months : k # m => item'[k] = item[k]
  BY EditItemShape
<1>2. Finalized' = Finalized /\ m \notin Finalized /\ late' = late
  BY DEF EditItem, Finalized
<1> QED
  BY <1>1, <1>2, RestChain DEF Finalized

\* A month that is issued or taken back moves the source only of later months,
\* and whoever has a slip on both is late from then on.
LEMMA TurnChain ==
    ASSUME DebtChain, NEW m \in Months,
           item' = item, late' = late \cup {e \in On(m) : IssuedLater(e, m)},
           \/ Finalized' = Finalized \cup {m} /\ DebtCurrent(m)
           \/ Finalized' = Finalized \ {m}
    PROVE  DebtChain'
<1> SUFFICES ASSUME NEW k \in Finalized', NEW e \in On(k)' \ late'
             PROVE  item'[k][e].carriedIn = Carried(e, k)'
  BY DEF DebtChain
<1>1. k \in Months /\ e \in Employees /\ e \in On(k) \ late
  BY DEF Finalized, On
<1>2. k \in Finalized \/ (k = m /\ DebtCurrent(m))
  OBVIOUS
<1>3. item[k][e].carriedIn = Carried(e, k)
  BY <1>1, <1>2 DEF DebtChain, DebtCurrent
<1>4. m < k => e \notin On(m)
  <2> SUFFICES ASSUME m < k, e \in On(m) PROVE FALSE
    OBVIOUS
  <2>1. k \in Finalized /\ k > m
    BY <1>1, <1>2 DEF Months
  <2> QED
    BY <1>1, <2>1 DEF IssuedLater, On
<1>5. Earlier(e, k)' = Earlier(e, k)
  <2>1. \A j \in Months : j < k /\ item[j][e] # None => j # m
    BY <1>1, <1>4 DEF On
  <2>2. Finalized \subseteq Months /\ Finalized' \subseteq Months
    BY DEF Finalized
  <2> QED
    BY <2>1, <2>2 DEF Earlier
<1>6. Carried(e, k)' = Carried(e, k)
  BY <1>1, <1>5, SameCarry
<1> QED
  BY <1>3, <1>6

\* An issued slip takes over what the issued slip before it carried out, as
\* long as months are closed in order (stale_carry_in, _carried_in_for).
THEOREM DebtsFormAChain == Spec => []DebtChain
<1>1. Init => DebtChain
  BY DEF Init, DebtChain, Finalized
<1>2. Shape /\ DebtChain /\ [Next]_vars => DebtChain'
  <2> SUFFICES ASSUME Shape, DebtChain, [Next]_vars PROVE DebtChain'
    OBVIOUS
  <2>1. ASSUME NEW m \in Months, Generate(m) PROVE DebtChain'
    BY <2>1, GenerateChain
  <2>2. ASSUME NEW m \in Months, NEW e \in Employees, NEW x \in Manuals, NEW t \in Taxes,
               EditItem(m, e, x, t)
        PROVE  DebtChain'
    BY <2>2, EditItemChain
  <2>3. ASSUME NEW m \in Months, Finalize(m) PROVE DebtChain'
    <3>1. Finalized' = Finalized \cup {m}
      BY <2>3 DEF Finalize, Finalized, Shape
    <3> QED
      BY <2>3, <3>1, TurnChain DEF Finalize
  <2>4. ASSUME NEW m \in Months, Reopen(m) PROVE DebtChain'
    <3>1. Finalized' = Finalized \ {m}
      BY <2>4 DEF Reopen, Finalized, Shape
    <3> QED
      BY <2>4, <3>1, TurnChain DEF Reopen
  <2>5. CASE UNCHANGED <<status, item, late>>
    BY <2>5, RestChain DEF Finalized
  <2>6. CASE Next /\ ~\E m \in Months : Finalize(m) \/ Reopen(m) \/ Generate(m)
    <3>1. CASE UNCHANGED <<status, item, late>>
      BY <2>5, <3>1
    <3>2. CASE \E m \in Months, e \in Employees, x \in Manuals, t \in Taxes : EditItem(m, e, x, t)
      BY <2>2, <3>2
    <3> QED
      BY <2>6, <3>1, <3>2
         DEF Next, PaySalary, VoidSalary, PostAdvance, CancelAdvance, DecideLeave, Waive,
             ChangeRoster
  <2> QED
    BY <2>1, <2>3, <2>4, <2>5, <2>6 DEF vars
<1> QED
  BY <1>1, <1>2, ShapeHolds, PTL DEF Spec

-----------------------------------------------------------------------------
(* Generating a run again makes all that finalize_run looks at current.      *)

\* A sum of advances is an amount, and part of them is no more.
LEMMA AmountFacts ==
    ASSUME NEW S \in SUBSET Advances
    PROVE  Amount(S) \in Nat /\ \A T \in SUBSET S : Amount(T) <= Amount(S)
<1>1. IsFiniteSet(S) /\ \A a \in S : AdvanceAmount[a] \in Nat
  BY PayrollConstants, FS_Subset
<1> QED
  BY <1>1, SumNat, SumMonotone DEF Amount

\* The slips that a rebuild makes, and what they were made from.
LEMMA GeneratedItems ==
    ASSUME Shape, NEW m \in Months, Generate(m), NEW e \in On(m)'
    PROVE  /\ e \in Employees /\ e \in active
           /\ item'[m][e].days = UnpaidDays(e, m)
           /\ item'[m][e].advances = Withheld(e, m)
           /\ item'[m][e].carriedIn = Carried(e, m)
<1> DEFINE f == [d \in Employees |-> IF d \in active THEN Built(d, m) ELSE None]
<1>1. item' = [item EXCEPT ![m] = f]
  BY DEF Generate
<1>2. item'[m] = f
  <2> HIDE DEF f
  <2> QED
    BY <1>1 DEF Shape
<1>3. e \in Employees /\ item'[m][e] # None
  BY DEF On
<1>4. e \in active /\ item'[m][e] = Built(e, m)
  BY <1>2, <1>3
<1> QED
  BY <1>3, <1>4 DEF Built

\* Only advances of employees who are gone are given back.
LEMMA GeneratedCovers ==
    ASSUME Shape, NEW m \in Months, Generate(m)
    PROVE  Covers(m)'
<1> SUFFICES ASSUME NEW e \in On(m)'
             PROVE  Amount(Pending(e, m)') <= Amount(item'[m][e].advances)
  BY DEF Covers, Amount
<1>1. e \in active /\ item'[m][e].advances = Withheld(e, m)
  BY GeneratedItems
<1>2. advance' = [a \in Advances |->
          IF advance[a] = m /\ AdvanceOf[a] \notin active THEN NotDeducted ELSE advance[a]]
  BY DEF Generate
<1>3. Pending(e, m)' \in SUBSET Withheld(e, m)
  BY <1>1, <1>2 DEF Pending, Withheld
<1>4. Withheld(e, m) \in SUBSET Advances
  BY DEF Pending, Withheld
<1> QED
  BY <1>1, <1>3, <1>4, AmountFacts

LEMMA GeneratedDebt ==
    ASSUME Shape, NEW m \in Months, Generate(m)
    PROVE  DebtCurrent(m)'
<1>1. \A k \in Months : k # m => item'[k] = item[k]
  BY GenerateShape
<1>2. Finalized' = Finalized /\ m \notin Finalized /\ Finalized \subseteq Months
  BY DEF Generate, Finalized, Shape
<1> SUFFICES ASSUME NEW e \in On(m)' PROVE item'[m][e].carriedIn = Carried(e, m)'
  BY DEF DebtCurrent
<1>3. e \in Employees /\ item'[m][e].carriedIn = Carried(e, m)
  BY GeneratedItems
<1>4. Earlier(e, m)' = Earlier(e, m) /\ \A k \in Earlier(e, m) : item'[k] = item[k]
  BY <1>1, <1>2 DEF Earlier
<1>5. Carried(e, m)' = Carried(e, m)
  BY <1>3, <1>4, SameCarry
<1> QED
  BY <1>3, <1>5

LEMMA GeneratedLeave ==
    ASSUME Shape, NEW m \in Months, Generate(m)
    PROVE  LeaveCurrent(m)'
<1> SUFFICES ASSUME NEW e \in On(m)' PROVE item'[m][e].days = UnpaidDays(e, m)'
  BY DEF LeaveCurrent
<1>1. leave' = leave /\ waived' = waived
  BY DEF Generate
<1>2. UnpaidDays(e, m)' = UnpaidDays(e, m)
  BY <1>1 DEF UnpaidDays, Excess, UsedBefore, Cohort
<1> QED
  BY <1>2, GeneratedItems

\* Whatever moved on since, the operator whom finalize_run sends back to
\* generate_run finds the run current afterwards: its advances, its debt and
\* its leave.
THEOREM RegeneratingUnblocks == Spec => RegenerateUnblocks
<1>1. Shape /\ [Next]_vars =>
        [\A m \in Months : Generate(m) => (Covers(m) /\ DebtCurrent(m) /\ LeaveCurrent(m))']_vars
  BY GeneratedCovers, GeneratedDebt, GeneratedLeave
<1> QED
  BY <1>1, ShapeHolds, PTL DEF Spec, RegenerateUnblocks

-----------------------------------------------------------------------------
(* Unpaid leave.                                                             *)

LEMMA MonthsFinite == IsFiniteSet(Months)
BY PayrollConstants, FS_Interval DEF Months

\* The days of one request up to the walk's position, and of the cohort.
LEMMA UsedType ==
    ASSUME NEW e, NEW q \in Requests, NEW m
    PROVE  UsedBefore(e, q, m) \in Nat
<1> DEFINE K(r) == {k \in Months : k < m \/ (k = m /\ r < q)}
           days == [r \in Requests |-> SumFunctionOnSet(LeaveDays[r], K(r))]
<1>1. \A r \in Requests : days[r] \in Nat
  <2> SUFFICES ASSUME NEW r \in Requests PROVE SumFunctionOnSet(LeaveDays[r], K(r)) \in Nat
    OBVIOUS
  <2>1. IsFiniteSet(K(r))
    BY MonthsFinite, FS_Subset
  <2>2. \A k \in K(r) : LeaveDays[r][k] \in Nat
    BY PayrollConstants
  <2> HIDE DEF K
  <2> QED
    BY <2>1, <2>2, SumNat
<1>2. IsFiniteSet(Cohort(e, q)) /\ Cohort(e, q) \subseteq Requests
  BY PayrollConstants, FS_Subset DEF Cohort
<1>3. UsedBefore(e, q, m) = SumFunctionOnSet(days, Cohort(e, q))
  BY DEF UsedBefore
<1> HIDE DEF days
<1> QED
  BY <1>1, <1>2, <1>3, SumNat

\* What of a request is unpaid in a month: days, and none without days.
LEMMA ExcessFacts ==
    ASSUME NEW e, NEW q \in Requests, NEW m \in Months
    PROVE  Excess(e, q, m) \in Nat /\ (LeaveDays[q][m] = 0 => Excess(e, q, m) = 0)
<1>1. LeaveDays[q][m] \in Nat /\ UsedBefore(e, q, m) \in Nat /\ Entitlement \in Nat
  BY PayrollConstants, UsedType
<1> QED
  BY <1>1 DEF Excess

Unpaid(e, m) ==
    [q \in Requests |-> IF IsPaid[q] THEN Excess(e, q, m) ELSE LeaveDays[q][m]]

Docked(e) == {q \in Requests : LeaveOf[q] = e /\ leave[q] /\ ~waived[q]}

LEMMA UnpaidFacts ==
    ASSUME NEW e, NEW m \in Months
    PROVE  /\ UnpaidDays(e, m) = SumFunctionOnSet(Unpaid(e, m), Docked(e))
           /\ \A q \in Requests : /\ Unpaid(e, m)[q] \in Nat
                                  /\ LeaveDays[q][m] = 0 => Unpaid(e, m)[q] = 0
           /\ IsFiniteSet(Docked(e)) /\ Docked(e) \subseteq Requests
<1>1. UnpaidDays(e, m) = SumFunctionOnSet(Unpaid(e, m), Docked(e))
  BY DEF UnpaidDays, Unpaid, Docked
<1>2. ASSUME NEW q \in Requests
      PROVE  Unpaid(e, m)[q] \in Nat /\ (LeaveDays[q][m] = 0 => Unpaid(e, m)[q] = 0)
  <2>1. Unpaid(e, m)[q] = IF IsPaid[q] THEN Excess(e, q, m) ELSE LeaveDays[q][m]
    BY DEF Unpaid
  <2>2. LeaveDays[q][m] \in Nat
    BY PayrollConstants
  <2> QED
    BY <2>1, <2>2, ExcessFacts
<1>3. IsFiniteSet(Docked(e)) /\ Docked(e) \subseteq Requests
  BY PayrollConstants, FS_Subset DEF Docked
<1> QED
  BY <1>1, <1>2, <1>3

-----------------------------------------------------------------------------
(* Types.                                                                    *)

\* What a slip pays and what it cannot pay are amounts.
LEMMA NetType ==
    ASSUME NEW i \in Item
    PROVE  NetPay(i) \in Nat /\ CarriedOut(i) \in Nat
<1>1. /\ i.days \in Nat /\ i.advances \in SUBSET Advances /\ i.carriedIn \in Nat
      /\ i.manual \in Int /\ i.tax \in Nat
  BY PayrollConstants DEF Item
<1>2. Amount(i.advances) \in Nat
  BY <1>1, AmountFacts
<1>3. Base \in Nat /\ DayRate \in Nat /\ i.days * DayRate \in Nat
  BY <1>1, PayrollConstants
<1>4. Smaller(i.days * DayRate, Base) \in Nat
  BY <1>3 DEF Smaller
<1>5. NetBeforeClamp(i) \in Int
  BY <1>1, <1>2, <1>3, <1>4 DEF NetBeforeClamp
<1> QED
  BY <1>5 DEF NetPay, CarriedOut

LEMMA UnpaidDaysType ==
    ASSUME NEW e, NEW m \in Months
    PROVE  UnpaidDays(e, m) \in Nat
BY UnpaidFacts, SumNat

LEMMA CarriedType ==
    ASSUME TypeOK, NEW e \in Employees, NEW m \in Months
    PROVE  Carried(e, m) \in Nat
<1>1. CASE Source(e, m) # 0
  <2>1. Source(e, m) \in Months /\ item[Source(e, m)][e] # None
    BY <1>1, SourceFacts DEF Earlier, Finalized
  <2>2. item[Source(e, m)][e] \in Item
    BY <2>1 DEF TypeOK
  <2> QED
    BY <1>1, <2>2, NetType DEF Carried
<1>2. CASE Source(e, m) = 0
  BY <1>2 DEF Carried
<1> QED
  BY <1>1, <1>2

LEMMA BuiltType ==
    ASSUME TypeOK, NEW e \in Employees, NEW m \in Months
    PROVE  Built(e, m) \in Item
<1>1. UnpaidDays(e, m) \in Nat /\ Carried(e, m) \in Nat
  BY UnpaidDaysType, CarriedType
<1>2. Withheld(e, m) \in SUBSET Advances
  BY DEF Withheld, Pending
<1>3. (IF item[m][e] = None THEN 0 ELSE item[m][e].manual) \in Manuals
  <2>1. item[m][e] \in Item \cup {None}
    BY DEF TypeOK
  <2> QED
    BY <2>1, PayrollConstants DEF Item
<1>4. StandingTax[e] \in Taxes
  BY PayrollConstants
<1> QED
  BY <1>1, <1>2, <1>3, <1>4 DEF Built, Item

LEMMA GenerateTypes ==
    ASSUME TypeOK, NEW m \in Months, Generate(m)
    PROVE  TypeOK'
<1> DEFINE f == [e \in Employees |-> IF e \in active THEN Built(e, m) ELSE None]
<1>1. f \in [Employees -> Item \cup {None}]
  BY BuiltType
<1>2. item' = [item EXCEPT ![m] = f]
  BY DEF Generate
<1> HIDE DEF f
<1>3. item' \in [Months -> [Employees -> Item \cup {None}]]
  BY <1>1, <1>2 DEF TypeOK
<1>4. advance' \in [Advances -> {None, NotDeducted} \cup Months]
  BY DEF Generate, TypeOK
<1>5. status' \in [Months -> {"none", "draft", "finalized"}]
  BY DEF Generate, TypeOK
<1> QED
  BY <1>3, <1>4, <1>5 DEF Generate, TypeOK

LEMMA EditItemTypes ==
    ASSUME TypeOK, NEW m \in Months, NEW e \in Employees, NEW x \in Manuals, NEW t \in Taxes,
           EditItem(m, e, x, t)
    PROVE  TypeOK'
<1> DEFINE i == [item[m][e] EXCEPT !.manual = x, !.tax = t]
<1>1. item[m][e] \in Item
  BY DEF EditItem, TypeOK
<1>2. i \in Item
  BY <1>1 DEF Item
<1>3. item' = [item EXCEPT ![m] = [item[m] EXCEPT ![e] = i]]
  BY DEF EditItem, TypeOK
<1> HIDE DEF i
<1>4. item' \in [Months -> [Employees -> Item \cup {None}]]
  BY <1>2, <1>3 DEF TypeOK
<1> QED
  BY <1>4 DEF EditItem, TypeOK

LEMMA OthersTypes ==
    ASSUME TypeOK, Others
    PROVE  TypeOK'
<1>1. \A m \in Months : On(m) \subseteq Employees
  BY DEF On
<1>2. ASSUME NEW m \in Months, Finalize(m) PROVE TypeOK'
  <2>1. late' \subseteq Employees
    BY <1>1, <1>2 DEF Finalize, TypeOK
  <2>2. advance' \in [Advances -> {None, NotDeducted} \cup Months]
    BY <1>2 DEF Finalize, TypeOK
  <2>3. status' \in [Months -> {"none", "draft", "finalized"}]
    BY <1>2 DEF Finalize, TypeOK
  <2> QED
    BY <1>2, <2>1, <2>2, <2>3 DEF Finalize, TypeOK
<1>3. ASSUME NEW m \in Months, Reopen(m) PROVE TypeOK'
  <2>1. late' \subseteq Employees /\ confirmed' \subseteq Employees
    BY <1>1, <1>3 DEF Reopen, ConsumedBy, TypeOK
  <2>2. status' \in [Months -> {"none", "draft", "finalized"}]
    BY <1>3 DEF Reopen, TypeOK
  <2> QED
    BY <1>3, <2>1, <2>2 DEF Reopen, TypeOK
<1>4. ASSUME NEW m \in Months, NEW e \in Employees, PaySalary(m, e) PROVE TypeOK'
  <2> DEFINE n == NetPay(item[m][e])
  <2>1. item[m][e] \in Item
    BY <1>4 DEF PaySalary, TypeOK
  <2>2. n \in Nat
    BY <2>1, NetType
  <2>3. cash' = [cash EXCEPT ![m][e] = n]
    BY <1>4 DEF PaySalary
  <2> HIDE DEF n
  <2>4. cash' \in [Months -> [Employees -> Nat \cup {None}]]
    BY <2>2, <2>3 DEF TypeOK
  <2> QED
    BY <1>4, <2>4 DEF PaySalary, TypeOK
<1>5. ASSUME NEW m \in Months, NEW e \in Employees, VoidSalary(m, e) PROVE TypeOK'
  <2>1. cash' \in [Months -> [Employees -> Nat \cup {None}]]
    BY <1>5 DEF VoidSalary, TypeOK
  <2> QED
    BY <1>5, <2>1 DEF VoidSalary, TypeOK
<1>6. ASSUME NEW a \in Advances, PostAdvance(a) \/ CancelAdvance(a) PROVE TypeOK'
  BY <1>6 DEF PostAdvance, CancelAdvance, TypeOK
<1>7. ASSUME NEW q \in Requests, DecideLeave(q) \/ Waive(q) PROVE TypeOK'
  BY <1>7 DEF DecideLeave, Waive, TypeOK
<1>8. ASSUME NEW e \in Employees, ChangeRoster(e) PROVE TypeOK'
  BY <1>8 DEF ChangeRoster, TypeOK
<1> QED
  BY <1>2, <1>3, <1>4, <1>5, <1>6, <1>7, <1>8 DEF Others

\* Every slip is made of amounts and days, every cashbook row is an amount, and
\* every advance is marked with a month or not at all: what unpaid leave and
\* carried debts add up to never leaves the naturals.
THEOREM PayrollTypeCorrect == Spec => []TypeOK
<1>1. Init => TypeOK
  BY DEF Init, TypeOK
<1>2. TypeOK /\ [Next]_vars => TypeOK'
  <2> SUFFICES ASSUME TypeOK, [Next]_vars PROVE TypeOK'
    OBVIOUS
  <2>1. CASE UNCHANGED vars
    BY <2>1 DEF vars, TypeOK
  <2>2. CASE Next
    BY <2>2, NextCases, GenerateTypes, EditItemTypes, OthersTypes
  <2> QED
    BY <2>1, <2>2
<1> QED
  BY <1>1, <1>2, PTL DEF Spec

-----------------------------------------------------------------------------
(* A waiver changes no issued slip.                                          *)

\* The request leaves the sum or enters it, and is worth nothing in the month.
LEMMA WaivedSum ==
    ASSUME TypeOK, NEW q \in Requests, Waive(q), NEW m \in Finalized, NEW e \in Employees
    PROVE  UnpaidDays(e, m)' = UnpaidDays(e, m)
<1> DEFINE u == Unpaid(e, m)
           D == Docked(e)
           E == Docked(e)'
<1>1. m \in Months /\ leave' = leave /\ waived' = [waived EXCEPT ![q] = ~waived[q]]
  BY DEF Finalized, Waive
<1>2. u' = u
  BY <1>1 DEF Unpaid, Excess, UsedBefore, Cohort
<1>3. u[q] = 0
  <2>1. ~(LeaveDays[q][m] > 0)
    BY <1>1 DEF Waive, Touches
  <2>2. LeaveDays[q][m] \in Nat
    BY <1>1, PayrollConstants
  <2>3. LeaveDays[q][m] = 0
    BY <2>1, <2>2
  <2> QED
    BY <1>1, <2>3, UnpaidFacts
<1>4. /\ UnpaidDays(e, m) = SumFunctionOnSet(u, D)
      /\ UnpaidDays(e, m)' = SumFunctionOnSet(u', E)
  BY DEF UnpaidDays, Unpaid, Docked
<1>5. IsFiniteSet(D) /\ D \subseteq Requests /\ IsFiniteSet(E) /\ E \subseteq Requests
  BY PayrollConstants, FS_Subset DEF Docked
<1>6. \A r \in Requests : u[r] \in Nat /\ u[r] \in Int
  BY <1>1, UnpaidFacts
<1>7. E = D \/ (q \notin D /\ E = D \cup {q}) \/ (q \notin E /\ D = E \cup {q})
  BY <1>1 DEF Docked, TypeOK
<1> HIDE DEF u, D, E
<1>8. \A S \in SUBSET Requests : IsFiniteSet(S) /\ q \notin S =>
         SumFunctionOnSet(u, S \cup {q}) = SumFunctionOnSet(u, S)
  <2> SUFFICES ASSUME NEW S \in SUBSET Requests, IsFiniteSet(S), q \notin S
               PROVE  SumFunctionOnSet(u, S \cup {q}) = SumFunctionOnSet(u, S)
    OBVIOUS
  <2>1. SumFunctionOnSet(u, S) \in Int
    BY <1>6, SumInt
  <2>2. SumFunctionOnSet(u, S \cup {q}) = SumFunctionOnSet(u, S) + u[q]
    BY <1>6, SumAdd
  <2> QED
    BY <1>3, <2>1, <2>2
<1>9. SumFunctionOnSet(u, E) = SumFunctionOnSet(u, D)
  BY <1>5, <1>7, <1>8
<1> QED
  BY <1>2, <1>4, <1>9

\* Waiving a leave leaves the unpaid days of every issued month as they are:
\* those of the month of the leave, and those of a later one in which the
\* waived request still consumes the allowance that both share.
THEOREM WaiversSpareIssued == Spec => WaiverSparesIssued
<1>1. TypeOK /\ [Next]_vars =>
        [\A q \in Requests : waived'[q] # waived[q] /\ leave' = leave =>
            \A m \in Finalized, e \in Employees : UnpaidDays(e, m)' = UnpaidDays(e, m)]_vars
  <2> SUFFICES ASSUME TypeOK, Next, NEW q \in Requests, waived'[q] # waived[q], leave' = leave,
                      NEW m \in Finalized, NEW e \in Employees
               PROVE  UnpaidDays(e, m)' = UnpaidDays(e, m)
    OBVIOUS
  <2>1. PICK r \in Requests : DecideLeave(r) \/ Waive(r)
    <3>1. waived' # waived
      OBVIOUS
    <3> QED
      BY <3>1 DEF Next, Generate, EditItem, Finalize, Reopen, PaySalary, VoidSalary,
                  PostAdvance, CancelAdvance, ChangeRoster
  <2>2. ~DecideLeave(r)
    BY DEF DecideLeave, TypeOK
  <2> QED
    BY <2>1, <2>2, WaivedSum
<1> QED
  BY <1>1, PayrollTypeCorrect, PTL DEF Spec, WaiverSparesIssued

================================================================================
