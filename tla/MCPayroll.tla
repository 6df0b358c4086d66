------------------------------- MODULE MCPayroll -------------------------------
(***************************************************************************)
(* A small instance of Payroll.  One employee's slips are edited into      *)
(* debt, two draw advances, one takes leave; a behaviour follows one of    *)
(* these three stories.                                                    *)
(***************************************************************************)
EXTENDS Payroll

CONSTANTS owes, draws, draws2, rests,   \* employees
          a1, a2                        \* advances

MCStandingTax == [e \in Employees |-> 0]
MCAdvanceOf == [a \in Advances |-> IF a = a1 THEN draws ELSE draws2]
MCAdvanceMonth == [a \in Advances |-> 1]
MCAdvanceAmount == [a \in Advances |-> 1]
MCLeaveOf == [q \in Requests |-> rests]
\* A leave in the first month, one over the next two, unpaid leave in the last.
MCLeaveDays == [q \in Requests |-> [m \in Months |->
                  IF m = q \/ (q = 2 /\ m = 3) THEN 1 ELSE 0]]
MCIsPaid == [q \in Requests |-> q # 3]
MCYearOf == [q \in Requests |-> 1]

Slots(P(_)) == {<<m, e>> \in Months \X Employees : item[m][e] # None /\ P(item[m][e])}
Payments == {<<m, e>> \in Months \X Employees : cash[m][e] # None}
Involved ==
    active \cup {e \in Employees : \E m \in Months : item[m][e] # None}
           \cup {AdvanceOf[a] : a \in {x \in Advances : advance[x] # None}}
           \cup {LeaveOf[q] : q \in {x \in Requests : leave[x]}}

Plain == Payments = {} /\ Slots(LAMBDA i : i.manual # 0 \/ i.tax # 0) = {}

\* Bounds: the people of one story, payments (one at a time) and edits (one
\* typed tax) of debtors only, two months of advances, no leave reopened.
OneStory ==
    \/ /\ Involved \subseteq {owes}
       /\ Cardinality(Payments) <= 1
       /\ Cardinality(Slots(LAMBDA i : i.tax # 0)) <= 1
    \/ Involved \subseteq {draws, draws2} /\ Plain /\ status[3] = "none"
    \/ Involved \subseteq {rests} /\ Plain /\ reopened = {}
==============================================================================
