------------------------------- MODULE Payslips -------------------------------
(***************************************************************************)
(* What the payroll screens promise of a payslip, whatever it is computed  *)
(* from: a slip under work may change, an issued slip may not, only an     *)
(* issued slip is paid, once and in its own amount, and a month goes back  *)
(* to work as a whole and only while none of its slips is paid.            *)
(* Payroll implements this specification.                                  *)
(***************************************************************************)
EXTENDS Integers

CONSTANTS Employees, Months, Unpaid

VARIABLES
    status,   \* status[m] of a month: "none", "draft" or "finalized"
    slip,     \* slip[m][e]: the net pay, 0 without a slip
    cash      \* cash[m][e]: the amount of the posted payment, or Unpaid

vars == <<status, slip, cash>>

Init ==
    /\ status = [m \in Months |-> "none"]
    /\ slip = [m \in Months |-> [e \in Employees |-> 0]]
    /\ cash = [m \in Months |-> [e \in Employees |-> Unpaid]]

\* The slips of one month that is not issued change in any way.
Work(m) ==
    /\ status[m] # "finalized"
    /\ status' = [status EXCEPT ![m] = "draft"]
    /\ slip' = [slip EXCEPT ![m] = slip'[m]]
    /\ UNCHANGED cash

Issue(m) ==
    /\ status[m] = "draft"
    /\ status' = [status EXCEPT ![m] = "finalized"]
    /\ UNCHANGED <<slip, cash>>

TakeBack(m) ==
    /\ status[m] = "finalized"
    /\ \A e \in Employees : cash[m][e] = Unpaid
    /\ status' = [status EXCEPT ![m] = "draft"]
    /\ UNCHANGED <<slip, cash>>

Pay(m, e) ==
    /\ status[m] = "finalized"
    /\ slip[m][e] > 0
    /\ cash[m][e] = Unpaid
    /\ cash' = [cash EXCEPT ![m][e] = slip[m][e]]
    /\ UNCHANGED <<status, slip>>

Void(m, e) ==
    /\ cash' = [cash EXCEPT ![m][e] = Unpaid]
    /\ UNCHANGED <<status, slip>>

Next ==
    \E m \in Months :
        \/ Work(m)
        \/ Issue(m)
        \/ TakeBack(m)
        \/ \E e \in Employees : Pay(m, e) \/ Void(m, e)

Spec == Init /\ [][Next]_vars
==============================================================================
