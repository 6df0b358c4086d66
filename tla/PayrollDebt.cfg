\* One employee who owes, and three months generated and closed in any order.
SPECIFICATION Spec
CONSTANTS
  owes = owes
  draws = draws
  draws2 = draws2
  rests = rests
  a1 = a1
  a2 = a2
  None = None
  Employees = {owes}
  LastMonth = 3
  Base = 2
  DayRate = 1
  Manuals = {0, 3}
  Taxes = {0}
  Advances = {}
  Requests = {}
  Entitlement = 1
  MaxReopened = 0
  StandingTax <- MCStandingTax
  AdvanceOf <- MCAdvanceOf
  AdvanceMonth <- MCAdvanceMonth
  AdvanceAmount <- MCAdvanceAmount
  LeaveOf <- MCLeaveOf
  LeaveDays <- MCLeaveDays
  IsPaid <- MCIsPaid
  YearOf <- MCYearOf
CONSTRAINT OneStory
INVARIANTS DebtNeverTakenTwice
