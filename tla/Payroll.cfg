\* Three months generated, closed and reopened in any order: debts of one
\* employee, advances of two, leave requests that share an allowance of a day.
SPECIFICATION Spec
CONSTANTS
  owes = owes
  draws = draws
  draws2 = draws2
  rests = rests
  a1 = a1
  a2 = a2
  None = None
  Employees = {owes, draws, draws2, rests}
  LastMonth = 3
  Base = 2
  DayRate = 1
  Manuals = {0, 3}
  Taxes = {0, 1}
  Advances = {a1, a2}
  Requests = {1, 2, 3}
  Entitlement = 1
  MaxReopened = 1
  StandingTax <- MCStandingTax
  AdvanceOf <- MCAdvanceOf
  AdvanceMonth <- MCAdvanceMonth
  AdvanceAmount <- MCAdvanceAmount
  LeaveOf <- MCLeaveOf
  LeaveDays <- MCLeaveDays
  IsPaid <- MCIsPaid
  YearOf <- MCYearOf
CONSTRAINT OneStory
INVARIANTS TypeOK StampsAreWithheld DebtChain
PROPERTIES SlipsKeepTheirPromise WaiverSparesIssued RegenerateUnblocks
