\* One advance and two months whose drafts are open at the same time.
SPECIFICATION Spec
CONSTANTS
  owes = owes
  draws = draws
  draws2 = draws2
  rests = rests
  a1 = a1
  a2 = a2
  None = None
  Employees = {draws}
  LastMonth = 3
  Base = 2
  DayRate = 1
  Manuals = {0}
  Taxes = {0}
  Advances = {a1}
  Requests = {}
  Entitlement = 1
  MaxReopened = 0
  StandingTax <- MCStandingTax
  AdvanceOf <- MCAdvanceOf
  AdvanceMonth <- MCAdvanceMonth
  AdvanceAmount <- MCAdvanceAmount
  LeaveOf <- MCLeaveOf
  LeaveDays <- MCLeaveDays
  IsPaid <- MCIsPaid
  YearOf <- MCYearOf
CONSTRAINT OneStory
INVARIANTS AdvanceWithheldOnce
