\* The rule that a changed ratio rebuilds the ledger, against the code.
SPECIFICATION Spec
CONSTANTS
  s1 = s1
  s2 = s2
  b1 = b1
  p1 = p1
  p2 = p2
  c1 = c1
  c2 = c2
  pc = pc
  box = box
  None = None
  Ignored = Ignored
  NoRow = NoRow
  AnyUnit = AnyUnit
  Lines = {s1}
  Products = {p1}
  Units = {pc, box}
  Codes = {c1}
  NonStock = {}
  Returned = {}
  Qtys = {1}
  Moneys = {10}
  Ratios = {2, 3}
  Hazards = {}
  Scopes = {AnyUnit}
  Levels = {}
  Workers = {"w1"}
  MaxActive = 0
  MaxAdjust = 0
  Side <- MCSide
  DocNo <- MCDocNo
  DocBase <- MCDocBase
  Code <- MCOneCode
  Base <- MCBase
  ScriptDrops <- MCNoDrops
INVARIANTS LedgerFollowsRatio
