\* Two lines of a code split by unit, and re-points of the whole code or
\* of one unit, with and without holding the stock levels.
SPECIFICATION Spec
CONSTANTS
  s1 = s1
  s2 = s2
  b1 = b1
  p1 = p1
  p2 = p2
  c1 = c1
  c2 = c2
  pc = pc
  box = box
  None = None
  Ignored = Ignored
  NoRow = NoRow
  AnyUnit = AnyUnit
  Lines = {s1, s2}
  Products = {p1, p2}
  Units = {pc, box}
  Codes = {c1}
  NonStock = {}
  Returned = {}
  Qtys = {1}
  Moneys = {10}
  Ratios = {2}
  Hazards = {}
  Scopes = {AnyUnit, pc}
  Levels = {}
  Workers = {"w1"}
  MaxActive = 0
  MaxAdjust = 1
  Side <- MCSide
  DocNo <- MCDocNo
  DocBase <- MCDocBase
  Code <- MCOneCode
  Base <- MCBase
  ScriptDrops <- MCNoDrops
INVARIANTS LedgerMatchesLines
PROPERTIES RepointPreservesStock
