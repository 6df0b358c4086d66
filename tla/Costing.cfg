\* One process over bills, conversions and losses; two that import, edit, count
\* and rebuild, either of them killed between its commit and the rebuild.
SPECIFICATION FairSpec
CONSTANTS
  None = None
  Products = {1, 2}
  LastLine = 4
  LastEarly = 1
  LastPast = 3
  Openings = {0, 3}
  Formulas = {"pack", "unpack"}
  Losses = {0, 1, 2}
  Refs = {"C1"}
  Tokens = {"t1", "t2"}
  Levels = {1}
  Workers = {"w1", "w2"}
  MaxMoves = 3
  Versions <- MCVersions
  ProductOf <- MCProductOf
  Purchases <- MCPurchases
  Needs <- MCNeeds
  OutputOf <- MCOutputOf
  Makes <- MCMakes
CONSTRAINT OneStory
INVARIANTS TypeOK CostIsCurrent CostWithinCosts
PROPERTIES ConversionKeepsValue CostCatchesUp
