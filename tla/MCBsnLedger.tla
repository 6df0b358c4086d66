----------------------------- MODULE MCBsnLedger -----------------------------
(***************************************************************************)
(* Small instances of BsnLedger: two lines of one sales document for one   *)
(* product in two units, and a purchase line of the same product.          *)
(***************************************************************************)
EXTENDS BsnLedger

CONSTANTS s1, s2, b1,      \* two sales lines and a purchase line
          p1, p2,          \* products
          c1, c2,          \* codes
          pc, box          \* units

MCSide == [k \in Lines |-> IF k = b1 THEN "purchase" ELSE "sales"]
MCDocBase == [k \in Lines |-> IF k = b1 THEN "HP1" ELSE "IV1"]
MCDocNo == [k \in Lines |-> IF k = b1 THEN "HP1" ELSE IF k = s1 THEN "IV1-1" ELSE "IV1-2"]
MCCode == [k \in Lines |-> IF k = s2 THEN c2 ELSE c1]
MCOneCode == [k \in Lines |-> c1]
MCBase == [p \in Products |-> pc]
MCDrops == Products \X {box}
MCNoDrops == {}
==============================================================================
