------------------------------- MODULE MCCosting -------------------------------
(***************************************************************************)
(* Loose pieces (1) that are packed into cards (2) and unpacked again; a   *)
(* purchase, a sale, a purchase, and one that is dated after every run.    *)
(***************************************************************************)
EXTENDS Costing

MCProductOf == [k \in Lines |-> 1]
MCPurchases == Lines \ {2}
MCVersions == [k \in Lines |->
    CASE k = 1 -> {[qty |-> 2, net |-> 4]}
      [] k = 2 -> {[qty |-> 2, net |-> 0]}
      [] OTHER -> {[qty |-> 1, net |-> 2]}]
MCNeeds == [f \in Formulas |-> [p \in Products |->
              IF f = "pack" THEN IF p = 1 THEN 2 ELSE 0
              ELSE IF p = 2 THEN 1 ELSE 0]]
MCOutputOf == [f \in Formulas |-> IF f = "pack" THEN 2 ELSE 1]
MCMakes == [f \in Formulas |-> IF f = "pack" THEN 2 ELSE 1]

\* Bounds: only the pieces have an opening cost, and "t1" is the first run.
Plain ==
    /\ opening[2] = 0
    /\ \A p \in Products : log[p] # <<>> => "t1" \in UsedTokens

\* Either one process works without interruption, over two bills of four,
\* all runs and losses, on an opening cost of 3, or two do, over two bills and a count.
OneStory ==
    /\ Plain
    /\ \/ /\ opening[1] = 3 /\ Cardinality({k \in Lines : bill[k] # None}) <= 2
          /\ todo["w2"] = {} /\ stale = {}
          /\ \A p \in Products : \A i \in 1..Len(moves[p]) : moves[p][i].kind # "counted"
          /\ seen["w1"] # None => seen["w1"] = PricesOf(First("w1"))
          /\ rows["w1"] # None => rows["w1"] = RowsOf(First("w1"))
       \/ /\ opening[1] = 0 /\ ledger[1] \in {None, <<2, 1>>}
          /\ bill[1] = None /\ bill[4] = None
          /\ Len(moves[1]) + Len(moves[2]) <= 1
          /\ \A p \in Products : log[p] = <<>>
          /\ Cardinality(stale) <= 1
          /\ Cardinality({w \in Workers : seen[w] # None}) <= 1
==============================================================================
