---------------------------- MODULE MCStockLedger ----------------------------
(* Values of the constants of StockLedger for TLC. *)
EXTENDS StockLedger, TLC

CONSTANTS t1, t2, t3, s1, s2, l1, l2, b1, b2, e1, e2

Rank(x) == CASE x \in {s1, l1, b1} -> 0 [] OTHER -> 1

MCKeyRank == [k \in Sku \X Location \X Batch |-> 4 * Rank(k[1]) + 2 * Rank(k[2]) + Rank(k[3])]
UnitWeight == [s \in Sku |-> 1]
(* l1 is a shelf of limit 2, every other location is operational. *)
ShelfOf2 == [l \in Location |-> IF l = l1 THEN 2 ELSE NoLimit]
ShelfOf1 == [l \in Location |-> IF l = l1 THEN 1 ELSE NoLimit]
AllCommands == {"post", "transfer", "reverse", "adjust", "rebuild"}
ExpirySymmetry == Permutations(Txn)
=============================================================================
