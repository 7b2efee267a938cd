---------------------------- MODULE MCOutboundOrders ----------------------------
(* Values of the constants of OutboundOrders for TLC. *)
EXTENDS OutboundOrders, TLC

CONSTANTS a, b, u1, u2, o1, o2, k1, k2, k3, x1, x2, x3

(* k1 and k2 are the lines of o1, k3 the line of o2; all of one SKU. *)
MCOrderOf == [l \in Line |-> IF l = k3 THEN o2 ELSE o1]
MCLineNo  == [l \in Line |-> IF l = k2 THEN 2 ELSE 1]
OrderedQty == [l \in Line |-> IF l = k3 THEN 2 ELSE 1]
MCLotsFor == [l \in Line |-> Lot]
MCPickRank == [x \in Lot |-> CASE x = x1 -> 1 [] x = x2 -> 2 [] OTHER -> 3]
(* One short for both orders, and only x2 covers k3; x3 is quarantined. *)
MCStock == {[x \in Lot |-> IF x = x2 THEN 2 ELSE 1]}
SessionSymmetry == Permutations(Session)
=============================================================================
