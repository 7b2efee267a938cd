---------------------------- MODULE MCInboundReceipts ----------------------------
(* Values of the constants of InboundReceipts for TLC. *)
EXTENDS InboundReceipts, TLC

CONSTANTS a, b, o1, o2, k1, k2, k3, x1, x2, r1, r2, q1, b1

(* k1 and k2 are the lines of o1, k3 the line of o2. *)
MCOrderOf == [l \in Line |-> IF l = k3 THEN o2 ELSE o1]
MCOrdered == [l \in Line |-> IF l = k3 THEN 2 ELSE 1]
(* k3 arrives as batch x1, k2 as x2, k1 as either. *)
MCLotsOf == [l \in Line |-> CASE l = k1 -> {x1, x2} [] l = k2 -> {x2} [] l = k3 -> {x1}]
(* k1 may arrive in excess, k3 short; o2 is scheduled once before approval. *)
MCMaxQty == [l \in Line |-> IF l = k1 THEN 2 ELSE 1]
MCMaxVersion == [o \in Order |-> IF o = o2 THEN 1 ELSE 0]
MCPlaceRank == [p \in Receiving |-> IF p = r1 THEN 1 ELSE 2]
SessionSymmetry == Permutations(Session)
=============================================================================
