----------------------------- MODULE MCAccounting -----------------------------
(***************************************************************************)
(* Values of the constants of Accounting for TLC.                          *)
(***************************************************************************)
EXTENDS Accounting, TLC

CONSTANTS a, b, cfo, gm, y1, p1, p2, p3, d1, d2, cash, sales

(* p3 overlaps the other two: once it is open, they cannot be, and the     *)
(* other way round.                                                        *)
MCDatesOf == [x \in {y1, p1, p2, p3} |->
                CASE x = p1 -> {d1} [] x = p2 -> {d2} [] OTHER -> {d1, d2}]
MCYearOf  == [p \in Period |-> y1]
MCPostings == {[c \in Account |-> IF c = cash THEN 1 ELSE -1], [c \in Account |-> 1]}
SessionSymmetry == Permutations(Session)
=============================================================================
