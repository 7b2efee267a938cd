----------------------------- MODULE ReceiptBook ------------------------------
(***************************************************************************)
(* What inbound orders promise to a reader of their committed rows: every  *)
(* command is one step that meets every rule at the moment it becomes      *)
(* visible, whatever it read before, and goods come into stock and move in *)
(* it only with the line that says so.  InboundReceipts implements it.     *)
(***************************************************************************)
EXTENDS Integers

CONSTANTS Order, Line, OrderOf, Ordered, Lot, NoLot, LotsOf, Receiving, Quarantine, Storage, NoPlace

VARIABLES status, version, grn, line, decision, onHand

tables == <<status, version, grn, line, decision, onHand>>

Anywhere == Receiving \cup Quarantine \cup Storage
Lines(o) == {l \in Line : OrderOf[l] = o}

Arrived(l)  == line[l].actual # -1
HasGoods(l) == line[l].actual > 0
PutAway(l)  == line[l].place # NoPlace

Init ==
  /\ status = [o \in Order |-> "draft"]
  /\ version = [o \in Order |-> 0]
  /\ grn = [o \in Order |-> 0]
  /\ line = [l \in Line |-> [status |-> "open", actual |-> -1, lot |-> NoLot, place |-> NoPlace]]
  /\ decision = [l \in Line |-> "none"]
  /\ onHand = [p \in Anywhere |-> [x \in Lot |-> 0]]

Turn(o, from, to) == status[o] \in from /\ status' = [status EXCEPT ![o] = to]

GoodsStay == UNCHANGED <<grn, line, decision, onHand>>

(* An order is approved and scheduled before anything arrives, closed when *)
(* all its goods are put away, cancelled only if it never had any.         *)
Approve(o)  == Turn(o, {"draft"}, "approved") /\ GoodsStay
Schedule(o) == status[o] \in {"draft", "approved"} /\ UNCHANGED status /\ GoodsStay
Close(o) ==
  /\ Turn(o, {"putaway"}, "closed")
  /\ \A l \in Lines(o) : Arrived(l) /\ (HasGoods(l) => PutAway(l))
  /\ GoodsStay
Cancel(o) ==
  /\ Turn(o, {"draft", "approved", "received"}, "cancelled")
  /\ \A l \in Lines(o) : ~HasGoods(l)
  /\ GoodsStay

(* The goods of a line come in at one place; only in quarantine do they    *)
(* wait for a decision.                                                    *)
ComeIn(l, q, x) ==
  IF q = 0 THEN UNCHANGED <<decision, onHand>>
  ELSE \E p \in Receiving \cup Quarantine :
         /\ onHand' = [onHand EXCEPT ![p][x] = @ + q]
         /\ decision' = IF p \in Quarantine THEN [decision EXCEPT ![l] = "open"] ELSE decision

(* A line arrives once. The last one to arrive makes the order received,   *)
(* with its one GRN unless nothing came at all.                            *)
Receive(o, l, q, x) ==
  /\ ~Arrived(l) /\ q \in Nat /\ x \in LotsOf[l]
  /\ line' = [line EXCEPT ![l] =
       [status |-> IF q = 0 THEN "complete" ELSE IF q # Ordered[l] THEN "partial" ELSE "open",
        actual |-> q, lot |-> x, place |-> NoPlace]]
  /\ ComeIn(l, q, x)
  /\ IF \A k \in Lines(o) : Arrived(k)'
       THEN /\ Turn(o, {"approved", "receiving"}, "received")
            /\ grn' = [grn EXCEPT ![o] = IF \E k \in Lines(o) : HasGoods(k)' THEN 1 ELSE 0]
       ELSE Turn(o, {"approved", "receiving"}, "receiving") /\ UNCHANGED grn

(* All goods of a line go to one place, once, from a receiving location    *)
(* that has them, and not before a decision they wait for.                 *)
Move(x, q, from, to) ==
  /\ q <= onHand[from][x]
  /\ onHand' = [onHand EXCEPT ![from][x] = @ - q, ![to][x] = @ + q]

Store(o, l) ==
  /\ Turn(o, {"received", "putaway"}, "putaway")
  /\ HasGoods(l) /\ ~PutAway(l) /\ decision[l] # "open"
  /\ \E from \in Receiving : \E to \in Anywhere \ {from} :
       /\ line' = [line EXCEPT ![l].status = "complete", ![l].place = to]
       /\ Move(line[l].lot, line[l].actual, from, to)
  /\ UNCHANGED <<grn, decision>>

(* Every command is one change of one order, and counted in its version.   *)
Command(o) ==
  /\ version' = [version EXCEPT ![o] = @ + 1]
  /\ \/ Approve(o) \/ Schedule(o) \/ Close(o) \/ Cancel(o)
     \/ \E l \in Lines(o) : Receive(o, l, line'[l].actual, line'[l].lot) \/ Store(o, l)

Decide(l) ==
  /\ decision[l] = "open" /\ decision' = [decision EXCEPT ![l] = "decided"]
  /\ UNCHANGED <<status, version, grn, line, onHand>>

(* Everybody else who takes goods. *)
OtherPosting(p, x) ==
  /\ onHand[p][x] > 0 /\ onHand' = [onHand EXCEPT ![p][x] = @ - 1]
  /\ UNCHANGED <<status, version, grn, line, decision>>

Next ==
  \/ \E o \in Order : Command(o)
  \/ \E l \in Line : Decide(l)
  \/ \E p \in Anywhere, x \in Lot : OtherPosting(p, x)

Spec == Init /\ [][Next]_tables

=============================================================================
