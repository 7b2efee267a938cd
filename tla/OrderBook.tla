------------------------------ MODULE OrderBook -------------------------------
(***************************************************************************)
(* What outbound orders promise to a reader of their committed rows: every *)
(* command is one step that meets every rule at the moment it becomes      *)
(* visible, whatever it read before, and nothing else ever changes them.   *)
(* What is promised of a stock row is nowhere stored: it is what the open  *)
(* lines of the orders say.  OutboundOrders implements it.                 *)
(***************************************************************************)
EXTENDS Integers, FiniteSets, Sequences, Functions

CONSTANTS User, NoUser, Order, Line, OrderOf, Ordered, Lot, NoLot, LotsFor, Quarantined

VARIABLES status, version, finisher, checkedBy, line, picks, onHand

tables == <<status, version, finisher, checkedBy, line, picks, onHand>>

Lines(o) == {l \in Line : OrderOf[l] = o}

(* A line holds its goods from the allocation until it is picked or its    *)
(* order cancelled.                                                        *)
Open(l) == line[l].lot # NoLot /\ picks[l] = <<>> /\ status[OrderOf[l]] # "cancelled"

Promised(x) ==
  SumFunctionOnSet([l \in Line |-> line[l].actual], {l \in Line : Open(l) /\ line[l].lot = x})

Waiting(o) == {l \in Lines(o) : Open(l) /\ line[l].actual # 0}

Init ==
  /\ status = [o \in Order |-> "none"]
  /\ version = [o \in Order |-> 0]
  /\ finisher = [o \in Order |-> NoUser]
  /\ checkedBy = [o \in Order |-> NoUser]
  /\ line = [l \in Line |-> [status |-> "open", lot |-> NoLot, actual |-> 0, by |-> NoUser]]
  /\ picks = [l \in Line |-> <<>>]
  /\ onHand \in [Lot -> Nat]

Create(o) ==
  /\ status[o] = "none"
  /\ status' = [status EXCEPT ![o] = "draft"]
  /\ UNCHANGED <<version, finisher, checkedBy, line, picks, onHand>>

Turn(o, from, to) == status[o] \in from /\ status' = [status EXCEPT ![o] = to]

GoodsStay == UNCHANGED <<finisher, line, picks, onHand>>

(* The checks pass or fail, a manager approves, the goods are packed and   *)
(* loaded.                                                                 *)
Proceed(o) ==
  /\ \/ Turn(o, {"draft"}, "checks_pending")
     \/ Turn(o, {"draft"}, "credit_rejected")
     \/ Turn(o, {"checks_pending"}, "approved")
     \/ Turn(o, {"checked"}, "packed")
     \/ Turn(o, {"packed"}, "loaded")
  /\ GoodsStay /\ UNCHANGED checkedBy

(* Nothing of a cancelled order was picked. *)
Cancel(o) ==
  /\ Turn(o, {"draft", "checks_pending", "credit_rejected", "approved", "allocated",
              "partially_allocated"}, "cancelled")
  /\ \A l \in Lines(o) : picks[l] = <<>>
  /\ GoodsStay /\ UNCHANGED checkedBy

(* A line gets no more than was ordered, from a row of its goods that is   *)
(* not in quarantine and that still covers all it is promised to.          *)
Grade(l, qty) == IF qty = Ordered[l] THEN "complete" ELSE IF qty > 0 THEN "partial" ELSE "open"

Fits(l) ==
  LET got == line'[l] IN
  /\ got.status = Grade(l, got.actual) /\ got.by = line[l].by
  /\ IF got.lot = NoLot THEN got.actual = 0
     ELSE /\ got.actual \in 1..Ordered[l]
          /\ \E x \in LotsFor[l] \ Quarantined : got.lot = x /\ Promised(x)' <= onHand[x]

Allocate(o) ==
  /\ \/ /\ Turn(o, {"approved"}, "allocated")
        /\ Lines(o) # {} /\ \A l \in Lines(o) : line'[l].actual = Ordered[l]
     \/ /\ Turn(o, {"approved"}, "partially_allocated")
        /\ Lines(o) = {} \/ \E l \in Lines(o) : line'[l].actual # Ordered[l]
  /\ \A l \in Line : IF l \in Lines(o) THEN Fits(l) ELSE line'[l] = line[l]
  /\ UNCHANGED <<finisher, checkedBy, picks, onHand>>

(* A line is picked once, for no more than it holds and than there is; who *)
(* leaves none waiting has completed the picking.                          *)
Untouched(l) ==
  IF line[l].lot = NoLot THEN line[l].status = "open" ELSE picks[l] = <<>> /\ line[l].actual # 0

TakeGoods(l, u, q) ==
  IF q = 0 THEN UNCHANGED <<picks, onHand>>
  ELSE /\ q <= onHand[line[l].lot]
       /\ onHand' = [onHand EXCEPT ![line[l].lot] = @ - q]
       /\ picks' = [picks EXCEPT ![l] = Append(@, [by |-> u, qty |-> q])]

Pick(o, l, u, q) ==
  /\ \/ /\ Turn(o, {"allocated", "partially_allocated", "picking"}, "picked")
        /\ Waiting(o)' = {} /\ finisher' = [finisher EXCEPT ![o] = u]
     \/ /\ Turn(o, {"allocated", "partially_allocated", "picking"}, "picking")
        /\ Waiting(o)' # {} /\ UNCHANGED finisher
  /\ Untouched(l) /\ q <= line[l].actual
  /\ line' = [line EXCEPT ![l].status = IF q = Ordered[l] THEN "complete" ELSE "partial",
                          ![l].actual = q, ![l].by = u]
  /\ TakeGoods(l, u, q)
  /\ UNCHANGED checkedBy

(* Whoever checks an order picked none of it. *)
Picked(l, u) == line[l].by = u \/ \E i \in DOMAIN picks[l] : picks[l][i].by = u

Check(o, u) ==
  /\ Turn(o, {"picked"}, "checked")
  /\ finisher[o] # NoUser /\ \A l \in Lines(o) : ~Picked(l, u)
  /\ checkedBy' = [checkedBy EXCEPT ![o] = u]
  /\ GoodsStay

(* Every command is one change of one order, and counted in its version.   *)
Command(o) ==
  /\ version' = [version EXCEPT ![o] = @ + 1]
  /\ \/ Proceed(o) \/ Cancel(o) \/ Allocate(o)
     \/ \E u \in User : Check(o, u) \/ \E l \in Lines(o) : Pick(o, l, u, line'[l].actual)

(* Everybody else who posts to the ledger. *)
OtherPosting ==
  /\ \E x \in Lot \ Quarantined : onHand' = [onHand EXCEPT ![x] = onHand'[x]]
  /\ UNCHANGED <<status, version, finisher, checkedBy, line, picks>>

Next == OtherPosting \/ \E o \in Order : Create(o) \/ Command(o)

Spec == Init /\ [][Next]_tables

=============================================================================
