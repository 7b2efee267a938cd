------------------------- MODULE OutboundOrdersProofs -------------------------
(***************************************************************************)
(* What the order lock, the version check and the row locks guarantee for  *)
(* any number of sessions, users, orders, lines and lots.                  *)
(***************************************************************************)
EXTENDS OutboundOrders, SumLemmas, TLAPS

LEMMA Commands ==
  /\ Command = {"checks", "approve", "cancel", "allocate", "pick", "check", "pack", "load"}
  /\ From["checks"] = {"draft"} /\ From["approve"] = {"checks_pending"}
  /\ From["allocate"] = {"approved"} /\ From["check"] = {"picked"}
  /\ From["pick"] = {"allocated", "partially_allocated", "picking"}
  /\ From["pack"] = {"checked"} /\ From["load"] = {"packed"}
  /\ \A x \in {"checked", "packed", "loaded", "picked"} : x \notin From["cancel"]
  BY DEF Command, From, Reserved

LEMMA Targets ==
  /\ \A e \in {"pass", "credit_fail", "approve", "cancel", "allocate_full", "allocate_partial",
               "start_picking", "complete_picking", "check", "pack", "load"} : Target[e] \in Status
  /\ Target["check"] = "checked" /\ Target["pack"] = "packed" /\ Target["load"] = "loaded"
  /\ "none" \in Status /\ "draft" \in Status
  BY DEF Target, Status

LEMMA JobFields ==
  ASSUME TypeOK, JobOK, NEW s \in Session, pc[s] # "idle"
  PROVE  /\ job[s].op \in Command /\ job[s].order \in Order
         /\ job[s].user \in User /\ job[s].version \in Nat
         /\ job[s].op = "pick" => /\ job[s].line \in Line /\ job[s].qty \in Nat
                                  /\ OrderOf[job[s].line] = job[s].order
<1>1. job[s] \in Job /\ job[s] # NoJob
  BY DEF TypeOK, JobOK
<1>2. CASE job[s] \in [op : Command \ {"pick"}, order : Order, user : User, version : Nat]
  BY <1>2
<1>3. CASE job[s] \in [op : {"pick"}, order : Order, user : User, version : Nat, line : Line, qty : Nat]
  <2>1. "pick" \in Command
    BY Commands
  <2> QED BY <1>3, <2>1 DEF JobOK
<1> QED BY <1>1, <1>2, <1>3 DEF Job

LEMMA InitInv == Init => IInv
<1> SUFFICES ASSUME Init PROVE IInv
  OBVIOUS
<1> USE OutboundConstants DEF Init
<1>1. TypeOK
  <2>1. status \in [Order -> Status]
    BY Targets
  <2>2. job \in [Session -> Job]
    BY DEF Job, NoJob
  <2>3. plan \in [Session -> [Line -> [lot : Lot \cup {NoLot}, qty : Nat]]]
    BY DEF NoPlan
  <2>4. picks \in [Line -> Seq([by : User, qty : Nat])]
    OBVIOUS
  <2> QED BY <2>1, <2>2, <2>3, <2>4 DEF TypeOK, Zero
<1>2. JobOK
  BY DEF JobOK, NoJob
<1>3. LockedOrders /\ PickedRowIsLocked
  BY DEF LockedOrders, HasOrder, PickedRowIsLocked, HasPickedRow, InTransaction
<1>4. LockedRows
  BY DEF LockedRows, HasRows, RowIsFree, Zero
<1>5. CheckedStatus /\ LinePickedOnce /\ CheckerNeverPicked
  BY DEF CheckedStatus, LinePickedOnce, CheckerNeverPicked
<1> QED BY <1>1, <1>2, <1>3, <1>4, <1>5 DEF IInv

(* What all sessions rely on when only one of them, or nobody, moves and   *)
(* the committed tables stay.                                              *)
LEMMA TablesStay ==
  ASSUME IInv, UNCHANGED orders
  PROVE  CheckedStatus' /\ LinePickedOnce' /\ CheckerNeverPicked'
  BY DEF IInv, orders, CheckedStatus, LinePickedOnce, CheckerNeverPicked, LinesOf

LEMMA CreateKeeps ==
  ASSUME IInv, NEW o \in Order, Create(o)
  PROVE  IInv'
<1> USE DEF Create, balance
<1>1. TypeOK'
  BY Targets DEF IInv, TypeOK
<1>2. JobOK'
  BY DEF IInv, JobOK
<1>3. LockedOrders'
  <2> SUFFICES ASSUME NEW s \in Session, InTransaction(s)'
               PROVE  /\ OrderIsFree(s)' /\ UpToDate(s)' /\ status'[job[s].order] \in From[job[s].op]
                      /\ job[s].op = "pick" => PickAllowed(job[s].line, job[s].qty)'
                      /\ job[s].op = "check" => CheckAllowed(job[s].order, job[s].user)'
    BY DEF LockedOrders, HasOrder
  <2>1. InTransaction(s) /\ pc[s] # "idle"
    BY DEF InTransaction
  <2>2. job[s].op \in Command /\ job[s].order \in Order
    BY <2>1, JobFields DEF IInv
  <2>3. status[job[s].order] \in From[job[s].op]
    BY <2>1 DEF IInv, LockedOrders, HasOrder
  <2>4. job[s].order # o
    BY <2>2, <2>3, Commands DEF From, Command, Reserved
  <2> QED BY <2>1, <2>2, <2>3, <2>4
          DEF IInv, TypeOK, LockedOrders, HasOrder, OrderIsFree, InTransaction, UpToDate, PickAllowed,
              AlreadyPicked, CheckAllowed, WasPicker, LinesOf
<1>4. LockedRows' /\ PickedRowIsLocked'
  BY DEF IInv, LockedRows, HasRows, PickedRowIsLocked, HasPickedRow, RowIsFree, InTransaction, Available
<1>5. CheckedStatus'
  BY DEF IInv, TypeOK, CheckedStatus
<1>6. LinePickedOnce' /\ CheckerNeverPicked'
  BY DEF IInv, LinePickedOnce, CheckerNeverPicked, LinesOf
<1> QED BY <1>1, <1>2, <1>3, <1>4, <1>5, <1>6 DEF IInv

LEMMA OtherPostingKeeps ==
  ASSUME IInv, NEW x \in Lot, OtherPosting(x)
  PROVE  IInv'
<1> USE DEF OtherPosting
<1>1. PICK n \in 0..MaxStock : onHand' = [onHand EXCEPT ![x] = n]
  OBVIOUS
<1>2. \A y \in Lot \ {x} : onHand'[y] = onHand[y]
  BY <1>1 DEF IInv, TypeOK
<1>3. \A s \in Session, y \in Lot : y \in rows[s] => onHand'[y] = onHand[y]
  BY <1>2
<1>4. TypeOK'
  <2>1. n \in Nat /\ moves' \in Nat
    BY OutboundConstants DEF IInv, TypeOK
  <2>2. onHand' \in [Lot -> Nat]
    BY <1>1, <2>1 DEF IInv, TypeOK
  <2> QED BY <2>1, <2>2 DEF IInv, TypeOK, orders
<1>5. JobOK'
  BY DEF IInv, JobOK
<1>6. LockedOrders'
  BY DEF IInv, orders, LockedOrders, HasOrder, OrderIsFree, InTransaction, UpToDate, PickAllowed,
         AlreadyPicked, CheckAllowed, WasPicker, LinesOf
<1>7. LockedRows'
  <2> SUFFICES ASSUME NEW s \in Session
               PROVE  /\ \A y \in Lot : delta[s][y] > 0 => allocated[y] + delta[s][y] <= onHand'[y]
                      /\ pc[s] = "lots" => \A y \in chosen[s] : onHand'[y] - allocated[y] - delta[s][y] > 0
    BY DEF IInv, LockedRows, HasRows, RowIsFree, InTransaction, Available, orders
  <2>1. \A y \in Lot : delta[s][y] > 0 => y \in rows[s] /\ allocated[y] + delta[s][y] <= onHand[y]
    BY DEF IInv, TypeOK, LockedRows, HasRows
  <2>2. chosen[s] \subseteq rows[s] /\ chosen[s] \subseteq Lot
    BY DEF IInv, TypeOK, LockedRows, HasRows
  <2>3. pc[s] = "lots" => \A y \in chosen[s] : onHand[y] - allocated[y] - delta[s][y] > 0
    BY DEF IInv, LockedRows, HasRows, Available
  <2> QED BY <1>3, <2>1, <2>2, <2>3
<1>8. PickedRowIsLocked'
  <2> SUFFICES ASSUME NEW s \in Session, InTransaction(s), job[s].op = "pick",
                      line[job[s].line].lot # NoLot, todo[s] = {}
               PROVE  job[s].qty <= onHand'[line[job[s].line].lot]
    BY DEF IInv, orders, PickedRowIsLocked, HasPickedRow, InTransaction
  <2>1. line[job[s].line].lot \in rows[s] /\ job[s].qty <= onHand[line[job[s].line].lot]
    BY DEF IInv, PickedRowIsLocked, HasPickedRow
  <2>2. line[job[s].line].lot \in Lot
    BY <2>1 DEF IInv, TypeOK
  <2> QED BY <1>3, <2>1, <2>2
<1>9. CheckedStatus' /\ LinePickedOnce' /\ CheckerNeverPicked'
  BY TablesStay
<1> QED BY <1>4, <1>5, <1>6, <1>7, <1>8, <1>9 DEF IInv

(* A command that moves on within its transaction. *)
LEMMA WithinTransaction ==
  ASSUME IInv, NEW s \in Session, UNCHANGED <<orders, job>>,
         NEW label \in {"scan", "lots", "row", "commit"}, Goto(s, label), InTransaction(s)
  PROVE  /\ JobOK' /\ LockedOrders' /\ CheckedStatus' /\ LinePickedOnce' /\ CheckerNeverPicked'
         /\ pc' \in [Session -> {"idle", "lock", "scan", "lots", "row", "commit"}]
         /\ \A t \in Session : InTransaction(t)' <=> InTransaction(t)
         /\ \A t \in Session \ {s} : pc'[t] = pc[t]
         /\ pc'[s] = label
<1>1. /\ \A t \in Session \ {s} : pc'[t] = pc[t]
      /\ pc'[s] = label
      /\ pc' \in [Session -> {"idle", "lock", "scan", "lots", "row", "commit"}]
  BY DEF IInv, TypeOK, Goto
<1>2. \A t \in Session : InTransaction(t)' <=> InTransaction(t)
  BY <1>1 DEF InTransaction
<1>3. JobOK'
  BY <1>1 DEF IInv, JobOK, InTransaction
<1>4. LockedOrders'
  BY <1>2 DEF IInv, orders, LockedOrders, HasOrder, OrderIsFree, UpToDate, PickAllowed, AlreadyPicked,
              CheckAllowed, WasPicker, LinesOf
<1>5. CheckedStatus' /\ LinePickedOnce' /\ CheckerNeverPicked'
  BY TablesStay
<1> QED BY <1>1, <1>2, <1>3, <1>4, <1>5

LEMMA ScanLotsKeeps ==
  ASSUME IInv, NEW s \in Session, NEW l \in Line, ScanLots(s, l)
  PROVE  IInv'
<1> USE DEF ScanLots
<1> DEFINE Common == /\ JobOK' /\ LockedOrders' /\ CheckedStatus' /\ LinePickedOnce' /\ CheckerNeverPicked'
                     /\ pc' \in [Session -> {"idle", "lock", "scan", "lots", "row", "commit"}]
                     /\ \A t \in Session : InTransaction(t)' <=> InTransaction(t)
                     /\ \A t \in Session \ {s} : pc'[t] = pc[t]
                     /\ pc'[s] = "lots"
<1>1. Common
  BY WithinTransaction DEF InTransaction
<1>2. lots' \in [Session -> SUBSET Lot] /\ chosen' \in [Session -> SUBSET Lot]
  BY OutboundConstants DEF IInv, TypeOK
<1>3. TypeOK'
  BY <1>1, <1>2 DEF IInv, TypeOK, orders, balance
<1>4. /\ \A t \in Session \ {s} : chosen'[t] = chosen[t]
      /\ chosen'[s] = {}
  BY DEF IInv, TypeOK
<1>5. LockedRows'
  BY <1>1, <1>4 DEF IInv, LockedRows, HasRows, RowIsFree, Available, balance, orders
<1>6. PickedRowIsLocked'
  BY <1>1 DEF IInv, PickedRowIsLocked, HasPickedRow, LockedRows, HasRows, orders, balance
<1> QED BY <1>1, <1>3, <1>5, <1>6 DEF IInv

LEMMA LockLotKeeps ==
  ASSUME IInv, NEW s \in Session, NEW x \in Lot, LockLot(s, x)
  PROVE  IInv'
<1> USE DEF LockLot
<1>1. /\ JobOK' /\ LockedOrders' /\ CheckedStatus' /\ LinePickedOnce' /\ CheckerNeverPicked'
  BY TablesStay DEF IInv, JobOK, orders, LockedOrders, HasOrder, OrderIsFree, InTransaction, UpToDate,
     PickAllowed, AlreadyPicked, CheckAllowed, WasPicker, LinesOf
<1>2. TypeOK'
  <2>1. /\ rows' \in [Session -> SUBSET Lot] /\ lots' \in [Session -> SUBSET Lot]
        /\ chosen' \in [Session -> SUBSET Lot]
    BY DEF IInv, TypeOK
  <2> QED BY <2>1 DEF IInv, TypeOK, orders, balance
<1>3. /\ \A t \in Session \ {s} : rows'[t] = rows[t] /\ chosen'[t] = chosen[t]
      /\ rows'[s] = rows[s] \cup {x}
      /\ chosen'[s] = IF Available(s, x) > 0 THEN chosen[s] \cup {x} ELSE chosen[s]
  BY DEF IInv, TypeOK
<1>4. \A t \in Session : \A y \in rows'[t] : RowIsFree(t, y)'
  BY <1>3 DEF IInv, LockedRows, HasRows, RowIsFree
<1>5. LockedRows'
  BY <1>3, <1>4 DEF IInv, TypeOK, LockedRows, HasRows, Available, balance, orders, InTransaction
<1>6. PickedRowIsLocked'
  BY <1>3 DEF IInv, PickedRowIsLocked, HasPickedRow, LockedRows, HasRows, orders, balance, InTransaction
<1> QED BY <1>1, <1>2, <1>5, <1>6 DEF IInv

LEMMA ReserveLineKeeps ==
  ASSUME IInv, NEW s \in Session, NEW l \in Line, ReserveLine(s, l)
  PROVE  IInv'
<1> USE DEF ReserveLine
<1>1. PICK r \in SingleLot(s, l) :
        /\ plan' = [plan EXCEPT ![s][l] = r]
        /\ delta' = [delta EXCEPT ![s] = [x \in Lot |-> IF x = r.lot THEN @[x] + r.qty ELSE @[x]]]
  OBVIOUS
<1>2. \A x \in chosen[s] : x \in Lot /\ Available(s, x) \in Nat
  BY DEF IInv, TypeOK, LockedRows, HasRows, Available
<1>3. /\ r.lot \in chosen[s] \cup {NoLot} /\ r.qty \in Nat
      /\ r \in [lot : Lot \cup {NoLot}, qty : Nat]
      /\ r.lot # NoLot => r.qty <= Available(s, r.lot)
  <2>1. CASE chosen[s] = {}
    BY <2>1, <1>2 DEF SingleLot
  <2>2. CASE chosen[s] # {} /\ Covering(s, l) # {}
    <3>1. PICK x \in First(Covering(s, l)) : r = [lot |-> x, qty |-> Ordered[l]]
      BY <2>2 DEF SingleLot
    <3>2. x \in chosen[s] /\ Available(s, x) >= Ordered[l] /\ Ordered[l] \in Nat
      BY <3>1, OutboundConstants DEF First, Covering
    <3> QED BY <3>1, <3>2, <1>2
  <2>3. CASE chosen[s] # {} /\ Covering(s, l) = {}
    <3>1. PICK x \in First(chosen[s]) : r = [lot |-> x, qty |-> Available(s, x)]
      BY <2>3 DEF SingleLot
    <3> QED BY <3>1, <1>2 DEF First
  <2> QED BY <2>1, <2>2, <2>3
<1>4. PICK label \in {"commit", "scan"} : Goto(s, label) /\ label = IF todo[s] = {l} THEN "commit" ELSE "scan"
  OBVIOUS
<1>5. /\ JobOK' /\ LockedOrders' /\ CheckedStatus' /\ LinePickedOnce' /\ CheckerNeverPicked'
      /\ pc' \in [Session -> {"idle", "lock", "scan", "lots", "row", "commit"}]
      /\ \A t \in Session : InTransaction(t)' <=> InTransaction(t)
      /\ \A t \in Session \ {s} : pc'[t] = pc[t]
      /\ pc'[s] = label
  BY <1>4, WithinTransaction DEF InTransaction
<1>6. /\ delta' \in [Session -> [Lot -> Int]]
      /\ \A t \in Session \ {s} : delta'[t] = delta[t]
      /\ \A x \in Lot : delta'[s][x] = IF x = r.lot THEN delta[s][x] + r.qty ELSE delta[s][x]
  BY <1>1, <1>3 DEF IInv, TypeOK
<1>7. TypeOK'
  <2>1. plan' \in [Session -> [Line -> [lot : Lot \cup {NoLot}, qty : Nat]]]
    BY <1>1, <1>3 DEF IInv, TypeOK
  <2>2. todo' \in [Session -> SUBSET Line]
    BY DEF IInv, TypeOK
  <2> QED BY <1>5, <1>6, <2>1, <2>2 DEF IInv, TypeOK, orders, balance
<1>8. job[s].op = "allocate"
  BY DEF IInv, LockedRows, HasRows
<1>9. LockedRows'
  <2>1. \A x \in Lot : delta'[s][x] # 0 => x \in rows[s]
    BY <1>3, <1>6, OutboundConstants DEF IInv, LockedRows, HasRows
  <2>2. \A x \in Lot : delta'[s][x] > 0 => allocated[x] + delta'[s][x] <= onHand[x]
    <3> SUFFICES ASSUME NEW x \in Lot, delta'[s][x] > 0
                 PROVE  allocated[x] + delta'[s][x] <= onHand[x]
      OBVIOUS
    <3>1. allocated[x] \in Int /\ delta[s][x] \in Int /\ onHand[x] \in Int
      BY DEF IInv, TypeOK
    <3>2. CASE x = r.lot
      <4>1. r.qty <= onHand[x] - allocated[x] - delta[s][x]
        BY <1>3, <3>2, OutboundConstants DEF Available
      <4> QED BY <1>3, <1>6, <3>1, <3>2, <4>1
    <3>3. CASE x # r.lot
      BY <1>6, <3>3 DEF IInv, LockedRows, HasRows
    <3> QED BY <3>2, <3>3
  <2>3. \A t \in Session \ {s} : todo'[t] = todo[t]
    BY DEF IInv, TypeOK
  <2> QED BY <1>4, <1>5, <1>6, <1>8, <2>1, <2>2, <2>3
          DEF IInv, LockedRows, HasRows, RowIsFree, Available, balance, orders
<1>10. PickedRowIsLocked'
  <2>1. \A t \in Session \ {s} : todo'[t] = todo[t]
    BY DEF IInv, TypeOK
  <2> QED BY <1>5, <1>8, <2>1 DEF IInv, PickedRowIsLocked, HasPickedRow, orders, balance
<1> QED BY <1>5, <1>7, <1>9, <1>10 DEF IInv

LEMMA ReleaseLineKeeps ==
  ASSUME IInv, NEW s \in Session, NEW l \in Line, ReleaseLine(s, l)
  PROVE  IInv'
<1> USE DEF ReleaseLine
<1> DEFINE x == line[l].lot
<1>1. /\ RowIsFree(s, x) /\ (job[s].op = "pick" => job[s].qty <= onHand[x])
      /\ rows' = [rows EXCEPT ![s] = @ \cup {x}]
      /\ delta' = [delta EXCEPT ![s][x] = @ - ReservedQty(s, l)]
      /\ todo' = [todo EXCEPT ![s] = @ \ {l}]
  OBVIOUS
<1>2. PICK label \in {"commit", "row"} : Goto(s, label) /\ label = IF todo[s] = {l} THEN "commit" ELSE "row"
  OBVIOUS
<1>3. /\ JobOK' /\ LockedOrders' /\ CheckedStatus' /\ LinePickedOnce' /\ CheckerNeverPicked'
      /\ pc' \in [Session -> {"idle", "lock", "scan", "lots", "row", "commit"}]
      /\ \A t \in Session : InTransaction(t)' <=> InTransaction(t)
      /\ \A t \in Session \ {s} : pc'[t] = pc[t]
      /\ pc'[s] = label
  BY <1>2, WithinTransaction DEF InTransaction
<1>4. x \in Lot
  BY DEF IInv, TypeOK, LockedRows, HasRows
<1>5. ReservedQty(s, l) \in Nat
  BY DEF IInv, TypeOK, ReservedQty
<1>6. /\ delta' \in [Session -> [Lot -> Int]]
      /\ \A t \in Session \ {s} : delta'[t] = delta[t] /\ rows'[t] = rows[t] /\ todo'[t] = todo[t]
      /\ \A y \in Lot : delta'[s][y] = IF y = x THEN delta[s][y] - ReservedQty(s, l) ELSE delta[s][y]
      /\ rows'[s] = rows[s] \cup {x} /\ todo'[s] = todo[s] \ {l}
  BY <1>1, <1>4, <1>5 DEF IInv, TypeOK
<1>7. TypeOK'
  <2>1. todo' \in [Session -> SUBSET Line] /\ rows' \in [Session -> SUBSET Lot]
    BY <1>1, <1>4 DEF IInv, TypeOK
  <2> QED BY <1>3, <1>6, <2>1 DEF IInv, TypeOK, orders, balance
<1>8. job[s].op \in {"cancel", "pick"}
  BY DEF IInv, LockedRows, HasRows
<1>9. LockedRows'
  <2>1. \A t \in Session : \A y \in rows'[t] : RowIsFree(t, y)'
    BY <1>1, <1>6 DEF IInv, LockedRows, HasRows, RowIsFree
  <2>2. \A y \in Lot : delta[s][y] <= 0
    <3> SUFFICES ASSUME NEW y \in Lot PROVE ~(delta[s][y] > 0) /\ delta[s][y] \in Int
      OBVIOUS
    <3>1. delta[s][y] > 0 => job[s].op = "allocate"
      BY DEF IInv, LockedRows, HasRows
    <3> QED BY <1>8, <3>1 DEF IInv, TypeOK
  <2>3. \A y \in Lot : delta'[s][y] <= 0
    BY <1>5, <1>6, <2>2 DEF IInv, TypeOK
  <2>4. \A y \in Lot : delta'[s][y] # 0 => y \in rows'[s]
    BY <1>6 DEF IInv, LockedRows, HasRows
  <2>5. \A y \in Lot : delta'[s][y] > 0 => FALSE
    BY <1>6, <2>3
  <2>6. InTransaction(s) /\ pc'[s] \in {"commit", "row"}
    BY <1>2, <1>3 DEF InTransaction
  <2>7. chosen[s] \subseteq rows'[s]
    BY <1>6 DEF IInv, LockedRows, HasRows
  <2>8. \A k \in todo'[s] : OrderOf[k] = job[s].order /\ line[k].lot # NoLot
    BY <1>6 DEF IInv, LockedRows, HasRows
  <2>9. \A t \in Session \ {s} :
          /\ ~InTransaction(t) => rows'[t] = {}
          /\ chosen[t] \subseteq rows'[t]
          /\ \A y \in Lot : delta'[t][y] # 0 => y \in rows'[t]
          /\ \A y \in Lot : delta'[t][y] > 0 =>
               job[t].op = "allocate" /\ allocated[y] + delta'[t][y] <= onHand[y]
          /\ pc'[t] = "lots" => \A y \in chosen[t] : onHand[y] - allocated[y] - delta'[t][y] > 0
          /\ pc'[t] \in {"scan", "lots"} => job[t].op = "allocate"
          /\ pc'[t] = "row" =>
               /\ job[t].op \in {"cancel", "pick"}
               /\ \A k \in todo'[t] : OrderOf[k] = job[t].order /\ line[k].lot # NoLot
    BY <1>3, <1>6 DEF IInv, LockedRows, HasRows, Available
  <2> QED BY <1>3, <1>8, <2>1, <2>4, <2>5, <2>6, <2>7, <2>8, <2>9
          DEF LockedRows, HasRows, Available, balance, orders
<1>10. PickedRowIsLocked'
  <2> SUFFICES ASSUME NEW t \in Session, InTransaction(t), job[t].op = "pick"
               PROVE  /\ todo'[t] \subseteq {job[t].line}
                      /\ pc'[t] \in {"row", "commit"}
                      /\ line[job[t].line].lot # NoLot /\ todo'[t] = {} =>
                           /\ line[job[t].line].lot \in rows'[t]
                           /\ job[t].qty <= onHand[line[job[t].line].lot]
                      /\ pc'[t] = "commit" => todo'[t] = {}
    BY <1>3 DEF PickedRowIsLocked, HasPickedRow, orders, balance
  <2>1. CASE t # s
    BY <1>3, <1>6, <2>1 DEF IInv, PickedRowIsLocked, HasPickedRow
  <2>2. CASE t = s
    <3>1. l = job[s].line /\ todo[s] = {l}
      BY <2>2 DEF IInv, PickedRowIsLocked, HasPickedRow
    <3> QED BY <1>1, <1>2, <1>3, <1>6, <2>2, <3>1
  <2> QED BY <2>1, <2>2
<1> QED BY <1>3, <1>7, <1>9, <1>10 DEF IInv

(* A step of s leaves alone what the other commands have locked. *)
OthersUndisturbed(s) ==
  \A t \in Session \ {s} :
    /\ pc'[t] = pc[t] /\ job'[t] = job[t] /\ todo'[t] = todo[t] /\ chosen'[t] = chosen[t]
    /\ rows'[t] = rows[t] /\ delta'[t] = delta[t]
    /\ InTransaction(t) =>
         /\ InTransaction(s)' => job'[s].order # job[t].order
         /\ status'[job[t].order] = status[job[t].order]
         /\ version'[job[t].order] = version[job[t].order]
         /\ finisher'[job[t].order] = finisher[job[t].order]
         /\ \A l \in LinesOf(job[t].order) : line'[l] = line[l] /\ picks'[l] = picks[l]
    /\ \A x \in rows[t] : onHand'[x] = onHand[x] /\ allocated'[x] = allocated[x]

LEMMA OthersKeep ==
  ASSUME IInv, NEW s \in Session, OthersUndisturbed(s), rows'[s] \subseteq rows[s],
         NEW t \in Session \ {s}
  PROVE  HasOrder(t)' /\ HasRows(t)' /\ HasPickedRow(t)'
<1> USE DEF OthersUndisturbed
<1>1. InTransaction(t)' <=> InTransaction(t)
  BY DEF InTransaction
<1>2. ASSUME InTransaction(t), job[t].op = "pick"
      PROVE  job[t].line \in LinesOf(job[t].order)
  BY <1>2, JobFields DEF IInv, LinesOf, InTransaction
<1>3. HasOrder(t)'
  <2> SUFFICES ASSUME InTransaction(t)
               PROVE  /\ OrderIsFree(t)' /\ UpToDate(t)' /\ status'[job[t].order] \in From[job[t].op]
                      /\ job[t].op = "pick" => PickAllowed(job[t].line, job[t].qty)'
                      /\ job[t].op = "check" => CheckAllowed(job[t].order, job[t].user)'
    BY <1>1 DEF HasOrder
  <2>1. HasOrder(t)
    BY DEF IInv, LockedOrders
  <2>2. OrderIsFree(t)'
    BY <2>1 DEF HasOrder, OrderIsFree, InTransaction
  <2>3. UpToDate(t)' /\ status'[job[t].order] \in From[job[t].op]
    BY <2>1 DEF HasOrder, UpToDate
  <2>4. job[t].op = "pick" => PickAllowed(job[t].line, job[t].qty)'
    BY <1>2, <2>1 DEF HasOrder, PickAllowed, AlreadyPicked
  <2>5. job[t].op = "check" => CheckAllowed(job[t].order, job[t].user)'
    BY <2>1 DEF HasOrder, CheckAllowed, WasPicker, LinesOf
  <2> QED BY <2>2, <2>3, <2>4, <2>5
<1>4. HasRows(t)'
  <2>1. HasRows(t) /\ rows[t] \subseteq Lot /\ todo[t] \subseteq Line
    BY DEF IInv, TypeOK, LockedRows
  <2>2. \A x \in rows'[t] : RowIsFree(t, x)'
    BY <2>1 DEF HasRows, RowIsFree
  <2>3. \A x \in Lot : delta'[t][x] > 0 =>
          job'[t].op = "allocate" /\ allocated'[x] + delta'[t][x] <= onHand'[x]
    <3> SUFFICES ASSUME NEW x \in Lot, delta[t][x] > 0
                 PROVE  job[t].op = "allocate" /\ allocated'[x] + delta[t][x] <= onHand'[x]
      OBVIOUS
    <3>1. x \in rows[t]
      BY <2>1 DEF HasRows, IInv, TypeOK
    <3> QED BY <2>1, <3>1 DEF HasRows
  <2>4. pc'[t] = "lots" => \A x \in chosen'[t] : Available(t, x)' > 0
    BY <2>1 DEF HasRows, Available
  <2>5. pc'[t] = "row" =>
         /\ job'[t].op \in {"cancel", "pick"}
         /\ \A l \in todo'[t] : OrderOf[l] = job'[t].order /\ line'[l].lot # NoLot
    BY <2>1 DEF HasRows, LinesOf, InTransaction
  <2> QED BY <1>1, <2>1, <2>2, <2>3, <2>4, <2>5 DEF HasRows
<1>5. HasPickedRow(t)'
  BY <1>1, <1>2 DEF IInv, PickedRowIsLocked, HasPickedRow
<1> QED BY <1>3, <1>4, <1>5

(* The end of a transaction. *)
LEMMA Released ==
  ASSUME IInv, NEW s \in Session, Release(s)
  PROVE  /\ HasOrder(s)' /\ HasRows(s)' /\ HasPickedRow(s)' /\ JobOK' /\ ~InTransaction(s)'
         /\ pc'[s] = "idle" /\ rows'[s] = {}
         /\ \A t \in Session \ {s} :
              /\ pc'[t] = pc[t] /\ job'[t] = job[t] /\ todo'[t] = todo[t] /\ chosen'[t] = chosen[t]
              /\ rows'[t] = rows[t] /\ delta'[t] = delta[t]
         /\ pc' \in [Session -> {"idle", "lock", "scan", "lots", "row", "commit"}]
         /\ job' \in [Session -> Job] /\ todo' \in [Session -> SUBSET Line]
         /\ lots' \in [Session -> SUBSET Lot] /\ chosen' \in [Session -> SUBSET Lot]
         /\ rows' \in [Session -> SUBSET Lot]
         /\ plan' \in [Session -> [Line -> [lot : Lot \cup {NoLot}, qty : Nat]]]
         /\ delta' \in [Session -> [Lot -> Int]]
<1> USE DEF Release, Goto, Zero
<1>1. /\ pc'[s] = "idle" /\ job'[s] = NoJob /\ todo'[s] = {} /\ chosen'[s] = {} /\ rows'[s] = {}
      /\ delta'[s] = [x \in Lot |-> 0]
      /\ \A t \in Session \ {s} :
              /\ pc'[t] = pc[t] /\ job'[t] = job[t] /\ todo'[t] = todo[t] /\ chosen'[t] = chosen[t]
              /\ rows'[t] = rows[t] /\ delta'[t] = delta[t]
  BY DEF IInv, TypeOK
<1>2. /\ pc' \in [Session -> {"idle", "lock", "scan", "lots", "row", "commit"}]
      /\ todo' \in [Session -> SUBSET Line]
      /\ lots' \in [Session -> SUBSET Lot] /\ chosen' \in [Session -> SUBSET Lot]
      /\ rows' \in [Session -> SUBSET Lot]
      /\ delta' \in [Session -> [Lot -> Int]]
  BY DEF IInv, TypeOK
<1>3. job' \in [Session -> Job]
  BY DEF IInv, TypeOK, Job
<1>4. plan' \in [Session -> [Line -> [lot : Lot \cup {NoLot}, qty : Nat]]]
  BY DEF IInv, TypeOK, NoPlan
<1>5. JobOK' /\ ~InTransaction(s)'
  BY <1>1 DEF IInv, JobOK, InTransaction, NoJob
<1>6. HasOrder(s)' /\ HasPickedRow(s)'
  BY <1>5 DEF HasOrder, HasPickedRow
<1>7. HasRows(s)'
  BY <1>1, <1>5 DEF HasRows
<1> QED BY <1>1, <1>2, <1>3, <1>4, <1>5, <1>6, <1>7

LEMMA RollbackKeeps ==
  ASSUME IInv, NEW s \in Session, Rollback(s)
  PROVE  IInv'
<1> USE DEF Rollback
<1>1. OthersUndisturbed(s)
  BY Released DEF OthersUndisturbed, orders, balance
<1>2. \A t \in Session \ {s} : HasOrder(t)' /\ HasRows(t)' /\ HasPickedRow(t)'
  BY <1>1, Released, OthersKeep
<1>3. TypeOK'
  BY Released DEF IInv, TypeOK, orders, balance
<1>4. CheckedStatus' /\ LinePickedOnce' /\ CheckerNeverPicked'
  BY TablesStay
<1> QED BY <1>2, <1>3, <1>4, Released DEF IInv, LockedOrders, LockedRows, PickedRowIsLocked

LEMMA SendKeeps ==
  ASSUME IInv, NEW s \in Session, Send(s)
  PROVE  IInv'
<1> USE DEF Send
<1>1. PICK j \in Job \ {NoJob} : /\ job' = [job EXCEPT ![s] = j]
                                 /\ j.op = "pick" => OrderOf[j.line] = j.order
  <2>1. PICK op \in Command, o \in Order, u \in User :
          IF op # "pick"
            THEN job' = [job EXCEPT ![s] = [op |-> op, order |-> o, user |-> u, version |-> version[o]]]
            ELSE \E l \in LinesOf(o) : \E q \in 0..line[l].actual :
                   job' = [job EXCEPT ![s] = [op |-> op, order |-> o, user |-> u,
                                              version |-> version[o], line |-> l, qty |-> q]]
    OBVIOUS
  <2>2. version[o] \in Nat /\ op # "none"
    BY Commands DEF IInv, TypeOK
  <2>3. CASE op # "pick"
    <3>1. [op |-> op, order |-> o, user |-> u, version |-> version[o]] \in
             [op : Command \ {"pick"}, order : Order, user : User, version : Nat]
      BY <2>2, <2>3
    <3> QED BY <2>1, <2>2, <2>3, <3>1 DEF Job, NoJob
  <2>4. CASE op = "pick"
    <3>0. PICK l \in LinesOf(o) : \E q \in 0..line[l].actual :
            job' = [job EXCEPT ![s] = [op |-> op, order |-> o, user |-> u,
                                       version |-> version[o], line |-> l, qty |-> q]]
      BY <2>1, <2>4
    <3>1. PICK q \in 0..line[l].actual :
            job' = [job EXCEPT ![s] = [op |-> op, order |-> o, user |-> u,
                                       version |-> version[o], line |-> l, qty |-> q]]
      BY <3>0
    <3>2. l \in Line /\ OrderOf[l] = o /\ q \in Nat
      <4>1. l \in Line /\ OrderOf[l] = o
        BY DEF LinesOf
      <4>2. line[l].actual \in Nat
        BY <4>1 DEF IInv, TypeOK
      <4> QED BY <4>1, <4>2
    <3>3. [op |-> op, order |-> o, user |-> u, version |-> version[o], line |-> l, qty |-> q] \in
             [op : {"pick"}, order : Order, user : User, version : Nat, line : Line, qty : Nat]
      BY <2>2, <2>4, <3>2
    <3> DEFINE k == [op |-> op, order |-> o, user |-> u, version |-> version[o], line |-> l, qty |-> q]
    <3>4. k \in Job
      BY <3>3 DEF Job
    <3>5. k.op = "pick" /\ k.line = l /\ k.order = o
      BY <2>4
    <3>6. k # NoJob
      BY <3>5 DEF NoJob
    <3>7. job' = [job EXCEPT ![s] = k]
      BY <3>1
    <3> HIDE DEF k
    <3> QED BY <3>2, <3>4, <3>5, <3>6, <3>7
  <2> QED BY <2>3, <2>4
<1>2. /\ job' \in [Session -> Job] /\ job'[s] = j
      /\ pc' \in [Session -> {"idle", "lock", "scan", "lots", "row", "commit"}] /\ pc'[s] = "lock"
      /\ \A t \in Session \ {s} : job'[t] = job[t] /\ pc'[t] = pc[t]
  BY <1>1 DEF IInv, TypeOK, Goto
<1>3. ~InTransaction(s)' /\ ~InTransaction(s)
  BY <1>2 DEF InTransaction
<1>4. OthersUndisturbed(s)
  BY <1>2, <1>3 DEF OthersUndisturbed, orders, balance
<1>5. \A t \in Session \ {s} : HasOrder(t)' /\ HasRows(t)' /\ HasPickedRow(t)'
  BY <1>4, OthersKeep
<1>6. HasOrder(s)' /\ HasPickedRow(s)'
  BY <1>3 DEF HasOrder, HasPickedRow
<1>7. HasRows(s)'
  <2>1. rows[s] = {} /\ HasRows(s)
    BY <1>3 DEF IInv, LockedRows, HasRows
  <2>2. \A x \in Lot : delta[s][x] = 0
    BY <2>1 DEF HasRows
  <2> QED BY <1>2, <2>1, <2>2 DEF HasRows
<1>8. JobOK'
  BY <1>1, <1>2 DEF IInv, JobOK
<1>9. TypeOK'
  BY <1>2 DEF IInv, TypeOK, orders, balance
<1>10. CheckedStatus' /\ LinePickedOnce' /\ CheckerNeverPicked'
  BY TablesStay
<1> QED BY <1>5, <1>6, <1>7, <1>8, <1>9, <1>10 DEF IInv, LockedOrders, LockedRows, PickedRowIsLocked

LEMMA LockOrderKeeps ==
  ASSUME IInv, NEW s \in Session, LockOrder(s)
  PROVE  IInv'
<1> USE DEF LockOrder
<1> DEFINE o == job[s].order
           label == IF LinesToLock(s) = {} THEN "commit"
                    ELSE IF job[s].op = "allocate" THEN "scan" ELSE "row"
<1>1. /\ job[s].op \in Command /\ o \in Order /\ ~InTransaction(s)
      /\ job[s].op = "pick" => job[s].line \in Line /\ OrderOf[job[s].line] = o
  BY JobFields DEF IInv, InTransaction
<1>2. LinesToLock(s) \subseteq Line
  BY <1>1 DEF LinesToLock, LinesOf
<1>3. /\ todo' \in [Session -> SUBSET Line] /\ todo'[s] = LinesToLock(s)
      /\ pc' \in [Session -> {"idle", "lock", "scan", "lots", "row", "commit"}] /\ pc'[s] = label
      /\ \A t \in Session \ {s} : todo'[t] = todo[t] /\ pc'[t] = pc[t]
  BY <1>2 DEF IInv, TypeOK, Goto
<1>4. label \in {"commit", "scan", "row"}
  OBVIOUS
<1>5. InTransaction(s)'
  BY <1>3, <1>4 DEF InTransaction
<1>6. OthersUndisturbed(s)
  BY <1>3 DEF OthersUndisturbed, OrderIsFree, orders, balance
<1>7. \A t \in Session \ {s} : HasOrder(t)' /\ HasRows(t)' /\ HasPickedRow(t)'
  BY <1>6, OthersKeep
<1>8. HasOrder(s)'
  <2>1. OrderIsFree(s)'
    BY <1>3 DEF OrderIsFree, InTransaction
  <2> QED BY <2>1 DEF HasOrder, UpToDate, PickAllowed, AlreadyPicked, CheckAllowed, WasPicker,
                      LinesOf, orders
<1>9. HasRows(s)'
  <2>1. rows[s] = {} /\ HasRows(s)
    BY <1>1 DEF IInv, LockedRows, HasRows
  <2>2. \A x \in Lot : delta[s][x] = 0
    BY <2>1 DEF HasRows
  <2>3. label = "scan" => job[s].op = "allocate"
    OBVIOUS
  <2>4. label = "row" =>
          /\ job[s].op \in {"cancel", "pick"}
          /\ \A l \in LinesToLock(s) : OrderOf[l] = o /\ line[l].lot # NoLot
    BY <1>1 DEF LinesToLock, LinesOf
  <2> QED BY <1>3, <1>4, <1>5, <2>1, <2>2, <2>3, <2>4 DEF HasRows, orders, balance
<1>10. HasPickedRow(s)'
  <2> SUFFICES ASSUME job[s].op = "pick"
               PROVE  /\ LinesToLock(s) \subseteq {job[s].line}
                      /\ label \in {"row", "commit"}
                      /\ line[job[s].line].lot # NoLot => LinesToLock(s) # {}
                      /\ label = "commit" => LinesToLock(s) = {}
    BY <1>3 DEF HasPickedRow, orders, balance
  <2> QED BY DEF LinesToLock
<1>11. JobOK'
  BY <1>3, <1>4 DEF IInv, JobOK
<1>12. TypeOK'
  BY <1>3 DEF IInv, TypeOK, orders, balance
<1>13. CheckedStatus' /\ LinePickedOnce' /\ CheckerNeverPicked'
  BY TablesStay
<1> QED BY <1>7, <1>8, <1>9, <1>10, <1>11, <1>12, <1>13
        DEF IInv, LockedOrders, LockedRows, PickedRowIsLocked

(* What a commit does to the committed tables. *)
LEMMA CommitEffects ==
  ASSUME IInv, NEW s \in Session, Commit(s)
  PROVE  /\ InTransaction(s) /\ job[s].order \in Order /\ job[s].op \in Command
         /\ status' \in [Order -> Status] /\ version' \in [Order -> Nat]
         /\ version'[job[s].order] = version[job[s].order] + 1
         /\ \A p \in Order \ {job[s].order} :
              /\ status'[p] = status[p] /\ version'[p] = version[p]
              /\ finisher'[p] = finisher[p] /\ checkedBy'[p] = checkedBy[p]
         /\ \A l \in Line : OrderOf[l] # job[s].order => line'[l] = line[l] /\ picks'[l] = picks[l]
         /\ \A x \in Lot : allocated'[x] = allocated[x] + delta[s][x]
         /\ allocated' \in [Lot -> Int]
<1>1. InTransaction(s) /\ job[s].order \in Order /\ job[s].op \in Command
      /\ (job[s].op = "pick" => job[s].line \in Line /\ OrderOf[job[s].line] = job[s].order)
  BY JobFields DEF IInv, InTransaction, Commit
<1>2. CommitStep(s) \/ CommitAllocate(s) \/ CommitPick(s)
  BY DEF Commit
<1>3. PICK e \in {"pass", "credit_fail", "approve", "cancel", "allocate_full", "allocate_partial",
                  "start_picking", "complete_picking", "check", "pack", "load"} : Advance(job[s].order, e)
  BY <1>2 DEF CommitStep, CommitChecks, CommitApprove, CommitCancel, CommitCheck, CommitPack,
        CommitLoad, NothingPicked, CommitAllocate, CommitPick
<1>4. /\ status' \in [Order -> Status] /\ version' \in [Order -> Nat]
      /\ version'[job[s].order] = version[job[s].order] + 1
      /\ \A p \in Order \ {job[s].order} : status'[p] = status[p] /\ version'[p] = version[p]
  <2>1. Target[e] \in Status
    BY Targets
  <2> QED BY <1>1, <1>3, <2>1 DEF IInv, TypeOK, Advance
<1>5. \A p \in Order \ {job[s].order} : finisher'[p] = finisher[p] /\ checkedBy'[p] = checkedBy[p]
  <2>1. \/ checkedBy' = checkedBy
        \/ checkedBy' = [checkedBy EXCEPT ![job[s].order] = job[s].user]
    BY <1>2 DEF CommitStep, CommitChecks, CommitApprove, CommitCancel, CommitCheck, CommitPack,
          CommitLoad, NothingPicked, CommitAllocate, CommitPick
  <2>2. \/ finisher' = finisher
        \/ finisher' = [finisher EXCEPT ![job[s].order] = job[s].user]
    BY <1>2 DEF CommitStep, CommitChecks, CommitApprove, CommitCancel, CommitCheck, CommitPack,
          CommitLoad, NothingPicked, CommitAllocate, CommitPick
  <2> QED BY <2>1, <2>2 DEF IInv, TypeOK
<1>6. \A l \in Line : OrderOf[l] # job[s].order => line'[l] = line[l] /\ picks'[l] = picks[l]
  <2>1. CASE CommitStep(s)
    BY <2>1 DEF CommitStep, CommitChecks, CommitApprove, CommitCancel, CommitCheck, CommitPack,
          CommitLoad, NothingPicked
  <2>2. CASE CommitAllocate(s)
    BY <2>2 DEF CommitAllocate
  <2>3. CASE CommitPick(s)
    <3> SUFFICES ASSUME NEW l \in Line, OrderOf[l] # job[s].order
                 PROVE  line'[l] = line[l] /\ picks'[l] = picks[l]
      OBVIOUS
    <3>1. l # job[s].line
      BY <1>1, <2>3 DEF CommitPick
    <3>2. line'[l] = line[l]
      BY <2>3, <3>1 DEF IInv, TypeOK, CommitPick
    <3>3. picks'[l] = picks[l]
      BY <2>3, <3>1 DEF IInv, TypeOK, CommitPick
    <3> QED BY <3>2, <3>3
  <2> QED BY <1>2, <2>1, <2>2, <2>3
<1>7. /\ \A x \in Lot : allocated'[x] = allocated[x] + delta[s][x]
      /\ allocated' \in [Lot -> Int]
  BY DEF IInv, TypeOK, Commit
<1> QED BY <1>1, <1>4, <1>5, <1>6, <1>7

(* A pick takes from the row it has locked, no more than is there. *)
LEMMA PickedFromLockedRow ==
  ASSUME IInv, NEW s \in Session, Commit(s)
  PROVE  /\ onHand' \in [Lot -> Nat]
         /\ \A x \in Lot : onHand'[x] # onHand[x] => x \in rows[s]
<1> USE DEF Commit
<1>1. CASE ~CommitPick(s)
  BY <1>1 DEF IInv, TypeOK, CommitStep, CommitChecks, CommitApprove, CommitCancel, CommitCheck,
        CommitPack, CommitLoad, NothingPicked, CommitAllocate
<1>2. CASE CommitPick(s)
  <2> DEFINE l == job[s].line
             x == line[l].lot
  <2>1. job[s].op = "pick" /\ job[s].qty \in Nat /\ l \in Line
    BY <1>2, JobFields DEF IInv, CommitPick
  <2>2. x # NoLot => x \in rows[s] /\ job[s].qty <= onHand[x]
    BY <2>1 DEF IInv, PickedRowIsLocked, HasPickedRow, InTransaction
  <2>3. rows[s] \subseteq Lot
    BY DEF IInv, TypeOK
  <2>4. onHand' = onHand \/ (x # NoLot /\ onHand' = [onHand EXCEPT ![x] = @ - job[s].qty])
    BY <1>2 DEF CommitPick
  <2> QED BY <2>1, <2>2, <2>3, <2>4, SMTT(30) DEF IInv, TypeOK
<1> QED BY <1>1, <1>2

LEMMA CommitTypes ==
  ASSUME IInv, NEW s \in Session, Commit(s)
  PROVE  TypeOK'
<1> USE DEF Commit
<1>1. /\ job[s].user \in User /\ job[s].order \in Order
      /\ job[s].op = "pick" => job[s].line \in Line /\ job[s].qty \in Nat
  BY JobFields DEF IInv
<1>2. finisher' \in [Order -> User \cup {NoUser}] /\ checkedBy' \in [Order -> User \cup {NoUser}]
  <2>1. \/ checkedBy' = checkedBy
        \/ checkedBy' = [checkedBy EXCEPT ![job[s].order] = job[s].user]
    BY DEF CommitStep, CommitChecks, CommitApprove, CommitCancel, CommitCheck, CommitPack, CommitLoad,
          NothingPicked, CommitAllocate, CommitPick
  <2>2. \/ finisher' = finisher
        \/ finisher' = [finisher EXCEPT ![job[s].order] = job[s].user]
    BY DEF CommitStep, CommitChecks, CommitApprove, CommitCancel, CommitCheck, CommitPack, CommitLoad,
          NothingPicked, CommitAllocate, CommitPick
  <2> QED BY <1>1, <2>1, <2>2 DEF IInv, TypeOK
<1>3. /\ line' \in [Line -> [status : {"open", "partial", "complete"}, lot : Lot \cup {NoLot},
                             actual : Nat, by : User \cup {NoUser}]]
      /\ picks' \in [Line -> Seq([by : User, qty : Nat])]
  <2>1. CASE CommitStep(s)
    BY <2>1 DEF IInv, TypeOK, CommitStep, CommitChecks, CommitApprove, CommitCancel, CommitCheck,
          CommitPack, CommitLoad, NothingPicked
  <2>2. CASE CommitAllocate(s)
    <3>1. \A l \in Line : LineStatus(l, plan[s][l].qty) \in {"open", "partial", "complete"}
                          /\ plan[s][l].lot \in Lot \cup {NoLot} /\ plan[s][l].qty \in Nat
      BY DEF IInv, TypeOK, LineStatus
    <3> DEFINE new(l) == [status |-> LineStatus(l, plan[s][l].qty), lot |-> plan[s][l].lot,
                          actual |-> plan[s][l].qty, by |-> line[l].by]
    <3>2. \A l \in Line : new(l) \in [status : {"open", "partial", "complete"}, lot : Lot \cup {NoLot},
                                      actual : Nat, by : User \cup {NoUser}]
      BY <3>1 DEF IInv, TypeOK
    <3>3. line' = [l \in Line |-> IF OrderOf[l] = job[s].order THEN new(l) ELSE line[l]]
      BY <2>2 DEF CommitAllocate
    <3>4. UNCHANGED picks
      BY <2>2 DEF CommitAllocate
    <3> HIDE DEF new
    <3> QED BY <3>2, <3>3, <3>4 DEF IInv, TypeOK
  <2>3. CASE CommitPick(s)
    <3> DEFINE l == job[s].line
               new == [by |-> job[s].user, qty |-> job[s].qty]
    <3>1. l \in Line /\ job[s].qty \in Nat /\ job[s].user \in User
      BY <1>1, <2>3 DEF CommitPick
    <3>2. PICK st \in {"complete", "partial"} :
            line' = [line EXCEPT ![l] = [status |-> st, lot |-> line[l].lot, actual |-> job[s].qty,
                                         by |-> job[s].user]]
      BY <2>3 DEF CommitPick
    <3>3. line' \in [Line -> [status : {"open", "partial", "complete"}, lot : Lot \cup {NoLot},
                             actual : Nat, by : User \cup {NoUser}]]
      BY <3>1, <3>2 DEF IInv, TypeOK
    <3>4. picks' = picks \/ picks' = [picks EXCEPT ![l] = Append(@, new)]
      BY <2>3 DEF CommitPick
    <3>5. picks[l] \in Seq([by : User, qty : Nat]) /\ new \in [by : User, qty : Nat]
      BY <3>1 DEF IInv, TypeOK
    <3>6. Append(picks[l], new) \in Seq([by : User, qty : Nat])
      BY <3>5
    <3>7. picks' \in [Line -> Seq([by : User, qty : Nat])]
      BY <3>4, <3>6 DEF IInv, TypeOK
    <3> QED BY <3>3, <3>7
  <2> QED BY <2>1, <2>2, <2>3
<1>4. moves' \in Nat
  BY DEF IInv, TypeOK
<1> QED BY <1>2, <1>3, <1>4, CommitEffects, PickedFromLockedRow, Released DEF TypeOK

(* A commit changes its own order and the rows it has locked, nothing else. *)
LEMMA CommitDisturbsNone ==
  ASSUME IInv, NEW s \in Session, Commit(s)
  PROVE  OthersUndisturbed(s)
<1> USE DEF Commit
<1> DEFINE o == job[s].order
<1>1. HasOrder(s) /\ HasRows(s) /\ InTransaction(s) /\ o \in Order
  BY CommitEffects DEF IInv, LockedOrders, LockedRows
<1> SUFFICES ASSUME NEW t \in Session \ {s}
             PROVE  /\ InTransaction(t) =>
                         /\ status'[job[t].order] = status[job[t].order]
                         /\ version'[job[t].order] = version[job[t].order]
                         /\ finisher'[job[t].order] = finisher[job[t].order]
                         /\ \A l \in LinesOf(job[t].order) : line'[l] = line[l] /\ picks'[l] = picks[l]
                    /\ \A x \in rows[t] : onHand'[x] = onHand[x] /\ allocated'[x] = allocated[x]
  BY Released DEF OthersUndisturbed
<1>2. InTransaction(t) => job[t].order # o /\ job[t].order \in Order
  BY <1>1, JobFields DEF IInv, HasOrder, OrderIsFree, InTransaction
<1>3. \A x \in rows[t] : x \in Lot /\ x \notin rows[s]
  BY <1>1 DEF IInv, TypeOK, HasRows, RowIsFree
<1>4. \A x \in rows[t] : delta[s][x] = 0
  BY <1>1, <1>3 DEF HasRows
<1>5. \A x \in rows[t] : onHand'[x] = onHand[x] /\ allocated'[x] = allocated[x]
  <2> SUFFICES ASSUME NEW x \in rows[t] PROVE onHand'[x] = onHand[x] /\ allocated'[x] = allocated[x]
    OBVIOUS
  <2>1. onHand'[x] = onHand[x]
    BY <1>3, PickedFromLockedRow
  <2>2. allocated'[x] = allocated[x] + 0 /\ allocated[x] \in Int
    BY <1>3, <1>4, CommitEffects DEF IInv, TypeOK
  <2> QED BY <2>1, <2>2
<1>6. ASSUME InTransaction(t)
      PROVE  /\ status'[job[t].order] = status[job[t].order]
             /\ version'[job[t].order] = version[job[t].order]
             /\ finisher'[job[t].order] = finisher[job[t].order]
  BY <1>2, <1>6, CommitEffects
<1>7. ASSUME InTransaction(t), NEW l \in LinesOf(job[t].order)
      PROVE  line'[l] = line[l] /\ picks'[l] = picks[l]
  <2>1. l \in Line /\ OrderOf[l] # o
    BY <1>2, <1>7 DEF LinesOf
  <2> QED BY <2>1, CommitEffects
<1> QED BY <1>5, <1>6, <1>7

LEMMA CommitKeeps ==
  ASSUME IInv, NEW s \in Session, Commit(s)
  PROVE  IInv'
<1> USE DEF Commit
<1> DEFINE o == job[s].order
<1>1. HasOrder(s) /\ HasPickedRow(s) /\ HasRows(s) /\ InTransaction(s) /\ o \in Order
  BY CommitEffects DEF IInv, LockedOrders, PickedRowIsLocked, LockedRows
<1>2. OthersUndisturbed(s)
  BY CommitDisturbsNone
<1>3. \A t \in Session \ {s} : HasOrder(t)' /\ HasRows(t)' /\ HasPickedRow(t)'
  BY <1>2, Released, OthersKeep
<1>4. checkedBy[o] # NoUser => job[s].op \in {"pack", "load"}
  BY <1>1, Commands, CommitEffects DEF IInv, CheckedStatus, HasOrder
<1>5. CheckedStatus'
  <2>1. checkedBy'[o] # NoUser => status'[o] \in {"checked", "packed", "loaded"}
    <3>1. CASE job[s].op \in {"check", "pack", "load"}
      <4>1. Advance(o, job[s].op)
        BY <3>1 DEF CommitStep, CommitChecks, CommitApprove, CommitCancel, CommitCheck, CommitPack,
              CommitLoad, NothingPicked, CommitAllocate, CommitPick
      <4> QED BY <1>1, <3>1, <4>1, Targets DEF Advance, IInv, TypeOK
    <3>2. CASE job[s].op \notin {"check", "pack", "load"}
      <4>1. checkedBy' = checkedBy
        BY <3>2 DEF CommitStep, CommitChecks, CommitApprove, CommitCancel, CommitCheck, CommitPack,
              CommitLoad, NothingPicked, CommitAllocate, CommitPick
      <4> QED BY <1>4, <3>2, <4>1
    <3> QED BY <3>1, <3>2
  <2> QED BY <2>1, CommitEffects DEF IInv, CheckedStatus
<1>6. LinePickedOnce'
  <2>1. CASE CommitPick(s)
    <3> DEFINE l == job[s].line
    <3>1. l \in Line /\ PickAllowed(l, job[s].qty)
      BY <1>1, <2>1, JobFields DEF IInv, HasOrder, CommitPick
    <3>2. picks[l] \in Seq([by : User, qty : Nat]) /\ (line[l].lot # NoLot => picks[l] = <<>>)
      BY <3>1 DEF PickAllowed, AlreadyPicked, IInv, TypeOK
    <3>3. \A k \in Line \ {l} : picks'[k] = picks[k]
      BY <2>1 DEF CommitPick, IInv, TypeOK
    <3>4. picks'[l] = picks[l]
          \/ (picks[l] = <<>> /\ picks'[l] = Append(picks[l], [by |-> job[s].user, qty |-> job[s].qty]))
      BY <2>1, <3>1, <3>2 DEF CommitPick, IInv, TypeOK
    <3>5. Len(picks'[l]) <= 1
      BY <3>1, <3>4 DEF IInv, LinePickedOnce
    <3> QED BY <3>3, <3>5 DEF IInv, LinePickedOnce
  <2>2. CASE ~CommitPick(s)
    BY <2>2 DEF CommitStep, CommitChecks, CommitApprove, CommitCancel, CommitCheck, CommitPack,
          CommitLoad, NothingPicked, CommitAllocate, IInv, LinePickedOnce
  <2> QED BY <2>1, <2>2
<1>7. CheckerNeverPicked'
  <2> SUFFICES ASSUME NEW p \in Order, checkedBy'[p] # NoUser, NEW l \in LinesOf(p)
               PROVE  line'[l].by # checkedBy'[p] /\ \A i \in DOMAIN picks'[l] : picks'[l][i].by # checkedBy'[p]
    BY DEF CheckerNeverPicked, LinesOf
  <2>1. CASE p # o
    BY <2>1, CommitEffects DEF LinesOf, IInv, CheckerNeverPicked
  <2>2. CASE p = o /\ job[s].op = "check"
    <3>1. UNCHANGED <<line, picks>> /\ checkedBy'[o] = job[s].user
      BY <1>1, <2>2 DEF CommitStep, CommitChecks, CommitApprove, CommitCancel, CommitCheck, CommitPack,
            CommitLoad, NothingPicked, CommitAllocate, CommitPick, IInv, TypeOK
    <3>2. CheckAllowed(o, job[s].user)
      BY <1>1, <2>2 DEF HasOrder
    <3> QED BY <2>2, <3>1, <3>2 DEF CheckAllowed, WasPicker
  <2>3. CASE p = o /\ job[s].op # "check"
    <3>1. checkedBy' = checkedBy
      BY <2>3 DEF CommitStep, CommitChecks, CommitApprove, CommitCancel, CommitCheck, CommitPack,
            CommitLoad, NothingPicked, CommitAllocate, CommitPick
    <3>2. UNCHANGED <<line, picks>>
      BY <1>4, <2>3, <3>1 DEF CommitStep, CommitChecks, CommitApprove, CommitCancel, CommitCheck,
            CommitPack, CommitLoad, NothingPicked, CommitAllocate, CommitPick
    <3> QED BY <3>1, <3>2 DEF IInv, CheckerNeverPicked
  <2> QED BY <2>1, <2>2, <2>3
<1>8. TypeOK'
  BY CommitTypes
<1> QED BY <1>3, <1>5, <1>6, <1>7, <1>8, Released DEF IInv, LockedOrders, LockedRows, PickedRowIsLocked

LEMMA NextInv == IInv /\ [Next]_vars => IInv'
<1> SUFFICES ASSUME IInv, [Next]_vars PROVE IInv'
  OBVIOUS
<1>1. CASE \E o \in Order : Create(o)
  BY <1>1, CreateKeeps
<1>2. CASE \E x \in Lot : OtherPosting(x)
  BY <1>2, OtherPostingKeeps
<1>3. CASE \E s \in Session : Send(s) \/ Rollback(s) \/ LockOrder(s) \/ Commit(s)
  BY <1>3, SendKeeps, RollbackKeeps, LockOrderKeeps, CommitKeeps
<1>4. CASE \E s \in Session, l \in Line : ScanLots(s, l) \/ ReserveLine(s, l) \/ ReleaseLine(s, l)
  BY <1>4, ScanLotsKeeps, ReserveLineKeeps, ReleaseLineKeeps
<1>5. CASE \E s \in Session, x \in Lot : LockLot(s, x)
  BY <1>5, LockLotKeeps
<1>6. CASE UNCHANGED vars
  <2> USE <1>6 DEF vars, orders, balance
  <2>1. TypeOK' /\ JobOK'
    BY DEF IInv, TypeOK, JobOK
  <2>2. LockedOrders'
    BY DEF IInv, LockedOrders, HasOrder, InTransaction, OrderIsFree, UpToDate, PickAllowed, AlreadyPicked,
           CheckAllowed, WasPicker, LinesOf
  <2>3. LockedRows' /\ PickedRowIsLocked'
    BY DEF IInv, LockedRows, HasRows, PickedRowIsLocked, HasPickedRow, InTransaction, RowIsFree, Available
  <2>4. CheckedStatus' /\ LinePickedOnce' /\ CheckerNeverPicked'
    BY TablesStay
  <2> QED BY <2>1, <2>2, <2>3, <2>4 DEF IInv
<1> QED BY <1>1, <1>2, <1>3, <1>4, <1>5, <1>6 DEF Next, Work

(* Locks, versions and what the commands found under them stay right for   *)
(* any number of sessions, orders, lines and lots.                         *)
THEOREM OutboundInvariant == Spec => []IInv
<1>1. Init => IInv
  BY InitInv
<1>2. IInv /\ [Next]_vars => IInv'
  BY NextInv
<1> QED BY <1>1, <1>2, PTL DEF Spec

(* The guards of pick-line.ts and check-order.ts: no line's stock is taken *)
(* twice, and no checker picked a line.                                    *)
THEOREM PickedOnceAndChecked == Spec => []FourEyes
<1>1. IInv => FourEyes
  BY DEF IInv, FourEyes
<1> QED BY <1>1, OutboundInvariant, PTL

(* Optimistic locking of the order: every write is on the version its      *)
(* caller has seen.                                                        *)
THEOREM NoUpdateLost == Spec => NoLostUpdate
<1> DEFINE A == \A o \in Order : version'[o] # version[o] =>
       /\ version'[o] = version[o] + 1
       /\ \E s \in Session : /\ pc[s] = "commit" /\ pc'[s] = "idle"
                             /\ job[s].order = o /\ job[s].version = version[o]
<1>1. IInv /\ [Next]_vars => [A]_vars
  <2> SUFFICES ASSUME IInv, Next, NEW o \in Order, version'[o] # version[o]
               PROVE  /\ version'[o] = version[o] + 1
                      /\ \E s \in Session : /\ pc[s] = "commit" /\ pc'[s] = "idle"
                                            /\ job[s].order = o /\ job[s].version = version[o]
    OBVIOUS
  <2>1. PICK s \in Session : Commit(s)
    BY DEF Next, Work, Create, OtherPosting, Send, Rollback, LockOrder, ScanLots, LockLot, ReserveLine,
           ReleaseLine, orders
  <2>2. o = job[s].order
    BY <2>1, CommitEffects
  <2>3. pc[s] = "commit" /\ pc'[s] = "idle"
    BY <2>1, Released DEF Commit
  <2>4. job[s].version = version[o]
    BY <2>1, <2>2, CommitEffects DEF IInv, LockedOrders, HasOrder, UpToDate
  <2> QED BY <2>1, <2>2, <2>3, <2>4, CommitEffects
<1> QED BY <1>1, OutboundInvariant, PTL DEF Spec, NoLostUpdate

(* The row locks of getCandidateLots: no allocation takes what another     *)
(* order holds or what is not there.                                       *)
THEOREM AllocationsCovered == Spec => AllocationCovered
<1> DEFINE A == \A x \in Lot : allocated'[x] > allocated[x] => allocated'[x] <= onHand'[x]
<1>1. IInv /\ [Next]_vars => [A]_vars
  <2> SUFFICES ASSUME IInv, Next, NEW x \in Lot, allocated'[x] > allocated[x]
               PROVE  allocated'[x] <= onHand'[x]
    OBVIOUS
  <2>1. allocated[x] \in Int
    BY DEF IInv, TypeOK
  <2>2. PICK s \in Session : Commit(s)
    BY <2>1 DEF Next, Work, Create, OtherPosting, Send, Rollback, LockOrder, ScanLots, LockLot, ReserveLine,
           ReleaseLine, balance
  <2>3. allocated'[x] = allocated[x] + delta[s][x] /\ delta[s][x] \in Int
    BY <2>2, CommitEffects DEF IInv, TypeOK
  <2>4. delta[s][x] > 0
    BY <2>1, <2>3
  <2>5. job[s].op = "allocate" /\ allocated[x] + delta[s][x] <= onHand[x]
    BY <2>4 DEF IInv, LockedRows, HasRows
  <2>6. onHand' = onHand
    BY <2>2, <2>5 DEF Commit, CommitStep, CommitChecks, CommitApprove, CommitCancel, CommitCheck,
          CommitPack, CommitLoad, NothingPicked, CommitAllocate, CommitPick
  <2> QED BY <2>3, <2>5, <2>6
<1> QED BY <1>1, OutboundInvariant, PTL DEF Spec, AllocationCovered

-----------------------------------------------------------------------------
(* The second layer: what the commands will change, and the reservations.  *)

LEMMA LockedLines ==
  ASSUME IInv, NEW t \in Session, InTransaction(t)
  PROVE  /\ job[t].order \in Order /\ LinesToLock(t) \subseteq LinesOf(job[t].order)
         /\ LinesOf(job[t].order) \subseteq Line
         /\ job[t].op = "pick" => job[t].line \in LinesOf(job[t].order)
         /\ job[t].op \in Command
<1>1. pc[t] # "idle"
  BY DEF InTransaction
<1>2. /\ job[t].op \in Command /\ job[t].order \in Order
      /\ job[t].op = "pick" => job[t].line \in Line /\ OrderOf[job[t].line] = job[t].order
  BY <1>1, JobFields DEF IInv
<1> QED  BY <1>2 DEF LinesToLock, LinesOf

LEMMA SomeLines ==
  ASSUME NEW S \in SUBSET Line
  PROVE  IsFiniteSet(S)
BY OutboundConstants, FS_Subset

LEMMA Quantities ==
  ASSUME IInv
  PROVE  /\ \A l \in Line : Reserving[l] = line[l].actual /\ Reserving[l] \in Int /\ Reserving[l] >= 0
         /\ \A s \in Session : \A l \in Line :
              Planned(s)[l] = plan[s][l].qty /\ Planned(s)[l] \in Int /\ Planned(s)[l] >= 0
BY DEF IInv, TypeOK, Reserving, Planned

(* The lines a command locks do not change under it. *)
LEMMA LockSetStays ==
  ASSUME IInv, NEW t \in Session, InTransaction(t), job'[t] = job[t],
         (status'[job[t].order] \in Reserved) <=> (status[job[t].order] \in Reserved),
         \A l \in LinesOf(job[t].order) : line'[l] = line[l]
  PROVE  LinesToLock(t)' = LinesToLock(t)
<1> DEFINE o == job[t].order
<1>1. /\ LinesOf(o) \subseteq Line /\ (job[t].op = "pick" => job[t].line \in LinesOf(o))
  BY LockedLines
<1>2. {l \in LinesOf(o) : line'[l].lot # NoLot} = {l \in LinesOf(o) : line[l].lot # NoLot}
  OBVIOUS
<1>3. job[t].op = "pick" =>
        {l \in {job[t].line} : line'[l].lot # NoLot} = {l \in {job[t].line} : line[l].lot # NoLot}
  BY <1>1
<1> QED  BY <1>2, <1>3 DEF LinesToLock, LinesOf

(* A command keeps its sums while it moves no line itself. *)
LEMMA DeltaStays ==
  ASSUME IInv, NEW t \in Session, DeltaIsSum(t),
         InTransaction(t)' => InTransaction(t), pc'[t] = "commit" => pc[t] = "commit",
         job'[t] = job[t], todo'[t] = todo[t], plan'[t] = plan[t], delta'[t] = delta[t],
         InTransaction(t) =>
           /\ (status'[job[t].order] \in Reserved) <=> (status[job[t].order] \in Reserved)
           /\ \A l \in LinesOf(job[t].order) : line'[l] = line[l]
  PROVE  DeltaIsSum(t)'
<1> SUFFICES ASSUME InTransaction(t)' PROVE DeltaIsSum(t)'
  BY DEF DeltaIsSum
<1>1. InTransaction(t)
  OBVIOUS
<1>2. /\ LinesToLock(t)' = LinesToLock(t) /\ LinesToLock(t) \subseteq LinesOf(job[t].order)
      /\ LinesOf(job[t].order) \subseteq Line
  BY <1>1, LockSetStays, LockedLines
<1>3. DealtWith(t)' = DealtWith(t) /\ DealtWith(t) \subseteq Line
      /\ \A l \in DealtWith(t) : line'[l] = line[l]
  BY <1>1, <1>2 DEF DealtWith
<1>4. Planned(t)' = Planned(t)
  BY DEF Planned
<1>5. \A x \in Lot :
        /\ {l \in DealtWith(t) : plan'[t][l].lot = x} = {l \in DealtWith(t) : plan[t][l].lot = x}
        /\ {l \in DealtWith(t) : line'[l].lot = x} = {l \in DealtWith(t) : line[l].lot = x}
  BY <1>3
<1>6. \A x \in Lot :
        SumFunctionOnSet(Reserving', {l \in DealtWith(t) : line[l].lot = x})
          = SumFunctionOnSet(Reserving, {l \in DealtWith(t) : line[l].lot = x})
  <2> TAKE x \in Lot
  <2> DEFINE S == {l \in DealtWith(t) : line[l].lot = x}
  <2>1. S \subseteq Line /\ IsFiniteSet(S)
    BY <1>3, SomeLines
  <2>2. \A l \in S : Reserving'[l] = Reserving[l]
    BY <1>3, <2>1 DEF Reserving
  <2> HIDE DEF S
  <2>3. SumFunctionOnSet(Reserving', S) = SumFunctionOnSet(Reserving, S)
    BY <2>1, <2>2, SumOfEquals
  <2> QED  BY <2>3 DEF S
<1>7. \A x \in Lot : delta'[t][x] =
        IF job'[t].op = "allocate"
          THEN SumFunctionOnSet(Planned(t)', {l \in DealtWith(t)' : plan'[t][l].lot = x})
          ELSE 0 - SumFunctionOnSet(Reserving', {l \in DealtWith(t)' : line'[l].lot = x})
  <2> TAKE x \in Lot
  <2>1. delta[t][x] =
          IF job[t].op = "allocate"
            THEN SumFunctionOnSet(Planned(t), {l \in DealtWith(t) : plan[t][l].lot = x})
            ELSE 0 - SumFunctionOnSet(Reserving, {l \in DealtWith(t) : line[l].lot = x})
    BY <1>1 DEF DeltaIsSum
  <2> QED  BY <1>3, <1>4, <1>5, <1>6, <2>1
<1>8. todo'[t] \subseteq LinesToLock(t)' /\ (pc'[t] = "commit" => todo'[t] = {})
  BY <1>1, <1>2 DEF DeltaIsSum
<1> QED  BY <1>7, <1>8 DEF DeltaIsSum

(* Before it dealt with a line a command changes nothing. *)
LEMMA DeltaStarts ==
  ASSUME IInv, NEW s \in Session, LockOrder(s)
  PROVE  DeltaIsSum(s)'
<1>1. ~InTransaction(s) /\ job' = job /\ plan' = plan /\ delta' = delta /\ line' = line /\ status' = status
  BY DEF LockOrder, InTransaction, orders
<1>2. \A x \in Lot : delta[s][x] = 0
  BY <1>1 DEF IInv, LockedRows, HasRows
<1>3. LinesToLock(s)' = LinesToLock(s) /\ todo'[s] = LinesToLock(s)
  <2>1. LinesToLock(s)' = LinesToLock(s)
    BY <1>1 DEF LinesToLock, LinesOf
  <2>2. todo'[s] = LinesToLock(s)
    BY DEF LockOrder, IInv, TypeOK
  <2> QED  BY <2>1, <2>2
<1>4. pc'[s] = "commit" => LinesToLock(s) = {}
  BY DEF LockOrder, Goto, IInv, TypeOK
<1>5. DealtWith(s)' = {}
  BY <1>3 DEF DealtWith
<1>6. \A x \in Lot : /\ {l \in DealtWith(s)' : plan'[s][l].lot = x} = {}
                     /\ {l \in DealtWith(s)' : line'[l].lot = x} = {}
  BY <1>5
<1>7. SumFunctionOnSet(Planned(s)', {}) = 0 /\ SumFunctionOnSet(Reserving', {}) = 0
  BY SumOfNone
<1>8. \A x \in Lot : delta'[s][x] =
        IF job'[s].op = "allocate"
          THEN SumFunctionOnSet(Planned(s)', {l \in DealtWith(s)' : plan'[s][l].lot = x})
          ELSE 0 - SumFunctionOnSet(Reserving', {l \in DealtWith(s)' : line'[l].lot = x})
  <2> SUFFICES ASSUME NEW x \in Lot
               PROVE  delta'[s][x] =
                        IF job'[s].op = "allocate"
                          THEN SumFunctionOnSet(Planned(s)', {l \in DealtWith(s)' : plan'[s][l].lot = x})
                          ELSE 0 - SumFunctionOnSet(Reserving', {l \in DealtWith(s)' : line'[l].lot = x})
    OBVIOUS
  <2>1. delta'[s][x] = 0
    BY <1>1, <1>2
  <2>2. SumFunctionOnSet(Planned(s)', {l \in DealtWith(s)' : plan'[s][l].lot = x}) = 0
    BY <1>6, <1>7
  <2>3. SumFunctionOnSet(Reserving', {l \in DealtWith(s)' : line'[l].lot = x}) = 0
    BY <1>6, <1>7
  <2>4. 0 - SumFunctionOnSet(Reserving', {l \in DealtWith(s)' : line'[l].lot = x}) = 0
    BY <2>3
  <2> QED  BY <2>1, <2>2, <2>4
<1>9. todo'[s] \subseteq LinesToLock(s)' /\ (pc'[s] = "commit" => todo'[s] = {})
  BY <1>3, <1>4
<1> QED  BY <1>8, <1>9 DEF DeltaIsSum

LEMMA ReserveLineSums ==
  ASSUME IInv, NEW s \in Session, DeltaIsSum(s), NEW l \in Line, ReserveLine(s, l)
  PROVE  DeltaIsSum(s)'
<1>1. PICK r \in SingleLot(s, l) :
        /\ plan' = [plan EXCEPT ![s][l] = r]
        /\ delta' = [delta EXCEPT ![s] = [x \in Lot |-> IF x = r.lot THEN @[x] + r.qty ELSE @[x]]]
  BY DEF ReserveLine
<1>2. /\ InTransaction(s) /\ job[s].op = "allocate" /\ l \in todo[s]
      /\ job' = job /\ line' = line /\ status' = status
  BY DEF ReserveLine, InTransaction, IsNextLine, IInv, LockedRows, HasRows, orders
<1>3. /\ LinesToLock(s)' = LinesToLock(s) /\ LinesToLock(s) \subseteq Line
  <2>1. LinesToLock(s)' = LinesToLock(s)
    BY <1>2 DEF LinesToLock, LinesOf
  <2> QED  BY <1>2, <2>1, LockedLines
<1>4. /\ todo[s] \subseteq LinesToLock(s) /\ todo'[s] = todo[s] \ {l}
      /\ pc'[s] = "commit" => todo'[s] = {}
  <2>1. todo'[s] = todo[s] \ {l} /\ pc'[s] = IF todo[s] = {l} THEN "commit" ELSE "scan"
    BY DEF ReserveLine, Goto, IInv, TypeOK
  <2> QED  BY <1>2, <2>1 DEF DeltaIsSum
<1>5. DealtWith(s)' = DealtWith(s) \cup {l} /\ l \notin DealtWith(s) /\ DealtWith(s) \subseteq Line
  BY <1>2, <1>3, <1>4 DEF DealtWith
<1>6. /\ r.qty = plan'[s][l].qty /\ r.lot = plan'[s][l].lot /\ \A k \in Line \ {l} : plan'[s][k] = plan[s][k]
      /\ r.qty \in Int
  <2>1. plan' \in [Session -> [Line -> [lot : Lot \cup {NoLot}, qty : Nat]]]
    BY ReserveLineKeeps DEF IInv, TypeOK
  <2>2. plan'[s][l] = r /\ \A k \in Line \ {l} : plan'[s][k] = plan[s][k]
    BY <1>1 DEF IInv, TypeOK
  <2> QED  BY <2>1, <2>2
<1>7. \A x \in Lot : delta'[s][x] = IF x = r.lot THEN delta[s][x] + r.qty ELSE delta[s][x]
  BY <1>1 DEF IInv, TypeOK
<1>8. ASSUME NEW x \in Lot
      PROVE  delta'[s][x] = SumFunctionOnSet(Planned(s)', {k \in DealtWith(s)' : plan'[s][k].lot = x})
  <2> DEFINE S == {k \in DealtWith(s) : plan[s][k].lot = x}
  <2>1. S \subseteq Line /\ IsFiniteSet(S) /\ l \notin S
    BY <1>5, SomeLines
  <2>2. delta[s][x] = SumFunctionOnSet(Planned(s), S)
    BY <1>2 DEF DeltaIsSum
  <2>3. /\ \A k \in S : Planned(s)[k] \in Int /\ Planned(s)'[k] = Planned(s)[k]
        /\ Planned(s)'[l] = r.qty
    <3>1. \A k \in S : k \in Line /\ k # l
      BY <2>1
    <3> QED  BY <1>6, <3>1, Quantities DEF Planned
  <2>4. {k \in DealtWith(s)' : plan'[s][k].lot = x} = IF x = r.lot THEN S \cup {l} ELSE S
    BY <1>5, <1>6
  <2> HIDE DEF S
  <2>5. CASE x = r.lot
    <3>1. SumFunctionOnSet(Planned(s)', S \cup {l}) = SumFunctionOnSet(Planned(s), S) + r.qty
      <4>1. Planned(s)'[l] \in Int
        BY <1>6, <2>3
      <4>2. SumFunctionOnSet(Planned(s)', S \cup {l}) = SumFunctionOnSet(Planned(s), S) + Planned(s)'[l]
        BY <2>1, <2>3, <4>1, SumJoins
      <4> QED  BY <2>3, <4>2
    <3> QED  BY <1>7, <2>2, <2>4, <2>5, <3>1
  <2>6. CASE x # r.lot
    <3>1. SumFunctionOnSet(Planned(s)', S) = SumFunctionOnSet(Planned(s), S)
      BY <2>1, <2>3, SumOfEquals
    <3> QED  BY <1>7, <2>2, <2>4, <2>6, <3>1
  <2> QED  BY <2>5, <2>6
<1> QED  BY <1>2, <1>3, <1>4, <1>8 DEF DeltaIsSum

LEMMA ReleaseLineSums ==
  ASSUME IInv, NEW s \in Session, DeltaIsSum(s), NEW l \in Line, ReleaseLine(s, l)
  PROVE  DeltaIsSum(s)'
<1>1. /\ InTransaction(s) /\ job[s].op # "allocate" /\ l \in todo[s] /\ line[l].lot \in Lot
      /\ job' = job /\ line' = line /\ status' = status
  BY DEF ReleaseLine, InTransaction, IInv, TypeOK, LockedRows, HasRows, orders
<1>2. /\ LinesToLock(s)' = LinesToLock(s) /\ LinesToLock(s) \subseteq Line
  <2>1. LinesToLock(s)' = LinesToLock(s)
    BY <1>1 DEF LinesToLock, LinesOf
  <2> QED  BY <1>1, <2>1, LockedLines
<1>3. /\ todo[s] \subseteq LinesToLock(s) /\ todo'[s] = todo[s] \ {l}
      /\ pc'[s] = "commit" => todo'[s] = {}
  <2>1. todo'[s] = todo[s] \ {l} /\ pc'[s] = IF todo[s] = {l} THEN "commit" ELSE "row"
    BY DEF ReleaseLine, Goto, IInv, TypeOK
  <2> QED  BY <1>1, <2>1 DEF DeltaIsSum
<1>4. DealtWith(s)' = DealtWith(s) \cup {l} /\ l \notin DealtWith(s) /\ DealtWith(s) \subseteq Line
  BY <1>1, <1>2, <1>3 DEF DealtWith
<1>5. Reserving' = Reserving /\ Reserving[l] = line[l].actual
  BY <1>1 DEF Reserving
<1>6. \A x \in Lot : /\ delta[s][x] \in Int
                     /\ delta'[s][x] = IF x = line[l].lot THEN delta[s][x] - line[l].actual ELSE delta[s][x]
  BY <1>1 DEF ReleaseLine, ReservedQty, IInv, TypeOK
<1>7. ASSUME NEW x \in Lot
      PROVE  delta'[s][x] = 0 - SumFunctionOnSet(Reserving', {k \in DealtWith(s)' : line'[k].lot = x})
  <2> DEFINE S == {k \in DealtWith(s) : line[k].lot = x}
  <2>1. S \subseteq Line /\ IsFiniteSet(S) /\ l \notin S /\ \A k \in S \cup {l} : Reserving[k] \in Int
    BY <1>4, SomeLines, Quantities
  <2>2. delta[s][x] = 0 - SumFunctionOnSet(Reserving, S)
    BY <1>1 DEF DeltaIsSum
  <2>3. {k \in DealtWith(s)' : line'[k].lot = x} = IF x = line[l].lot THEN S \cup {l} ELSE S
    BY <1>1, <1>4
  <2> HIDE DEF S
  <2>4. SumFunctionOnSet(Reserving, S \cup {l}) = SumFunctionOnSet(Reserving, S) + Reserving[l]
    BY <2>1, SumGetsOne
  <2>5. SumFunctionOnSet(Reserving, S) \in Int /\ Reserving[l] \in Int
    BY <2>1, SumIsInt
  <2>6. CASE x = line[l].lot
    <3>1. delta'[s][x] = 0 - SumFunctionOnSet(Reserving, S) - Reserving[l]
      BY <1>5, <1>6, <2>2, <2>6
    <3>2. delta'[s][x] = 0 - SumFunctionOnSet(Reserving, S \cup {l})
      BY <2>4, <2>5, <3>1
    <3> QED  BY <1>5, <2>3, <2>6, <3>2
  <2>7. CASE x # line[l].lot
    BY <1>5, <1>6, <2>2, <2>3, <2>7
  <2> QED  BY <2>6, <2>7
<1> QED  BY <1>1, <1>2, <1>3, <1>7 DEF DeltaIsSum

(* Whatever one command does, the others keep their sums.                  *)
LEMMA OthersSums ==
  ASSUME IInv, DeltasAreSums, NEW s \in Session, OthersUndisturbed(s),
         \A t \in Session \ {s} : plan'[t] = plan[t], DeltaIsSum(s)'
  PROVE  DeltasAreSums'
<1> SUFFICES ASSUME NEW t \in Session \ {s} PROVE DeltaIsSum(t)'
  BY DEF DeltasAreSums
<1>1. DeltaIsSum(t) /\ (InTransaction(t)' <=> InTransaction(t))
  BY DEF DeltasAreSums, OthersUndisturbed, InTransaction
<1>2. /\ pc'[t] = pc[t] /\ job'[t] = job[t] /\ todo'[t] = todo[t] /\ delta'[t] = delta[t] /\ plan'[t] = plan[t]
      /\ InTransaction(t) =>
           /\ (status'[job[t].order] \in Reserved) <=> (status[job[t].order] \in Reserved)
           /\ \A l \in LinesOf(job[t].order) : line'[l] = line[l]
  BY DEF OthersUndisturbed
<1> QED  BY <1>1, <1>2, DeltaStays

(* While nothing is committed the tables stay.                             *)
LEMMA OthersWait ==
  ASSUME IInv, NEW s \in Session, UNCHANGED <<orders, balance, job>>,
         \A t \in Session \ {s} : /\ pc'[t] = pc[t] /\ todo'[t] = todo[t] /\ chosen'[t] = chosen[t]
                                  /\ rows'[t] = rows[t] /\ delta'[t] = delta[t],
         OrderIsFree(s) \/ InTransaction(s)
  PROVE  OthersUndisturbed(s)
<1>1. OrderIsFree(s)
  BY DEF IInv, LockedOrders, HasOrder
<1> QED  BY <1>1 DEF OthersUndisturbed, OrderIsFree, orders, balance

LEMMA CreateSums ==
  ASSUME IInv, DeltasAreSums, NEW o \in Order, Create(o)
  PROVE  DeltasAreSums'
<1> SUFFICES ASSUME NEW t \in Session PROVE DeltaIsSum(t)'
  BY DEF DeltasAreSums
<1>1. /\ pc' = pc /\ job' = job /\ todo' = todo /\ delta' = delta /\ plan' = plan /\ line' = line
      /\ status[o] = "none" /\ status'[o] = "draft" /\ \A p \in Order \ {o} : status'[p] = status[p]
  BY DEF Create, IInv, TypeOK
<1>2. InTransaction(t) => job[t].order \in Order
  BY LockedLines
<1>3. InTransaction(t) =>
        (status'[job[t].order] \in Reserved) <=> (status[job[t].order] \in Reserved)
  BY <1>1, <1>2 DEF Reserved
<1>4. DeltaIsSum(t) /\ (InTransaction(t)' => InTransaction(t))
  BY <1>1 DEF DeltasAreSums, InTransaction
<1> QED  BY <1>1, <1>3, <1>4, DeltaStays

LEMMA IdleSums ==
  ASSUME IInv, DeltasAreSums, UNCHANGED <<orders, plan, delta>>, NEW s \in Session,
         \A t \in Session \ {s} : pc'[t] = pc[t] /\ job'[t] = job[t] /\ todo'[t] = todo[t],
         DeltaIsSum(s)'
  PROVE  DeltasAreSums'
<1> SUFFICES ASSUME NEW t \in Session \ {s} PROVE DeltaIsSum(t)'
  BY DEF DeltasAreSums
<1>1. DeltaIsSum(t) /\ (InTransaction(t)' => InTransaction(t)) /\ status' = status /\ line' = line
  BY DEF DeltasAreSums, InTransaction, orders
<1> QED  BY <1>1, DeltaStays

LEMMA SendSums ==
  ASSUME IInv, DeltasAreSums, NEW s \in Session, Send(s)
  PROVE  DeltasAreSums'
<1>1. ~InTransaction(s)' /\ \A t \in Session \ {s} : pc'[t] = pc[t] /\ job'[t] = job[t] /\ todo'[t] = todo[t]
  BY DEF Send, Goto, InTransaction, IInv, TypeOK
<1>2. DeltaIsSum(s)'
  BY <1>1 DEF DeltaIsSum
<1> QED  BY <1>1, <1>2, IdleSums DEF Send

LEMMA QueryingSums ==
  ASSUME IInv, DeltasAreSums, NEW s \in Session,
         (\E l \in Line : ScanLots(s, l)) \/ (\E x \in Lot : LockLot(s, x))
  PROVE  DeltasAreSums'
<1>1. /\ UNCHANGED <<orders, job, todo, plan, delta>> /\ InTransaction(s) /\ pc'[s] # "commit"
      /\ \A t \in Session \ {s} : pc'[t] = pc[t] /\ job'[t] = job[t] /\ todo'[t] = todo[t]
  BY DEF ScanLots, LockLot, Goto, InTransaction, IInv, TypeOK
<1>2. DeltaIsSum(s) /\ status' = status /\ line' = line
  BY <1>1 DEF DeltasAreSums, orders
<1>3. DeltaIsSum(s)'
  BY <1>1, <1>2, DeltaStays
<1> QED  BY <1>1, <1>3, IdleSums

LEMMA OtherPostingSums ==
  ASSUME IInv, DeltasAreSums, NEW x \in Lot, OtherPosting(x)
  PROVE  DeltasAreSums'
<1> SUFFICES ASSUME NEW t \in Session PROVE DeltaIsSum(t)'
  BY DEF DeltasAreSums
<1>1. /\ pc' = pc /\ job' = job /\ todo' = todo /\ delta' = delta /\ plan' = plan
      /\ line' = line /\ status' = status
  BY DEF OtherPosting, orders
<1>2. DeltaIsSum(t) /\ (InTransaction(t)' => InTransaction(t))
  BY <1>1 DEF DeltasAreSums, InTransaction
<1> QED  BY <1>1, <1>2, DeltaStays

LEMMA LockOrderSums ==
  ASSUME IInv, DeltasAreSums, NEW s \in Session, LockOrder(s)
  PROVE  DeltasAreSums'
<1>1. /\ UNCHANGED <<orders, balance, job, chosen, rows, plan, delta>> /\ OrderIsFree(s)
      /\ \A t \in Session \ {s} : pc'[t] = pc[t] /\ todo'[t] = todo[t]
  BY DEF LockOrder, Goto, IInv, TypeOK
<1>2. OthersUndisturbed(s)
  BY <1>1, OthersWait
<1>3. DeltaIsSum(s)'
  BY DeltaStarts
<1> QED  BY <1>1, <1>2, <1>3, OthersSums

LEMMA ReserveSums ==
  ASSUME IInv, DeltasAreSums, NEW s \in Session, NEW l \in Line, ReserveLine(s, l)
  PROVE  DeltasAreSums'
<1>1. /\ UNCHANGED <<orders, balance, job, chosen, rows>> /\ InTransaction(s)
      /\ \A t \in Session \ {s} : /\ pc'[t] = pc[t] /\ todo'[t] = todo[t] /\ delta'[t] = delta[t]
                                  /\ plan'[t] = plan[t]
  BY DEF ReserveLine, Goto, InTransaction, IInv, TypeOK
<1>2. OthersUndisturbed(s)
  BY <1>1, OthersWait
<1>3. DeltaIsSum(s)'
  BY ReserveLineSums DEF DeltasAreSums
<1> QED  BY <1>1, <1>2, <1>3, OthersSums

LEMMA ReleaseSums ==
  ASSUME IInv, DeltasAreSums, NEW s \in Session, NEW l \in Line, ReleaseLine(s, l)
  PROVE  DeltasAreSums'
<1>1. /\ UNCHANGED <<orders, balance, job, chosen, plan>> /\ InTransaction(s)
      /\ \A t \in Session \ {s} : /\ pc'[t] = pc[t] /\ todo'[t] = todo[t] /\ delta'[t] = delta[t]
                                  /\ rows'[t] = rows[t]
  BY DEF ReleaseLine, Goto, InTransaction, IInv, TypeOK
<1>2. OthersUndisturbed(s)
  BY <1>1, OthersWait
<1>3. DeltaIsSum(s)'
  BY ReleaseLineSums DEF DeltasAreSums
<1> QED  BY <1>1, <1>2, <1>3, OthersSums

LEMMA EndSums ==
  ASSUME IInv, DeltasAreSums, NEW s \in Session, Rollback(s) \/ Commit(s)
  PROVE  DeltasAreSums'
<1>1. Release(s)
  BY DEF Rollback, Commit
<1>2. OthersUndisturbed(s)
  <2>1. CASE Commit(s)
    BY <2>1, CommitDisturbsNone
  <2>2. CASE Rollback(s)
    BY <1>1, <2>2, Released DEF Rollback, OthersUndisturbed, orders, balance
  <2> QED  BY <2>1, <2>2
<1>3. ~InTransaction(s)' /\ \A t \in Session \ {s} : plan'[t] = plan[t]
  BY <1>1, Released, ZenonT(30) DEF Release, IInv, TypeOK
<1>4. DeltaIsSum(s)'
  BY <1>3 DEF DeltaIsSum
<1> QED  BY <1>2, <1>3, <1>4, OthersSums

(* The lines that hold a reservation on a row.                             *)
HeldOn(x) == {l \in Line : Holds(l) /\ line[l].lot = x}

LEMMA HeldLines ==
  ASSUME NEW x \in Lot
  PROVE  /\ HeldOn(x) \subseteq Line /\ IsFiniteSet(HeldOn(x))
         /\ HeldOn(x)' \subseteq Line /\ IsFiniteSet(HeldOn(x)')
<1>1. HeldOn(x) \subseteq Line /\ HeldOn(x)' \subseteq Line
  BY DEF HeldOn
<1> QED  BY <1>1, SomeLines

(* A commit adds the sum over all lines that its command locked.           *)
LEMMA CommitAllocates ==
  ASSUME IInv, DeltasAreSums, NEW s \in Session, Commit(s), NEW x \in Lot
  PROVE  allocated'[x] = allocated[x] +
           IF job[s].op = "allocate"
             THEN SumFunctionOnSet(Planned(s), {l \in LinesOf(job[s].order) : plan[s][l].lot = x})
             ELSE 0 - SumFunctionOnSet(Reserving, {l \in LinesToLock(s) : line[l].lot = x})
<1>1. InTransaction(s) /\ allocated'[x] = allocated[x] + delta[s][x] /\ pc[s] = "commit"
  BY CommitEffects DEF Commit
<1>2. DeltaIsSum(s) /\ todo[s] = {}
  BY <1>1 DEF DeltasAreSums, DeltaIsSum
<1>3. DealtWith(s) = LinesToLock(s)
  BY <1>2 DEF DealtWith
<1>4. job[s].op = "allocate" => LinesToLock(s) = LinesOf(job[s].order)
  BY DEF LinesToLock
<1> QED  BY <1>1, <1>2, <1>3, <1>4 DEF DeltaIsSum

(* The order before and after a commit, by command.                        *)
LEMMA CommitMoves ==
  ASSUME IInv, NEW s \in Session, Commit(s)
  PROVE  LET o  == job[s].order
             op == job[s].op
         IN
         /\ status[o] \in From[op]
         /\ op = "checks"   => status'[o] \in {"checks_pending", "credit_rejected"}
         /\ op = "approve"  => status'[o] = "approved"
         /\ op = "cancel"   => status'[o] = "cancelled"
         /\ op = "allocate" => status'[o] \in Reserved
         /\ op = "pick"     => status'[o] = IF OpenPickLines(o) = {} THEN "picked" ELSE "picking"
         /\ op = "check"    => status'[o] = "checked"
         /\ op = "pack"     => status'[o] = "packed"
         /\ op = "load"     => status'[o] = "loaded"
         /\ op = "allocate" <=> CommitAllocate(s)
         /\ op = "pick" <=> CommitPick(s)
         /\ op \notin {"allocate", "pick"} => line' = line /\ picks' = picks
<1> DEFINE o == job[s].order
<1>1. CommitStep(s) \/ CommitAllocate(s) \/ CommitPick(s)
  BY DEF Commit
<1>2. o \in Order /\ status[o] \in From[job[s].op]
  BY CommitEffects DEF IInv, LockedOrders, HasOrder
<1>3. \A e \in DOMAIN Target : Advance(o, e) => status'[o] = Target[e]
  BY <1>2 DEF Advance, IInv, TypeOK
<1>4. CASE CommitStep(s)
  BY <1>2, <1>3, <1>4 DEF CommitStep, CommitChecks, CommitApprove, CommitCancel, CommitCheck, CommitPack,
     CommitLoad, NothingPicked, CommitAllocate, CommitPick, Target
<1>5. CASE CommitAllocate(s)
  BY <1>2, <1>3, <1>5 DEF CommitAllocate, CommitPick, Target, Reserved
<1>6. CASE CommitPick(s)
  BY <1>2, <1>3, <1>6 DEF CommitAllocate, CommitPick, Target
<1> QED  BY <1>1, <1>4, <1>5, <1>6

(* Lines of other orders hold what they held.                              *)
LEMMA OtherLinesHold ==
  ASSUME IInv, NEW s \in Session, Commit(s), NEW l \in Line, OrderOf[l] # job[s].order
  PROVE  line'[l] = line[l] /\ picks'[l] = picks[l] /\ (Holds(l)' <=> Holds(l))
<1>1. OrderOf[l] \in Order
  BY OutboundConstants
<1>2. line'[l] = line[l] /\ picks'[l] = picks[l] /\ status'[OrderOf[l]] = status[OrderOf[l]]
  BY <1>1, CommitEffects
<1> QED  BY <1>2 DEF Holds

(* Allocate: the lines of the order hold what was planned for them.        *)
LEMMA AllocateReserves ==
  ASSUME ReserveInv, NEW s \in Session, Commit(s), job[s].op = "allocate", NEW x \in Lot
  PROVE  allocated'[x] = SumFunctionOnSet(Reserving', HeldOn(x)')
<1> DEFINE o == job[s].order
           P == {l \in LinesOf(o) : plan[s][l].lot = x}
<1>1. IInv /\ NotYetReserved /\ NotYetPicked /\ DeltasAreSums /\ ReservationsAreAllocated
  BY DEF ReserveInv
<1>2. /\ o \in Order /\ status[o] = "approved" /\ status'[o] \in Reserved /\ CommitAllocate(s)
      /\ LinesOf(o) \subseteq Line
  BY <1>1, CommitMoves, CommitEffects DEF From, LinesOf
<1>3. \A l \in LinesOf(o) : line[l].lot = NoLot /\ picks[l] = <<>> /\ OrderOf[l] = o
  BY <1>1, <1>2 DEF NotYetReserved, NotYetPicked, LinesOf
<1>4. \A l \in LinesOf(o) : line'[l].lot = plan[s][l].lot /\ line'[l].actual = plan[s][l].qty /\ picks'[l] = <<>>
  BY <1>2, <1>3 DEF CommitAllocate, LinesOf
<1>5. x # NoLot
  BY OutboundConstants
<1>6. HeldOn(x)' = HeldOn(x) \cup P
  <2> SUFFICES ASSUME NEW l \in Line PROVE l \in HeldOn(x)' <=> l \in HeldOn(x) \cup P
    BY <1>2 DEF HeldOn
  <2>1. CASE OrderOf[l] = o
    <3>1. l \in LinesOf(o)
      BY <2>1 DEF LinesOf
    <3>2. Holds(l)' /\ line'[l].lot = x <=> plan[s][l].lot = x
      BY <1>2, <1>4, <1>5, <2>1, <3>1 DEF Holds, Reserved
    <3>3. l \notin HeldOn(x)
      BY <1>3, <3>1 DEF HeldOn, Holds
    <3> QED  BY <3>1, <3>2, <3>3 DEF HeldOn
  <2>2. CASE OrderOf[l] # o
    <3>1. l \notin P
      BY <2>2 DEF LinesOf
    <3>2. line'[l] = line[l] /\ (Holds(l)' <=> Holds(l))
      BY <1>1, <2>2, OtherLinesHold
    <3> QED  BY <3>1, <3>2 DEF HeldOn
  <2> QED  BY <2>1, <2>2
<1>7. /\ HeldOn(x) \subseteq Line /\ IsFiniteSet(HeldOn(x)) /\ P \subseteq Line /\ IsFiniteSet(P)
      /\ HeldOn(x) \cap P = {}
  <2>1. P \subseteq Line /\ IsFiniteSet(P)
    BY <1>2, SomeLines
  <2>2. HeldOn(x) \cap P = {}
    BY <1>3 DEF HeldOn, Holds
  <2> QED  BY <2>1, <2>2, HeldLines
<1>8. /\ \A l \in HeldOn(x) : Reserving'[l] = Reserving[l]
      /\ \A l \in P : Reserving'[l] = Planned(s)[l]
      /\ \A l \in HeldOn(x) : Reserving[l] \in Int
      /\ \A l \in P : Planned(s)[l] \in Int
  <2>1. ASSUME NEW l \in HeldOn(x) PROVE Reserving'[l] = Reserving[l] /\ Reserving[l] \in Int
    <3>1. l \in Line /\ OrderOf[l] # o
      BY <1>3, <1>5 DEF HeldOn, Holds, LinesOf
    <3>2. line'[l] = line[l]
      BY <1>1, <3>1, OtherLinesHold
    <3> QED  BY <1>1, <3>1, <3>2, Quantities DEF Reserving
  <2>2. ASSUME NEW l \in P PROVE Reserving'[l] = Planned(s)[l] /\ Planned(s)[l] \in Int
    <3>1. l \in Line /\ line'[l].actual = plan[s][l].qty
      BY <1>2, <1>4
    <3> QED  BY <1>1, <3>1, Quantities DEF Reserving
  <2> QED  BY <2>1, <2>2
<1>9. allocated'[x] = SumFunctionOnSet(Reserving, HeldOn(x)) + SumFunctionOnSet(Planned(s), P)
  <2>1. allocated[x] = SumFunctionOnSet(Reserving, HeldOn(x))
    BY <1>1 DEF ReservationsAreAllocated, Reserving, HeldOn
  <2>2. allocated'[x] = allocated[x] + SumFunctionOnSet(Planned(s), P)
    BY <1>1, CommitAllocates
  <2> QED  BY <2>1, <2>2
<1> HIDE DEF P, o
<1>10. \A l \in HeldOn(x) \cup P : Reserving'[l] \in Int
  BY <1>8
<1>11. SumFunctionOnSet(Reserving', HeldOn(x) \cup P)
         = SumFunctionOnSet(Reserving', HeldOn(x)) + SumFunctionOnSet(Reserving', P)
  BY <1>7, <1>10, SumOfUnion
<1>12. /\ SumFunctionOnSet(Reserving', HeldOn(x)) = SumFunctionOnSet(Reserving, HeldOn(x))
       /\ SumFunctionOnSet(Reserving', P) = SumFunctionOnSet(Planned(s), P)
  BY <1>7, <1>8, SumOfEquals
<1> QED  BY <1>6, <1>9, <1>11, <1>12

(* A commit that touches no line and no reservation.                       *)
LEMMA NothingReserved ==
  ASSUME ReserveInv, NEW s \in Session, Commit(s),
         job[s].op \in {"checks", "approve", "check", "pack", "load"}
         \/ (job[s].op = "cancel" /\ status[job[s].order] \notin Reserved),
         NEW x \in Lot
  PROVE  allocated'[x] = SumFunctionOnSet(Reserving', HeldOn(x)')
<1> DEFINE o == job[s].order
<1>1. IInv /\ NotYetReserved /\ DeltasAreSums /\ ReservationsAreAllocated /\ o \in Order /\ x # NoLot
  BY OutboundConstants, CommitEffects DEF ReserveInv
<1>2. line' = line /\ picks' = picks /\ Reserving' = Reserving
  BY <1>1, CommitMoves DEF Reserving
<1>3. LinesToLock(s) = {}
  BY <1>1 DEF LinesToLock
<1>4. allocated'[x] = allocated[x]
  <2>1. {l \in LinesToLock(s) : line[l].lot = x} = {}
    BY <1>3
  <2>2. allocated'[x] = allocated[x] + (0 - SumFunctionOnSet(Reserving, {l \in LinesToLock(s) : line[l].lot = x}))
    BY <1>1, CommitAllocates
  <2>3. allocated'[x] = allocated[x] + (0 - 0)
    BY <2>1, <2>2, SumOfNone
  <2> QED  BY <1>1, <2>3 DEF IInv, TypeOK
<1>5. HeldOn(x)' = HeldOn(x)
  <2> SUFFICES ASSUME NEW l \in Line PROVE l \in HeldOn(x)' <=> l \in HeldOn(x)
    BY DEF HeldOn
  <2>1. CASE OrderOf[l] # o
    BY <1>1, <2>1, OtherLinesHold DEF HeldOn
  <2>2. CASE OrderOf[l] = o /\ job[s].op # "cancel"
    <3>1. status[o] # "cancelled" /\ status'[o] # "cancelled"
      BY <1>1, <2>2, CommitMoves DEF From
    <3> QED  BY <1>2, <2>2, <3>1 DEF HeldOn, Holds
  <2>3. CASE OrderOf[l] = o /\ job[s].op = "cancel"
    <3>1. status[o] \in {"draft", "checks_pending", "credit_rejected", "approved"}
      BY <1>1, <2>3, CommitMoves DEF From
    <3>2. line[l].lot = NoLot
      BY <1>1, <2>3, <3>1 DEF NotYetReserved, LinesOf
    <3> QED  BY <1>1, <1>2, <3>2 DEF HeldOn
  <2> QED  BY <2>1, <2>2, <2>3
<1>6. allocated[x] = SumFunctionOnSet(Reserving, HeldOn(x))
  BY <1>1 DEF ReservationsAreAllocated, Reserving, HeldOn
<1> QED  BY <1>2, <1>4, <1>5, <1>6

(* Cancel: every reservation of the order is given back.                   *)
LEMMA CancelReleases ==
  ASSUME ReserveInv, NEW s \in Session, Commit(s), job[s].op = "cancel", status[job[s].order] \in Reserved,
         NEW x \in Lot
  PROVE  allocated'[x] = SumFunctionOnSet(Reserving', HeldOn(x)')
<1> DEFINE o == job[s].order
           P == {l \in LinesToLock(s) : line[l].lot = x}
<1>1. IInv /\ NotYetPicked /\ DeltasAreSums /\ ReservationsAreAllocated /\ o \in Order /\ x # NoLot
  BY OutboundConstants, CommitEffects DEF ReserveInv
<1>2. line' = line /\ picks' = picks /\ Reserving' = Reserving /\ status'[o] = "cancelled"
  BY <1>1, CommitMoves DEF Reserving
<1>3. LinesToLock(s) = {l \in LinesOf(o) : line[l].lot # NoLot}
  BY DEF LinesToLock
<1>4. \A l \in Line : l \in P <=> OrderOf[l] = o /\ line[l].lot = x
  BY <1>1, <1>3 DEF LinesOf
<1>5. P \subseteq Line /\ IsFiniteSet(P)
  BY <1>3, SomeLines DEF LinesOf
<1>6. HeldOn(x) = HeldOn(x)' \cup P /\ HeldOn(x)' \cap P = {}
  <2>1. ASSUME NEW l \in Line, OrderOf[l] = o
        PROVE  (l \in HeldOn(x) <=> l \in P) /\ l \notin HeldOn(x)'
    <3>1. picks[l] = <<>>
      BY <1>1, <2>1 DEF NotYetPicked, Reserved, LinesOf
    <3>2. Holds(l) <=> line[l].lot # NoLot
      BY <2>1, <3>1 DEF Holds, Reserved
    <3>3. ~Holds(l)'
      BY <1>2, <2>1 DEF Holds
    <3> QED  BY <1>1, <1>4, <2>1, <3>2, <3>3 DEF HeldOn
  <2>2. ASSUME NEW l \in Line, OrderOf[l] # o
        PROVE  (l \in HeldOn(x) <=> l \in HeldOn(x)') /\ l \notin P
    BY <1>1, <1>4, <2>2, OtherLinesHold DEF HeldOn
  <2>3. HeldOn(x) \subseteq Line /\ HeldOn(x)' \subseteq Line
    BY HeldLines
  <2> QED  BY <1>5, <2>1, <2>2, <2>3
<1>7. allocated'[x] = SumFunctionOnSet(Reserving, HeldOn(x)) - SumFunctionOnSet(Reserving, P)
  <2>1. allocated[x] = SumFunctionOnSet(Reserving, HeldOn(x))
    BY <1>1 DEF ReservationsAreAllocated, Reserving, HeldOn
  <2>2. allocated'[x] = allocated[x] + (0 - SumFunctionOnSet(Reserving, P))
    BY <1>1, CommitAllocates
  <2>3. SumFunctionOnSet(Reserving, P) \in Int /\ allocated[x] \in Int
    BY <1>1, <1>5, Quantities, SumIsInt DEF IInv, TypeOK
  <2> HIDE DEF P
  <2> QED  BY <2>1, <2>2, <2>3
<1> HIDE DEF P, o
<1>8. /\ IsFiniteSet(HeldOn(x)') /\ \A l \in HeldOn(x)' \cup P : Reserving[l] \in Int
  <2>1. HeldOn(x)' \subseteq Line /\ IsFiniteSet(HeldOn(x)')
    BY HeldLines
  <2> QED  BY <1>1, <1>5, <2>1, Quantities
<1>9. SumFunctionOnSet(Reserving, HeldOn(x)' \cup P)
        = SumFunctionOnSet(Reserving, HeldOn(x)') + SumFunctionOnSet(Reserving, P)
  BY <1>5, <1>6, <1>8, SumOfUnion
<1>10. SumFunctionOnSet(Reserving, HeldOn(x)') \in Int /\ SumFunctionOnSet(Reserving, P) \in Int
  BY <1>5, <1>8, SumIsInt
<1>11. allocated'[x] = SumFunctionOnSet(Reserving, HeldOn(x)')
  BY <1>6, <1>7, <1>9, <1>10
<1> QED  BY <1>2, <1>11

(* A pick: the line gives its reservation back, whatever was picked.       *)
LEMMA PickReleases ==
  ASSUME ReserveInv, NEW s \in Session, Commit(s), job[s].op = "pick", NEW x \in Lot
  PROVE  allocated'[x] = SumFunctionOnSet(Reserving', HeldOn(x)')
<1> DEFINE o == job[s].order
           q == job[s].qty
<1>1. IInv /\ DeltasAreSums /\ ReservationsAreAllocated /\ o \in Order /\ x # NoLot
  BY OutboundConstants, CommitEffects DEF ReserveInv
<1>2. PICK l \in Line : l = job[s].line /\ OrderOf[l] = o /\ q \in Nat /\ InTransaction(s)
  <2>1. job[s].line \in Line /\ OrderOf[job[s].line] = o /\ q \in Nat /\ InTransaction(s)
    BY <1>1, CommitEffects, JobFields DEF IInv, Commit
  <2> QED  BY <2>1
<1>3. CommitPick(s) /\ status[o] # "cancelled" /\ status'[o] # "cancelled"
  BY <1>1, CommitMoves DEF From, Reserved
<1>4. /\ line[l].lot # NoLot => picks[l] = <<>> /\ line[l].actual # 0
      /\ PickAllowed(l, q)
  BY <1>1, <1>2 DEF IInv, LockedOrders, HasOrder, PickAllowed, AlreadyPicked
<1>5. /\ line'[l].lot = line[l].lot /\ line'[l].actual = q
      /\ \A k \in Line \ {l} : line'[k] = line[k] /\ picks'[k] = picks[k]
  <2>1. line'[l].lot = line[l].lot /\ line'[l].actual = q /\ \A k \in Line \ {l} : line'[k] = line[k]
    BY <1>2, <1>3 DEF CommitPick, IInv, TypeOK, ReserveInv
  <2>2. \A k \in Line \ {l} : picks'[k] = picks[k]
    BY <1>2, <1>3 DEF CommitPick, IInv, TypeOK, ReserveInv
  <2> QED  BY <2>1, <2>2
<1>6. \A k \in Line \ {l} : (Holds(k)' <=> Holds(k)) /\ Reserving'[k] = Reserving[k]
  <2> SUFFICES ASSUME NEW k \in Line \ {l} PROVE (Holds(k)' <=> Holds(k)) /\ Reserving'[k] = Reserving[k]
    OBVIOUS
  <2>1. CASE OrderOf[k] = o
    BY <1>3, <1>5, <2>1 DEF Holds, Reserving
  <2>2. CASE OrderOf[k] # o
    BY <1>1, <2>2, OtherLinesHold DEF Reserving
  <2> QED  BY <2>1, <2>2
<1>7. line[l].lot # NoLot => picks'[l] = IF q > 0 THEN Append(<<>>, [by |-> job[s].user, qty |-> q]) ELSE <<>>
  BY <1>2, <1>3, <1>4 DEF CommitPick, IInv, TypeOK, ReserveInv
<1>8. line[l].lot # NoLot => (Holds(l)' <=> ~(q > 0))
  <2>1. \A e : Append(<<>>, e) # <<>>
    OBVIOUS
  <2> QED  BY <1>2, <1>3, <1>5, <1>7, <2>1 DEF Holds
<1>9. LinesToLock(s) = {k \in {l} : line[k].lot # NoLot}
  BY <1>2 DEF LinesToLock
<1>10. allocated[x] = SumFunctionOnSet(Reserving, HeldOn(x)) /\ allocated[x] \in Int
  BY <1>1 DEF ReservationsAreAllocated, Reserving, HeldOn, IInv, TypeOK
<1>11. allocated'[x] = allocated[x] - SumFunctionOnSet(Reserving, {k \in LinesToLock(s) : line[k].lot = x})
  <2>1. allocated'[x] = allocated[x] + (0 - SumFunctionOnSet(Reserving, {k \in LinesToLock(s) : line[k].lot = x}))
    BY <1>1, CommitAllocates
  <2>2. SumFunctionOnSet(Reserving, {k \in LinesToLock(s) : line[k].lot = x}) \in Int
    <3> DEFINE P == {k \in LinesToLock(s) : line[k].lot = x}
    <3>1. P \subseteq Line /\ IsFiniteSet(P)
      BY <1>2, <1>9, SomeLines
    <3>2. \A k \in P : Reserving[k] \in Int
      BY <1>1, <3>1, Quantities
    <3> HIDE DEF P
    <3>3. SumFunctionOnSet(Reserving, P) \in Int
      BY <3>1, <3>2, SumIsInt
    <3> QED  BY <3>3 DEF P
  <2> QED  BY <1>10, <2>1, <2>2
<1>12. \A k \in Line : Reserving[k] = line[k].actual /\ Reserving[k] \in Int /\ Reserving'[k] = line'[k].actual
  BY <1>1, Quantities DEF Reserving
<1>13. Reserving'[l] = q
  BY <1>2, <1>5, <1>12
<1>14. HeldOn(x) \subseteq Line /\ IsFiniteSet(HeldOn(x)) /\ HeldOn(x)' \subseteq Line
  BY HeldLines
<1>15. CASE line[l].lot = x
  <2>1. l \in HeldOn(x)
    BY <1>1, <1>2, <1>3, <1>4, <1>15 DEF HeldOn, Holds
  <2>2. {k \in LinesToLock(s) : line[k].lot = x} = {l}
    BY <1>1, <1>9, <1>15
  <2>3. SumFunctionOnSet(Reserving, {l}) = Reserving[l]
    <3>1. SumFunctionOnSet(Reserving, {l}) = Reserving[l] + SumFunctionOnSet(Reserving, {l} \ {l})
      <4>1. IsFiniteSet({l}) /\ l \in {l} /\ \A k \in {l} : Reserving[k] \in Int
        BY <1>2, <1>12, SomeLines
      <4> QED  BY <4>1, SumTakesOne
    <3>2. SumFunctionOnSet(Reserving, {l} \ {l}) = 0
      <4>1. {l} \ {l} = {}
        OBVIOUS
      <4> QED  BY <4>1, SumOfNone
    <3>3. Reserving[l] \in Int
      BY <1>12
    <3> QED  BY <3>1, <3>2, <3>3
  <2>4. allocated'[x] = SumFunctionOnSet(Reserving, HeldOn(x)) - Reserving[l]
    BY <1>10, <1>11, <2>2, <2>3
  <2>5. CASE q > 0
    <3>1. HeldOn(x)' = HeldOn(x) \ {l}
      <4>1. l \notin HeldOn(x)'
        BY <1>1, <1>8, <1>15, <2>5 DEF HeldOn
      <4>2. \A k \in Line \ {l} : k \in HeldOn(x)' <=> k \in HeldOn(x)
        BY <1>5, <1>6 DEF HeldOn
      <4> QED  BY <1>14, <4>1, <4>2
    <3>2. SumFunctionOnSet(Reserving, HeldOn(x)) = Reserving[l] + SumFunctionOnSet(Reserving, HeldOn(x) \ {l})
      BY <1>12, <1>14, <2>1, SumTakesOne
    <3>3. /\ IsFiniteSet(HeldOn(x) \ {l})
          /\ \A k \in HeldOn(x) \ {l} : Reserving'[k] = Reserving[k] /\ Reserving[k] \in Int
      BY <1>6, <1>12, <1>14, FS_Subset
    <3>4. /\ SumFunctionOnSet(Reserving', HeldOn(x) \ {l}) = SumFunctionOnSet(Reserving, HeldOn(x) \ {l})
          /\ SumFunctionOnSet(Reserving, HeldOn(x) \ {l}) \in Int
      BY <3>3, SumOfEquals, SumIsInt
    <3>5. allocated'[x] = SumFunctionOnSet(Reserving, HeldOn(x) \ {l})
      BY <1>2, <1>12, <2>4, <3>2, <3>4
    <3> QED  BY <3>1, <3>4, <3>5
  <2>6. CASE ~(q > 0)
    <3>1. q = 0
      BY <1>2, <2>6
    <3>2. HeldOn(x)' = HeldOn(x)
      <4>1. l \in HeldOn(x)'
        BY <1>1, <1>2, <1>5, <1>8, <1>15, <2>6 DEF HeldOn
      <4>2. \A k \in Line \ {l} : k \in HeldOn(x)' <=> k \in HeldOn(x)
        BY <1>5, <1>6 DEF HeldOn
      <4> QED  BY <1>14, <2>1, <4>1, <4>2
    <3>3. /\ \A k \in HeldOn(x) : Reserving[k] \in Int /\ Reserving'[k] \in Int
          /\ \A k \in HeldOn(x) \ {l} : Reserving'[k] = Reserving[k]
      BY <1>6, <1>12, <1>13, <1>14, <3>1
    <3>4. SumFunctionOnSet(Reserving', HeldOn(x))
            = SumFunctionOnSet(Reserving, HeldOn(x)) + (Reserving'[l] - Reserving[l])
      BY <1>14, <2>1, <3>3, SumChanges
    <3>5. SumFunctionOnSet(Reserving, HeldOn(x)) \in Int
      BY <1>10
    <3> QED  BY <1>2, <1>12, <1>13, <2>4, <3>1, <3>2, <3>4, <3>5
  <2> QED  BY <2>5, <2>6
<1>16. CASE line[l].lot # x
  <2>1. {k \in LinesToLock(s) : line[k].lot = x} = {}
    BY <1>9, <1>16
  <2>2. allocated'[x] = SumFunctionOnSet(Reserving, HeldOn(x))
    <3>1. allocated'[x] = allocated[x] - 0
      BY <1>11, <2>1, SumOfNone
    <3> QED  BY <1>10, <3>1
  <2>3. l \notin HeldOn(x) /\ l \notin HeldOn(x)'
    BY <1>5, <1>16 DEF HeldOn
  <2>4. HeldOn(x)' = HeldOn(x)
    <3>1. \A k \in Line \ {l} : k \in HeldOn(x)' <=> k \in HeldOn(x)
      BY <1>5, <1>6 DEF HeldOn
    <3> QED  BY <1>14, <2>3, <3>1
  <2>5. \A k \in HeldOn(x) : Reserving'[k] = Reserving[k]
    BY <1>6, <1>14, <2>3
  <2>6. SumFunctionOnSet(Reserving', HeldOn(x)) = SumFunctionOnSet(Reserving, HeldOn(x))
    BY <1>14, <2>5, SumOfEquals
  <2> QED  BY <2>2, <2>4, <2>6
<1> QED  BY <1>15, <1>16

Tables == NotYetReserved /\ NotYetPicked /\ ReservationsAreAllocated /\ PickingHasOpenLines

LEMMA CommitReservations ==
  ASSUME ReserveInv, NEW s \in Session, Commit(s)
  PROVE  ReservationsAreAllocated'
<1>1. job[s].op \in {"checks", "approve", "check", "pack", "load", "cancel", "allocate", "pick"}
  BY CommitEffects DEF ReserveInv, Command, From
<1>2. \A x \in Lot : allocated'[x] = SumFunctionOnSet(Reserving', HeldOn(x)')
  BY <1>1, NothingReserved, CancelReleases, AllocateReserves, PickReleases
<1>3. Reserving' = [l \in Line |-> line'[l].actual]
  BY DEF Reserving
<1>4. \A x \in Lot : HeldOn(x)' = {l \in Line : Holds(l)' /\ line'[l].lot = x}
  BY DEF HeldOn
<1> QED  BY <1>2, <1>3, <1>4 DEF ReservationsAreAllocated

LEMMA CommitStatuses ==
  ASSUME ReserveInv, NEW s \in Session, Commit(s)
  PROVE  NotYetReserved' /\ NotYetPicked' /\ PickingHasOpenLines'
<1> DEFINE o == job[s].order
           Waiting(p) == {l \in LinesOf(p) : Holds(l) /\ line[l].actual # 0}
<1>1. IInv /\ NotYetReserved /\ NotYetPicked /\ PickingHasOpenLines /\ o \in Order
  BY CommitEffects DEF ReserveInv
<1>2. job[s].op \in {"checks", "approve", "check", "pack", "load", "cancel", "allocate", "pick"}
  BY <1>1, CommitEffects DEF Command, From
<1>3. \A p \in Order \ {o} : /\ status'[p] = status[p]
                             /\ \A l \in LinesOf(p) : line'[l] = line[l] /\ picks'[l] = picks[l]
  BY <1>1, CommitEffects DEF LinesOf
<1>4. NotYetReserved'
  <2> SUFFICES ASSUME NEW p \in Order, NEW l \in LinesOf(p),
                      status'[p] \in {"none", "draft", "checks_pending", "credit_rejected", "approved"}
               PROVE  line'[l].lot = NoLot
    BY DEF NotYetReserved, LinesOf
  <2>1. CASE p # o
    BY <1>1, <1>3, <2>1 DEF NotYetReserved
  <2>2. CASE p = o
    <3>1. job[s].op \in {"checks", "approve"} /\ status[o] \in {"draft", "checks_pending"} /\ line' = line
      BY <1>1, <1>2, <2>2, CommitMoves DEF From, Reserved
    <3> QED  BY <1>1, <2>2, <3>1 DEF NotYetReserved
  <2> QED  BY <2>1, <2>2
<1>5. NotYetPicked'
  <2> SUFFICES ASSUME NEW p \in Order, NEW l \in LinesOf(p),
                      status'[p] \notin {"picking", "picked", "checked", "packed", "loaded"}
               PROVE  picks'[l] = <<>>
    BY DEF NotYetPicked, LinesOf
  <2>1. CASE p # o
    BY <1>1, <1>3, <2>1 DEF NotYetPicked
  <2>2. CASE p = o
    <3>1. job[s].op \in {"checks", "approve", "cancel", "allocate"}
      BY <1>1, <1>2, <2>2, CommitMoves
    <3>2. status[o] \notin {"picking", "picked", "checked", "packed", "loaded"} /\ picks' = picks
      BY <1>1, <3>1, CommitMoves DEF From, Reserved, CommitAllocate
    <3> QED  BY <1>1, <2>2, <3>2 DEF NotYetPicked
  <2> QED  BY <2>1, <2>2
<1>6. PickingHasOpenLines'
  <2> SUFFICES ASSUME NEW p \in Order
               PROVE  /\ status'[p] = "picking" => Waiting(p)' # {}
                      /\ status'[p] \in {"picked", "checked", "packed", "loaded"} => Waiting(p)' = {}
    BY DEF PickingHasOpenLines
  <2>1. /\ status[p] = "picking" => Waiting(p) # {}
        /\ status[p] \in {"picked", "checked", "packed", "loaded"} => Waiting(p) = {}
    BY <1>1 DEF PickingHasOpenLines
  <2>2. Waiting(p) = {l \in LinesOf(p) : line[l].lot # NoLot /\ picks[l] = <<>>
                                          /\ status[p] # "cancelled" /\ line[l].actual # 0}
        /\ Waiting(p)' = {l \in LinesOf(p) : line'[l].lot # NoLot /\ picks'[l] = <<>>
                                          /\ status'[p] # "cancelled" /\ line'[l].actual # 0}
    BY DEF Holds, LinesOf
  <2>3. CASE p # o
    BY <1>3, <2>1, <2>2, <2>3
  <2>4. CASE p = o /\ job[s].op = "pick"
    <3>1. status'[o] = IF OpenPickLines(o) = {} THEN "picked" ELSE "picking"
      BY <1>1, <2>4, CommitMoves
    <3>2. Waiting(p)' = OpenPickLines(o)
      BY <2>2, <2>4, <3>1 DEF OpenPickLines
    <3> QED  BY <2>4, <3>1, <3>2
  <2>5. CASE p = o /\ job[s].op \in {"check", "pack", "load"}
    <3>1. line' = line /\ picks' = picks /\ status[o] \in {"picked", "checked", "packed"}
          /\ status'[o] \in {"checked", "packed", "loaded"}
      BY <1>1, <2>5, CommitMoves DEF From
    <3> QED  BY <2>1, <2>2, <2>5, <3>1
  <2>6. CASE p = o /\ job[s].op \in {"checks", "approve", "cancel", "allocate"}
    BY <1>1, <2>6, CommitMoves DEF Reserved
  <2> QED  BY <1>2, <2>3, <2>4, <2>5, <2>6
<1> QED  BY <1>4, <1>5, <1>6

LEMMA TablesWait ==
  ASSUME Tables, UNCHANGED <<orders, allocated>>
  PROVE  Tables'
BY DEF Tables, orders, NotYetReserved, NotYetPicked, ReservationsAreAllocated, PickingHasOpenLines, Holds, LinesOf

LEMMA CreateReservations ==
  ASSUME IInv, Tables, NEW o \in Order, Create(o)
  PROVE  Tables'
<1>1. /\ line' = line /\ picks' = picks /\ allocated' = allocated /\ status[o] = "none" /\ status'[o] = "draft"
      /\ \A p \in Order \ {o} : status'[p] = status[p]
  BY DEF Create, balance, IInv, TypeOK
<1>2. \A l \in Line : Holds(l)' <=> Holds(l)
  <2> SUFFICES ASSUME NEW l \in Line PROVE Holds(l)' <=> Holds(l)
    OBVIOUS
  <2>1. OrderOf[l] \in Order
    BY OutboundConstants
  <2> QED  BY <1>1, <2>1 DEF Holds
<1>3. ReservationsAreAllocated'
  BY <1>1, <1>2 DEF Tables, ReservationsAreAllocated
<1>4. NotYetReserved' /\ NotYetPicked'
  BY <1>1 DEF Tables, NotYetReserved, NotYetPicked, LinesOf
<1>5. PickingHasOpenLines'
  <2> SUFFICES ASSUME NEW p \in Order
               PROVE  LET waiting == {l \in LinesOf(p) : Holds(l)' /\ line'[l].actual # 0} IN
                      /\ status'[p] = "picking" => waiting # {}
                      /\ status'[p] \in {"picked", "checked", "packed", "loaded"} => waiting = {}
    BY DEF PickingHasOpenLines, LinesOf
  <2>1. {l \in LinesOf(p) : Holds(l)' /\ line'[l].actual # 0} = {l \in LinesOf(p) : Holds(l) /\ line[l].actual # 0}
    BY <1>1, <1>2 DEF LinesOf
  <2>2. CASE p = o
    BY <1>1, <2>2
  <2>3. CASE p # o
    BY <1>1, <2>1, <2>3 DEF Tables, PickingHasOpenLines
  <2> QED  BY <2>2, <2>3
<1> QED  BY <1>3, <1>4, <1>5 DEF Tables

LEMMA InitReservations == Init => ReserveInv
<1> SUFFICES ASSUME Init PROVE ReserveInv
  OBVIOUS
<1>1. IInv
  BY InitInv
<1>2. /\ \A l \in Line : line[l].lot = NoLot /\ picks[l] = <<>>
      /\ \A o \in Order : status[o] = "none"
      /\ \A t \in Session : ~InTransaction(t)
      /\ \A x \in Lot : allocated[x] = 0
  BY DEF Init, Zero, InTransaction
<1>3. NotYetReserved /\ NotYetPicked /\ DeltasAreSums /\ PickingHasOpenLines
  BY <1>2 DEF NotYetReserved, NotYetPicked, DeltasAreSums, DeltaIsSum, PickingHasOpenLines, LinesOf
<1>4. ReservationsAreAllocated
  <2> SUFFICES ASSUME NEW x \in Lot
               PROVE  allocated[x] =
                 SumFunctionOnSet([l \in Line |-> line[l].actual], {l \in Line : Holds(l) /\ line[l].lot = x})
    BY DEF ReservationsAreAllocated
  <2>1. {l \in Line : Holds(l) /\ line[l].lot = x} = {}
    BY <1>2 DEF Holds
  <2> QED  BY <1>2, <2>1, SumOfNone
<1> QED  BY <1>1, <1>3, <1>4 DEF ReserveInv

LEMMA NextReservations == ReserveInv /\ [Next]_vars => ReserveInv'
<1> SUFFICES ASSUME ReserveInv, [Next]_vars PROVE ReserveInv'
  OBVIOUS
<1>1. IInv /\ DeltasAreSums /\ Tables
  BY DEF ReserveInv, Tables
<1>2. IInv'
  BY <1>1, NextInv
<1>3. DeltasAreSums'
  <2>1. CASE \E o \in Order : Create(o)
    BY <1>1, <2>1, CreateSums
  <2>2. CASE \E x \in Lot \ Quarantined : OtherPosting(x)
    BY <1>1, <2>2, OtherPostingSums
  <2>3. ASSUME NEW s \in Session, Send(s) \/ LockOrder(s) \/ Rollback(s) \/ Commit(s)
        PROVE  DeltasAreSums'
    BY <1>1, <2>3, SendSums, LockOrderSums, EndSums
  <2>4. ASSUME NEW s \in Session, \/ \E l \in Line : ScanLots(s, l) \/ ReserveLine(s, l) \/ ReleaseLine(s, l)
                                  \/ \E x \in Lot : LockLot(s, x)
        PROVE  DeltasAreSums'
    BY <1>1, <2>4, QueryingSums, ReserveSums, ReleaseSums
  <2>5. CASE UNCHANGED vars
    <3>1. /\ UNCHANGED <<orders, plan, delta>> /\ pc' = pc /\ job' = job /\ todo' = todo
          /\ status' = status /\ line' = line
      BY <2>5 DEF vars, orders
    <3>2. \A t \in Session : DeltaIsSum(t) /\ (InTransaction(t)' => InTransaction(t))
      BY <1>1, <3>1 DEF DeltasAreSums, InTransaction
    <3>3. \A t \in Session : DeltaIsSum(t)'
      BY <1>1, <3>1, <3>2, DeltaStays
    <3> QED  BY <3>3 DEF DeltasAreSums
  <2> QED  BY <2>1, <2>2, <2>3, <2>4, <2>5 DEF Next, Work
<1>4. Tables'
  <2>1. CASE \E o \in Order : Create(o)
    BY <1>1, <2>1, CreateReservations
  <2>2. CASE \E s \in Session : Commit(s)
    BY <2>2, CommitReservations, CommitStatuses DEF Tables
  <2>3. CASE UNCHANGED <<orders, allocated>>
    BY <1>1, <2>3, TablesWait
  <2> QED  BY <2>1, <2>2, <2>3 DEF Next, Work, OtherPosting, Send, Rollback, LockOrder, ScanLots, ReserveLine,
              ReleaseLine, LockLot, vars, balance
<1> QED  BY <1>2, <1>3, <1>4 DEF ReserveInv, Tables

(* What every command will change of a row, and what the lines hold there, *)
(* stay the sums they should be for any number of sessions, orders, lines  *)
(* and lots: allocate.ts, cancel.ts and pick-line.ts lose and double no    *)
(* reservation however they interleave.                                    *)
THEOREM ReservationInvariant == Spec => []ReserveInv
<1> QED  BY InitReservations, NextReservations, PTL DEF Spec

(* qty_allocated is what the open lines hold, and an order is in picking   *)
(* exactly as long as a reserved line waits for its picker.                *)
THEOREM ReservationsExact == Spec => []ReservationsAreExact
<1>1. ReserveInv => ReservationsAreExact
  BY DEF ReserveInv, ReservationsAreExact
<1> QED  BY <1>1, ReservationInvariant, PTL

-----------------------------------------------------------------------------
(* The third layer: every command is one step of OrderBook, and a step     *)
(* before its commit is none.                                              *)

(* Of the lines of one order only one comes next.                          *)
LEMMA OneComesNext ==
  ASSUME ReserveInv, NEW s \in Session, InTransaction(s), NEW k, NEW l, IsNextLine(s, k), IsNextLine(s, l)
  PROVE  k = l
<1>1. todo[s] \subseteq LinesOf(job[s].order)
  BY LockedLines DEF ReserveInv, DeltasAreSums, DeltaIsSum
<1>2. k \in Line /\ l \in Line /\ OrderOf[k] = OrderOf[l]
  BY <1>1 DEF IsNextLine, LinesOf
<1>3. LineNo[k] <= LineNo[l] /\ LineNo[l] <= LineNo[k] /\ LineNo[k] \in Nat /\ LineNo[l] \in Nat
  BY <1>2, OutboundConstants DEF IsNextLine
<1> QED  BY <1>2, <1>3, OutboundConstants

LEMMA PlanStays ==
  ASSUME NEW t \in Session, PlanFits(t), plan'[t] = plan[t], pc'[t] = "lots" => pc[t] = "lots",
         pc'[t] = "lots" => /\ todo'[t] = todo[t]
                            /\ lots'[t] \cup chosen'[t] \subseteq lots[t] \cup chosen[t]
  PROVE  PlanFits(t)'
BY DEF PlanFits, IsNextLine

LEMMA ScanLotsPlans ==
  ASSUME ReserveInv, PlansFit, NEW s \in Session, NEW l \in Line, ScanLots(s, l)
  PROVE  PlansFit'
<1>0. TypeOK /\ pc[s] = "scan" /\ InTransaction(s)
  BY DEF ReserveInv, IInv, ScanLots, InTransaction
<1>1. ASSUME NEW t \in Session \ {s} PROVE PlanFits(t)'
  <2>1. pc'[t] = pc[t] /\ lots'[t] = lots[t] /\ chosen'[t] = chosen[t] /\ todo' = todo /\ plan' = plan
    BY <1>0 DEF TypeOK, ScanLots, Goto
  <2> QED  BY <2>1, PlanStays DEF PlansFit
<1>2. PlanFits(s)'
  <2>1. lots'[s] \subseteq LotsFor[l] \ Quarantined /\ chosen'[s] = {} /\ todo' = todo /\ plan' = plan
    BY <1>0 DEF TypeOK, ScanLots
  <2>2. \A k \in todo[s] : IsNextLine(s, k)' => k = l
    <3>1. ASSUME NEW k \in todo[s], IsNextLine(s, k)' PROVE k = l
      <4>1. IsNextLine(s, k) /\ IsNextLine(s, l)
        BY <2>1, <3>1 DEF IsNextLine, ScanLots
      <4> QED  BY <1>0, <4>1, OneComesNext
    <3> QED  BY <3>1
  <2> QED  BY <2>1, <2>2 DEF PlansFit, PlanFits
<1> QED  BY <1>1, <1>2 DEF PlansFit

LEMMA LockLotPlans ==
  ASSUME ReserveInv, PlansFit, NEW s \in Session, NEW x \in Lot, LockLot(s, x)
  PROVE  PlansFit'
<1>0. TypeOK
  BY DEF ReserveInv, IInv
<1>1. ASSUME NEW t \in Session PROVE PlanFits(t)'
  <2>1. /\ pc' = pc /\ todo' = todo /\ plan' = plan
        /\ lots'[t] \cup chosen'[t] \subseteq lots[t] \cup chosen[t]
    BY <1>0 DEF TypeOK, LockLot
  <2> QED  BY <2>1, PlanStays DEF PlansFit
<1> QED  BY <1>1 DEF PlansFit

(* allocateFromSingleLot takes from a row it holds, and not more than was  *)
(* ordered.                                                                *)
LEMMA SingleLotFits ==
  ASSUME ReserveInv, PlansFit, NEW s \in Session, NEW l \in Line, pc[s] = "lots", IsNextLine(s, l),
         NEW r \in SingleLot(s, l)
  PROVE  IF r.lot = NoLot THEN r.qty = 0
         ELSE r.lot \in LotsFor[l] \ Quarantined /\ r.qty \in 1..Ordered[l]
<1>1. /\ \A x \in chosen[s] : x \in LotsFor[l] \ Quarantined /\ x # NoLot /\ Available(s, x) \in Nat \ {0}
      /\ Ordered[l] \in Nat \ {0}
  <2>1. chosen[s] \subseteq LotsFor[l] \ Quarantined
    BY DEF PlansFit, PlanFits, IsNextLine
  <2>2. \A x \in chosen[s] : x \in Lot /\ Available(s, x) > 0 /\ Available(s, x) \in Int
    BY DEF ReserveInv, IInv, TypeOK, LockedRows, HasRows, Available
  <2> QED  BY <2>1, <2>2, OutboundConstants
<1>2. CASE chosen[s] = {}
  BY <1>2 DEF SingleLot
<1>3. CASE chosen[s] # {} /\ Covering(s, l) # {}
  <2>1. PICK x \in First(Covering(s, l)) : r = [lot |-> x, qty |-> Ordered[l]]
    BY <1>3 DEF SingleLot
  <2>2. x \in chosen[s]
    BY <2>1 DEF First, Covering
  <2> QED  BY <1>1, <2>1, <2>2
<1>4. CASE chosen[s] # {} /\ Covering(s, l) = {}
  <2>1. PICK x \in First(chosen[s]) : r = [lot |-> x, qty |-> Available(s, x)]
    BY <1>4 DEF SingleLot
  <2>2. x \in chosen[s] /\ ~(Available(s, x) >= Ordered[l])
    BY <1>4, <2>1 DEF First, Covering
  <2> QED  BY <1>1, <2>1, <2>2
<1> QED  BY <1>2, <1>3, <1>4

LEMMA ReserveLinePlans ==
  ASSUME ReserveInv, PlansFit, NEW s \in Session, NEW l \in Line, ReserveLine(s, l)
  PROVE  PlansFit'
<1>0. TypeOK
  BY DEF ReserveInv, IInv
<1>1. PICK r \in SingleLot(s, l) : plan' = [plan EXCEPT ![s][l] = r]
  BY DEF ReserveLine
<1>2. IF r.lot = NoLot THEN r.qty = 0
      ELSE r.lot \in LotsFor[l] \ Quarantined /\ r.qty \in 1..Ordered[l]
  BY SingleLotFits DEF ReserveLine
<1>3. ASSUME NEW t \in Session \ {s} PROVE PlanFits(t)'
  <2>1. pc'[t] = pc[t] /\ lots' = lots /\ chosen' = chosen /\ todo'[t] = todo[t] /\ plan'[t] = plan[t]
    BY <1>0, <1>1 DEF TypeOK, ReserveLine, Goto
  <2> QED  BY <2>1, PlanStays DEF PlansFit
<1>4. PlanFits(s)'
  <2>1. pc'[s] # "lots"
    BY <1>0 DEF TypeOK, ReserveLine, Goto
  <2>2. \A k \in Line : plan'[s][k] = IF k = l THEN r ELSE plan[s][k]
    BY <1>0, <1>1 DEF TypeOK
  <2> QED  BY <1>2, <2>1, <2>2 DEF PlansFit, PlanFits
<1> QED  BY <1>3, <1>4 DEF PlansFit

LEMMA ReleasePlans ==
  ASSUME ReserveInv, PlansFit, NEW s \in Session, Release(s)
  PROVE  PlansFit'
<1>0. TypeOK
  BY DEF ReserveInv, IInv
<1>1. ASSUME NEW t \in Session \ {s} PROVE PlanFits(t)'
  <2>1. pc'[t] = pc[t] /\ lots'[t] = lots[t] /\ chosen'[t] = chosen[t] /\ todo'[t] = todo[t] /\ plan'[t] = plan[t]
    BY <1>0 DEF TypeOK, Release, Goto
  <2> QED  BY <2>1, PlanStays DEF PlansFit
<1>2. PlanFits(s)'
  <2>1. pc'[s] = "idle" /\ plan'[s] = NoPlan
    BY <1>0 DEF TypeOK, Release, Goto
  <2>2. \A l \in Line : NoPlan[l].lot = NoLot /\ NoPlan[l].qty = 0
    BY DEF NoPlan
  <2> QED  BY <2>1, <2>2 DEF PlanFits
<1> QED  BY <1>1, <1>2 DEF PlansFit

(* Steps that plan nothing and end before or after the choice of rows.     *)
LEMMA NothingPlanned ==
  ASSUME ReserveInv, PlansFit, NEW s \in Session, Send(s) \/ LockOrder(s) \/ \E l \in Line : ReleaseLine(s, l)
  PROVE  PlansFit'
<1>0. TypeOK
  BY DEF ReserveInv, IInv
<1>1. ASSUME NEW t \in Session PROVE PlanFits(t)'
  <2>1. /\ lots' = lots /\ chosen' = chosen /\ plan' = plan
        /\ t = s => pc'[t] # "lots"
        /\ t # s => pc'[t] = pc[t] /\ todo'[t] = todo[t]
    BY <1>0 DEF TypeOK, Send, LockOrder, ReleaseLine, Goto
  <2> QED  BY <2>1, PlanStays DEF PlansFit
<1> QED  BY <1>1 DEF PlansFit

LEMMA NextPlans == ReserveInv /\ PlansFit /\ [Next]_vars => PlansFit'
<1> SUFFICES ASSUME ReserveInv, PlansFit, [Next]_vars PROVE PlansFit'
  OBVIOUS
<1>1. CASE UNCHANGED <<pc, todo, lots, chosen, plan>>
  <2>1. ASSUME NEW t \in Session PROVE PlanFits(t)'
    BY <1>1, PlanStays DEF PlansFit
  <2> QED  BY <2>1 DEF PlansFit
<1>2. CASE UNCHANGED vars \/ (\E o \in Order : Create(o)) \/ (\E x \in Lot \ Quarantined : OtherPosting(x))
  BY <1>1, <1>2 DEF vars, Create, OtherPosting
<1>3. ASSUME NEW s \in Session, Commit(s) \/ Rollback(s) PROVE PlansFit'
  BY <1>3, ReleasePlans DEF Commit, Rollback
<1> QED
  BY <1>2, <1>3, ScanLotsPlans, LockLotPlans, ReserveLinePlans, NothingPlanned DEF Next, Work

LEMMA InitPlans == Init => PlansFit
<1> SUFFICES ASSUME Init PROVE PlansFit
  OBVIOUS
<1>1. \A l \in Line : NoPlan[l].lot = NoLot /\ NoPlan[l].qty = 0
  BY DEF NoPlan
<1> QED  BY <1>1 DEF Init, PlansFit, PlanFits

LEMMA CommitFrom ==
  ASSUME IInv, NEW s \in Session, Commit(s), NEW op, op = job[s].op, NEW o, o = job[s].order
  PROVE  status[o] \in From[op]
BY CommitMoves

LEMMA TargetNames ==
  /\ Target["pass"] = "checks_pending" /\ Target["credit_fail"] = "credit_rejected"
  /\ Target["approve"] = "approved" /\ Target["cancel"] = "cancelled"
  /\ Target["allocate_full"] = "allocated" /\ Target["allocate_partial"] = "partially_allocated"
  /\ Target["start_picking"] = "picking" /\ Target["complete_picking"] = "picked"
  /\ Target["check"] = "checked" /\ Target["pack"] = "packed" /\ Target["load"] = "loaded"
BY DEF Target

LEMMA ProceedImplements ==
  ASSUME ReserveInv, NEW s \in Session, Commit(s), NEW o \in Order, o = job[s].order,
         CommitChecks(s) \/ CommitApprove(s) \/ CommitPack(s) \/ CommitLoad(s)
  PROVE  Atomic!Command(o)
<1>1. PICK e : Advance(o, e) /\ \/ job[s].op = "checks" /\ e \in {"pass", "credit_fail"}
                                \/ job[s].op = "approve" /\ e = "approve"
                                \/ job[s].op = "pack" /\ e = "pack"
                                \/ job[s].op = "load" /\ e = "load"
  BY DEF CommitChecks, CommitApprove, CommitPack, CommitLoad
<1>2. /\ version' = [version EXCEPT ![o] = @ + 1] /\ status' = [status EXCEPT ![o] = Target[e]]
      /\ status[o] \in From[job[s].op]
  BY <1>1, CommitFrom DEF ReserveInv, Advance
<1>3. NothingPicked /\ UNCHANGED checkedBy
  BY DEF CommitChecks, CommitApprove, CommitPack, CommitLoad
<1>4. \/ Atomic!Turn(o, {"draft"}, "checks_pending") \/ Atomic!Turn(o, {"draft"}, "credit_rejected")
      \/ Atomic!Turn(o, {"checks_pending"}, "approved")
      \/ Atomic!Turn(o, {"checked"}, "packed") \/ Atomic!Turn(o, {"packed"}, "loaded")
  BY <1>1, <1>2, TargetNames, Commands, ZenonT(30) DEF Atomic!Turn
<1>5. Atomic!Proceed(o)
  BY <1>3, <1>4 DEF NothingPicked, Atomic!Proceed, Atomic!GoodsStay
<1> QED  BY <1>2, <1>5 DEF Atomic!Command

LEMMA CancelImplements ==
  ASSUME ReserveInv, NEW s \in Session, Commit(s), NEW o \in Order, o = job[s].order, CommitCancel(s)
  PROVE  Atomic!Command(o)
<1>1. Advance(o, "cancel") /\ NothingPicked /\ UNCHANGED checkedBy /\ job[s].op = "cancel"
  BY DEF CommitCancel
<1>2. /\ version' = [version EXCEPT ![o] = @ + 1] /\ status' = [status EXCEPT ![o] = Target["cancel"]]
      /\ status[o] \in From["cancel"]
  BY <1>1, CommitFrom DEF ReserveInv, Advance
<1>3. From["cancel"] = {"draft", "checks_pending", "credit_rejected", "approved", "allocated",
                        "partially_allocated"}
  BY DEF From, Reserved
<1>4. Atomic!Cancel(o)
  <2>1. status[o] \notin {"picking", "picked", "checked", "packed", "loaded"}
    BY <1>2, <1>3
  <2>2. \A l \in Atomic!Lines(o) : picks[l] = <<>>
    BY <2>1 DEF ReserveInv, NotYetPicked, Atomic!Lines, LinesOf
  <2>3. Atomic!Turn(o, {"draft", "checks_pending", "credit_rejected", "approved", "allocated",
                        "partially_allocated"}, "cancelled")
    BY <1>2, <1>3, TargetNames DEF Atomic!Turn
  <2> QED  BY <1>1, <2>2, <2>3 DEF NothingPicked, Atomic!Cancel, Atomic!GoodsStay
<1> QED  BY <1>2, <1>4 DEF Atomic!Command

LEMMA CheckImplements ==
  ASSUME ReserveInv, NEW s \in Session, Commit(s), NEW o \in Order, o = job[s].order, CommitCheck(s)
  PROVE  Atomic!Command(o)
<1> DEFINE u == job[s].user
<1>1. /\ Advance(o, "check") /\ NothingPicked /\ job[s].op = "check"
      /\ checkedBy' = [checkedBy EXCEPT ![o] = u]
  BY DEF CommitCheck
<1>2. /\ version' = [version EXCEPT ![o] = @ + 1] /\ status' = [status EXCEPT ![o] = Target["check"]]
      /\ status[o] \in From["check"]
  BY <1>1, CommitFrom DEF ReserveInv, Advance
<1>3. u \in User /\ CheckAllowed(o, u)
  BY <1>1, CommitEffects, JobFields DEF ReserveInv, IInv, LockedOrders, HasOrder, InTransaction
<1>4. finisher[o] # NoUser /\ \A l \in Atomic!Lines(o) : ~Atomic!Picked(l, u)
  BY <1>3 DEF CheckAllowed, WasPicker, LinesOf, Atomic!Lines, Atomic!Picked
<1>5. Atomic!Check(o, u)
  <2>1. Atomic!Turn(o, {"picked"}, "checked")
    BY <1>2, TargetNames, Commands DEF Atomic!Turn
  <2> QED  BY <1>1, <1>4, <2>1 DEF NothingPicked, Atomic!Check, Atomic!GoodsStay
<1> QED  BY <1>2, <1>3, <1>5 DEF Atomic!Command

LEMMA PickImplements ==
  ASSUME ReserveInv, NEW s \in Session, Commit(s), NEW o \in Order, o = job[s].order, CommitPick(s)
  PROVE  Atomic!Command(o)
<1> DEFINE l == job[s].line
           q == job[s].qty
           u == job[s].user
           x == line[l].lot
<1>0. IInv /\ TypeOK /\ InTransaction(s)
  BY CommitEffects DEF ReserveInv, IInv
<1>1. /\ job[s].op = "pick" /\ l \in Line /\ q \in Nat /\ u \in User /\ OrderOf[l] = o
      /\ PickAllowed(l, q) /\ l \in Atomic!Lines(o)
  <2>1. job[s].op = "pick"
    BY DEF CommitPick
  <2>2. l \in Line /\ q \in Nat /\ u \in User /\ OrderOf[l] = o
    BY <1>0, <2>1, JobFields DEF IInv, InTransaction
  <2>3. PickAllowed(l, q)
    BY <1>0, <2>1 DEF IInv, LockedOrders, HasOrder
  <2> QED  BY <2>1, <2>2, <2>3 DEF Atomic!Lines
<1>2. PICK e : /\ Advance(o, e)
               /\ \/ e = "complete_picking" /\ OpenPickLines(o) = {} /\ finisher' = [finisher EXCEPT ![o] = u]
                  \/ e = "start_picking" /\ OpenPickLines(o) # {} /\ UNCHANGED finisher
  BY DEF CommitPick
<1>3. /\ version' = [version EXCEPT ![o] = @ + 1] /\ status' = [status EXCEPT ![o] = Target[e]]
      /\ status[o] \in From["pick"]
  BY <1>0, <1>1, <1>2, CommitFrom DEF Advance
<1>4. Atomic!Waiting(o)' = OpenPickLines(o)
  <2>1. status'[o] # "cancelled"
    BY <1>0, <1>2, <1>3, TargetNames DEF TypeOK
  <2>2. \A k \in LinesOf(o) : Atomic!Open(k)' <=> line'[k].lot # NoLot /\ picks'[k] = <<>>
    BY <2>1 DEF Atomic!Open, LinesOf
  <2> QED  BY <2>2 DEF Atomic!Waiting, Atomic!Lines, OpenPickLines, LinesOf
<1>5. /\ line[l] \in [status : {"open", "partial", "complete"}, lot : Lot \cup {NoLot}, actual : Nat,
                      by : User \cup {NoUser}]
      /\ x = NoLot => q = 0
      /\ q <= line[l].actual
  BY <1>0, <1>1 DEF TypeOK, PickAllowed
<1>6. Atomic!Untouched(l)
  BY <1>1 DEF PickAllowed, AlreadyPicked, Atomic!Untouched
<1>7. line' = [line EXCEPT ![l].status = IF q = Ordered[l] THEN "complete" ELSE "partial",
                           ![l].actual = q, ![l].by = u]
  <2>1. PICK grade : grade = IF q = Ordered[l] THEN "complete" ELSE "partial"
    OBVIOUS
  <2>2. line' = [line EXCEPT ![l] = [status |-> grade, lot |-> x, actual |-> q, by |-> u]]
    BY <2>1 DEF CommitPick
  <2>3. PICK row : row = line[l]
    OBVIOUS
  <2>4. PICK new : new = [row EXCEPT !.status = grade, !.actual = q, !.by = u]
    OBVIOUS
  <2>5. new = [status |-> grade, lot |-> row.lot, actual |-> q, by |-> u]
    <3>1. new = [status |-> new.status, lot |-> new.lot, actual |-> new.actual, by |-> new.by]
      BY <1>5, <2>3, <2>4
    <3>2. new.status = grade /\ new.lot = row.lot /\ new.actual = q /\ new.by = u
      BY <1>5, <2>3, <2>4
    <3> QED  BY <3>1, <3>2
  <2>6. line' = [line EXCEPT ![l] = new]
    BY <2>2, <2>3, <2>5
  <2> QED  BY <2>1, <2>3, <2>4, <2>6
<1>8. line'[l].actual = q
  <2>1. line'[l] = [status |-> IF q = Ordered[l] THEN "complete" ELSE "partial",
                    lot |-> x, actual |-> q, by |-> u]
    BY <1>0, <1>1 DEF TypeOK, CommitPick
  <2> QED  BY <2>1
<1>9. Atomic!TakeGoods(l, u, q)
  <2>1. CASE q = 0
    BY <2>1 DEF CommitPick, Atomic!TakeGoods
  <2>2. CASE q # 0
    <3>1. x # NoLot /\ q > 0
      BY <1>1, <1>5, <2>2
    <3>2. /\ picks' = [picks EXCEPT ![l] = Append(@, [by |-> u, qty |-> q])]
          /\ onHand' = [onHand EXCEPT ![x] = @ - q]
      BY <3>1 DEF CommitPick
    <3>3. q <= onHand[x]
      BY <1>0, <1>1, <3>1 DEF IInv, PickedRowIsLocked, HasPickedRow, Commit
    <3> QED  BY <2>2, <3>2, <3>3 DEF Atomic!TakeGoods
  <2> QED  BY <2>1, <2>2
<1>10. UNCHANGED checkedBy
  BY DEF CommitPick
<1>11. Atomic!Pick(o, l, u, q)
  <2>1. \/ /\ Atomic!Turn(o, {"allocated", "partially_allocated", "picking"}, "picked")
           /\ Atomic!Waiting(o)' = {} /\ finisher' = [finisher EXCEPT ![o] = u]
        \/ /\ Atomic!Turn(o, {"allocated", "partially_allocated", "picking"}, "picking")
           /\ Atomic!Waiting(o)' # {} /\ UNCHANGED finisher
    <3>1. \A to : status' = [status EXCEPT ![o] = to] =>
                   Atomic!Turn(o, {"allocated", "partially_allocated", "picking"}, to)
      BY <1>3, Commands DEF Atomic!Turn
    <3> QED  BY <1>2, <1>3, <1>4, <3>1, TargetNames
  <2> QED  BY <2>1, <1>5, <1>6, <1>7, <1>9, <1>10 DEF Atomic!Pick
<1> HIDE DEF l, q, u
<1>12. Atomic!Pick(o, l, u, line'[l].actual)
  BY <1>8, <1>11
<1> QED  BY <1>1, <1>3, <1>12 DEF Atomic!Command

LEMMA SameSums == \A f, S : Atomic!SumFunctionOnSet(f, S) = SumFunctionOnSet(f, S)
BY DEF Atomic!SumFunctionOnSet, SumFunctionOnSet, Atomic!FoldFunctionOnSet, FoldFunctionOnSet,
       Atomic!MapThenFoldSet, MapThenFoldSet

(* What the book calls promised is qty_allocated, also after a step.        *)
LEMMA PromisedIsAllocated ==
  ASSUME ReservationsAreAllocated', NEW x \in Lot
  PROVE  Atomic!Promised(x)' = allocated'[x]
<1>1. PICK held : held = {l \in Line : Holds(l)' /\ line'[l].lot = x}
  OBVIOUS
<1>2. PICK qty : qty = [l \in Line |-> line'[l].actual]
  OBVIOUS
<1>3. {l \in Line : Atomic!Open(l)' /\ line'[l].lot = x} = held
  BY <1>1 DEF Atomic!Open, Holds
<1>4. Atomic!Promised(x)' = SumFunctionOnSet(qty, held)
  BY <1>2, <1>3, SameSums DEF Atomic!Promised
<1>5. allocated'[x] = SumFunctionOnSet(qty, held)
  BY <1>1, <1>2 DEF ReservationsAreAllocated
<1> QED  BY <1>4, <1>5

(* A planned line makes its row's change positive.                         *)
LEMMA PlannedIsAdded ==
  ASSUME ReserveInv, NEW s \in Session, Commit(s), job[s].op = "allocate",
         NEW l \in LinesOf(job[s].order), plan[s][l].lot # NoLot, plan[s][l].qty # 0
  PROVE  delta[s][plan[s][l].lot] > 0
<1>0. IInv /\ DeltasAreSums /\ InTransaction(s) /\ pc[s] = "commit" /\ l \in Line
  BY CommitEffects DEF ReserveInv, Commit, LinesOf
<1>1. PICK x \in Lot : x = plan[s][l].lot
  BY <1>0 DEF IInv, TypeOK
<1> DEFINE P == {k \in DealtWith(s) : plan[s][k].lot = x}
<1>2. delta[s][x] = SumFunctionOnSet(Planned(s), P)
  BY <1>0 DEF DeltasAreSums, DeltaIsSum
<1>3. l \in P /\ P \subseteq Line
  <2>1. DealtWith(s) = LinesOf(job[s].order)
    BY <1>0 DEF DeltasAreSums, DeltaIsSum, DealtWith, LinesToLock
  <2> QED  BY <1>1, <2>1 DEF LinesOf
<1>4. /\ IsFiniteSet(P) /\ IsFiniteSet(P \ {l})
      /\ \A k \in P : Planned(s)[k] \in Int /\ Planned(s)[k] >= 0
      /\ Planned(s)[l] = plan[s][l].qty /\ plan[s][l].qty \in Nat
  <2>1. IsFiniteSet(P) /\ IsFiniteSet(P \ {l})
    BY <1>3, SomeLines
  <2>2. plan[s][l].qty \in Nat
    BY <1>0 DEF IInv, TypeOK
  <2> QED  BY <1>0, <1>3, <2>1, <2>2, Quantities
<1> HIDE DEF P
<1>5. PICK f : f = Planned(s)
  OBVIOUS
<1>6. SumFunctionOnSet(f, P) = f[l] + SumFunctionOnSet(f, P \ {l})
  BY <1>3, <1>4, <1>5, SumTakesOne
<1>7. SumFunctionOnSet(f, P \ {l}) \in Int /\ SumFunctionOnSet(f, P \ {l}) >= 0
  <2>1. PICK zero : zero = [k \in P \ {l} |-> 0]
    OBVIOUS
  <2>2. \A k \in P \ {l} : zero[k] \in Int /\ f[k] \in Int /\ zero[k] <= f[k] /\ zero[k] = 0
    BY <1>4, <1>5, <2>1
  <2>3. SumFunctionOnSet(zero, P \ {l}) <= SumFunctionOnSet(f, P \ {l})
    BY <1>4, <2>2, SumIsMonotone
  <2>4. SumFunctionOnSet(zero, P \ {l}) = 0
    BY <1>4, <2>2, SumOfZeroes
  <2>5. SumFunctionOnSet(f, P \ {l}) \in Int
    BY <1>4, <2>2, SumIsInt
  <2> QED  BY <2>3, <2>4, <2>5
<1> QED  BY <1>1, <1>2, <1>4, <1>5, <1>6, <1>7

LEMMA AllocateImplements ==
  ASSUME ReserveInv, ReserveInv', PlansFit, NEW s \in Session, Commit(s), NEW o \in Order, o = job[s].order,
         CommitAllocate(s)
  PROVE  Atomic!Command(o)
<1>0. IInv /\ TypeOK /\ InTransaction(s) /\ job[s].op = "allocate"
  BY CommitEffects DEF ReserveInv, IInv, CommitAllocate
<1>1. PICK e : /\ Advance(o, e)
               /\ IF LinesOf(o) # {} /\ \A l \in LinesOf(o) : plan[s][l].qty = Ordered[l]
                    THEN e = "allocate_full" ELSE e = "allocate_partial"
  BY DEF CommitAllocate
<1>2. /\ version' = [version EXCEPT ![o] = @ + 1] /\ status' = [status EXCEPT ![o] = Target[e]]
      /\ status[o] = "approved"
  BY <1>0, <1>1, CommitFrom, Commands DEF Advance
<1>3. \A l \in Line : IF l \in LinesOf(o)
        THEN /\ line'[l].status = LineStatus(l, plan[s][l].qty) /\ line'[l].lot = plan[s][l].lot
             /\ line'[l].actual = plan[s][l].qty /\ line'[l].by = line[l].by
        ELSE line'[l] = line[l]
  BY DEF CommitAllocate, LinesOf
<1>4. ASSUME NEW l \in LinesOf(o), plan[s][l].lot # NoLot
      PROVE  \E x \in LotsFor[l] \ Quarantined : line'[l].lot = x /\ Atomic!Promised(x)' <= onHand[x]
  <2>1. PICK x \in LotsFor[l] \ Quarantined : x = plan[s][l].lot
    BY <1>4 DEF PlansFit, PlanFits, LinesOf
  <2>2. x \in Lot
    BY <2>1, OutboundConstants DEF LinesOf
  <2>3. plan[s][l].qty # 0
    BY <1>4, OutboundConstants DEF PlansFit, PlanFits, LinesOf
  <2>4. delta[s][x] > 0
    BY <1>0, <1>4, <2>1, <2>3, PlannedIsAdded
  <2>5. allocated'[x] <= onHand[x]
    BY <1>0, <2>2, <2>4, CommitEffects DEF IInv, LockedRows, HasRows
  <2>6. Atomic!Promised(x)' = allocated'[x]
    <3>1. ReservationsAreAllocated'
      BY DEF ReserveInv
    <3> QED  BY <2>2, <3>1, PromisedIsAllocated
  <2> QED  BY <1>3, <2>1, <2>5, <2>6 DEF LinesOf
<1>5. ASSUME NEW l \in LinesOf(o) PROVE Atomic!Fits(l)
  <2>1. /\ line'[l].status = LineStatus(l, plan[s][l].qty) /\ line'[l].lot = plan[s][l].lot
        /\ line'[l].actual = plan[s][l].qty /\ line'[l].by = line[l].by
        /\ l \in Line
    BY <1>3 DEF LinesOf
  <2>2. IF plan[s][l].lot = NoLot THEN plan[s][l].qty = 0 ELSE plan[s][l].qty \in 1..Ordered[l]
    BY <2>1 DEF PlansFit, PlanFits
  <2>3. line'[l].status = Atomic!Grade(l, line'[l].actual)
    BY <2>1 DEF LineStatus, Atomic!Grade
  <2> QED  BY <1>4, <2>1, <2>2, <2>3 DEF Atomic!Fits
<1>6. Atomic!Allocate(o)
  <2>1. Atomic!Lines(o) = LinesOf(o)
    BY DEF Atomic!Lines, LinesOf
  <2>2. \A l \in LinesOf(o) : line'[l].actual = plan[s][l].qty
    BY <1>3 DEF LinesOf
  <2>3. Atomic!Turn(o, {"approved"}, Target[e])
    BY <1>2 DEF Atomic!Turn
  <2>4. \/ /\ Atomic!Turn(o, {"approved"}, "allocated")
           /\ LinesOf(o) # {} /\ \A l \in LinesOf(o) : line'[l].actual = Ordered[l]
        \/ /\ Atomic!Turn(o, {"approved"}, "partially_allocated")
           /\ LinesOf(o) = {} \/ \E l \in LinesOf(o) : line'[l].actual # Ordered[l]
    BY <1>1, <2>2, <2>3, TargetNames
  <2>5. \A l \in Line : IF l \in LinesOf(o) THEN Atomic!Fits(l) ELSE line'[l] = line[l]
    BY <1>3, <1>5
  <2>6. UNCHANGED <<finisher, checkedBy, picks, onHand>>
    BY DEF CommitAllocate
  <2> QED  BY <2>1, <2>4, <2>5, <2>6 DEF Atomic!Allocate
<1> QED  BY <1>2, <1>6 DEF Atomic!Command

LEMMA StepImplements ==
  ASSUME ReserveInv, ReserveInv', PlansFit, [Next]_vars
  PROVE  [Atomic!Next]_(Atomic!tables)
<1>1. CASE UNCHANGED <<orders, onHand>>
  BY <1>1 DEF orders, Atomic!tables
<1>2. ASSUME NEW o \in Order, Create(o) PROVE Atomic!Next
  BY <1>2 DEF Create, balance, Atomic!Next, Atomic!Create
<1>3. ASSUME NEW x \in Lot \ Quarantined, OtherPosting(x) PROVE Atomic!Next
  <2>1. onHand' = [onHand EXCEPT ![x] = onHand'[x]] /\ UNCHANGED orders
    BY <1>3 DEF ReserveInv, IInv, TypeOK, OtherPosting
  <2> QED  BY <2>1 DEF orders, Atomic!Next, Atomic!OtherPosting
<1>4. ASSUME NEW s \in Session, Commit(s) PROVE Atomic!Next
  <2>1. PICK o \in Order : o = job[s].order
    BY <1>4, CommitEffects DEF ReserveInv
  <2>2. Atomic!Command(o)
    BY <1>4, <2>1, ProceedImplements, CancelImplements, CheckImplements, AllocateImplements, PickImplements
       DEF Commit, CommitStep
  <2> QED  BY <2>2 DEF Atomic!Next
<1>5. CASE UNCHANGED vars
  BY <1>1, <1>5 DEF vars, balance
<1>6. ASSUME NEW s \in Session, Send(s) \/ LockOrder(s) \/ Rollback(s)
                                \/ (\E l \in Line : ScanLots(s, l) \/ ReserveLine(s, l) \/ ReleaseLine(s, l))
                                \/ \E x \in Lot : LockLot(s, x)
      PROVE  UNCHANGED <<orders, onHand>>
  BY <1>6 DEF Send, LockOrder, Rollback, ScanLots, ReserveLine, ReleaseLine, LockLot, balance
<1> QED  BY <1>1, <1>2, <1>3, <1>4, <1>5, <1>6 DEF Next, Work

(* To a reader of the committed rows every command on an order is one step *)
(* that meets all its rules then, whatever allocate.ts, pick-line.ts,      *)
(* check-order.ts and the others read before they held their locks.        *)
THEOREM OrdersImplementBook == Spec => ImplementsOrders
<1>1. Init => Atomic!Init
  BY OutboundConstants DEF Init, Atomic!Init
<1>2. Spec => []ReserveInv
  BY ReservationInvariant
<1>3. Spec => []PlansFit
  BY <1>2, InitPlans, NextPlans, PTL DEF Spec
<1>4. ReserveInv /\ ReserveInv' /\ PlansFit /\ [Next]_vars => [Atomic!Next]_(Atomic!tables)
  BY StepImplements
<1> QED  BY <1>1, <1>2, <1>3, <1>4, PTL DEF Spec, ImplementsOrders, Atomic!Spec
=============================================================================
