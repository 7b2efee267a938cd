--------------------------- MODULE OutboundOrders ----------------------------
(***************************************************************************)
(* Outbound orders of modules/wms, process-outbound: the commands that     *)
(* move an order from draft to loaded, reserve stock for its lines         *)
(* (stock_balance.qty_allocated), pick it and release what is not picked.  *)
(*                                                                         *)
(* Every command is one transaction: it locks the order row, compares the  *)
(* version its caller read, locks balance rows one by one and writes. Its  *)
(* writes (plan, delta) become visible with its commit, which is one step: *)
(* all rows it writes are locked by then. A pick posts to the stock ledger *)
(* (module StockLedger); here a posting is what it does to one balance row.*)
(***************************************************************************)
EXTENDS Integers, FiniteSets, Sequences, Functions

CONSTANTS
  Session,     \* database sessions, one command at a time
  User, NoUser,
  Managers,    \* users with role WH_MGR
  Order,       \* ids of wms.outbound_orders
  Line,        \* ids of wms.order_lines
  OrderOf,     \* [Line -> Order]
  LineNo,      \* [Line -> Nat], unique within an order
  Ordered,     \* [Line -> Nat], qty_ordered
  Lot, NoLot,  \* wms.stock_balance rows; location_id is null
  LotsFor,     \* [Line -> SUBSET Lot]: its SKU, in the order's warehouse
  Quarantined, \* rows in a quarantine zone
  PickRank,    \* [Lot -> Nat], place in the order of the picking policy
  InitialStock, \* SUBSET [Lot -> Nat]: quantities on hand to start from
  MaxStock,    \* bound on a row's quantity after a posting by others
  MaxMoves     \* bound on postings by others

ASSUME OutboundConstants ==
  /\ NoUser \notin User /\ NoLot \notin Lot /\ Managers \subseteq User /\ Quarantined \subseteq Lot
  /\ IsFiniteSet(Line)
  /\ OrderOf \in [Line -> Order] /\ LineNo \in [Line -> Nat]
  /\ \A k, l \in Line : OrderOf[k] = OrderOf[l] /\ LineNo[k] = LineNo[l] => k = l
  /\ Ordered \in [Line -> Nat \ {0}]
  /\ LotsFor \in [Line -> SUBSET Lot] /\ PickRank \in [Lot -> Nat]
  /\ InitialStock \subseteq [Lot -> Nat] /\ MaxStock \in Nat /\ MaxMoves \in Nat

VARIABLES
  status,      \* outbound_orders.status ("none": not created)
  version,     \* outbound_orders.version
  finisher,    \* outbound_orders.picked_by: who completed the picking
  checkedBy,   \* outbound_orders.checked_by
  line,        \* [Line -> [status, lot, actual, by]]: status, location/batch, qty_actual, picked_by
  picks,       \* [Line -> the pick movements posted for it, a sequence of [by, qty]]
  onHand,      \* stock_balance.qty_on_hand
  allocated,   \* stock_balance.qty_allocated
  moves,       \* postings by others so far
  pc,          \* where the command of a session stands
  job,         \* the command
  todo,        \* lines it has not dealt with yet
  lots,        \* rows its candidate query returned and has not locked yet
  chosen,      \* rows it has locked for the line at hand and found available
  rows,        \* balance rows it has locked
  plan,        \* Allocate: [Line -> [lot, qty]]
  delta        \* its uncommitted change of allocated

orders   == <<status, version, finisher, checkedBy, line, picks>>
balance  == <<onHand, allocated>>
vars     == <<orders, balance, moves, pc, job, todo, lots, chosen, rows, plan, delta>>

-----------------------------------------------------------------------------
(* outboundOrderMachine: every event has one target status.                *)

Target ==
  [pass |-> "checks_pending", credit_fail |-> "credit_rejected", approve |-> "approved",
   cancel |-> "cancelled", allocate_full |-> "allocated", allocate_partial |-> "partially_allocated",
   start_picking |-> "picking", complete_picking |-> "picked", check |-> "checked",
   pack |-> "packed", load |-> "loaded"]

Status == {"none", "draft"} \cup {Target[e] : e \in DOMAIN Target}

Reserved == {"allocated", "partially_allocated"}   \* RELEASE_ON_CANCEL_STATUSES

(* The statuses from which a command is legal. *)
From ==
  [checks   |-> {"draft"},
   approve  |-> {"checks_pending"},
   cancel   |-> {"draft", "checks_pending", "credit_rejected", "approved"} \cup Reserved,
   allocate |-> {"approved"},
   pick     |-> Reserved \cup {"picking"},
   check    |-> {"picked"},
   pack     |-> {"checked"},
   load     |-> {"packed"}]

Command == DOMAIN From

LinesOf(o) == {l \in Line : OrderOf[l] = o}
NoJob  == [op |-> "none"]
Job ==
  {NoJob} \cup [op : Command \ {"pick"}, order : Order, user : User, version : Nat]
          \cup [op : {"pick"}, order : Order, user : User, version : Nat, line : Line, qty : Nat]
NoPlan == [l \in Line |-> [lot |-> NoLot, qty |-> 0]]
Zero   == [x \in Lot |-> 0]

Goto(s, label) == pc' = [pc EXCEPT ![s] = label]

-----------------------------------------------------------------------------
Init ==
  /\ status = [o \in Order |-> "none"]
  /\ version = [o \in Order |-> 0]
  /\ finisher = [o \in Order |-> NoUser]
  /\ checkedBy = [o \in Order |-> NoUser]
  /\ line = [l \in Line |-> [status |-> "open", lot |-> NoLot, actual |-> 0, by |-> NoUser]]
  /\ picks = [l \in Line |-> <<>>]
  /\ onHand \in InitialStock
  /\ allocated = Zero
  /\ moves = 0
  /\ pc = [s \in Session |-> "idle"]
  /\ job = [s \in Session |-> NoJob]
  /\ todo = [s \in Session |-> {}]
  /\ lots = [s \in Session |-> {}]
  /\ chosen = [s \in Session |-> {}]
  /\ rows = [s \in Session |-> {}]
  /\ plan = [s \in Session |-> NoPlan]
  /\ delta = [s \in Session |-> Zero]

(* createOutbound inserts the order. Nothing in the repository inserts     *)
(* wms.order_lines: the lines are there when a command asks for them.      *)
Create(o) ==
  /\ status[o] = "none"
  /\ status' = [status EXCEPT ![o] = "draft"]
  /\ UNCHANGED <<version, finisher, checkedBy, line, picks, balance, moves,
                 pc, job, todo, lots, chosen, rows, plan, delta>>

(* A caller sends a command with the version it read. What the status or   *)
(* the reserved quantity forbids would be refused without a trace and is   *)
(* not sent. Who sends a command is recorded for picks and checks only; a  *)
(* manager may send all others.                                            *)
Send(s) ==
  /\ pc[s] = "idle"
  /\ \E op \in Command, o \in Order, u \in User :
       /\ status[o] \in From[op]
       /\ op \notin {"pick", "check"} => u \in Managers
       /\ IF op # "pick"
            THEN job' = [job EXCEPT ![s] = [op |-> op, order |-> o, user |-> u, version |-> version[o]]]
            ELSE \E l \in LinesOf(o) : \E q \in 0..line[l].actual :
                   job' = [job EXCEPT ![s] = [op |-> op, order |-> o, user |-> u,
                                              version |-> version[o], line |-> l, qty |-> q]]
  /\ Goto(s, "lock")
  /\ UNCHANGED <<orders, balance, moves, todo, lots, chosen, rows, plan, delta>>

-----------------------------------------------------------------------------
(* select ... for update on the order, then the checks before any write.   *)

InTransaction(s) == pc[s] \notin {"idle", "lock"}

(* Mutant: the order is read without a lock. *)
OrderIsRead(s) == TRUE

OrderIsFree(s) ==
  \A t \in Session \ {s} : ~(InTransaction(t) /\ job[t].order = job[s].order)

(* runOutboundChecks condition 3: the sum over all rows of the SKU covers  *)
(* each line, read without a lock; stock in quarantine counts.             *)
StockSuffices(o) ==
  \A l \in LinesOf(o) :
    SumFunctionOnSet([x \in Lot |-> onHand[x] - allocated[x]], LotsFor[l]) >= Ordered[l]

(* Mutant: only a zero pick is noticed on a reserved line. *)
PickedToZero(l) == IF line[l].lot # NoLot THEN line[l].actual = 0 ELSE line[l].status # "open"

(* A reserved line was picked when a movement was posted for it or a zero  *)
(* pick recorded; any pick of an unreserved line moves it off 'open'.      *)
AlreadyPicked(l) ==
  IF line[l].lot # NoLot THEN picks[l] # <<>> \/ line[l].actual = 0
                         ELSE line[l].status # "open"

PickAllowed(l, q) ==
  /\ ~AlreadyPicked(l)
  /\ q <= IF line[l].lot = NoLot THEN 0 ELSE line[l].actual

(* Mutant: only the user who completed the picking counts. *)
WasFinisher(o, u) == finisher[o] = u

(* picked_by of any line, or performed_by of any pick movement. *)
WasPicker(o, u) ==
  \E l \in LinesOf(o) : line[l].by = u \/ \E i \in DOMAIN picks[l] : picks[l][i].by = u

CheckAllowed(o, u) == finisher[o] # NoUser /\ ~WasPicker(o, u)

UpToDate(s) == version[job[s].order] = job[s].version

(* The lines whose balance rows the command has to lock. *)
LinesToLock(s) ==
  LET o == job[s].order IN
  CASE job[s].op = "allocate" -> LinesOf(o)
    [] job[s].op = "cancel" /\ status[o] \in Reserved -> {l \in LinesOf(o) : line[l].lot # NoLot}
    [] job[s].op = "pick" -> {l \in {job[s].line} : line[l].lot # NoLot}
    [] OTHER -> {}

LockOrder(s) ==
  LET o == job[s].order IN
  /\ pc[s] = "lock"
  /\ OrderIsFree(s)
  /\ UpToDate(s)
  /\ status[o] \in From[job[s].op]
  /\ job[s].op = "checks" => StockSuffices(o)
  /\ job[s].op = "pick" => PickAllowed(job[s].line, job[s].qty)
  /\ job[s].op = "check" => CheckAllowed(o, job[s].user)
  /\ todo' = [todo EXCEPT ![s] = LinesToLock(s)]
  /\ Goto(s, IF LinesToLock(s) = {} THEN "commit"
             ELSE IF job[s].op = "allocate" THEN "scan" ELSE "row")
  /\ UNCHANGED <<orders, balance, moves, job, lots, chosen, rows, plan, delta>>

-----------------------------------------------------------------------------
(* allocate: line by line, in the order of line_no.                        *)

(* Mutant: a balance row is updated without waiting for its lock. *)
RowIsIgnored(s, x) == TRUE

RowIsFree(s, x) == \A t \in Session \ {s} : x \notin rows[t]

Available(s, x) == onHand[x] - allocated[x] - delta[s][x]

IsNextLine(s, l) == l \in todo[s] /\ \A k \in todo[s] : LineNo[l] <= LineNo[k]

(* getCandidateLots: what is available outside quarantine when the         *)
(* statement starts ...                                                    *)
ScanLots(s, l) ==
  /\ pc[s] = "scan" /\ IsNextLine(s, l)
  /\ lots' = [lots EXCEPT ![s] = {x \in LotsFor[l] \ Quarantined : Available(s, x) > 0}]
  /\ chosen' = [chosen EXCEPT ![s] = {}]
  /\ Goto(s, "lots")
  /\ UNCHANGED <<orders, balance, moves, job, todo, rows, plan, delta>>

(* Mutant: a row stays in the result whatever the wait for it changed. *)
LockLotAsRead(s, x) ==
  /\ pc[s] = "lots"
  /\ x \in lots[s] /\ \A y \in lots[s] : PickRank[x] <= PickRank[y]
  /\ RowIsFree(s, x)
  /\ rows' = [rows EXCEPT ![s] = @ \cup {x}]
  /\ lots' = [lots EXCEPT ![s] = @ \ {x}]
  /\ chosen' = [chosen EXCEPT ![s] = @ \cup {x}]
  /\ UNCHANGED <<orders, balance, moves, pc, job, todo, plan, delta>>

(* ... for update: row by row in policy order; a row that is no longer     *)
(* available once it is locked is left out of the result.                  *)
LockLot(s, x) ==
  /\ pc[s] = "lots"
  /\ x \in lots[s] /\ \A y \in lots[s] : PickRank[x] <= PickRank[y]
  /\ RowIsFree(s, x)
  /\ rows' = [rows EXCEPT ![s] = @ \cup {x}]
  /\ lots' = [lots EXCEPT ![s] = @ \ {x}]
  /\ chosen' = [chosen EXCEPT ![s] = IF Available(s, x) > 0 THEN @ \cup {x} ELSE @]
  /\ UNCHANGED <<orders, balance, moves, pc, job, todo, plan, delta>>

(* allocateFromSingleLot: the first lot that covers the line, else the     *)
(* first lot.                                                              *)
First(X) == {x \in X : \A y \in X : PickRank[x] <= PickRank[y]}

Covering(s, l) == {x \in chosen[s] : Available(s, x) >= Ordered[l]}

SingleLot(s, l) ==
  IF chosen[s] = {} THEN {[lot |-> NoLot, qty |-> 0]}
  ELSE IF Covering(s, l) # {} THEN {[lot |-> x, qty |-> Ordered[l]] : x \in First(Covering(s, l))}
  ELSE {[lot |-> x, qty |-> Available(s, x)] : x \in First(chosen[s])}

ReserveLine(s, l) ==
  /\ pc[s] = "lots" /\ lots[s] = {} /\ IsNextLine(s, l)
  /\ \E r \in SingleLot(s, l) :
       /\ plan' = [plan EXCEPT ![s][l] = r]
       /\ delta' = [delta EXCEPT ![s] = [x \in Lot |-> IF x = r.lot THEN @[x] + r.qty ELSE @[x]]]
  /\ todo' = [todo EXCEPT ![s] = @ \ {l}]
  /\ Goto(s, IF todo[s] = {l} THEN "commit" ELSE "scan")
  /\ UNCHANGED <<orders, balance, moves, job, lots, chosen, rows>>

(* Mutant: a pick releases what it picked. *)
PickedQty(s, l) == IF job[s].op = "pick" THEN job[s].qty ELSE line[l].actual

(* The full reservation, however much of it was picked. *)
ReservedQty(s, l) == line[l].actual

(* The update of qty_allocated that releases a line's reservation, on      *)
(* cancelling and on picking; a pick posts its movement first, which       *)
(* refuses to take the row below zero.                                     *)
ReleaseLine(s, l) ==
  /\ pc[s] = "row" /\ l \in todo[s]
  /\ LET x == line[l].lot IN
     /\ RowIsFree(s, x)
     /\ job[s].op = "pick" => job[s].qty <= onHand[x]
     /\ rows' = [rows EXCEPT ![s] = @ \cup {x}]
     /\ delta' = [delta EXCEPT ![s][x] = @ - ReservedQty(s, l)]
  /\ todo' = [todo EXCEPT ![s] = @ \ {l}]
  /\ Goto(s, IF todo[s] = {l} THEN "commit" ELSE "row")
  /\ UNCHANGED <<orders, balance, moves, job, lots, chosen, plan>>

-----------------------------------------------------------------------------
(* The end of a command.                                                   *)

Release(s) ==
  /\ Goto(s, "idle")
  /\ job' = [job EXCEPT ![s] = NoJob]
  /\ todo' = [todo EXCEPT ![s] = {}]
  /\ lots' = [lots EXCEPT ![s] = {}]
  /\ chosen' = [chosen EXCEPT ![s] = {}]
  /\ rows' = [rows EXCEPT ![s] = {}]
  /\ plan' = [plan EXCEPT ![s] = NoPlan]
  /\ delta' = [delta EXCEPT ![s] = Zero]

(* updateOrder: the status of the event, and the next version. *)
Advance(o, event) ==
  /\ status' = [status EXCEPT ![o] = Target[event]]
  /\ version' = [version EXCEPT ![o] = @ + 1]

NothingPicked == UNCHANGED <<finisher, line, picks, onHand>>

CommitChecks(s) ==
  /\ job[s].op = "checks"
  /\ \E e \in {"pass", "credit_fail"} : Advance(job[s].order, e)
  /\ NothingPicked /\ UNCHANGED checkedBy

CommitApprove(s) ==
  /\ job[s].op = "approve" /\ Advance(job[s].order, "approve")
  /\ NothingPicked /\ UNCHANGED checkedBy

CommitCheck(s) ==
  /\ job[s].op = "check" /\ Advance(job[s].order, "check")
  /\ checkedBy' = [checkedBy EXCEPT ![job[s].order] = job[s].user]
  /\ NothingPicked

CommitPack(s) ==
  /\ job[s].op = "pack" /\ Advance(job[s].order, "pack")
  /\ NothingPicked /\ UNCHANGED checkedBy

CommitLoad(s) ==
  /\ job[s].op = "load" /\ Advance(job[s].order, "load")
  /\ NothingPicked /\ UNCHANGED checkedBy

CommitCancel(s) ==
  /\ job[s].op = "cancel"
  /\ Advance(job[s].order, "cancel")
  /\ NothingPicked /\ UNCHANGED checkedBy

CommitStep(s) ==
  CommitChecks(s) \/ CommitApprove(s) \/ CommitCancel(s) \/ CommitCheck(s) \/ CommitPack(s) \/ CommitLoad(s)

LineStatus(l, q) == IF q = Ordered[l] THEN "complete" ELSE IF q > 0 THEN "partial" ELSE "open"

CommitAllocate(s) ==
  LET o == job[s].order
      full == LinesOf(o) # {} /\ \A l \in LinesOf(o) : plan[s][l].qty = Ordered[l]
  IN
  /\ job[s].op = "allocate"
  /\ Advance(o, IF full THEN "allocate_full" ELSE "allocate_partial")
  /\ line' = [l \in Line |->
       IF OrderOf[l] = o
         THEN [status |-> LineStatus(l, plan[s][l].qty), lot |-> plan[s][l].lot,
               actual |-> plan[s][l].qty, by |-> line[l].by]
         ELSE line[l]]
  /\ UNCHANGED <<finisher, checkedBy, picks, onHand>>

(* Mutant: lines without a reservation count as open, too. *)
UnpickedLines(o) == {l \in LinesOf(o) : line'[l].by = NoUser}

(* countOpenPickLines, after the line was updated. *)
OpenPickLines(o) ==
  {l \in LinesOf(o) : line'[l].lot # NoLot /\ line'[l].actual # 0 /\ picks'[l] = <<>>}

CommitPick(s) ==
  LET o == job[s].order
      l == job[s].line
      q == job[s].qty
      x == line[l].lot
      posts == x # NoLot /\ q > 0
      done == OpenPickLines(o) = {}
  IN
  /\ job[s].op = "pick"
  /\ line' = [line EXCEPT ![l] = [status |-> IF q = Ordered[l] THEN "complete" ELSE "partial",
                                  lot |-> x, actual |-> q, by |-> job[s].user]]
  /\ picks' = IF posts THEN [picks EXCEPT ![l] = Append(@, [by |-> job[s].user, qty |-> q])] ELSE picks
  /\ onHand' = IF posts THEN [onHand EXCEPT ![x] = @ - q] ELSE onHand
  /\ Advance(o, IF done THEN "complete_picking" ELSE "start_picking")
  /\ finisher' = IF done THEN [finisher EXCEPT ![o] = job[s].user] ELSE finisher
  /\ UNCHANGED checkedBy

Commit(s) ==
  /\ pc[s] = "commit"
  /\ CommitStep(s) \/ CommitAllocate(s) \/ CommitPick(s)
  /\ allocated' = [x \in Lot |-> allocated[x] + delta[s][x]]
  /\ Release(s)
  /\ UNCHANGED moves

(* Refused (stale version, illegal status, a check, negative stock), the   *)
(* victim of a deadlock, or a lost connection: the transaction rolls back. *)
Rollback(s) ==
  /\ pc[s] # "idle"
  /\ Release(s)
  /\ UNCHANGED <<orders, balance, moves>>

(* Everybody else who posts to the ledger: receipts, put-aways, transfers, *)
(* count adjustments, reversals. None of them looks at qty_allocated. (One *)
(* on a quarantined row concerns no order.)                                *)
OtherPosting(x) ==
  /\ moves < MaxMoves /\ moves' = moves + 1
  /\ \A s \in Session : x \notin rows[s]
  /\ \E n \in (0..MaxStock) \ {onHand[x]} : onHand' = [onHand EXCEPT ![x] = n]
  /\ UNCHANGED <<orders, allocated, pc, job, todo, lots, chosen, rows, plan, delta>>

Work(s) ==
  \/ LockOrder(s) \/ Commit(s)
  \/ \E l \in Line : ScanLots(s, l) \/ ReserveLine(s, l) \/ ReleaseLine(s, l)
  \/ \E x \in Lot : LockLot(s, x)

Next ==
  \/ \E o \in Order : Create(o)
  \/ \E x \in Lot \ Quarantined : OtherPosting(x)
  \/ \E s \in Session : Send(s) \/ Work(s) \/ Rollback(s)

Spec == Init /\ [][Next]_vars

-----------------------------------------------------------------------------
TypeOK ==
  /\ status \in [Order -> Status] /\ version \in [Order -> Nat]
  /\ finisher \in [Order -> User \cup {NoUser}] /\ checkedBy \in [Order -> User \cup {NoUser}]
  /\ line \in [Line -> [status : {"open", "partial", "complete"}, lot : Lot \cup {NoLot},
                        actual : Nat, by : User \cup {NoUser}]]
  /\ picks \in [Line -> Seq([by : User, qty : Nat])]
  /\ onHand \in [Lot -> Nat] /\ allocated \in [Lot -> Int]
  /\ moves \in Nat
  /\ pc \in [Session -> {"idle", "lock", "scan", "lots", "row", "commit"}]
  /\ job \in [Session -> Job]
  /\ todo \in [Session -> SUBSET Line] /\ lots \in [Session -> SUBSET Lot]
  /\ chosen \in [Session -> SUBSET Lot] /\ rows \in [Session -> SUBSET Lot]
  /\ plan \in [Session -> [Line -> [lot : Lot \cup {NoLot}, qty : Nat]]]
  /\ delta \in [Session -> [Lot -> Int]]

(* A line holds its reservation from Allocate until it was picked or the   *)
(* order cancelled.                                                        *)
Holds(l) == line[l].lot # NoLot /\ picks[l] = <<>> /\ status[OrderOf[l]] # "cancelled"

(* qty_allocated of a row is what the open lines hold on it, to the unit:  *)
(* no release is lost, doubled or of another quantity, with allocations,   *)
(* cancellations and short picks of several orders at once (the leak       *)
(* SCR-WMS-OUT-01 section 2 fears).                                        *)
ReservationsAreAllocated ==
  \A x \in Lot : allocated[x] =
    SumFunctionOnSet([l \in Line |-> line[l].actual], {l \in Line : Holds(l) /\ line[l].lot = x})

(* The double-pick guard: two pickers of one line, or one who repeats,     *)
(* never take its stock twice.                                             *)
LinePickedOnce == \A l \in Line : Len(picks[l]) <= 1

(* An order is in picking exactly as long as a reserved line waits for its *)
(* picker: no picker is last with lines left, and none leaves it behind.   *)
PickingHasOpenLines ==
  \A o \in Order :
    LET waiting == {l \in LinesOf(o) : Holds(l) /\ line[l].actual # 0} IN
    /\ status[o] = "picking" => waiting # {}
    /\ status[o] \in {"picked", "checked", "packed", "loaded"} => waiting = {}

(* The two together: a reservation is held as long as somebody will pick   *)
(* it, and no longer.                                                      *)
ReservationsAreExact == ReservationsAreAllocated /\ PickingHasOpenLines

(* "Self-check rejected" (doc 38, 2.12): the checker of an order picked    *)
(* none of its lines, also when somebody else picked the last one.         *)
CheckerNeverPicked ==
  \A o \in Order : checkedBy[o] # NoUser =>
    \A l \in LinesOf(o) :
      line[l].by # checkedBy[o] /\ \A i \in DOMAIN picks[l] : picks[l][i].by # checkedBy[o]

(* Goods leave once, and pass a second pair of eyes: what a line's picker  *)
(* took nobody takes again, and nobody checks what they took themselves.   *)
FourEyes == LinePickedOnce /\ CheckerNeverPicked

(* A reservation is never taken from stock that is not there or that       *)
(* another order holds: whoever raises qty_allocated leaves it within the  *)
(* quantity on hand, although it chose the row before it held the lock.    *)
AllocationCovered ==
  [][\A x \in Lot : allocated'[x] > allocated[x] => allocated'[x] <= onHand'[x]]_vars

(* Optimistic locking: a command takes effect only on the version its      *)
(* caller has seen, and no two commands on the same one.                   *)
NoLostUpdate ==
  [][\A o \in Order : version'[o] # version[o] =>
       /\ version'[o] = version[o] + 1
       /\ \E s \in Session : /\ pc[s] = "commit" /\ pc'[s] = "idle"
                             /\ job[s].order = o /\ job[s].version = version[o]]_vars

(* "0 <= qty_allocated AND qty_allocated <= qty_on_hand - today this       *)
(* invariant is enforced in domain/ only" (SCR-WMS-OUT-01 section 4).      *)
AllocatedWithinOnHand == \A x \in Lot : 0 <= allocated[x] /\ allocated[x] <= onHand[x]

(* Whatever a command read before it held its locks, and whoever worked    *)
(* beside it: to a reader of the committed rows each command is one step   *)
(* that meets all its rules as of that moment. What is reserved on a row   *)
(* is not stored there; ReservationsAreAllocated says that qty_allocated   *)
(* stands for it.                                                          *)
Atomic == INSTANCE OrderBook
ImplementsOrders == Atomic!Spec

(* The inductive invariant behind the theorems. What a command found when  *)
(* it locked its order still holds when it commits; *)
JobOK ==
  \A s \in Session :
    /\ pc[s] = "idle" <=> job[s] = NoJob
    /\ job[s].op = "pick" => OrderOf[job[s].line] = job[s].order

HasOrder(s) ==
  InTransaction(s) =>
    LET o == job[s].order IN
    /\ OrderIsFree(s) /\ UpToDate(s) /\ status[o] \in From[job[s].op]
    /\ job[s].op = "pick" => PickAllowed(job[s].line, job[s].qty)
    /\ job[s].op = "check" => CheckAllowed(o, job[s].user)

(* a balance row that a command changes is locked, and what it takes there *)
(* is there;                                                               *)
HasRows(s) ==
  /\ \A x \in rows[s] : RowIsFree(s, x)
  /\ \A x \in Lot : delta[s][x] # 0 => x \in rows[s]
  /\ \A x \in Lot : delta[s][x] > 0 =>
       job[s].op = "allocate" /\ allocated[x] + delta[s][x] <= onHand[x]
  /\ ~InTransaction(s) => rows[s] = {}
  /\ chosen[s] \subseteq rows[s]
  /\ pc[s] = "lots" => \A x \in chosen[s] : Available(s, x) > 0
  /\ pc[s] \in {"scan", "lots"} => job[s].op = "allocate"
  /\ pc[s] = "row" =>
       /\ job[s].op \in {"cancel", "pick"}
       /\ \A l \in todo[s] : OrderOf[l] = job[s].order /\ line[l].lot # NoLot

(* a pick knows its row before it commits; *)
HasPickedRow(s) ==
  InTransaction(s) /\ job[s].op = "pick" =>
    LET l == job[s].line IN
    /\ todo[s] \subseteq {l}
    /\ pc[s] \in {"row", "commit"}
    /\ line[l].lot # NoLot /\ todo[s] = {} =>
         line[l].lot \in rows[s] /\ job[s].qty <= onHand[line[l].lot]
    /\ pc[s] = "commit" => todo[s] = {}

LockedOrders      == \A s \in Session : HasOrder(s)
LockedRows        == \A s \in Session : HasRows(s)
PickedRowIsLocked == \A s \in Session : HasPickedRow(s)

(* and only an order that was checked has a checker. *)
CheckedStatus ==
  \A o \in Order : checkedBy[o] # NoUser => status[o] \in {"checked", "packed", "loaded"}

IInv ==
  /\ TypeOK /\ JobOK /\ LockedOrders /\ LockedRows /\ PickedRowIsLocked
  /\ CheckedStatus /\ LinePickedOnce /\ CheckerNeverPicked

(* The second layer, behind the reservations. Lines have no reservation    *)
(* before Allocate and no movement before the first pick; *)
NotYetReserved ==
  \A o \in Order : status[o] \in {"none", "draft", "checks_pending", "credit_rejected", "approved"} =>
    \A l \in LinesOf(o) : line[l].lot = NoLot

NotYetPicked ==
  \A o \in Order : status[o] \notin {"picking", "picked", "checked", "packed", "loaded"} =>
    \A l \in LinesOf(o) : picks[l] = <<>>

(* and what a command will change of a row is the sum over the lines it    *)
(* has dealt with: what it plans for them, or what they hold.              *)
Planned(s)  == [l \in Line |-> plan[s][l].qty]
Reserving   == [l \in Line |-> line[l].actual]
DealtWith(s) == LinesToLock(s) \ todo[s]

DeltaIsSum(s) ==
  InTransaction(s) =>
    /\ todo[s] \subseteq LinesToLock(s)
    /\ pc[s] = "commit" => todo[s] = {}
    /\ \A x \in Lot : delta[s][x] =
         IF job[s].op = "allocate"
           THEN SumFunctionOnSet(Planned(s), {l \in DealtWith(s) : plan[s][l].lot = x})
           ELSE 0 - SumFunctionOnSet(Reserving, {l \in DealtWith(s) : line[l].lot = x})

DeltasAreSums == \A s \in Session : DeltaIsSum(s)

ReserveInv ==
  /\ IInv /\ NotYetReserved /\ NotYetPicked /\ DeltasAreSums
  /\ ReservationsAreAllocated /\ PickingHasOpenLines

(* The third layer, behind the promise: the rows a command has left to     *)
(* choose from are for the line at hand, and what it plans for a line is   *)
(* of its goods and no more than was ordered.                              *)
PlanFits(s) ==
  /\ \A l \in Line :
       LET got == plan[s][l] IN
       IF got.lot = NoLot THEN got.qty = 0
       ELSE got.lot \in LotsFor[l] \ Quarantined /\ got.qty \in 1..Ordered[l]
  /\ pc[s] = "lots" =>
       \A l \in todo[s] : IsNextLine(s, l) => lots[s] \cup chosen[s] \subseteq LotsFor[l] \ Quarantined

PlansFit == \A s \in Session : PlanFits(s)

=============================================================================
