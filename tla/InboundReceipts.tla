-------------------------- MODULE InboundReceipts ---------------------------
(***************************************************************************)
(* Inbound orders of modules/wms: receive-inbound and schedule-inbound.    *)
(* Lines are received one by one into a receiving location, or into        *)
(* quarantine with a decision to be taken; when all are, they are put away *)
(* one by one and the order is closed.                                     *)
(*                                                                         *)
(* Every command is one transaction: it locks the order row, compares the  *)
(* version its caller read and commits all its writes in one step. Line    *)
(* rows change only under the lock of their order. Stock is what the       *)
(* ledger (module StockLedger) leaves in the balance rows.                 *)
(***************************************************************************)
EXTENDS Integers, FiniteSets, Sequences, Functions

CONSTANTS
  Session,     \* database sessions, one command at a time
  Order,       \* ids of wms.inbound_orders
  Line,        \* ids of wms.order_lines
  OrderOf,     \* [Line -> Order]
  Ordered,     \* [Line -> Nat], qty_ordered
  Lot, NoLot,  \* SKU and batch; batch_no is not set yet
  LotsOf,      \* [Line -> SUBSET Lot]: batches of the SKU that may arrive
  Receiving, Quarantine, Storage, NoPlace,  \* locations by zone; location_id is null
  PlaceRank,   \* [Receiving -> Nat], the order of location codes
  MaxQty,      \* [Line -> Nat], bound on the received quantity
  MaxVersion,  \* [Order -> Nat], bound on the version that is scheduled again
  Exposed,     \* bound on the locations others take stock from
  Targets,     \* bound on the locations put away to
  MaxMoves     \* bound on postings by others

Place == Receiving \cup Quarantine \cup Storage

ASSUME InboundConstants ==
  /\ NoLot \notin Lot /\ NoPlace \notin Place
  /\ IsFiniteSet(Line) /\ IsFiniteSet(Place)
  /\ OrderOf \in [Line -> Order] /\ Ordered \in [Line -> Nat \ {0}]
  /\ LotsOf \in [Line -> SUBSET Lot] /\ PlaceRank \in [Receiving -> Nat]
  /\ Receiving \cap Quarantine = {} /\ Storage \cap (Receiving \cup Quarantine) = {}
  /\ MaxQty \in [Line -> Nat] /\ MaxVersion \in [Order -> Nat] /\ MaxMoves \in Nat
  /\ Exposed \subseteq Place /\ Targets \subseteq Place

VARIABLES
  status,      \* inbound_orders.status
  version,     \* inbound_orders.version
  grn,         \* number of GRN documents (and wms.inbound.received events) of an order
  line,        \* [Line -> [status, actual, lot, place]]: qty_actual, batch_no, location_id
  decision,    \* status of the quarantine decision of a line
  receipts,    \* [Line -> the receipt movements posted for it]
  putaways,    \* [Line -> the put-away transfers posted for it]
  onHand,      \* stock_balance.qty_on_hand of [Place -> [Lot -> Nat]]
  taken,       \* what postings by others took from the rows
  moves,       \* postings by others so far
  pc,          \* where the command of a session stands
  job,         \* the command
  source       \* put-away: the receiving location it found

orders  == <<status, version, grn, line, receipts, putaways>>
others  == <<taken, moves>>
session == <<pc, job, source>>
vars    == <<orders, decision, onHand, others, session>>

-----------------------------------------------------------------------------
(* inboundOrderMachine: the statuses from which a command is legal.        *)

From ==
  [approve  |-> {"draft"},
   schedule |-> {"draft", "approved"},
   receive  |-> {"approved", "receiving"},
   putaway  |-> {"received", "putaway"},
   close    |-> {"putaway"},
   cancel   |-> {"draft", "approved", "received"}]

Command == DOMAIN From
ForLine == {"receive", "putaway"}
Status  == {"draft", "approved", "receiving", "received", "putaway", "closed", "cancelled"}

Unreceived == -1     \* qty_actual is null

LinesOf(o) == {l \in Line : OrderOf[l] = o}
NoJob == [op |-> "none"]
Job ==
  {NoJob} \cup [op : Command \ ForLine, order : Order, version : Nat]
          \cup [op : ForLine, order : Order, version : Nat, line : Line]

-----------------------------------------------------------------------------
(* Nothing in the repository inserts inbound orders or their lines: they   *)
(* are there as drafts.                                                    *)
Init ==
  /\ status = [o \in Order |-> "draft"]
  /\ version = [o \in Order |-> 0]
  /\ grn = [o \in Order |-> 0]
  /\ line = [l \in Line |->
       [status |-> "open", actual |-> Unreceived, lot |-> NoLot, place |-> NoPlace]]
  /\ decision = [l \in Line |-> "none"]
  /\ receipts = [l \in Line |-> <<>>]
  /\ putaways = [l \in Line |-> <<>>]
  /\ onHand = [p \in Place |-> [x \in Lot |-> 0]]
  /\ taken = [p \in Place |-> [x \in Lot |-> 0]]
  /\ moves = 0
  /\ pc = [s \in Session |-> "idle"]
  /\ job = [s \in Session |-> NoJob]
  /\ source = [s \in Session |-> NoPlace]

(* A caller sends a command with the version it read. A command its status *)
(* forbids would be refused without a trace and is not sent.               *)
Send(s) ==
  /\ pc[s] = "idle"
  /\ \E op \in Command, o \in Order :
       /\ status[o] \in From[op]
       /\ op = "schedule" => version[o] < MaxVersion[o]
       /\ IF op \in ForLine
            THEN \E l \in LinesOf(o) :
                   job' = [job EXCEPT ![s] = [op |-> op, order |-> o, version |-> version[o], line |-> l]]
            ELSE job' = [job EXCEPT ![s] = [op |-> op, order |-> o, version |-> version[o]]]
  /\ pc' = [pc EXCEPT ![s] = "lock"]
  /\ UNCHANGED <<orders, decision, onHand, others, source>>

-----------------------------------------------------------------------------
(* select ... for update on the order, then the checks before any write.   *)

InTransaction(s) == pc[s] = "commit"

(* Mutant: the order is read without a lock. *)
OrderIsRead(s) == TRUE

OrderIsFree(s) ==
  \A t \in Session \ {s} : ~(InTransaction(t) /\ job[t].order = job[s].order)

UpToDate(s) == version[job[s].order] = job[s].version

(* Mutant: the decision is not looked at. *)
IsStored(l) ==
  line[l].status # "complete" /\ line[l].place = NoPlace /\ line[l].actual # Unreceived

PutAwayAllowed(l) ==
  /\ line[l].status # "complete" /\ line[l].place = NoPlace
  /\ line[l].actual # Unreceived
  /\ decision[l] # "open"

(* hasBlockingOpenLines *)
NoBlockingLines(o) ==
  \A l \in LinesOf(o) :
    line[l].status = "complete" /\ (line[l].place # NoPlace \/ line[l].actual = 0)

(* hasPhysicallyReceivedLines *)
NothingReceived(o) == \A l \in LinesOf(o) : line[l].actual <= 0

Allowed(s) ==
  LET o == job[s].order IN
  CASE job[s].op = "receive" -> line[job[s].line].actual = Unreceived
    [] job[s].op = "putaway" -> PutAwayAllowed(job[s].line)
    [] job[s].op = "close"   -> NoBlockingLines(o)
    [] job[s].op = "cancel"  -> NothingReceived(o)
    [] OTHER -> TRUE

(* findRcvBalanceLocation: the first receiving location with stock of the  *)
(* lot, whichever line it was received for.                                *)
Found(x) ==
  LET stocked == {p \in Receiving : onHand[p][x] > 0} IN
  {p \in stocked : \A r \in stocked : PlaceRank[p] <= PlaceRank[r]}

LockOrder(s) ==
  /\ pc[s] = "lock"
  /\ OrderIsFree(s)
  /\ UpToDate(s)
  /\ status[job[s].order] \in From[job[s].op]
  /\ Allowed(s)
  /\ IF job[s].op = "putaway"
       THEN \E p \in Found(line[job[s].line].lot) : source' = [source EXCEPT ![s] = p]
       ELSE UNCHANGED source
  /\ pc' = [pc EXCEPT ![s] = "commit"]
  /\ UNCHANGED <<orders, decision, onHand, others, job>>

-----------------------------------------------------------------------------
(* The end of a command.                                                   *)

Release(s) ==
  /\ pc' = [pc EXCEPT ![s] = "idle"]
  /\ job' = [job EXCEPT ![s] = NoJob]
  /\ source' = [source EXCEPT ![s] = NoPlace]

(* updateOrder *)
Advance(o, to) ==
  /\ status' = [status EXCEPT ![o] = to]
  /\ version' = [version EXCEPT ![o] = @ + 1]

LinesStay == UNCHANGED <<grn, line, decision, receipts, putaways, onHand>>

CommitApprove(s)  == job[s].op = "approve" /\ Advance(job[s].order, "approved") /\ LinesStay
CommitSchedule(s) == job[s].op = "schedule" /\ Advance(job[s].order, status[job[s].order]) /\ LinesStay
CommitClose(s)    == job[s].op = "close" /\ Advance(job[s].order, "closed") /\ LinesStay
CommitCancel(s)   == job[s].op = "cancel" /\ Advance(job[s].order, "cancelled") /\ LinesStay

(* Mutant: a line received at zero is not yet received. *)
UnstockedLines(o) == {l \in LinesOf(o) : line'[l].actual <= 0}

(* countUnreceiptedLines and getAllLineQtyActual, after the line's update. *)
UnreceivedLines(o) == {l \in LinesOf(o) : line'[l].actual = Unreceived}
AllZero(o) == \A l \in LinesOf(o) : line'[l].actual = 0

ReceivedStatus(l, q) == IF q = 0 THEN "complete" ELSE IF q # Ordered[l] THEN "partial" ELSE "open"

(* Mutant: a short shelf life opens the decision and changes no route. *)
RouteToReceiving(short) == Receiving

(* pickQrtLocation and pickRcvLocation: which location of the zone is the  *)
(* first that is not blocked differs from time to time.                    *)
Route(short) == IF short THEN Quarantine ELSE Receiving

(* ReceiveLine: what arrives (quantity, batch, remaining shelf life) is    *)
(* the caller's. Zero posts nothing; a short shelf life opens a decision.  *)
CommitReceive(s) ==
  LET o == job[s].order
      l == job[s].line
  IN
  /\ job[s].op = "receive"
  /\ \E q \in 0..MaxQty[l], x \in LotsOf[l] :
       /\ line' = [line EXCEPT ![l] =
            [status |-> ReceivedStatus(l, q), actual |-> q, lot |-> x, place |-> NoPlace]]
       /\ IF q = 0 THEN UNCHANGED <<decision, receipts, onHand>>
          ELSE \E short \in BOOLEAN : \E p \in Route(short) :
                 /\ decision' = IF short THEN [decision EXCEPT ![l] = "open"] ELSE decision
                 /\ receipts' = [receipts EXCEPT ![l] = Append(@, [place |-> p, lot |-> x, qty |-> q])]
                 /\ onHand' = [onHand EXCEPT ![p][x] = @ + q]
  /\ Advance(o, IF UnreceivedLines(o) = {} THEN "received" ELSE "receiving")
  /\ grn' = IF UnreceivedLines(o) = {} /\ ~AllZero(o) THEN [grn EXCEPT ![o] = @ + 1] ELSE grn
  /\ UNCHANGED putaways

(* Mutant: whatever lies in the row goes. *)
RowQty(s) == onHand[source[s]][line[job[s].line].lot]

PutAwayQty(s) == line[job[s].line].actual

(* ConfirmPutaway: the whole quantity goes from the receiving location     *)
(* found to the location the caller names. The ledger refuses to take the  *)
(* row below zero.                                                         *)
CommitPutAway(s) ==
  LET l == job[s].line
      x == line[l].lot
      q == PutAwayQty(s)
  IN
  /\ job[s].op = "putaway"
  /\ onHand[source[s]][x] >= q
  /\ \E p \in Targets \ {source[s]} :
       /\ line' = [line EXCEPT ![l].status = "complete", ![l].place = p]
       /\ putaways' = [putaways EXCEPT ![l] = Append(@, [from |-> source[s], to |-> p, lot |-> x, qty |-> q])]
       /\ onHand' = [onHand EXCEPT ![source[s]][x] = @ - q, ![p][x] = @ + q]
  /\ Advance(job[s].order, "putaway")
  /\ UNCHANGED <<grn, decision, receipts>>

Commit(s) ==
  /\ pc[s] = "commit"
  /\ \/ CommitApprove(s) \/ CommitSchedule(s) \/ CommitReceive(s)
     \/ CommitPutAway(s) \/ CommitClose(s) \/ CommitCancel(s)
  /\ Release(s)
  /\ UNCHANGED others

(* Refused, lost its connection, or the statement failed: rolled back.     *)
Rollback(s) ==
  /\ pc[s] # "idle"
  /\ Release(s)
  /\ UNCHANGED <<orders, decision, onHand, others>>

(* The decision item is answered in the decision inbox; no command of the  *)
(* repository does it yet, and nothing moves when it is.                   *)
Decide(l) ==
  /\ decision[l] = "open"
  /\ decision' = [decision EXCEPT ![l] = "decided"]
  /\ UNCHANGED <<orders, onHand, others, session>>

(* Picks, transfers and adjustments of other components take stock.        *)
OtherPosting(p, x) ==
  /\ moves < MaxMoves /\ moves' = moves + 1
  /\ onHand[p][x] > 0
  /\ onHand' = [onHand EXCEPT ![p][x] = @ - 1]
  /\ taken' = [taken EXCEPT ![p][x] = @ + 1]
  /\ UNCHANGED <<orders, decision, session>>

Next ==
  \/ \E s \in Session : Send(s) \/ LockOrder(s) \/ Commit(s) \/ Rollback(s)
  \/ \E l \in Line : Decide(l)
  \/ \E p \in Exposed, x \in Lot : OtherPosting(p, x)

Spec == Init /\ [][Next]_vars

-----------------------------------------------------------------------------
TypeOK ==
  /\ status \in [Order -> Status] /\ version \in [Order -> Nat] /\ grn \in [Order -> Nat]
  /\ line \in [Line -> [status : {"open", "partial", "complete"}, actual : Nat \cup {Unreceived},
                        lot : Lot \cup {NoLot}, place : Place \cup {NoPlace}]]
  /\ decision \in [Line -> {"none", "open", "decided"}]
  /\ receipts \in [Line -> Seq([place : Place, lot : Lot, qty : Nat])]
  /\ putaways \in [Line -> Seq([from : Place, to : Place, lot : Lot, qty : Nat])]
  /\ onHand \in [Place -> [Lot -> Nat]] /\ taken \in [Place -> [Lot -> Nat]]
  /\ moves \in Nat
  /\ pc \in [Session -> {"idle", "lock", "commit"}]
  /\ job \in [Session -> Job] /\ source \in [Session -> Place \cup {NoPlace}]

Received(o) == {l \in LinesOf(o) : line[l].actual # Unreceived}
Stored(o)   == {l \in LinesOf(o) : line[l].place # NoPlace}
Goods(o)    == {l \in LinesOf(o) : line[l].actual > 0}

OrderMatches(o) ==
  /\ status[o] \in {"draft", "approved"} => Received(o) = {}
  /\ status[o] = "receiving" => Received(o) \notin {{}, LinesOf(o)}
  /\ status[o] \in {"received", "putaway", "closed"} => Received(o) = LinesOf(o)
  /\ status[o] \in {"receiving", "received"} => Stored(o) = {}
  /\ status[o] = "putaway" => Stored(o) # {}
  /\ status[o] = "closed" => Goods(o) = Stored(o)
  /\ status[o] = "cancelled" => Goods(o) = {}
  /\ grn[o] = IF status[o] \in {"received", "putaway", "closed"} /\ Goods(o) # {} THEN 1 ELSE 0

(* The status of an order says where its lines are, with several workers   *)
(* on one order: who receives the last line makes it received, no line is  *)
(* open when it closes, a cancelled order has no goods, and exactly the    *)
(* fully received orders that are not empty have their one GRN.            *)
OrderMatchesLines == \A o \in Order : OrderMatches(o)

MovedAsRecorded(l) ==
  /\ IF line[l].actual > 0
       THEN \E p \in Place : receipts[l] = <<[place |-> p, lot |-> line[l].lot, qty |-> line[l].actual]>>
       ELSE receipts[l] = <<>>
  /\ IF line[l].place # NoPlace
       THEN line[l].actual > 0 /\ \E p \in Receiving :
              putaways[l] = <<[from |-> p, to |-> line[l].place, lot |-> line[l].lot, qty |-> line[l].actual]>>
       ELSE putaways[l] = <<>>

(* A line's goods enter the ledger once, when it is received, and are put  *)
(* away once, each time in the quantity and batch the line records: no     *)
(* second scan, retry or parallel put-away posts them again.               *)
LineMovedOnce == \A l \in Line : MovedAsRecorded(l)

(* D-211: goods received short of their minimum shelf life lie in          *)
(* quarantine and the line is not put away before its decision is taken.   *)
HeldUntilDecided ==
  \A l \in Line :
    /\ decision[l] # "none" <=> \E i \in DOMAIN receipts[l] : receipts[l][i].place \in Quarantine
    /\ decision[l] = "open" => putaways[l] = <<>>

(* The two together: the goods of a line move twice at most, first when it *)
(* arrives, then when nothing speaks against it any more.                  *)
MovedOnceWhenFree == LineMovedOnce /\ HeldUntilDecided

(* Stock in the warehouse is what the lines say was received, and in       *)
(* storage and quarantine what they say arrived there, to the unit and for *)
(* every lot, beside what others took: put-aways of several orders that    *)
(* share receiving locations neither lose nor double goods.                *)
StockAccounted ==
  \A x \in Lot :
    LET stock(p)    == onHand[p][x] + taken[p][x]
        qty(K)      == SumFunctionOnSet([l \in Line |-> line[l].actual], {l \in K : line[l].lot = x})
        goods       == {l \in Line : line[l].actual > 0}
        receivedAt(p) == {l \in goods : receipts[l][1].place = p}
        storedAt(p) == {l \in goods : line[l].place = p}
    IN
    /\ SumFunctionOnSet([p \in Place |-> stock(p)], Place) = qty(goods)
    /\ \A p \in Storage \cup Quarantine : stock(p) = qty(storedAt(p)) + qty(receivedAt(p))

(* "No movement of that batch to a storage location until the item is      *)
(* decided" (QuarantineDecisionOpenError, D-211).                          *)
BatchHeld ==
  [][\A x \in Lot, p \in Storage : onHand'[p][x] > onHand[p][x] =>
       ~\E l \in Line : decision[l] = "open" /\ line[l].lot = x]_vars

(* Whatever a command read before it held the lock of its order, and       *)
(* whoever receives, puts away or takes goods beside it: to a reader of    *)
(* the committed rows each command is one step that meets all its rules.   *)
Atomic == INSTANCE ReceiptBook
ImplementsReceipts == Atomic!Spec

(* The inductive invariant behind the theorems: what a command found when  *)
(* it locked its order still holds when it commits.                        *)
JobOK ==
  \A s \in Session :
    /\ pc[s] = "idle" <=> job[s] = NoJob
    /\ job[s].op \in ForLine => OrderOf[job[s].line] = job[s].order

HasOrder(s) ==
  InTransaction(s) =>
    /\ OrderIsFree(s) /\ UpToDate(s) /\ status[job[s].order] \in From[job[s].op]
    /\ Allowed(s)
    /\ job[s].op = "putaway" => source[s] \in Receiving

LockedOrders == \A s \in Session : HasOrder(s)

(* A line that did not arrive is done: it is never put away. *)
EmptyLinesDone == \A l \in Line : line[l].actual = 0 => line[l].status = "complete"

IInv ==
  /\ TypeOK /\ JobOK /\ LockedOrders /\ EmptyLinesDone
  /\ LineMovedOnce /\ HeldUntilDecided /\ OrderMatchesLines

=============================================================================
