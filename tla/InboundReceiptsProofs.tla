----------------------- MODULE InboundReceiptsProofs ------------------------
(***************************************************************************)
(* What the order lock, the version check and the checks before the writes *)
(* guarantee for any number of sessions, orders, lines, lots and places,   *)
(* and that the stock is what the lines say of it.                         *)
(***************************************************************************)
EXTENDS InboundReceipts, SumLemmas, TLAPS

LEMMA Commands ==
  /\ Command = {"approve", "schedule", "receive", "putaway", "close", "cancel"}
  /\ From["approve"] = {"draft"} /\ From["schedule"] = {"draft", "approved"}
  /\ From["receive"] = {"approved", "receiving"} /\ From["putaway"] = {"received", "putaway"}
  /\ From["close"] = {"putaway"} /\ From["cancel"] = {"draft", "approved", "received"}
  /\ ForLine \subseteq Command
  BY DEF Command, From, ForLine

LEMMA JobFields ==
  ASSUME TypeOK, JobOK, NEW s \in Session, pc[s] # "idle"
  PROVE  /\ job[s].op \in Command /\ job[s].order \in Order /\ job[s].version \in Nat
         /\ job[s].op \in ForLine => job[s].line \in Line /\ OrderOf[job[s].line] = job[s].order
<1>1. job[s] \in Job /\ job[s] # NoJob
  BY DEF TypeOK, JobOK
<1>2. CASE job[s] \in [op : Command \ ForLine, order : Order, version : Nat]
  BY <1>2
<1>3. CASE job[s] \in [op : ForLine, order : Order, version : Nat, line : Line]
  BY <1>3, Commands DEF JobOK
<1> QED BY <1>1, <1>2, <1>3 DEF Job

LEMMA InitInv == Init => IInv
<1> SUFFICES ASSUME Init PROVE IInv
  OBVIOUS
<1> USE InboundConstants DEF Init
<1>1. TypeOK
  <2>1. status \in [Order -> Status]
    BY DEF Status
  <2>2. job \in [Session -> Job]
    BY DEF Job, NoJob
  <2>3. /\ receipts \in [Line -> Seq([place : Place, lot : Lot, qty : Nat])]
        /\ putaways \in [Line -> Seq([from : Place, to : Place, lot : Lot, qty : Nat])]
    OBVIOUS
  <2>4. /\ onHand \in [Place -> [Lot -> Nat]] /\ taken \in [Place -> [Lot -> Nat]]
    OBVIOUS
  <2>5. line \in [Line -> [status : {"open", "partial", "complete"}, actual : Nat \cup {Unreceived},
                           lot : Lot \cup {NoLot}, place : Place \cup {NoPlace}]]
    OBVIOUS
  <2> QED BY <2>1, <2>2, <2>3, <2>4, <2>5 DEF TypeOK
<1>2. JobOK
  BY DEF JobOK, NoJob, ForLine
<1>3. LockedOrders /\ EmptyLinesDone
  BY DEF LockedOrders, HasOrder, InTransaction, EmptyLinesDone, Unreceived
<1>4. LineMovedOnce /\ HeldUntilDecided
  BY DEF LineMovedOnce, MovedAsRecorded, HeldUntilDecided, Unreceived
<1>5. OrderMatchesLines
  <2> SUFFICES ASSUME NEW o \in Order PROVE OrderMatches(o)
    BY DEF OrderMatchesLines
  <2>1. status[o] = "draft" /\ grn[o] = 0
    OBVIOUS
  <2>2. Received(o) = {}
    BY DEF Received, LinesOf
  <2> QED BY <2>1, <2>2 DEF OrderMatches
<1> QED BY <1>1, <1>2, <1>3, <1>4, <1>5 DEF IInv

(* What the tables say of each other while none of them changes. *)
LEMMA TablesStay ==
  ASSUME IInv, UNCHANGED <<orders, decision>>
  PROVE  EmptyLinesDone' /\ LineMovedOnce' /\ HeldUntilDecided' /\ OrderMatchesLines'
<1>1. EmptyLinesDone' /\ LineMovedOnce' /\ HeldUntilDecided'
  BY DEF IInv, orders, EmptyLinesDone, LineMovedOnce, MovedAsRecorded, HeldUntilDecided
<1>2. \A o \in Order : OrderMatches(o)'
  <2> SUFFICES ASSUME NEW o \in Order PROVE OrderMatches(o)'
    OBVIOUS
  <2>1. status'[o] = status[o] /\ grn'[o] = grn[o] /\ line' = line
    BY DEF orders
  <2>2. Received(o)' = Received(o) /\ Stored(o)' = Stored(o) /\ Goods(o)' = Goods(o)
    BY <2>1 DEF Received, Stored, Goods, LinesOf
  <2>3. LinesOf(o)' = LinesOf(o)
    BY DEF LinesOf
  <2> QED BY <2>1, <2>2, <2>3 DEF IInv, OrderMatchesLines, OrderMatches
<1> QED BY <1>1, <1>2 DEF OrderMatchesLines

(* A transaction is not disturbed while its order, its lines and its       *)
(* decision stay and no other transaction takes its order.                 *)
LEMMA HasOrderStays ==
  ASSUME IInv, NEW t \in Session, pc'[t] = pc[t], job'[t] = job[t], source'[t] = source[t],
         InTransaction(t) =>
           /\ OrderIsFree(t)'
           /\ status'[job[t].order] = status[job[t].order]
           /\ version'[job[t].order] = version[job[t].order]
           /\ \A l \in LinesOf(job[t].order) :
                line'[l] = line[l] /\ (decision'[l] = "open" => decision[l] = "open")
  PROVE  HasOrder(t)'
<1> SUFFICES ASSUME InTransaction(t)' PROVE HasOrder(t)'
  BY DEF HasOrder
<1>1. InTransaction(t) /\ HasOrder(t) /\ pc[t] # "idle"
  BY DEF InTransaction, IInv, LockedOrders
<1>2. /\ job[t].op \in ForLine => job[t].line \in LinesOf(job[t].order)
  BY <1>1, JobFields DEF IInv, LinesOf
<1>3. Allowed(t)'
  BY <1>1, <1>2 DEF HasOrder, Allowed, ForLine, PutAwayAllowed, NoBlockingLines, NothingReceived, LinesOf
<1> QED BY <1>1, <1>3 DEF HasOrder, UpToDate

LEMMA OrderStaysFree ==
  ASSUME NEW t \in Session, OrderIsFree(t),
         \A u \in Session : (pc'[u] = "commit" => pc[u] = "commit") /\ (pc'[u] = "commit" => job'[u] = job[u]),
         job'[t] = job[t]
  PROVE  OrderIsFree(t)'
  BY DEF OrderIsFree, InTransaction

LEMMA SendKeeps ==
  ASSUME IInv, NEW s \in Session, Send(s)
  PROVE  IInv'
<1> USE DEF Send
<1>1. PICK op \in Command, o \in Order :
        IF op \in ForLine
          THEN \E l \in LinesOf(o) :
                 job' = [job EXCEPT ![s] = [op |-> op, order |-> o, version |-> version[o], line |-> l]]
          ELSE job' = [job EXCEPT ![s] = [op |-> op, order |-> o, version |-> version[o]]]
  OBVIOUS
<1>2. version[o] \in Nat
  BY DEF IInv, TypeOK
<1>3. /\ job'[s] \in Job /\ job'[s] # NoJob
      /\ job'[s].op \in ForLine => OrderOf[job'[s].line] = job'[s].order
      /\ job' \in [Session -> Job] /\ \A t \in Session \ {s} : job'[t] = job[t]
  <2>1. CASE op \in ForLine
    <3>1. PICK l \in LinesOf(o) :
            job' = [job EXCEPT ![s] = [op |-> op, order |-> o, version |-> version[o], line |-> l]]
      BY <1>1, <2>1
    <3>2. [op |-> op, order |-> o, version |-> version[o], line |-> l] \in Job
      BY <1>2, <2>1 DEF Job, LinesOf
    <3> QED BY <2>1, <3>1, <3>2, Commands DEF IInv, TypeOK, NoJob, LinesOf
  <2>2. CASE op \notin ForLine
    <3>1. [op |-> op, order |-> o, version |-> version[o]] \in Job
      BY <1>2, <2>2 DEF Job
    <3>2. op # "none"
      BY Commands
    <3>3. job' = [job EXCEPT ![s] = [op |-> op, order |-> o, version |-> version[o]]]
      BY <1>1, <2>2
    <3>4. job'[s] = [op |-> op, order |-> o, version |-> version[o]]
      BY <3>3 DEF IInv, TypeOK
    <3>5. job'[s].op = op /\ NoJob.op = "none"
      BY <3>4 DEF NoJob
    <3> QED BY <2>2, <3>1, <3>2, <3>3, <3>4, <3>5 DEF IInv, TypeOK
  <2> QED BY <2>1, <2>2
<1>4. TypeOK'
  BY <1>3 DEF IInv, TypeOK, orders, others
<1>5. JobOK'
  BY <1>3 DEF IInv, TypeOK, JobOK
<1>6. LockedOrders'
  <2> SUFFICES ASSUME NEW t \in Session PROVE HasOrder(t)'
    BY DEF LockedOrders
  <2>1. CASE t = s
    BY <2>1 DEF HasOrder, InTransaction, IInv, TypeOK
  <2>2. CASE t # s
    <3>1. InTransaction(t) => OrderIsFree(t)'
      BY <1>3, <2>2, OrderStaysFree DEF IInv, TypeOK, LockedOrders, HasOrder
    <3> QED BY <1>3, <2>2, <3>1, HasOrderStays DEF orders, IInv, TypeOK
  <2> QED BY <2>1, <2>2
<1> QED BY <1>4, <1>5, <1>6, TablesStay DEF IInv

LEMMA Released ==
  ASSUME IInv, NEW s \in Session, Release(s)
  PROVE  /\ pc' \in [Session -> {"idle", "lock", "commit"}] /\ job' \in [Session -> Job]
         /\ source' \in [Session -> Place \cup {NoPlace}]
         /\ pc'[s] = "idle" /\ job'[s] = NoJob
         /\ \A t \in Session \ {s} : pc'[t] = pc[t] /\ job'[t] = job[t] /\ source'[t] = source[t]
         /\ JobOK'
<1>1. NoJob \in Job /\ NoJob.op = "none"
  BY DEF Job, NoJob
<1>2. /\ pc' \in [Session -> {"idle", "lock", "commit"}] /\ job' \in [Session -> Job]
      /\ source' \in [Session -> Place \cup {NoPlace}]
      /\ pc'[s] = "idle" /\ job'[s] = NoJob
      /\ \A t \in Session \ {s} : pc'[t] = pc[t] /\ job'[t] = job[t] /\ source'[t] = source[t]
  BY <1>1 DEF Release, IInv, TypeOK
<1>3. JobOK'
  BY <1>1, <1>2, Commands DEF IInv, JobOK, ForLine
<1> QED BY <1>2, <1>3

LEMMA RollbackKeeps ==
  ASSUME IInv, NEW s \in Session, Rollback(s)
  PROVE  IInv'
<1> USE DEF Rollback
<1>1. LockedOrders'
  <2> SUFFICES ASSUME NEW t \in Session PROVE HasOrder(t)'
    BY DEF LockedOrders
  <2>1. CASE t = s
    BY <2>1, Released DEF HasOrder, InTransaction
  <2>2. CASE t # s
    <3>1. InTransaction(t) => OrderIsFree(t)'
      BY <2>2, Released DEF IInv, LockedOrders, HasOrder, OrderIsFree, InTransaction
    <3> QED BY <2>2, <3>1, Released, HasOrderStays DEF orders
  <2> QED BY <2>1, <2>2
<1>2. TypeOK'
  BY Released DEF IInv, TypeOK, orders, others
<1> QED BY <1>1, <1>2, Released, TablesStay DEF IInv

LEMMA LockOrderKeeps ==
  ASSUME IInv, NEW s \in Session, LockOrder(s)
  PROVE  IInv'
<1> USE DEF LockOrder
<1>1. pc'[s] = "commit" /\ \A t \in Session \ {s} : pc'[t] = pc[t]
  BY DEF IInv, TypeOK
<1>2. /\ source' \in [Session -> Place \cup {NoPlace}]
      /\ job[s].op = "putaway" => source'[s] \in Receiving
      /\ \A t \in Session \ {s} : source'[t] = source[t]
  BY DEF IInv, TypeOK, Found, Place
<1>3. TypeOK'
  BY <1>2 DEF IInv, TypeOK, orders, others
<1>4. JobOK'
  BY <1>1 DEF IInv, JobOK
<1>5. LockedOrders'
  <2> SUFFICES ASSUME NEW t \in Session PROVE HasOrder(t)'
    BY DEF LockedOrders
  <2>1. CASE t = s
    <3>1. OrderIsFree(s)'
      BY <1>1 DEF OrderIsFree, InTransaction
    <3>2. Allowed(s)'
      BY DEF Allowed, PutAwayAllowed, NoBlockingLines, NothingReceived, LinesOf, orders
    <3> QED BY <1>2, <2>1, <3>1, <3>2 DEF HasOrder, UpToDate, orders
  <2>2. CASE t # s
    <3>1. InTransaction(t) => OrderIsFree(t)'
      BY <1>1, <2>2 DEF IInv, LockedOrders, HasOrder, OrderIsFree, InTransaction
    <3> QED BY <1>1, <1>2, <2>2, <3>1, HasOrderStays DEF orders
  <2> QED BY <2>1, <2>2
<1> QED BY <1>3, <1>4, <1>5, TablesStay DEF IInv

LEMMA DecideKeeps ==
  ASSUME IInv, NEW l \in Line, Decide(l)
  PROVE  IInv'
<1> USE DEF Decide
<1>1. /\ decision' \in [Line -> {"none", "open", "decided"}]
      /\ \A k \in Line : (decision'[k] = "none" <=> decision[k] = "none")
                          /\ (decision'[k] = "open" => decision[k] = "open")
  BY DEF IInv, TypeOK
<1>2. TypeOK' /\ JobOK'
  BY <1>1 DEF IInv, TypeOK, JobOK, orders, others, session
<1>3. LockedOrders'
  <2> SUFFICES ASSUME NEW t \in Session PROVE HasOrder(t)'
    BY DEF LockedOrders
  <2>1. InTransaction(t) => OrderIsFree(t)'
    BY DEF IInv, LockedOrders, HasOrder, OrderIsFree, InTransaction, session
  <2> QED BY <1>1, <2>1, HasOrderStays DEF orders, session, LinesOf
<1>4. HeldUntilDecided'
  BY <1>1 DEF IInv, HeldUntilDecided, orders
<1>5. EmptyLinesDone' /\ LineMovedOnce'
  BY DEF IInv, EmptyLinesDone, LineMovedOnce, MovedAsRecorded, orders
<1>6. OrderMatchesLines'
  BY DEF IInv, OrderMatchesLines, OrderMatches, Received, Stored, Goods, LinesOf, orders
<1> QED BY <1>2, <1>3, <1>4, <1>5, <1>6 DEF IInv

LEMMA OtherPostingKeeps ==
  ASSUME IInv, NEW p \in Exposed, NEW x \in Lot, OtherPosting(p, x)
  PROVE  IInv'
<1> USE DEF OtherPosting
<1>1. p \in Place
  BY InboundConstants
<1>2. onHand' \in [Place -> [Lot -> Nat]] /\ taken' \in [Place -> [Lot -> Nat]] /\ moves' \in Nat
  BY <1>1 DEF IInv, TypeOK
<1>3. TypeOK' /\ JobOK'
  BY <1>2 DEF IInv, TypeOK, JobOK, orders, session
<1>4. LockedOrders'
  <2> SUFFICES ASSUME NEW t \in Session PROVE HasOrder(t)'
    BY DEF LockedOrders
  <2>1. InTransaction(t) => OrderIsFree(t)'
    BY DEF IInv, LockedOrders, HasOrder, OrderIsFree, InTransaction, session
  <2> QED BY <2>1, HasOrderStays DEF orders, session
<1> QED BY <1>3, <1>4, TablesStay DEF IInv

LineType == [status : {"open", "partial", "complete"}, actual : Nat \cup {Unreceived},
             lot : Lot \cup {NoLot}, place : Place \cup {NoPlace}]
ReceiptType == [place : Place, lot : Lot, qty : Nat]
PutawayType == [from : Place, to : Place, lot : Lot, qty : Nat]

LEMMA CommitFacts ==
  ASSUME IInv, NEW s \in Session, Commit(s)
  PROVE  /\ HasOrder(s) /\ InTransaction(s)
         /\ OrderIsFree(s) /\ UpToDate(s) /\ status[job[s].order] \in From[job[s].op] /\ Allowed(s)
         /\ job[s].op = "putaway" => source[s] \in Receiving
         /\ job[s].order \in Order
         /\ job[s].op \in ForLine => job[s].line \in Line /\ OrderOf[job[s].line] = job[s].order
<1>1. InTransaction(s) /\ HasOrder(s) /\ pc[s] # "idle"
  BY DEF Commit, InTransaction, IInv, LockedOrders
<1> QED BY <1>1, JobFields DEF HasOrder, IInv

(* Of the orders only the locked one changes, by one version. *)
LEMMA Advanced ==
  ASSUME IInv, NEW o \in Order, NEW to \in Status, Advance(o, to)
  PROVE  /\ status' \in [Order -> Status] /\ version' \in [Order -> Nat]
         /\ status'[o] = to /\ version'[o] = version[o] + 1
         /\ \A p \in Order \ {o} : status'[p] = status[p] /\ version'[p] = version[p]
  BY DEF Advance, IInv, TypeOK

(* Approve, schedule, close and cancel: the status changes, the lines stay. *)
StatusStep(s) == CommitApprove(s) \/ CommitSchedule(s) \/ CommitClose(s) \/ CommitCancel(s)

LEMMA StatusStepKeeps ==
  ASSUME IInv, NEW s \in Session, Commit(s), StatusStep(s), NEW o \in Order, o = job[s].order
  PROVE  /\ status' \in [Order -> Status] /\ version' \in [Order -> Nat]
         /\ version'[o] = version[o] + 1
         /\ \A p \in Order \ {o} : status'[p] = status[p] /\ version'[p] = version[p]
         /\ OrderMatches(o)'
<1>1. PICK to \in Status : Advance(o, to) /\ LinesStay
        /\ \/ job[s].op = "approve" /\ to = "approved"
           \/ job[s].op = "schedule" /\ to = status[o]
           \/ job[s].op = "close" /\ to = "closed"
           \/ job[s].op = "cancel" /\ to = "cancelled"
  <2>1. status[o] \in Status
    BY CommitFacts DEF IInv, TypeOK
  <2>2. {"approved", "closed", "cancelled"} \subseteq Status
    BY DEF Status
  <2> QED BY <2>1, <2>2 DEF StatusStep, CommitApprove, CommitSchedule, CommitClose, CommitCancel
<1>2. /\ status' \in [Order -> Status] /\ version' \in [Order -> Nat]
      /\ status'[o] = to /\ version'[o] = version[o] + 1
      /\ \A p \in Order \ {o} : status'[p] = status[p] /\ version'[p] = version[p]
  BY <1>1, CommitFacts, Advanced
<1>3. Received(o)' = Received(o) /\ Stored(o)' = Stored(o) /\ Goods(o)' = Goods(o) /\ grn' = grn
  BY <1>1 DEF LinesStay, Received, Stored, Goods, LinesOf
<1>4. OrderMatches(o) /\ LinesOf(o)' = LinesOf(o)
  BY CommitFacts DEF IInv, OrderMatchesLines, LinesOf
<1>5. OrderMatches(o)'
  <2>1. CASE job[s].op = "approve" \/ job[s].op = "schedule"
    <3>1. status[o] \in {"draft", "approved"} /\ status'[o] \in {"draft", "approved"}
      BY <1>1, <1>2, <2>1, CommitFacts, Commands
    <3> QED BY <1>3, <1>4, <3>1 DEF OrderMatches
  <2>2. CASE job[s].op = "close"
    <3>1. status[o] = "putaway" /\ status'[o] = "closed"
      BY <1>1, <1>2, <2>2, CommitFacts, Commands
    <3>2. Goods(o) \subseteq Stored(o)
      BY <2>2, CommitFacts DEF Allowed, NoBlockingLines, Goods, Stored
    <3>3. Stored(o) \subseteq Goods(o)
      BY DEF IInv, LineMovedOnce, MovedAsRecorded, Goods, Stored, LinesOf
    <3> QED BY <1>3, <1>4, <3>1, <3>2, <3>3 DEF OrderMatches
  <2>3. CASE job[s].op = "cancel"
    <3>1. status'[o] = "cancelled"
      BY <1>1, <1>2, <2>3
    <3>2. Goods(o) = {}
      <4>1. \A l \in LinesOf(o) : line[l].actual <= 0 /\ line[l].actual \in Int
        <5>1. NothingReceived(o)
          BY <2>3, CommitFacts DEF Allowed
        <5>2. \A l \in Line : line[l].actual \in Int
          BY DEF IInv, TypeOK, Unreceived
        <5> QED BY <5>1, <5>2 DEF NothingReceived, LinesOf
      <4> QED BY <4>1 DEF Goods
    <3>3. grn[o] = 0
      BY <1>4, <3>2 DEF OrderMatches
    <3> QED BY <1>3, <1>4, <3>1, <3>2, <3>3 DEF OrderMatches
  <2> QED BY <1>1, <2>1, <2>2, <2>3
<1> QED BY <1>2, <1>5

(* ReceiveLine touches one line, of which nothing was recorded before. *)
ReceiveLineEffect(o, l) ==
  /\ l \in Line /\ OrderOf[l] = o
  /\ status' \in [Order -> Status] /\ version' \in [Order -> Nat] /\ grn' \in [Order -> Nat]
  /\ version'[o] = version[o] + 1
  /\ \A p \in Order \ {o} : status'[p] = status[p] /\ version'[p] = version[p] /\ grn'[p] = grn[p]
  /\ line' \in [Line -> LineType] /\ decision' \in [Line -> {"none", "open", "decided"}]
  /\ receipts' \in [Line -> Seq(ReceiptType)] /\ putaways' = putaways
  /\ onHand' \in [Place -> [Lot -> Nat]]
  /\ \A k \in Line \ {l} : line'[k] = line[k] /\ decision'[k] = decision[k] /\ receipts'[k] = receipts[k]
  /\ line'[l].actual \in Nat /\ line'[l].place = NoPlace
  /\ line'[l].actual = 0 => line'[l].status = "complete" /\ receipts'[l] = <<>>
  /\ line'[l].actual > 0 =>
       \E p \in Place : receipts'[l] = <<[place |-> p, lot |-> line'[l].lot, qty |-> line'[l].actual]>>
  /\ putaways[l] = <<>>
  /\ decision'[l] # "none" <=> \E i \in DOMAIN receipts'[l] : receipts'[l][i].place \in Quarantine
  /\ OrderMatches(o)'

LEMMA ReceiveKeeps ==
  ASSUME IInv, NEW s \in Session, Commit(s), CommitReceive(s), NEW o \in Order, o = job[s].order,
         NEW l \in Line, l = job[s].line
  PROVE  ReceiveLineEffect(o, l)
<1>1. /\ job[s].op = "receive" /\ l \in Line /\ OrderOf[l] = o /\ l \in LinesOf(o)
      /\ status[o] \in {"approved", "receiving"} /\ line[l].actual = Unreceived
  BY CommitFacts, Commands DEF CommitReceive, Allowed, ForLine, LinesOf
<1>2. PICK q \in 0..MaxQty[l], x \in LotsOf[l] :
        /\ line' = [line EXCEPT ![l] =
             [status |-> ReceivedStatus(l, q), actual |-> q, lot |-> x, place |-> NoPlace]]
        /\ IF q = 0 THEN UNCHANGED <<decision, receipts, onHand>>
           ELSE \E short \in BOOLEAN : \E p \in Route(short) :
                  /\ decision' = IF short THEN [decision EXCEPT ![l] = "open"] ELSE decision
                  /\ receipts' = [receipts EXCEPT ![l] = Append(@, [place |-> p, lot |-> x, qty |-> q])]
                  /\ onHand' = [onHand EXCEPT ![p][x] = @ + q]
  BY ZenonT(30) DEF CommitReceive
<1>3. q \in Nat /\ x \in Lot
  BY <1>1, InboundConstants
<1>4. /\ line' \in [Line -> LineType] /\ \A k \in Line \ {l} : line'[k] = line[k]
      /\ line'[l] = [status |-> ReceivedStatus(l, q), actual |-> q, lot |-> x, place |-> NoPlace]
  <2>1. ReceivedStatus(l, q) \in {"open", "partial", "complete"}
    BY DEF ReceivedStatus
  <2> QED BY <1>1, <1>2, <1>3, <2>1 DEF IInv, TypeOK, LineType
<1>5. receipts[l] = <<>> /\ putaways[l] = <<>> /\ line[l].place = NoPlace /\ decision[l] = "none"
  <2>1. receipts[l] = <<>> /\ line[l].place = NoPlace
    BY <1>1 DEF IInv, LineMovedOnce, MovedAsRecorded, Unreceived
  <2>2. putaways[l] = <<>>
    BY <1>1, <2>1 DEF IInv, LineMovedOnce, MovedAsRecorded
  <2>3. decision[l] = "none"
    BY <1>1, <2>1 DEF IInv, HeldUntilDecided
  <2> QED BY <2>1, <2>2, <2>3
<1>6. /\ decision' \in [Line -> {"none", "open", "decided"}] /\ receipts' \in [Line -> Seq(ReceiptType)]
      /\ onHand' \in [Place -> [Lot -> Nat]]
      /\ \A k \in Line \ {l} : decision'[k] = decision[k] /\ receipts'[k] = receipts[k]
      /\ q = 0 => receipts'[l] = <<>>
      /\ q > 0 => \E p \in Place : receipts'[l] = <<[place |-> p, lot |-> x, qty |-> q]>>
      /\ decision'[l] # "none" <=> \E i \in DOMAIN receipts'[l] : receipts'[l][i].place \in Quarantine
  <2>1. CASE q = 0
    <3>1. UNCHANGED <<decision, receipts, onHand>>
      BY <1>2, <2>1
    <3>2. DOMAIN receipts'[l] = {}
      BY <1>5, <3>1
    <3>3. ~\E i \in DOMAIN receipts'[l] : receipts'[l][i].place \in Quarantine
      BY <3>2
    <3>4. decision'[l] = "none" /\ receipts'[l] = <<>>
      BY <1>5, <3>1
    <3>5. receipts' \in [Line -> Seq(ReceiptType)]
      BY <3>1 DEF IInv, TypeOK, ReceiptType
    <3> QED BY <2>1, <3>1, <3>3, <3>4, <3>5 DEF IInv, TypeOK
  <2>2. CASE q # 0
    <3>0. PICK short \in BOOLEAN : \E p \in Route(short) :
            /\ decision' = IF short THEN [decision EXCEPT ![l] = "open"] ELSE decision
            /\ receipts' = [receipts EXCEPT ![l] = Append(@, [place |-> p, lot |-> x, qty |-> q])]
            /\ onHand' = [onHand EXCEPT ![p][x] = @ + q]
      BY <1>2, <2>2
    <3>1. PICK p \in Route(short) :
            /\ decision' = IF short THEN [decision EXCEPT ![l] = "open"] ELSE decision
            /\ receipts' = [receipts EXCEPT ![l] = Append(@, [place |-> p, lot |-> x, qty |-> q])]
            /\ onHand' = [onHand EXCEPT ![p][x] = @ + q]
      BY <3>0
    <3>2. p \in Place /\ (short <=> p \in Quarantine)
      BY <3>1, InboundConstants DEF Route, Place
    <3> DEFINE r == [place |-> p, lot |-> x, qty |-> q]
    <3>3. r \in ReceiptType /\ r.place = p
      BY <1>3, <3>2 DEF ReceiptType
    <3>4. Append(receipts[l], r) = <<r>> /\ <<r>> \in Seq(ReceiptType)
      BY <1>5, <3>3
    <3>5. receipts'[l] = <<r>> /\ receipts' \in [Line -> Seq(ReceiptType)]
          /\ \A k \in Line \ {l} : receipts'[k] = receipts[k]
      BY <1>1, <3>1, <3>4 DEF IInv, TypeOK, ReceiptType
    <3>7. (\E i \in DOMAIN receipts'[l] : receipts'[l][i].place \in Quarantine) <=> p \in Quarantine
      BY <3>3, <3>5
    <3>8. onHand' \in [Place -> [Lot -> Nat]]
      BY <1>3, <3>1, <3>2 DEF IInv, TypeOK
    <3>9. /\ decision' \in [Line -> {"none", "open", "decided"}]
          /\ decision'[l] # "none" <=> short
          /\ \A k \in Line \ {l} : decision'[k] = decision[k]
      BY <1>1, <1>5, <3>1 DEF IInv, TypeOK
    <3> QED BY <1>3, <2>2, <3>2, <3>5, <3>7, <3>8, <3>9
  <2> QED BY <2>1, <2>2
<1>7. /\ Received(o)' = Received(o) \cup {l} /\ UnreceivedLines(o) = LinesOf(o) \ Received(o)'
      /\ Stored(o)' = Stored(o) /\ LinesOf(o)' = LinesOf(o)
  <2>1. q # Unreceived
    BY <1>3 DEF Unreceived
  <2> QED BY <1>1, <1>4, <1>5, <2>1 DEF Received, UnreceivedLines, Stored, LinesOf
<1>8. OrderMatches(o) /\ Stored(o) \subseteq Received(o) /\ Received(o) \subseteq LinesOf(o)
  BY DEF IInv, OrderMatchesLines, LineMovedOnce, MovedAsRecorded, Stored, Received, LinesOf, Unreceived
<1>9. Stored(o) = {} /\ grn[o] = 0
  BY <1>1, <1>8 DEF OrderMatches
<1>10. \A k \in Line : line'[k].actual \in Nat \cup {Unreceived}
  BY <1>4 DEF LineType
<1>11. UnreceivedLines(o) = {} => (AllZero(o) <=> Goods(o)' = {})
  BY <1>10 DEF UnreceivedLines, AllZero, Goods, LinesOf, Unreceived
<1>12. /\ status' \in [Order -> Status] /\ version' \in [Order -> Nat]
       /\ status'[o] = IF UnreceivedLines(o) = {} THEN "received" ELSE "receiving"
       /\ version'[o] = version[o] + 1
       /\ \A p \in Order \ {o} : status'[p] = status[p] /\ version'[p] = version[p]
  <2>1. /\ {"received", "receiving"} \subseteq Status
        /\ Advance(o, IF UnreceivedLines(o) = {} THEN "received" ELSE "receiving")
    BY DEF Status, CommitReceive
  <2> QED BY <2>1, Advanced
<1>13. /\ grn' \in [Order -> Nat] /\ \A p \in Order \ {o} : grn'[p] = grn[p]
       /\ grn'[o] = IF UnreceivedLines(o) = {} /\ ~AllZero(o) THEN 1 ELSE 0
  BY <1>9 DEF CommitReceive, IInv, TypeOK
<1>14. OrderMatches(o)'
  BY <1>1, <1>7, <1>8, <1>9, <1>11, <1>12, <1>13 DEF OrderMatches
<1>15. ReceivedStatus(l, q) = "complete" \/ q # 0
  BY DEF ReceivedStatus
<1>16. putaways' = putaways
  BY DEF CommitReceive
<1>17. /\ line'[l].actual = q /\ line'[l].lot = x /\ line'[l].place = NoPlace
       /\ line'[l].status = ReceivedStatus(l, q)
  BY <1>4
<1>18. line'[l].actual = 0 => line'[l].status = "complete" /\ receipts'[l] = <<>>
  BY <1>6, <1>15, <1>17
<1>19. line'[l].actual > 0 =>
         \E p \in Place : receipts'[l] = <<[place |-> p, lot |-> line'[l].lot, qty |-> line'[l].actual]>>
  BY <1>6, <1>17
<1> QED BY <1>1, <1>3, <1>4, <1>5, <1>6, <1>12, <1>13, <1>14, <1>16, <1>17, <1>18, <1>19 DEF ReceiveLineEffect

(* ConfirmPutaway touches one line that has arrived and was not stored. *)
ConfirmPutawayEffect(o, l) ==
  /\ l \in Line /\ OrderOf[l] = o
  /\ status' \in [Order -> Status] /\ version' \in [Order -> Nat] /\ grn' = grn
  /\ version'[o] = version[o] + 1
  /\ \A p \in Order \ {o} : status'[p] = status[p] /\ version'[p] = version[p]
  /\ line' \in [Line -> LineType] /\ decision' = decision /\ receipts' = receipts
  /\ putaways' \in [Line -> Seq(PutawayType)] /\ onHand' \in [Place -> [Lot -> Nat]]
  /\ \A k \in Line \ {l} : line'[k] = line[k] /\ putaways'[k] = putaways[k]
  /\ line'[l].actual = line[l].actual /\ line'[l].lot = line[l].lot
  /\ line'[l].place # NoPlace /\ line[l].actual > 0 /\ line'[l].status = "complete"
  /\ \E p \in Receiving :
       putaways'[l] = <<[from |-> p, to |-> line'[l].place, lot |-> line[l].lot, qty |-> line[l].actual]>>
  /\ decision[l] # "open"
  /\ OrderMatches(o)'

LEMMA PutAwayKeeps ==
  ASSUME IInv, NEW s \in Session, Commit(s), CommitPutAway(s), NEW o \in Order, o = job[s].order,
         NEW l \in Line, l = job[s].line
  PROVE  ConfirmPutawayEffect(o, l)
<1> DEFINE x == line[l].lot
           q == line[l].actual
           src == source[s]
<1>1. /\ job[s].op = "putaway" /\ l \in Line /\ OrderOf[l] = o /\ l \in LinesOf(o)
      /\ status[o] \in {"received", "putaway"} /\ PutAwayAllowed(l) /\ src \in Receiving
  BY CommitFacts, Commands DEF CommitPutAway, Allowed, ForLine, LinesOf
<1>2. PICK p \in Targets \ {src} :
        /\ line' = [line EXCEPT ![l].status = "complete", ![l].place = p]
        /\ putaways' = [putaways EXCEPT ![l] = Append(@, [from |-> src, to |-> p, lot |-> x, qty |-> q])]
        /\ onHand' = [onHand EXCEPT ![src][x] = @ - q, ![p][x] = @ + q]
  BY DEF CommitPutAway, PutAwayQty
<1>3. /\ p \in Place /\ src \in Place /\ p # src /\ p # NoPlace
      /\ q \in Nat /\ q > 0 /\ onHand[src][x] >= q
  <2>1. q \in Nat
    BY <1>1 DEF IInv, TypeOK, PutAwayAllowed
  <2>2. q # 0
    BY <1>1 DEF IInv, EmptyLinesDone, PutAwayAllowed
  <2>3. onHand[src][x] >= q
    BY DEF CommitPutAway, PutAwayQty
  <2>4. p \in Place /\ src \in Place /\ NoPlace \notin Place
    BY <1>1, <1>2, InboundConstants DEF Place
  <2>5. p # src /\ p # NoPlace
    BY <1>2, <2>4
  <2> HIDE DEF q, src, x
  <2> QED BY <2>1, <2>2, <2>3, <2>4, <2>5
<1>4. x \in Lot
  <2>1. PICK r \in Place : receipts[l] = <<[place |-> r, lot |-> x, qty |-> q]>>
    BY <1>1, <1>3 DEF IInv, LineMovedOnce, MovedAsRecorded
  <2>2. receipts[l] \in Seq([place : Place, lot : Lot, qty : Nat])
    BY <1>1 DEF IInv, TypeOK
  <2>3. receipts[l][1] \in [place : Place, lot : Lot, qty : Nat] /\ receipts[l][1].lot = x
    BY <2>1, <2>2
  <2> QED BY <2>3
<1>5. /\ line' \in [Line -> LineType] /\ \A k \in Line \ {l} : line'[k] = line[k]
      /\ line'[l].actual = q /\ line'[l].lot = x /\ line'[l].place = p /\ line'[l].status = "complete"
  <2>1. line[l] \in LineType /\ line \in [Line -> LineType]
    BY <1>1 DEF IInv, TypeOK, LineType
  <2>2. line'[l] = [line[l] EXCEPT !.status = "complete", !.place = p]
    BY <1>1, <1>2, <2>1
  <2>3. /\ line'[l].actual = q /\ line'[l].lot = x /\ line'[l].place = p /\ line'[l].status = "complete"
        /\ line'[l] \in LineType
    BY <1>3, <2>1, <2>2 DEF LineType
  <2> QED BY <1>1, <1>2, <2>1, <2>3
<1>6. onHand' \in [Place -> [Lot -> Nat]]
  <2>1. onHand[src][x] - q \in Nat /\ onHand[p][x] + q \in Nat
    BY <1>3, <1>4 DEF IInv, TypeOK
  <2> QED BY <1>2, <1>3, <1>4, <2>1 DEF IInv, TypeOK
<1>7. putaways[l] = <<>>
  BY <1>1 DEF IInv, LineMovedOnce, MovedAsRecorded, PutAwayAllowed
<1> DEFINE m == [from |-> src, to |-> p, lot |-> x, qty |-> q]
<1>8. /\ putaways'[l] = <<m>> /\ putaways' \in [Line -> Seq(PutawayType)]
      /\ \A k \in Line \ {l} : putaways'[k] = putaways[k]
  <2>1. m \in PutawayType
    BY <1>3, <1>4 DEF PutawayType
  <2>2. Append(putaways[l], m) = <<m>> /\ <<m>> \in Seq(PutawayType)
    BY <1>7, <2>1
  <2> QED BY <1>1, <1>2, <2>2 DEF IInv, TypeOK, PutawayType
<1>9. /\ status' \in [Order -> Status] /\ version' \in [Order -> Nat]
      /\ status'[o] = "putaway" /\ version'[o] = version[o] + 1
      /\ \A r \in Order \ {o} : status'[r] = status[r] /\ version'[r] = version[r]
  <2>1. "putaway" \in Status /\ Advance(o, "putaway")
    BY DEF Status, CommitPutAway
  <2> QED BY <2>1, Advanced
<1>10. /\ Received(o)' = Received(o) /\ Goods(o)' = Goods(o) /\ Stored(o)' # {}
       /\ LinesOf(o)' = LinesOf(o) /\ grn' = grn
  <2>1. \A k \in Line : line'[k].actual = line[k].actual
    BY <1>5
  <2>2. Received(o)' = Received(o) /\ Goods(o)' = Goods(o) /\ LinesOf(o)' = LinesOf(o)
    BY <2>1 DEF Received, Goods, LinesOf
  <2>3. l \in Stored(o)'
    BY <1>1, <1>3, <1>5 DEF Stored, LinesOf
  <2>4. grn' = grn
    BY DEF CommitPutAway
  <2> QED BY <2>2, <2>3, <2>4
<1>11. OrderMatches(o)'
  BY <1>1, <1>9, <1>10 DEF IInv, OrderMatchesLines, OrderMatches
<1>12. decision' = decision /\ receipts' = receipts
  BY DEF CommitPutAway
<1> QED BY <1>1, <1>3, <1>5, <1>6, <1>8, <1>9, <1>10, <1>11, <1>12 DEF PutAwayAllowed, ConfirmPutawayEffect

(* What every commit leaves: its own order in line with its lines, other   *)
(* orders and their lines as they were, every line moved as it records.    *)
Kept(o) ==
  /\ status' \in [Order -> Status] /\ version' \in [Order -> Nat] /\ grn' \in [Order -> Nat]
  /\ line' \in [Line -> LineType] /\ decision' \in [Line -> {"none", "open", "decided"}]
  /\ receipts' \in [Line -> Seq(ReceiptType)] /\ putaways' \in [Line -> Seq(PutawayType)]
  /\ onHand' \in [Place -> [Lot -> Nat]]
  /\ \A p \in Order \ {o} : status'[p] = status[p] /\ version'[p] = version[p] /\ grn'[p] = grn[p]
  /\ \A l \in Line : OrderOf[l] # o => line'[l] = line[l] /\ decision'[l] = decision[l]
  /\ EmptyLinesDone' /\ LineMovedOnce' /\ HeldUntilDecided'

LEMMA MovedStays ==
  ASSUME NEW k \in Line, line'[k] = line[k], receipts'[k] = receipts[k], putaways'[k] = putaways[k],
         MovedAsRecorded(k)
  PROVE  MovedAsRecorded(k)'
  BY Zenon DEF MovedAsRecorded

LEMMA CommitKeepsTables ==
  ASSUME IInv, NEW s \in Session, Commit(s), NEW o \in Order, o = job[s].order
  PROVE  Kept(o) /\ OrderMatches(o)' /\ version'[o] = version[o] + 1
<1>1. CASE StatusStep(s)
  <2>1. LinesStay
    BY <1>1 DEF StatusStep, CommitApprove, CommitSchedule, CommitClose, CommitCancel
  <2>2. EmptyLinesDone' /\ LineMovedOnce' /\ HeldUntilDecided'
    BY <2>1 DEF LinesStay, IInv, EmptyLinesDone, LineMovedOnce, MovedAsRecorded, HeldUntilDecided
  <2> QED BY <1>1, <2>1, <2>2, StatusStepKeeps
          DEF LinesStay, Kept, IInv, TypeOK, LineType, ReceiptType, PutawayType
<1>2. CASE CommitReceive(s)
  <2> PICK l \in Line : l = job[s].line
    BY <1>2, CommitFacts DEF CommitReceive, ForLine
  <2>0. ReceiveLineEffect(o, l)
    BY <1>2, ReceiveKeeps
  <2>1. /\ l \in Line /\ OrderOf[l] = o
        /\ \A k \in Line \ {l} : line'[k] = line[k] /\ decision'[k] = decision[k] /\ receipts'[k] = receipts[k]
        /\ line'[l].actual \in Nat /\ line'[l].place = NoPlace
        /\ line'[l].actual = 0 => line'[l].status = "complete" /\ receipts'[l] = <<>>
        /\ line'[l].actual > 0 =>
             \E p \in Place : receipts'[l] = <<[place |-> p, lot |-> line'[l].lot, qty |-> line'[l].actual]>>
        /\ putaways' = putaways /\ putaways[l] = <<>>
        /\ decision'[l] # "none" <=> \E i \in DOMAIN receipts'[l] : receipts'[l][i].place \in Quarantine
    BY <2>0 DEF ReceiveLineEffect
  <2>2. EmptyLinesDone'
    BY <2>1 DEF IInv, EmptyLinesDone
  <2>3. LineMovedOnce'
    <3>1. MovedAsRecorded(l)'
      <4>1. CASE line'[l].actual > 0
        BY <2>1, <4>1 DEF MovedAsRecorded
      <4>2. CASE line'[l].actual = 0
        BY <2>1, <4>2 DEF MovedAsRecorded
      <4> QED BY <2>1, <4>1, <4>2
    <3>2. \A k \in Line \ {l} : MovedAsRecorded(k)'
      BY <2>1, MovedStays DEF IInv, LineMovedOnce
    <3> QED BY <3>1, <3>2 DEF LineMovedOnce
  <2>4. HeldUntilDecided'
    BY <2>1 DEF IInv, HeldUntilDecided
  <2> QED BY <1>2, <2>0, <2>1, <2>2, <2>3, <2>4 DEF ReceiveLineEffect, Kept, IInv, TypeOK, PutawayType
<1>3. CASE CommitPutAway(s)
  <2> PICK l \in Line : l = job[s].line
    BY <1>3, CommitFacts DEF CommitPutAway, ForLine
  <2>0. ConfirmPutawayEffect(o, l)
    BY <1>3, PutAwayKeeps
  <2>1. /\ l \in Line /\ OrderOf[l] = o
        /\ decision' = decision /\ receipts' = receipts
        /\ \A k \in Line \ {l} : line'[k] = line[k] /\ putaways'[k] = putaways[k]
        /\ line'[l].actual = line[l].actual /\ line'[l].lot = line[l].lot
        /\ line'[l].place # NoPlace /\ line[l].actual > 0 /\ line'[l].status = "complete"
        /\ \E p \in Receiving :
             putaways'[l] = <<[from |-> p, to |-> line'[l].place, lot |-> line[l].lot, qty |-> line[l].actual]>>
        /\ decision[l] # "open"
    BY <2>0 DEF ConfirmPutawayEffect
  <2>2. EmptyLinesDone'
    BY <2>1 DEF IInv, EmptyLinesDone
  <2>3. LineMovedOnce'
    <3>1. MovedAsRecorded(l)'
      <4>1. PICK p \in Receiving :
              putaways'[l] = <<[from |-> p, to |-> line'[l].place, lot |-> line[l].lot, qty |-> line[l].actual]>>
        BY <2>1
      <4>2. PICK p0 \in Place :
              receipts[l] = <<[place |-> p0, lot |-> line[l].lot, qty |-> line[l].actual]>>
        BY <2>1 DEF IInv, LineMovedOnce, MovedAsRecorded
      <4> QED BY <2>1, <4>1, <4>2 DEF MovedAsRecorded
    <3>2. \A k \in Line \ {l} : MovedAsRecorded(k)'
      BY <2>1, MovedStays DEF IInv, LineMovedOnce
    <3> QED BY <3>1, <3>2 DEF LineMovedOnce
  <2>4. HeldUntilDecided'
    BY <2>1 DEF IInv, HeldUntilDecided
  <2> QED BY <1>3, <2>0, <2>1, <2>2, <2>3, <2>4 DEF ConfirmPutawayEffect, Kept, IInv, TypeOK, ReceiptType
<1> QED BY <1>1, <1>2, <1>3 DEF Commit, StatusStep

LEMMA CommitKeeps ==
  ASSUME IInv, NEW s \in Session, Commit(s)
  PROVE  IInv'
<1>1. PICK o \in Order : o = job[s].order
  BY CommitFacts
<1>2. Kept(o) /\ OrderMatches(o)' /\ Release(s) /\ UNCHANGED others
  BY <1>1, CommitKeepsTables DEF Commit
<1>3. TypeOK' /\ JobOK'
  BY <1>2, Released DEF Kept, IInv, TypeOK, others, LineType, ReceiptType, PutawayType
<1>4. OrderMatchesLines'
  <2> SUFFICES ASSUME NEW p \in Order, p # o PROVE OrderMatches(p)'
    BY <1>2 DEF OrderMatchesLines
  <2>1. status'[p] = status[p] /\ grn'[p] = grn[p]
    BY <1>2 DEF Kept
  <2>2. \A l \in LinesOf(p) : line'[l] = line[l]
    BY <1>2 DEF Kept, LinesOf
  <2>3. /\ Received(p)' = Received(p) /\ Stored(p)' = Stored(p) /\ Goods(p)' = Goods(p)
        /\ LinesOf(p)' = LinesOf(p)
    BY <2>2 DEF Received, Stored, Goods, LinesOf
  <2> QED BY <2>1, <2>3 DEF IInv, OrderMatchesLines, OrderMatches
<1>5. LockedOrders'
  <2> SUFFICES ASSUME NEW t \in Session PROVE HasOrder(t)'
    BY DEF LockedOrders
  <2>1. CASE t = s
    BY <1>2, <2>1, Released DEF HasOrder, InTransaction
  <2>2. CASE t # s
    <3>1. ASSUME InTransaction(t)
          PROVE  /\ OrderIsFree(t)' /\ job[t].order # o /\ job[t].order \in Order
      <4>1. OrderIsFree(t) /\ job[t].order \in Order
        BY <3>1, JobFields DEF IInv, LockedOrders, HasOrder, InTransaction
      <4>2. job[t].order # o
        BY <1>1, <2>2, <4>1, CommitFacts DEF OrderIsFree
      <4>3. OrderIsFree(t)'
        BY <1>2, <2>2, <4>1, Released DEF OrderIsFree, InTransaction
      <4> QED BY <4>1, <4>2, <4>3
    <3>2. InTransaction(t) =>
            /\ OrderIsFree(t)'
            /\ status'[job[t].order] = status[job[t].order]
            /\ version'[job[t].order] = version[job[t].order]
            /\ \A l \in LinesOf(job[t].order) :
                 line'[l] = line[l] /\ (decision'[l] = "open" => decision[l] = "open")
      BY <1>2, <3>1 DEF Kept, LinesOf
    <3> QED BY <1>2, <2>2, <3>2, Released, HasOrderStays
  <2> QED BY <2>1, <2>2
<1> QED BY <1>2, <1>3, <1>4, <1>5 DEF Kept, IInv

LEMMA NextInv == IInv /\ [Next]_vars => IInv'
<1> SUFFICES ASSUME IInv, [Next]_vars PROVE IInv'
  OBVIOUS
<1>1. CASE \E s \in Session : Send(s) \/ LockOrder(s) \/ Commit(s) \/ Rollback(s)
  BY <1>1, SendKeeps, LockOrderKeeps, CommitKeeps, RollbackKeeps
<1>2. CASE \E l \in Line : Decide(l)
  BY <1>2, DecideKeeps
<1>3. CASE \E p \in Exposed, x \in Lot : OtherPosting(p, x)
  BY <1>3, OtherPostingKeeps
<1>4. CASE UNCHANGED vars
  <2>1. UNCHANGED <<orders, decision>> /\ TypeOK' /\ JobOK'
    BY <1>4 DEF vars, orders, others, session, IInv, TypeOK, JobOK
  <2>2. LockedOrders'
    BY <1>4 DEF vars, orders, others, session, IInv, LockedOrders, HasOrder, InTransaction, OrderIsFree,
           UpToDate, Allowed, PutAwayAllowed, NoBlockingLines, NothingReceived, LinesOf
  <2> QED BY <2>1, <2>2, TablesStay DEF IInv
<1> QED BY <1>1, <1>2, <1>3, <1>4 DEF Next

(* What a command of inbound-orders found under the lock of its order      *)
(* still holds when it commits, for any number of sessions and orders.     *)
THEOREM InboundInvariant == Spec => []IInv
<1>1. Init => IInv
  BY InitInv
<1>2. IInv /\ [Next]_vars => IInv'
  BY NextInv
<1> QED BY <1>1, <1>2, PTL DEF Spec

(* The last line's receipt, the GRN, the close and the cancel of an order  *)
(* agree with its lines (receive-line.ts, close-inbound.ts).               *)
THEOREM OrdersMatchLines == Spec => []OrderMatchesLines
<1>1. IInv => OrderMatchesLines
  BY DEF IInv
<1> QED BY <1>1, InboundInvariant, PTL

(* The re-entry guards of receive-line.ts and confirm-putaway.ts, and      *)
(* D-211 for the line: a line is received once and put away once, and      *)
(* quarantined goods wait for their decision.                              *)
THEOREM MovedOnceWhenDecided == Spec => []MovedOnceWhenFree
<1>1. IInv => MovedOnceWhenFree
  BY DEF IInv, MovedOnceWhenFree
<1> QED BY <1>1, InboundInvariant, PTL

-----------------------------------------------------------------------------
(* The sums: what each commit does to the stock of a lot and to the lines  *)
(* that account for it.                                                    *)
ActualQty == [l \in Line |-> line[l].actual]
StockOf(x) == [p \in Place |-> onHand[p][x] + taken[p][x]]
GoodsOf(x) == {l \in Line : line[l].actual > 0 /\ line[l].lot = x}
StoredAt(x, p) == {l \in GoodsOf(x) : line[l].place = p}
ReceivedAt(x, p) == {l \in GoodsOf(x) : receipts[l][1].place = p}

Accounted(x) ==
  /\ SumFunctionOnSet(StockOf(x), Place) = SumFunctionOnSet(ActualQty, GoodsOf(x))
  /\ \A p \in Storage \cup Quarantine :
       StockOf(x)[p] = SumFunctionOnSet(ActualQty, StoredAt(x, p)) + SumFunctionOnSet(ActualQty, ReceivedAt(x, p))

LEMMA AccountedSum == StockAccounted <=> \A x \in Lot : Accounted(x)
<1>1. ASSUME NEW x \in Lot
      PROVE  /\ {l \in {l \in Line : line[l].actual > 0} : line[l].lot = x} = GoodsOf(x)
             /\ \A p \in Place :
                  /\ {l \in {l \in {l \in Line : line[l].actual > 0} : line[l].place = p} : line[l].lot = x}
                       = StoredAt(x, p)
                  /\ {l \in {l \in {l \in Line : line[l].actual > 0} : receipts[l][1].place = p} : line[l].lot = x}
                       = ReceivedAt(x, p)
                  /\ StockOf(x)[p] = onHand[p][x] + taken[p][x]
  BY DEF GoodsOf, StoredAt, ReceivedAt, StockOf
<1>2. Storage \cup Quarantine \subseteq Place
  BY DEF Place
<1> QED  BY <1>1, <1>2, ZenonT(30) DEF StockAccounted, Accounted, ActualQty, StockOf

LEMMA AccountTypes ==
  ASSUME TypeOK
  PROVE  /\ \A l \in Line : ActualQty[l] = line[l].actual /\ ActualQty[l] \in Int
         /\ \A x \in Lot, p \in Place : StockOf(x)[p] = onHand[p][x] + taken[p][x] /\ StockOf(x)[p] \in Int
         /\ \A x \in Lot : \A S \in SUBSET GoodsOf(x) : IsFiniteSet(S) /\ S \subseteq Line
<1>1. \A l \in Line : ActualQty[l] = line[l].actual /\ ActualQty[l] \in Int
  BY DEF ActualQty, TypeOK, Unreceived
<1>2. \A x \in Lot, p \in Place : StockOf(x)[p] = onHand[p][x] + taken[p][x] /\ StockOf(x)[p] \in Int
  BY DEF StockOf, TypeOK
<1>3. \A x \in Lot : \A S \in SUBSET GoodsOf(x) : IsFiniteSet(S) /\ S \subseteq Line
  BY InboundConstants, FS_Subset DEF GoodsOf
<1> QED  BY <1>1, <1>2, <1>3

LEMMA InitAccounts == Init => StockAccounted
<1> SUFFICES ASSUME Init, NEW x \in Lot PROVE Accounted(x)
  BY AccountedSum
<1>1. GoodsOf(x) = {}
  BY DEF Init, GoodsOf, Unreceived
<1>2. \A p \in Place : StoredAt(x, p) = {} /\ ReceivedAt(x, p) = {} /\ StockOf(x)[p] = 0
  BY <1>1 DEF Init, StoredAt, ReceivedAt, StockOf
<1>3. SumFunctionOnSet(StockOf(x), Place) = 0
  BY <1>2, InboundConstants, SumOfZeroes
<1>4. Storage \cup Quarantine \subseteq Place
  BY DEF Place
<1> QED  BY <1>1, <1>2, <1>3, <1>4, SumOfNone DEF Accounted

(* The sum over some lines reads only their quantities.                    *)
LEMMA QtyStays ==
  ASSUME TypeOK, NEW x \in Lot, NEW S \in SUBSET GoodsOf(x),
         \A l \in S : line'[l].actual = line[l].actual
  PROVE  SumFunctionOnSet(ActualQty', S) = SumFunctionOnSet(ActualQty, S)
<1>1. IsFiniteSet(S) /\ S \subseteq Line
  BY AccountTypes
<1>2. \A l \in S : ActualQty'[l] = ActualQty[l]
  BY <1>1 DEF ActualQty
<1> QED  BY <1>1, <1>2, SumOfEquals

LEMMA QtyJoins ==
  ASSUME TypeOK, NEW x \in Lot, NEW S \in SUBSET GoodsOf(x), NEW l \in Line, l \notin S, NEW q \in Int,
         line'[l].actual = q, \A k \in S : line'[k].actual = line[k].actual
  PROVE  SumFunctionOnSet(ActualQty', S \cup {l}) = SumFunctionOnSet(ActualQty, S) + q
<1>1. IsFiniteSet(S) /\ S \subseteq Line
  BY AccountTypes
<1>2. \A k \in S : ActualQty[k] \in Int /\ ActualQty'[k] = ActualQty[k]
  BY <1>1, AccountTypes DEF ActualQty
<1>3. ActualQty'[l] = q
  BY DEF ActualQty
<1>4. ActualQty'[l] \in Int
  BY <1>3
<1>5. SumFunctionOnSet(ActualQty', S \cup {l}) = SumFunctionOnSet(ActualQty, S) + ActualQty'[l]
  BY <1>1, <1>2, <1>4, SumJoins
<1> QED  BY <1>3, <1>5

(* Nothing of a lot changes while its lines, receipts and stock stay.      *)
LEMMA LotStays ==
  ASSUME NEW x \in Lot, Accounted(x), TypeOK,
         \A l \in Line : (l \in GoodsOf(x)' <=> l \in GoodsOf(x)),
         \A l \in GoodsOf(x) : /\ line'[l].actual = line[l].actual /\ line'[l].place = line[l].place
                               /\ receipts'[l] = receipts[l],
         \A p \in Place : onHand'[p][x] + taken'[p][x] = onHand[p][x] + taken[p][x]
  PROVE  Accounted(x)'
<1>1. GoodsOf(x)' = GoodsOf(x)
  BY DEF GoodsOf
<1>2. \A p \in Place : StoredAt(x, p)' = StoredAt(x, p) /\ ReceivedAt(x, p)' = ReceivedAt(x, p)
  BY <1>1 DEF StoredAt, ReceivedAt
<1>3. StockOf(x)' = StockOf(x)
  BY DEF StockOf
<1>4. \A S \in SUBSET GoodsOf(x) : SumFunctionOnSet(ActualQty', S) = SumFunctionOnSet(ActualQty, S)
  BY QtyStays
<1>5. \A p \in Place : StoredAt(x, p) \in SUBSET GoodsOf(x) /\ ReceivedAt(x, p) \in SUBSET GoodsOf(x)
  BY DEF StoredAt, ReceivedAt
<1>6. Storage \cup Quarantine \subseteq Place
  BY DEF Place
<1>7. SumFunctionOnSet(StockOf(x)', Place) = SumFunctionOnSet(ActualQty', GoodsOf(x)')
  BY <1>1, <1>3, <1>4 DEF Accounted
<1>8. ASSUME NEW p \in Storage \cup Quarantine
      PROVE  StockOf(x)'[p] = SumFunctionOnSet(ActualQty', StoredAt(x, p)') + SumFunctionOnSet(ActualQty', ReceivedAt(x, p)')
  <2>1. StockOf(x)[p] = SumFunctionOnSet(ActualQty, StoredAt(x, p)) + SumFunctionOnSet(ActualQty, ReceivedAt(x, p))
    BY DEF Accounted
  <2>2. p \in Place
    BY <1>6
  <2> QED  BY <1>2, <1>3, <1>4, <1>5, <2>1, <2>2
<1> QED  BY <1>7, <1>8 DEF Accounted

(* A step that receives and stores nothing.                                *)
LEMMA LinesStayAccounted ==
  ASSUME IInv, NEW z \in Lot, Accounted(z), line' = line, receipts' = receipts,
         \A p \in Place : onHand'[p][z] + taken'[p][z] = onHand[p][z] + taken[p][z]
  PROVE  Accounted(z)'
<1>1. TypeOK
  BY DEF IInv
<1>2. GoodsOf(z)' = GoodsOf(z)
  BY DEF GoodsOf
<1> QED  BY <1>1, <1>2, LotStays

LEMMA ReceiveAccounts ==
  ASSUME IInv, NEW s \in Session, Commit(s), CommitReceive(s), NEW z \in Lot, Accounted(z)
  PROVE  Accounted(z)'
<1> DEFINE l == job[s].line
<1>0. TypeOK /\ taken' = taken
  BY DEF IInv, Commit, others
<1>1. l \in Line /\ line[l].actual = Unreceived /\ receipts[l] = <<>> /\ line \in [Line -> LineType]
  <2>1. l \in Line /\ line[l].actual = Unreceived
    BY CommitFacts, Commands DEF CommitReceive, Allowed, ForLine
  <2>2. receipts[l] = <<>>
    BY <2>1 DEF IInv, LineMovedOnce, MovedAsRecorded, Unreceived
  <2> QED  BY <1>0, <2>1, <2>2 DEF TypeOK, LineType
<1>2. PICK q \in 0..MaxQty[l], x \in LotsOf[l] :
        /\ line' = [line EXCEPT ![l] =
             [status |-> ReceivedStatus(l, q), actual |-> q, lot |-> x, place |-> NoPlace]]
        /\ IF q = 0 THEN UNCHANGED <<decision, receipts, onHand>>
           ELSE \E short \in BOOLEAN : \E p \in Route(short) :
                  /\ decision' = IF short THEN [decision EXCEPT ![l] = "open"] ELSE decision
                  /\ receipts' = [receipts EXCEPT ![l] = Append(@, [place |-> p, lot |-> x, qty |-> q])]
                  /\ onHand' = [onHand EXCEPT ![p][x] = @ + q]
  BY DEF CommitReceive
<1> HIDE DEF l
<1>3. q \in Nat /\ x \in Lot
  BY <1>1, InboundConstants
<1>4. /\ \A k \in Line \ {l} : line'[k] = line[k]
      /\ line'[l].actual = q /\ line'[l].lot = x /\ line'[l].place = NoPlace
  <2>1. line'[l] = [status |-> ReceivedStatus(l, q), actual |-> q, lot |-> x, place |-> NoPlace]
    BY <1>1, <1>2
  <2> QED  BY <1>1, <1>2, <2>1
<1>5. \A y \in Lot : l \notin GoodsOf(y) /\ GoodsOf(y) \in SUBSET Line
  BY <1>1 DEF GoodsOf, Unreceived
<1>6. CASE q = 0
  <2>1. \A k \in Line : (k \in GoodsOf(z)' <=> k \in GoodsOf(z))
    BY <1>1, <1>4, <1>5, <1>6 DEF GoodsOf
  <2>2. \A k \in GoodsOf(z) : line'[k] = line[k]
    BY <1>4, <1>5
  <2>3. receipts' = receipts /\ onHand' = onHand
    BY <1>2, <1>6
  <2> QED  BY <1>0, <2>1, <2>2, <2>3, LotStays
<1>7. CASE q # 0
  <2>1. PICK p \in Place :
          /\ receipts' = [receipts EXCEPT ![l] = Append(@, [place |-> p, lot |-> x, qty |-> q])]
          /\ onHand' = [onHand EXCEPT ![p][x] = @ + q]
    BY <1>2, <1>7 DEF Route, Place
  <2>2. /\ receipts'[l][1].place = p
        /\ \A k \in Line \ {l} : receipts'[k] = receipts[k]
    BY <1>0, <1>1, <2>1 DEF TypeOK
  <2>3. \A r \in Place, y \in Lot :
          onHand'[r][y] = IF r = p /\ y = x THEN onHand[r][y] + q ELSE onHand[r][y]
    BY <1>0, <1>3, <2>1 DEF TypeOK
  <2>4. CASE z # x
    <3>1. \A k \in Line : (k \in GoodsOf(z)' <=> k \in GoodsOf(z))
      BY <1>1, <1>4, <1>5, <2>4 DEF GoodsOf
    <3>2. \A k \in GoodsOf(z) : line'[k] = line[k] /\ receipts'[k] = receipts[k]
      BY <1>4, <1>5, <2>2
    <3>3. \A r \in Place : onHand'[r][z] = onHand[r][z]
      BY <2>3, <2>4
    <3> QED  BY <1>0, <3>1, <3>2, <3>3, LotStays
  <2>5. CASE z = x
    <3>1. GoodsOf(z)' = GoodsOf(z) \cup {l}
      BY <1>1, <1>3, <1>4, <1>5, <1>7, <2>5 DEF GoodsOf
    <3>2. \A k \in GoodsOf(z) : k # l /\ line'[k] = line[k] /\ receipts'[k] = receipts[k]
      BY <1>4, <1>5, <2>2
    <3>3. \A S \in SUBSET GoodsOf(z) :
            /\ SumFunctionOnSet(ActualQty', S \cup {l}) = SumFunctionOnSet(ActualQty, S) + q
            /\ SumFunctionOnSet(ActualQty', S) = SumFunctionOnSet(ActualQty, S)
      <4> TAKE S \in SUBSET GoodsOf(z)
      <4>1. l \notin S /\ \A k \in S : line'[k].actual = line[k].actual
        BY <3>2
      <4> QED  BY <1>0, <1>1, <1>3, <1>4, <4>1, QtyJoins, QtyStays
    <3>4. \A r \in Place :
            /\ StockOf(z)[r] \in Int
            /\ StockOf(z)'[r] = IF r = p THEN StockOf(z)[r] + q ELSE StockOf(z)[r]
      <4> TAKE r \in Place
      <4>1. /\ StockOf(z)'[r] = onHand'[r][z] + taken[r][z]
            /\ StockOf(z)[r] = onHand[r][z] + taken[r][z]
        BY <1>0 DEF StockOf
      <4>2. onHand[r][z] \in Int /\ taken[r][z] \in Int
        BY <1>0 DEF TypeOK
      <4>3. onHand'[r][z] = IF r = p THEN onHand[r][z] + q ELSE onHand[r][z]
        BY <2>3, <2>5
      <4> QED  BY <1>3, <4>1, <4>2, <4>3
    <3>5. SumFunctionOnSet(StockOf(z)', Place) = SumFunctionOnSet(StockOf(z), Place) + q
      <4>1. \A r \in Place : StockOf(z)[r] \in Int /\ StockOf(z)'[r] \in Int
        BY <1>3, <3>4
      <4>2. SumFunctionOnSet(StockOf(z)', Place)
              = SumFunctionOnSet(StockOf(z), Place) + (StockOf(z)'[p] - StockOf(z)[p])
        BY <3>4, <4>1, InboundConstants, SumChanges
      <4>3. StockOf(z)'[p] - StockOf(z)[p] = q
        BY <1>3, <3>4
      <4> QED  BY <4>2, <4>3
    <3>6. \A r \in Storage \cup Quarantine :
            /\ r \in Place
            /\ StoredAt(z, r)' = StoredAt(z, r)
            /\ ReceivedAt(z, r)' = IF r = p THEN ReceivedAt(z, r) \cup {l} ELSE ReceivedAt(z, r)
            /\ StoredAt(z, r) \in SUBSET GoodsOf(z) /\ ReceivedAt(z, r) \in SUBSET GoodsOf(z)
      <4> TAKE r \in Storage \cup Quarantine
      <4>1. r \in Place /\ r # NoPlace
        BY InboundConstants DEF Place
      <4>2. StoredAt(z, r)' = StoredAt(z, r)
        BY <1>4, <3>1, <3>2, <4>1 DEF StoredAt
      <4>3. ReceivedAt(z, r)' = {k \in GoodsOf(z) \cup {l} : receipts'[k][1].place = r}
        BY <3>1 DEF ReceivedAt
      <4>4. ReceivedAt(z, r)' = IF r = p THEN ReceivedAt(z, r) \cup {l} ELSE ReceivedAt(z, r)
        BY <2>2, <3>2, <4>3 DEF ReceivedAt
      <4> QED  BY <4>1, <4>2, <4>4 DEF StoredAt, ReceivedAt
    <3>7. SumFunctionOnSet(StockOf(z)', Place) = SumFunctionOnSet(ActualQty', GoodsOf(z)')
      BY <3>1, <3>3, <3>5 DEF Accounted
    <3>8. ASSUME NEW r \in Storage \cup Quarantine
          PROVE  StockOf(z)'[r]
                   = SumFunctionOnSet(ActualQty', StoredAt(z, r)') + SumFunctionOnSet(ActualQty', ReceivedAt(z, r)')
      <4> DEFINE stored == SumFunctionOnSet(ActualQty, StoredAt(z, r))
                 received == SumFunctionOnSet(ActualQty, ReceivedAt(z, r))
      <4>1. StockOf(z)[r] = stored + received
        BY DEF Accounted
      <4>2. SumFunctionOnSet(ActualQty', StoredAt(z, r)') = stored
        BY <3>3, <3>6
      <4>3. SumFunctionOnSet(ActualQty', ReceivedAt(z, r)') = IF r = p THEN received + q ELSE received
        BY <3>3, <3>6
      <4>4. stored \in Int /\ received \in Int
        <5>1. \A S \in SUBSET GoodsOf(z) : IsFiniteSet(S) /\ \A k \in S : ActualQty[k] \in Int
          BY <1>0, AccountTypes
        <5> QED  BY <3>6, <5>1, SumIsInt
      <4>5. StockOf(z)'[r] = IF r = p THEN StockOf(z)[r] + q ELSE StockOf(z)[r]
        BY <3>4, <3>6
      <4> HIDE DEF stored, received
      <4> QED  BY <1>3, <4>1, <4>2, <4>3, <4>4, <4>5
    <3> QED  BY <3>7, <3>8 DEF Accounted
  <2> QED  BY <2>4, <2>5
<1> QED  BY <1>6, <1>7

LEMMA PutAwayAccounts ==
  ASSUME IInv, NEW s \in Session, Commit(s), CommitPutAway(s), NEW z \in Lot, Accounted(z)
  PROVE  Accounted(z)'
<1> DEFINE l == job[s].line
           x == line[l].lot
           q == line[l].actual
           src == source[s]
<1>0. TypeOK /\ taken' = taken /\ receipts' = receipts
  BY DEF IInv, Commit, CommitPutAway, others
<1>1. /\ l \in Line /\ PutAwayAllowed(l) /\ src \in Receiving /\ line \in [Line -> LineType]
      /\ line[l].place = NoPlace
  BY <1>0, CommitFacts, Commands DEF CommitPutAway, Allowed, ForLine, PutAwayAllowed, TypeOK, LineType
<1>2. PICK p \in Targets \ {src} :
        /\ line' = [line EXCEPT ![l].status = "complete", ![l].place = p]
        /\ onHand' = [onHand EXCEPT ![src][x] = @ - q, ![p][x] = @ + q]
  BY DEF CommitPutAway, PutAwayQty
<1>3. p \in Place /\ src \in Place /\ p # src /\ q \in Nat /\ q > 0
  <2>1. q \in Nat
    BY <1>1 DEF IInv, TypeOK, PutAwayAllowed
  <2>2. q # 0
    BY <1>1 DEF IInv, EmptyLinesDone, PutAwayAllowed
  <2>3. p \in Place /\ src \in Place /\ p # src
    BY <1>1, <1>2, InboundConstants DEF Place
  <2> HIDE DEF q, src
  <2> QED  BY <2>1, <2>2, <2>3
<1>4. /\ \A k \in Line \ {l} : line'[k] = line[k]
      /\ line'[l].actual = q /\ line'[l].lot = x /\ line'[l].place = p
  <2>1. line'[l] = [line[l] EXCEPT !.status = "complete", !.place = p]
    BY <1>1, <1>2
  <2>2. line[l] \in LineType
    BY <1>1
  <2>3. line'[l].actual = q /\ line'[l].lot = x /\ line'[l].place = p
    BY <2>1, <2>2 DEF LineType
  <2> QED  BY <1>1, <1>2, <2>3
<1>5. \A r \in Place, y \in Lot :
        onHand'[r][y] = IF y # x THEN onHand[r][y]
                        ELSE IF r = p THEN onHand[r][y] + q
                        ELSE IF r = src THEN onHand[r][y] - q ELSE onHand[r][y]
  <2> HIDE DEF l, x, q, src
  <2> DEFINE h == [onHand EXCEPT ![src][x] = @ - q]
  <2>1. onHand \in [Place -> [Lot -> Nat]] /\ onHand' = [h EXCEPT ![p][x] = @ + q]
    BY <1>0, <1>2 DEF TypeOK
  <2>2. /\ DOMAIN h = Place /\ \A r \in Place : DOMAIN h[r] = Lot
        /\ \A r \in Place, y \in Lot : h[r][y] = IF r = src /\ y = x THEN onHand[r][y] - q ELSE onHand[r][y]
    BY <1>3, <2>1
  <2> HIDE DEF h
  <2>3. \A r \in Place, y \in Lot : onHand'[r][y] = IF r = p /\ y = x THEN h[r][y] + q ELSE h[r][y]
    BY <1>3, <2>1, <2>2
  <2> QED  BY <1>3, <2>2, <2>3
<1> HIDE DEF l, x, q, src
<1>6. \A k \in Line : (k \in GoodsOf(z)' <=> k \in GoodsOf(z))
  <2> TAKE k \in Line
  <2>1. line'[k].actual = line[k].actual /\ line'[k].lot = line[k].lot
    BY <1>4 DEF x, q
  <2> QED  BY <2>1 DEF GoodsOf
<1>7. CASE z # x
  <2>1. \A k \in GoodsOf(z) : line'[k] = line[k]
    BY <1>4, <1>7 DEF GoodsOf, x
  <2>2. \A r \in Place : onHand'[r][z] = onHand[r][z]
    BY <1>5, <1>7
  <2> QED  BY <1>0, <1>6, <2>1, <2>2, LotStays
<1>8. CASE z = x
  <2>1. GoodsOf(z)' = GoodsOf(z) /\ l \in GoodsOf(z)
    BY <1>1, <1>3, <1>6, <1>8 DEF GoodsOf, x, q
  <2>2. \A k \in Line : line'[k].actual = line[k].actual
    BY <1>4 DEF q
  <2>3. \A r \in Place :
          /\ StockOf(z)[r] \in Int
          /\ StockOf(z)'[r] = IF r = p THEN StockOf(z)[r] + q
                              ELSE IF r = src THEN StockOf(z)[r] - q ELSE StockOf(z)[r]
    <3> TAKE r \in Place
    <3>1. /\ StockOf(z)'[r] = onHand'[r][z] + taken[r][z]
          /\ StockOf(z)[r] = onHand[r][z] + taken[r][z]
      BY <1>0 DEF StockOf
    <3>2. onHand[r][z] \in Int /\ taken[r][z] \in Int
      BY <1>0 DEF TypeOK
    <3>3. onHand'[r][z] = IF r = p THEN onHand[r][z] + q
                          ELSE IF r = src THEN onHand[r][z] - q ELSE onHand[r][z]
      BY <1>5, <1>8
    <3> QED  BY <1>3, <3>1, <3>2, <3>3
  <2>4. SumFunctionOnSet(StockOf(z)', Place) = SumFunctionOnSet(StockOf(z), Place)
    <3> DEFINE f == StockOf(z)
               e == StockOf(z)'
               h == [r \in Place |-> IF r = src THEN f[r] - q ELSE f[r]]
    <3>1. \A r \in Place : f[r] \in Int /\ h[r] \in Int /\ e[r] \in Int
      BY <1>3, <2>3
    <3>2. /\ h[src] - f[src] = -q /\ \A r \in Place \ {src} : h[r] = f[r]
          /\ e[p] - h[p] = q /\ \A r \in Place \ {p} : e[r] = h[r]
      BY <1>3, <2>3
    <3>3. SumFunctionOnSet(f, Place) \in Int
      BY <3>1, InboundConstants, SumIsInt
    <3> HIDE DEF f, e, h
    <3>4. SumFunctionOnSet(h, Place) = SumFunctionOnSet(f, Place) + (h[src] - f[src])
      BY <1>3, <3>1, <3>2, InboundConstants, SumChanges
    <3>5. SumFunctionOnSet(e, Place) = SumFunctionOnSet(h, Place) + (e[p] - h[p])
      BY <1>3, <3>1, <3>2, InboundConstants, SumChanges
    <3>6. SumFunctionOnSet(e, Place) = SumFunctionOnSet(f, Place)
      BY <1>3, <3>2, <3>3, <3>4, <3>5
    <3> QED  BY <3>6 DEF f, e
  <2>5. SumFunctionOnSet(StockOf(z)', Place) = SumFunctionOnSet(ActualQty', GoodsOf(z)')
    <3>1. SumFunctionOnSet(ActualQty', GoodsOf(z)) = SumFunctionOnSet(ActualQty, GoodsOf(z))
      <4>1. GoodsOf(z) \in SUBSET GoodsOf(z) /\ \A k \in GoodsOf(z) : line'[k].actual = line[k].actual
        BY <2>2 DEF GoodsOf
      <4> QED  BY <1>0, <4>1, QtyStays
    <3> QED  BY <2>1, <2>4, <3>1 DEF Accounted
  <2>6. ASSUME NEW r \in Storage \cup Quarantine
        PROVE  StockOf(z)'[r]
                 = SumFunctionOnSet(ActualQty', StoredAt(z, r)') + SumFunctionOnSet(ActualQty', ReceivedAt(z, r)')
    <3> DEFINE stored == SumFunctionOnSet(ActualQty, StoredAt(z, r))
               received == SumFunctionOnSet(ActualQty, ReceivedAt(z, r))
    <3>1. r \in Place /\ r # NoPlace /\ r # src
      BY <1>1, InboundConstants DEF Place
    <3>2. /\ StoredAt(z, r)' = IF r = p THEN StoredAt(z, r) \cup {l} ELSE StoredAt(z, r)
          /\ l \notin StoredAt(z, r)
      BY <1>1, <1>4, <2>1, <3>1 DEF StoredAt, GoodsOf
    <3>3. ReceivedAt(z, r)' = ReceivedAt(z, r)
      BY <1>0, <2>1 DEF ReceivedAt
    <3>4. StoredAt(z, r) \in SUBSET GoodsOf(z) /\ ReceivedAt(z, r) \in SUBSET GoodsOf(z) /\ GoodsOf(z) \in SUBSET Line
      BY DEF StoredAt, ReceivedAt, GoodsOf
    <3>5. SumFunctionOnSet(ActualQty', ReceivedAt(z, r)') = received
      <4>1. \A k \in ReceivedAt(z, r) : line'[k].actual = line[k].actual
        BY <2>2, <3>4
      <4>2. SumFunctionOnSet(ActualQty', ReceivedAt(z, r)) = received
        BY <1>0, <3>4, <4>1, QtyStays
      <4> QED  BY <3>3, <4>2
    <3>6. SumFunctionOnSet(ActualQty', StoredAt(z, r)') = IF r = p THEN stored + q ELSE stored
      <4>1. \A k \in StoredAt(z, r) : line'[k].actual = line[k].actual
        BY <2>2, <3>4
      <4>2. SumFunctionOnSet(ActualQty', StoredAt(z, r)) = stored
        BY <1>0, <3>4, <4>1, QtyStays
      <4>3. SumFunctionOnSet(ActualQty', StoredAt(z, r) \cup {l}) = stored + q
        BY <1>0, <1>1, <1>3, <1>4, <3>2, <3>4, <4>1, QtyJoins
      <4> QED  BY <3>2, <4>2, <4>3
    <3>7. stored \in Int /\ received \in Int
      <4>1. \A S \in SUBSET GoodsOf(z) : IsFiniteSet(S) /\ \A k \in S : ActualQty[k] \in Int
        BY <1>0, AccountTypes
      <4> QED  BY <3>4, <4>1, SumIsInt
    <3>8. StockOf(z)[r] = stored + received
      BY DEF Accounted
    <3>9. StockOf(z)'[r] = IF r = p THEN StockOf(z)[r] + q ELSE StockOf(z)[r]
      BY <2>3, <3>1
    <3> HIDE DEF stored, received
    <3> QED  BY <1>3, <3>5, <3>6, <3>7, <3>8, <3>9
  <2> QED  BY <2>5, <2>6 DEF Accounted
<1> QED  BY <1>7, <1>8

LEMMA AccountsStay ==
  ASSUME IInv, StockAccounted, [Next]_vars
  PROVE  StockAccounted'
<1> SUFFICES ASSUME NEW z \in Lot PROVE Accounted(z)'
  <2>1. (StockAccounted <=> \A x \in Lot : Accounted(x))'
    BY AccountedSum, PTL
  <2> QED  BY <2>1
<1>0. Accounted(z)
  BY AccountedSum
<1>1. CASE \E s \in Session : Send(s) \/ LockOrder(s) \/ Rollback(s)
  <2>1. UNCHANGED <<line, receipts, onHand, taken>>
    BY <1>1 DEF Send, LockOrder, Rollback, orders, others
  <2> QED  BY <1>0, <2>1, LinesStayAccounted
<1>2. CASE \E l \in Line : Decide(l)
  <2>1. UNCHANGED <<line, receipts, onHand, taken>>
    BY <1>2 DEF Decide, orders, others
  <2> QED  BY <1>0, <2>1, LinesStayAccounted
<1>3. CASE \E p \in Exposed, x \in Lot : OtherPosting(p, x)
  <2>1. PICK p \in Exposed, x \in Lot : OtherPosting(p, x)
    BY <1>3
  <2>2. line' = line /\ receipts' = receipts
    BY <2>1 DEF OtherPosting, orders
  <2>3. /\ onHand' = [onHand EXCEPT ![p][x] = @ - 1] /\ taken' = [taken EXCEPT ![p][x] = @ + 1]
        /\ onHand \in [Place -> [Lot -> Nat]] /\ taken \in [Place -> [Lot -> Nat]]
    BY <2>1 DEF OtherPosting, IInv, TypeOK
  <2>4. \A r \in Place : onHand'[r][z] + taken'[r][z] = onHand[r][z] + taken[r][z]
    <3> TAKE r \in Place
    <3>1. onHand[r][z] \in Int /\ taken[r][z] \in Int
      BY <2>3
    <3>2. /\ onHand'[r][z] = IF r = p /\ z = x THEN onHand[r][z] - 1 ELSE onHand[r][z]
          /\ taken'[r][z] = IF r = p /\ z = x THEN taken[r][z] + 1 ELSE taken[r][z]
      BY <2>3
    <3> QED  BY <3>1, <3>2
  <2> QED  BY <1>0, <2>2, <2>4, LinesStayAccounted
<1>4. ASSUME NEW s \in Session, Commit(s) PROVE Accounted(z)'
  <2>1. CASE StatusStep(s)
    <3>1. UNCHANGED <<line, receipts, onHand, taken>>
      BY <1>4, <2>1 DEF StatusStep, CommitApprove, CommitSchedule, CommitClose, CommitCancel, LinesStay,
             Commit, others
    <3> QED  BY <1>0, <3>1, LinesStayAccounted
  <2>2. CASE CommitReceive(s)
    BY <1>0, <1>4, <2>2, ReceiveAccounts
  <2>3. CASE CommitPutAway(s)
    BY <1>0, <1>4, <2>3, PutAwayAccounts
  <2> QED  BY <1>4, <2>1, <2>2, <2>3 DEF Commit, StatusStep
<1>5. CASE UNCHANGED vars
  <2>1. UNCHANGED <<line, receipts, onHand, taken>>
    BY <1>5 DEF vars, orders, others
  <2> QED  BY <1>0, <2>1, LinesStayAccounted
<1> QED  BY <1>1, <1>2, <1>3, <1>4, <1>5 DEF Next

(* receive-line.ts, confirm-putaway.ts and the balance rows: the stock is  *)
(* what the lines say, to the unit, for any number of lines and places.    *)
THEOREM StockIsAccounted == Spec => []StockAccounted
<1>1. Init => IInv /\ StockAccounted
  BY InitInv, InitAccounts
<1>2. IInv /\ StockAccounted /\ [Next]_vars => IInv' /\ StockAccounted'
  BY NextInv, AccountsStay
<1> QED  BY <1>1, <1>2, PTL DEF Spec

-----------------------------------------------------------------------------
(* Every command is one step of ReceiptBook, and a step before its commit  *)
(* is none.                                                                *)

(* What the rules of a command read of the lines, in the words of both.    *)
LEMMA LinesAgree ==
  ASSUME IInv, NEW o \in Order
  PROVE  /\ Atomic!Lines(o) = LinesOf(o)
         /\ NoBlockingLines(o) =>
              \A l \in LinesOf(o) : Atomic!Arrived(l) /\ (Atomic!HasGoods(l) => Atomic!PutAway(l))
         /\ NothingReceived(o) => \A l \in LinesOf(o) : ~Atomic!HasGoods(l)
<1>1. Atomic!Lines(o) = LinesOf(o)
  BY DEF Atomic!Lines, LinesOf
<1>2. ASSUME NoBlockingLines(o), NEW l \in LinesOf(o)
      PROVE  Atomic!Arrived(l) /\ (Atomic!HasGoods(l) => Atomic!PutAway(l))
  BY <1>2 DEF NoBlockingLines, IInv, LineMovedOnce, MovedAsRecorded, LinesOf, Atomic!Arrived,
              Atomic!HasGoods, Atomic!PutAway
<1>3. ASSUME NothingReceived(o), NEW l \in LinesOf(o) PROVE ~Atomic!HasGoods(l)
  <2>1. line[l].actual <= 0 /\ line[l].actual \in Int
    BY <1>3 DEF NothingReceived, LinesOf, IInv, TypeOK, Unreceived
  <2> QED  BY <2>1 DEF Atomic!HasGoods
<1> QED  BY <1>1, <1>2, <1>3

LEMMA StatusStepImplements ==
  ASSUME IInv, NEW s \in Session, Commit(s), StatusStep(s)
  PROVE  Atomic!Command(job[s].order)
<1> DEFINE o == job[s].order
<1>1. o \in Order /\ status[o] \in From[job[s].op] /\ Allowed(s)
  BY CommitFacts
<1>2. version' = [version EXCEPT ![o] = @ + 1] /\ Atomic!GoodsStay
  BY DEF StatusStep, CommitApprove, CommitSchedule, CommitClose, CommitCancel, Advance, LinesStay, Atomic!GoodsStay
<1>3. CASE CommitApprove(s)
  BY <1>1, <1>2, <1>3, Commands DEF CommitApprove, Advance, Atomic!Approve, Atomic!Turn, Atomic!Command
<1>4. CASE CommitSchedule(s)
  <2>1. status' = status
    BY <1>1, <1>4 DEF CommitSchedule, Advance, IInv, TypeOK
  <2> QED  BY <1>1, <1>2, <1>4, <2>1, Commands DEF CommitSchedule, Atomic!Schedule, Atomic!Command
<1>5. CASE CommitClose(s)
  <2>1. NoBlockingLines(o)
    BY <1>1, <1>5 DEF CommitClose, Allowed
  <2>2. Atomic!Turn(o, {"putaway"}, "closed")
    BY <1>1, <1>5, Commands DEF CommitClose, Advance, Atomic!Turn
  <2> QED  BY <1>1, <1>2, <2>1, <2>2, LinesAgree DEF Atomic!Close, Atomic!Command
<1>6. CASE CommitCancel(s)
  <2>1. NothingReceived(o)
    BY <1>1, <1>6 DEF CommitCancel, Allowed
  <2>2. Atomic!Turn(o, {"draft", "approved", "received"}, "cancelled")
    BY <1>1, <1>6, Commands DEF CommitCancel, Advance, Atomic!Turn
  <2> QED  BY <1>1, <1>2, <2>1, <2>2, LinesAgree DEF Atomic!Cancel, Atomic!Command
<1> QED  BY <1>3, <1>4, <1>5, <1>6 DEF StatusStep

(* What a receipt leaves to receive tells whether the order is received;   *)
(* an order that is receiving has no GRN yet.                              *)
LEMMA ReceiptEndsOrder ==
  ASSUME IInv, NEW s \in Session, Commit(s), CommitReceive(s), line' \in [Line -> LineType]
  PROVE  LET o == job[s].order IN
         IF \A k \in Atomic!Lines(o) : Atomic!Arrived(k)'
         THEN /\ Atomic!Turn(o, {"approved", "receiving"}, "received")
              /\ grn' = [grn EXCEPT ![o] = IF \E k \in Atomic!Lines(o) : Atomic!HasGoods(k)' THEN 1 ELSE 0]
         ELSE Atomic!Turn(o, {"approved", "receiving"}, "receiving") /\ UNCHANGED grn
<1> DEFINE o == job[s].order
<1>1. o \in Order /\ status[o] \in {"approved", "receiving"}
  BY CommitFacts, Commands DEF CommitReceive
<1>2. Atomic!Lines(o) = LinesOf(o)
  BY <1>1, LinesAgree
<1>3. (\A k \in LinesOf(o) : Atomic!Arrived(k)') <=> UnreceivedLines(o) = {}
  BY DEF UnreceivedLines, Unreceived, Atomic!Arrived
<1>4. UnreceivedLines(o) = {} => (AllZero(o) <=> ~\E k \in LinesOf(o) : Atomic!HasGoods(k)')
  <2>1. \A k \in LinesOf(o) : line'[k].actual \in Nat \cup {Unreceived}
    BY DEF LinesOf, LineType
  <2> QED  BY <2>1 DEF UnreceivedLines, AllZero, Unreceived, Atomic!HasGoods
<1>5. grn[o] = 0 /\ grn \in [Order -> Nat]
  BY <1>1 DEF IInv, TypeOK, OrderMatchesLines, OrderMatches
<1>6. grn = [grn EXCEPT ![o] = 0]
  BY <1>5
<1>7. [grn EXCEPT ![o] = @ + 1] = [grn EXCEPT ![o] = 1]
  BY <1>1, <1>5
<1>8. /\ status' = [status EXCEPT ![o] = IF UnreceivedLines(o) = {} THEN "received" ELSE "receiving"]
      /\ grn' = IF UnreceivedLines(o) = {} /\ ~AllZero(o) THEN [grn EXCEPT ![o] = @ + 1] ELSE grn
  BY DEF CommitReceive, Advance
<1>9. CASE UnreceivedLines(o) = {}
  BY <1>1, <1>2, <1>3, <1>4, <1>6, <1>7, <1>8, <1>9 DEF Atomic!Turn
<1>10. CASE UnreceivedLines(o) # {}
  BY <1>1, <1>2, <1>3, <1>8, <1>10 DEF Atomic!Turn
<1> QED  BY <1>9, <1>10

LEMMA ReceiveImplements ==
  ASSUME IInv, NEW s \in Session, Commit(s), CommitReceive(s)
  PROVE  Atomic!Command(job[s].order)
<1> DEFINE o == job[s].order
           l == job[s].line
<1>1. o \in Order /\ l \in Line /\ OrderOf[l] = o /\ line[l].actual = -1
  BY CommitFacts, Commands DEF CommitReceive, Allowed, ForLine, Unreceived
<1>2. line' \in [Line -> LineType]
  BY <1>1, ReceiveKeeps DEF ReceiveLineEffect
<1>3. PICK q \in 0..MaxQty[l], x \in LotsOf[l] :
        /\ line' = [line EXCEPT ![l] =
             [status |-> ReceivedStatus(l, q), actual |-> q, lot |-> x, place |-> NoPlace]]
        /\ IF q = 0 THEN UNCHANGED <<decision, receipts, onHand>>
           ELSE \E short \in BOOLEAN : \E p \in Route(short) :
                  /\ decision' = IF short THEN [decision EXCEPT ![l] = "open"] ELSE decision
                  /\ receipts' = [receipts EXCEPT ![l] = Append(@, [place |-> p, lot |-> x, qty |-> q])]
                  /\ onHand' = [onHand EXCEPT ![p][x] = @ + q]
  BY DEF CommitReceive
<1>4. Atomic!ComeIn(l, q, x)
  <2>1. CASE q = 0
    BY <1>3, <2>1 DEF Atomic!ComeIn
  <2>2. CASE q # 0
    <3>0. PICK short \in BOOLEAN : \E p \in Route(short) :
            /\ decision' = IF short THEN [decision EXCEPT ![l] = "open"] ELSE decision
            /\ onHand' = [onHand EXCEPT ![p][x] = @ + q]
      BY <1>3, <2>2
    <3>1. PICK p \in Route(short) :
            /\ decision' = IF short THEN [decision EXCEPT ![l] = "open"] ELSE decision
            /\ onHand' = [onHand EXCEPT ![p][x] = @ + q]
      BY <3>0
    <3>2. p \in Receiving \cup Quarantine /\ (p \in Quarantine <=> short)
      BY <3>1, InboundConstants DEF Route
    <3> QED  BY <2>2, <3>1, <3>2 DEF Atomic!ComeIn
  <2> QED  BY <2>1, <2>2
<1>5. q \in Nat
  BY <1>1, <1>3, InboundConstants
<1>6. Atomic!Receive(o, l, q, x)
  BY <1>1, <1>2, <1>3, <1>4, <1>5, ReceiptEndsOrder DEF Atomic!Receive, Atomic!Arrived, ReceivedStatus
<1>7. line'[l].actual = q /\ line'[l].lot = x
  BY <1>1, <1>3 DEF IInv, TypeOK
<1>8. l \in Atomic!Lines(o) /\ version' = [version EXCEPT ![o] = @ + 1]
  BY <1>1 DEF Atomic!Lines, CommitReceive, Advance
<1> QED  BY <1>6, <1>7, <1>8 DEF Atomic!Command

(* A line nobody has put away was received with goods: one that came empty *)
(* was done with its receipt.                                              *)
LEMMA PutAwayImplements ==
  ASSUME IInv, NEW s \in Session, Commit(s), CommitPutAway(s)
  PROVE  Atomic!Command(job[s].order)
<1> DEFINE o == job[s].order
           l == job[s].line
           x == line[l].lot
           q == line[l].actual
<1>1. /\ o \in Order /\ l \in Line /\ OrderOf[l] = o /\ source[s] \in Receiving
      /\ status[o] \in {"received", "putaway"} /\ PutAwayAllowed(l)
  BY CommitFacts, Commands DEF CommitPutAway, Allowed, ForLine
<1>2. q > 0
  BY <1>1 DEF PutAwayAllowed, IInv, EmptyLinesDone, TypeOK, Unreceived
<1>3. PICK p \in Targets \ {source[s]} :
        /\ line' = [line EXCEPT ![l].status = "complete", ![l].place = p]
        /\ onHand' = [onHand EXCEPT ![source[s]][x] = @ - q, ![p][x] = @ + q]
  BY DEF CommitPutAway, PutAwayQty
<1>4. Atomic!Move(x, q, source[s], p)
  BY <1>3, <1>2 DEF CommitPutAway, PutAwayQty, Atomic!Move
<1>5. p \in Atomic!Anywhere \ {source[s]}
  BY InboundConstants DEF Place, Atomic!Anywhere
<1>6. Atomic!Turn(o, {"received", "putaway"}, "putaway") /\ UNCHANGED <<grn, decision>>
  BY <1>1 DEF CommitPutAway, Advance, Atomic!Turn
<1>7. Atomic!HasGoods(l) /\ ~Atomic!PutAway(l) /\ decision[l] # "open"
  BY <1>1, <1>2 DEF PutAwayAllowed, Atomic!HasGoods, Atomic!PutAway
<1>8. Atomic!Store(o, l)
  BY <1>1, <1>3, <1>4, <1>5, <1>6, <1>7 DEF Atomic!Store
<1>9. l \in Atomic!Lines(o) /\ version' = [version EXCEPT ![o] = @ + 1]
  BY <1>1 DEF Atomic!Lines, CommitPutAway, Advance
<1> QED  BY <1>8, <1>9 DEF Atomic!Command

LEMMA StepImplements == IInv /\ [Next]_vars => [Atomic!Next]_(Atomic!tables)
<1> SUFFICES ASSUME IInv, Next PROVE Atomic!Next \/ UNCHANGED Atomic!tables
  BY DEF vars, orders, Atomic!tables
<1>1. ASSUME NEW s \in Session, Commit(s) PROVE Atomic!Next
  <2>1. job[s].order \in Order
    BY <1>1, CommitFacts
  <2>2. Atomic!Command(job[s].order)
    BY <1>1, StatusStepImplements, ReceiveImplements, PutAwayImplements DEF Commit, StatusStep
  <2> QED  BY <2>1, <2>2 DEF Atomic!Next
<1>2. ASSUME NEW s \in Session, Send(s) \/ LockOrder(s) \/ Rollback(s) PROVE UNCHANGED Atomic!tables
  BY <1>2 DEF Send, LockOrder, Rollback, orders, Atomic!tables
<1>3. ASSUME NEW l \in Line, Decide(l) PROVE Atomic!Next
  <2>1. Atomic!Decide(l)
    BY <1>3 DEF Decide, orders, Atomic!Decide
  <2> QED  BY <2>1 DEF Atomic!Next
<1>4. ASSUME NEW p \in Exposed, NEW x \in Lot, OtherPosting(p, x) PROVE Atomic!Next
  <2>1. Atomic!OtherPosting(p, x)
    BY <1>4 DEF OtherPosting, orders, Atomic!OtherPosting
  <2>2. p \in Atomic!Anywhere
    BY InboundConstants DEF Place, Atomic!Anywhere
  <2> QED  BY <2>1, <2>2 DEF Atomic!Next
<1> QED  BY <1>1, <1>2, <1>3, <1>4 DEF Next

(* To a reader of the committed rows every command on an inbound order is  *)
(* one step that meets all its rules then, whatever receive-line.ts,       *)
(* confirm-putaway.ts and the others read before.                          *)
THEOREM OrdersImplementReceipts == Spec => ImplementsReceipts
<1>1. Init => Atomic!Init
  BY DEF Init, Unreceived, Place, Atomic!Init, Atomic!Anywhere
<1>2. IInv /\ [Next]_vars => [Atomic!Next]_(Atomic!tables)
  BY StepImplements
<1> QED  BY <1>1, <1>2, InboundInvariant, PTL DEF Spec, ImplementsReceipts, Atomic!Spec
=============================================================================
