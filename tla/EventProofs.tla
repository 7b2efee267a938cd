---------------------------- MODULE EventProofs ----------------------------
(***************************************************************************)
(* What is written once and read again: the outbox and its relay, the      *)
(* alert log and the handheld's queue, for any number of relays,           *)
(* subscribers, rules, scans and rows.                                     *)
(***************************************************************************)
EXTENDS OutboxRelay, Alerts, Handheld, SequenceTheorems, FiniteSetTheorems,
        WellFoundedInduction, TLAPS

-----------------------------------------------------------------------------
(* The outbox and its relay (OutboxRelay).                                 *)

LEMMA InitInv == Init => IInv
  BY RelayConstants DEF Init, IInv, TypeOK, PublishedWasHandled, HandledWasCommitted,
     HandledInOrder, BatchIsCommitted, RowInHand, IsCurrent

LEMMA WriteKeeps ==
  ASSUME IInv, NEW e \in Event, Write(e) \/ EndTransaction(e)
  PROVE  IInv'
<1>1. /\ outbox[e] \in {"unused", "open"} /\ UNCHANGED handled
      /\ UNCHANGED <<pc, batch, next, stopping, faults>>
      /\ \E v \in {"open", "pending", "aborted"} : outbox' = [outbox EXCEPT ![e] = v]
  BY DEF Write, EndTransaction, worker
<1>2. PICK v \in {"open", "pending", "aborted"} : outbox' = [outbox EXCEPT ![e] = v]
  BY <1>1
<1>3. handled[e] = {} /\ \A w \in Worker : e \notin batch[w]
  BY <1>1 DEF IInv, HandledWasCommitted, BatchIsCommitted
<1>4. TypeOK'
  BY <1>1, <1>2 DEF IInv, TypeOK
<1>5. PublishedWasHandled' /\ HandledWasCommitted' /\ HandledInOrder'
  BY <1>1, <1>2, <1>3 DEF IInv, TypeOK, PublishedWasHandled, HandledWasCommitted, HandledInOrder
<1>6. BatchIsCommitted'
  <2>1. \A f \in Event \ {e} : outbox'[f] = outbox[f]
    BY <1>2 DEF IInv, TypeOK
  <2>2. \A w \in Worker : \A f \in batch[w] : f \in Event \ {e}
    BY <1>3 DEF IInv, TypeOK
  <2> QED  BY <1>1, <2>1, <2>2 DEF IInv, BatchIsCommitted
<1>7. RowInHand'
  BY <1>1 DEF IInv, RowInHand, IsCurrent
<1> QED  BY <1>4, <1>5, <1>6, <1>7 DEF IInv

(* Steps of a relay that touch neither the outbox nor the history and put  *)
(* nothing but pending rows in a batch.                                    *)
LEMMA QuietKeeps ==
  ASSUME IInv, UNCHANGED <<outbox, handled>>, TypeOK', RowInHand', BatchIsCommitted'
  PROVE  IInv'
BY DEF IInv, PublishedWasHandled, HandledWasCommitted, HandledInOrder

LEMMA SelectBatchKeeps ==
  ASSUME IInv, NEW w \in Worker, SelectBatch(w)
  PROVE  IInv'
<1>1. UNCHANGED <<outbox, handled, stopping, faults>>
  BY DEF SelectBatch
<1>2. CASE pc' = [pc EXCEPT ![w] = "pause"] /\ UNCHANGED <<batch, next>>
  <2>1. TypeOK' /\ BatchIsCommitted' /\ RowInHand'
    BY <1>1, <1>2 DEF IInv, TypeOK, BatchIsCommitted, RowInHand, IsCurrent
  <2> QED  BY <1>1, <2>1, QuietKeeps
<1>3. CASE /\ pc' = [pc EXCEPT ![w] = "deliver"] /\ Subscribers # 0
           /\ batch' = [batch EXCEPT ![w] = FirstPending(Limit)]
           /\ next' = [next EXCEPT ![w] = 1]
  <2>1. FirstPending(Limit) \subseteq Pending /\ Pending \subseteq Event
    BY DEF FirstPending, Pending
  <2>2. 1 \in 1..Subscribers /\ 1 \in 1..(Subscribers + 1) /\ 1..(1 - 1) = {}
    BY <1>3, RelayConstants
  <2>3. TypeOK'
    BY <1>1, <1>3, <2>1, <2>2 DEF IInv, TypeOK
  <2>4. BatchIsCommitted'
    BY <1>1, <1>3, <2>1, RelayConstants DEF IInv, TypeOK, BatchIsCommitted, Pending
  <2>5. RowInHand'
    <3> SUFFICES ASSUME NEW u \in Worker, NEW e \in Event, IsCurrent(u, e)',
                        pc'[u] \in {"deliver", "publish"}
        PROVE /\ 1..(next'[u] - 1) \subseteq handled'[e]
              /\ pc'[u] = "deliver" => next'[u] \in 1..Subscribers
              /\ pc'[u] = "publish" => next'[u] = Subscribers + 1
      BY DEF RowInHand
    <3>1. CASE u = w
      <4>1. next'[u] = 1 /\ pc'[u] = "deliver"
        BY <1>3, <3>1 DEF IInv, TypeOK
      <4> QED  BY <2>2, <4>1
    <3>2. CASE u # w
      <4>1. next'[u] = next[u] /\ pc'[u] = pc[u] /\ batch'[u] = batch[u]
        BY <1>3, <3>2 DEF IInv, TypeOK
      <4> QED  BY <1>1, <4>1 DEF IInv, RowInHand, IsCurrent
    <3> QED  BY <3>1, <3>2
  <2> QED  BY <1>1, <2>3, <2>4, <2>5, QuietKeeps
<1> QED  BY <1>2, <1>3 DEF SelectBatch, Goto

(* Another subscriber handles the row in hand. *)
LEMMA DeliverKeeps ==
  ASSUME IInv, NEW w \in Worker, NEW e \in Event, Deliver(w, e)
  PROVE  IInv'
<1> DEFINE s == next[w]
<1>1. /\ pc[w] = "deliver" /\ IsCurrent(w, e) /\ UNCHANGED <<outbox, batch, stopping, faults>>
      /\ handled' = [handled EXCEPT ![e] = @ \cup {s}]
      /\ next' = [next EXCEPT ![w] = s + 1]
      /\ \/ s = Subscribers /\ pc' = [pc EXCEPT ![w] = "publish"]
         \/ s # Subscribers /\ pc' = pc
  BY DEF Deliver, Goto
<1>2. s \in 1..Subscribers /\ 1..(s - 1) \subseteq handled[e]
  BY <1>1 DEF IInv, RowInHand
<1>3. handled'[e] = handled[e] \cup {s} /\ \A f \in Event \ {e} : handled'[f] = handled[f]
  BY <1>1 DEF IInv, TypeOK
<1>4. outbox[e] \in {"pending", "published"}
  BY <1>1 DEF IsCurrent, IInv, BatchIsCommitted
<1>5. TypeOK'
  <2>1. s + 1 \in 1..(Subscribers + 1)
    BY <1>2, RelayConstants
  <2>2. handled' \in [Event -> SUBSET (1..Subscribers)]
    BY <1>1, <1>2 DEF IInv, TypeOK
  <2> HIDE DEF s
  <2>3. pc' \in [Worker -> {"off", "select", "deliver", "publish", "fail", "pause"}]
    BY <1>1 DEF IInv, TypeOK
  <2>4. next' \in [Worker -> 1..(Subscribers + 1)]
    BY <1>1, <2>1 DEF IInv, TypeOK
  <2> QED  BY <1>1, <2>2, <2>3, <2>4 DEF IInv, TypeOK
<1>6. PublishedWasHandled' /\ HandledWasCommitted'
  BY <1>1, <1>2, <1>3, <1>4, ZenonT(30) DEF IInv, TypeOK, PublishedWasHandled, HandledWasCommitted
<1>7. HandledInOrder'
  <2>1. 1..s \subseteq handled'[e]
    <3>1. \A i \in 1..s : i \in 1..(s - 1) \/ i = s
      BY <1>2, RelayConstants
    <3> QED  BY <1>2, <1>3, <3>1
  <2> QED  BY <1>3, <2>1 DEF IInv, HandledInOrder
<1>8. BatchIsCommitted'
  BY <1>1 DEF IInv, BatchIsCommitted
<1>9. RowInHand'
  <2> SUFFICES ASSUME NEW u \in Worker, NEW f \in Event, IsCurrent(u, f)',
                      pc'[u] \in {"deliver", "publish"}
      PROVE /\ 1..(next'[u] - 1) \subseteq handled'[f]
            /\ pc'[u] = "deliver" => next'[u] \in 1..Subscribers
            /\ pc'[u] = "publish" => next'[u] = Subscribers + 1
    BY DEF RowInHand
  <2>1. IsCurrent(u, f)
    BY <1>1 DEF IsCurrent
  <2>2. handled[f] \subseteq handled'[f]
    BY <1>3
  <2>3. CASE u # w
    <3>1. next'[u] = next[u] /\ pc'[u] = pc[u]
      BY <1>1, <2>3 DEF IInv, TypeOK
    <3> QED  BY <2>1, <2>2, <3>1 DEF IInv, RowInHand
  <2>4. CASE u = w
    <3>1. next'[u] = s + 1
      BY <1>1, <2>4 DEF IInv, TypeOK
    <3>2. f = e
      BY <1>1, <2>1, <2>4 DEF IsCurrent, Event
    <3>3. 1..s \subseteq handled'[e] /\ (s + 1) - 1 = s
      <4>1. \A i \in 1..s : i \in 1..(s - 1) \/ i = s
        BY <1>2, RelayConstants
      <4> QED  BY <1>2, <1>3, <4>1
    <3>4. pc'[w] = "publish" => s = Subscribers
      BY <1>1 DEF IInv, TypeOK
    <3>5. pc'[w] = "deliver" => s # Subscribers
      BY <1>1 DEF IInv, TypeOK
    <3> QED  BY <1>2, <2>4, <3>1, <3>2, <3>3, <3>4, <3>5, RelayConstants
  <2> QED  BY <2>3, <2>4
<1> QED  BY <1>5, <1>6, <1>7, <1>8, <1>9 DEF IInv

(* The row in hand is done with: the next one starts at subscriber 1. *)
LEMMA NextRowKeeps ==
  ASSUME IInv, NEW w \in Worker, NEW e \in Event, MarkPublished(w, e) \/ RecordFailure(w, e)
  PROVE  IInv'
<1>1. /\ IsCurrent(w, e) /\ UNCHANGED <<handled, stopping, faults>>
      /\ batch' = [batch EXCEPT ![w] = @ \ {e}] /\ next' = [next EXCEPT ![w] = 1]
      /\ \/ batch[w] = {e} /\ pc' = [pc EXCEPT ![w] = "pause"]
         \/ pc' = [pc EXCEPT ![w] = "deliver"]
  BY DEF MarkPublished, RecordFailure, NextRow, Goto
<1>2. \/ pc[w] = "publish" /\ outbox' = [outbox EXCEPT ![e] = "published"]
      \/ outbox' = outbox
  BY DEF MarkPublished, RecordFailure
<1>3. outbox[e] \in {"pending", "published"}
  BY <1>1 DEF IsCurrent, IInv, BatchIsCommitted
<1>4. pc[w] = "publish" => handled[e] = 1..Subscribers
  <2>1. pc[w] = "publish" => 1..((Subscribers + 1) - 1) \subseteq handled[e]
    BY <1>1 DEF IInv, RowInHand
  <2>2. (Subscribers + 1) - 1 = Subscribers /\ handled[e] \subseteq 1..Subscribers
    BY RelayConstants DEF IInv, TypeOK
  <2> QED  BY <2>1, <2>2
<1>5. TypeOK'
  <2>1. 1 \in 1..(Subscribers + 1)
    BY RelayConstants
  <2>2. pc' \in [Worker -> {"off", "select", "deliver", "publish", "fail", "pause"}]
    BY <1>1 DEF IInv, TypeOK
  <2>3. outbox' \in [Event -> {"unused", "open", "aborted", "pending", "published"}]
    BY <1>2 DEF IInv, TypeOK
  <2>4. batch' \in [Worker -> SUBSET Event] /\ next' \in [Worker -> 1..(Subscribers + 1)]
    BY <1>1, <2>1 DEF IInv, TypeOK
  <2> QED  BY <1>1, <2>2, <2>3, <2>4 DEF IInv, TypeOK
<1>6. PublishedWasHandled' /\ HandledWasCommitted' /\ HandledInOrder'
  BY <1>1, <1>2, <1>3, <1>4
     DEF IInv, TypeOK, PublishedWasHandled, HandledWasCommitted, HandledInOrder
<1>7. BatchIsCommitted'
  <2>1. \A f \in Event : outbox[f] \in {"pending", "published"} => outbox'[f] \in {"pending", "published"}
    BY <1>2 DEF IInv, TypeOK
  <2>2. \A u \in Worker : batch'[u] \subseteq batch[u] /\ batch[u] \subseteq Event
    BY <1>1 DEF IInv, TypeOK
  <2> QED  BY <2>1, <2>2 DEF IInv, BatchIsCommitted
<1>8. RowInHand'
  <2> SUFFICES ASSUME NEW u \in Worker, NEW f \in Event, IsCurrent(u, f)',
                      pc'[u] \in {"deliver", "publish"}
      PROVE /\ 1..(next'[u] - 1) \subseteq handled'[f]
            /\ pc'[u] = "deliver" => next'[u] \in 1..Subscribers
            /\ pc'[u] = "publish" => next'[u] = Subscribers + 1
    BY DEF RowInHand
  <2>1. CASE u # w
    <3>1. next'[u] = next[u] /\ pc'[u] = pc[u] /\ batch'[u] = batch[u]
      BY <1>1, <2>1 DEF IInv, TypeOK
    <3> QED  BY <1>1, <3>1 DEF IInv, RowInHand, IsCurrent
  <2>2. CASE u = w
    <3>1. next'[u] = 1 /\ pc'[u] = "deliver"
      BY <1>1, <2>2 DEF IInv, TypeOK
    <3>2. 1 \in 1..Subscribers /\ 1..(1 - 1) = {}
      BY <1>1, RelayConstants DEF IsCurrent, IInv, BatchIsCommitted
    <3> QED  BY <3>1, <3>2
  <2> QED  BY <2>1, <2>2
<1> QED  BY <1>5, <1>6, <1>7, <1>8 DEF IInv

(* A handler throws, a query fails, the timer fires, a signal comes, the   *)
(* process ends or starts: no row changes.                                 *)
LEMMA ControlKeeps ==
  ASSUME IInv, NEW w \in Worker,
         \/ \E e \in Event : HandlerThrows(w, e)
         \/ QueryFails(w) \/ Wake(w) \/ Stop(w) \/ Exit(w) \/ Crash(w) \/ Restart(w)
  PROVE  IInv'
<1>1. /\ UNCHANGED <<outbox, handled, next>>
      /\ batch' = batch \/ batch' = [batch EXCEPT ![w] = {}]
      /\ \/ pc' = pc
         \/ \E l \in {"off", "select", "fail", "pause"} : pc' = [pc EXCEPT ![w] = l]
  BY DEF HandlerThrows, QueryFails, Wake, Stop, Exit, Crash, Restart, Shut, Goto
<1>2. stopping' \in [Worker -> BOOLEAN] /\ faults' \in Nat
  <2>1. faults' = faults \/ faults' = faults + 1
    BY DEF HandlerThrows, QueryFails, Wake, Stop, Exit, Crash, Restart, Fault
  <2>2. \/ stopping' = stopping \/ stopping' = [stopping EXCEPT ![w] = TRUE]
        \/ stopping' = [stopping EXCEPT ![w] = FALSE]
    BY DEF HandlerThrows, QueryFails, Wake, Stop, Exit, Crash, Restart, Shut
  <2>3. stopping \in [Worker -> BOOLEAN] /\ faults \in Nat
    BY DEF IInv, TypeOK
  <2>4. stopping' \in [Worker -> BOOLEAN]
    BY <2>2, <2>3
  <2> QED  BY <2>1, <2>3, <2>4
<1>3. \A u \in Worker : batch'[u] = batch[u] \/ batch'[u] = {}
  BY <1>1 DEF IInv, TypeOK
<1>4. \A u \in Worker : pc'[u] \in {"deliver", "publish"} => pc'[u] = pc[u]
  <2>1. CASE pc' = pc
    BY <2>1
  <2>2. ASSUME NEW l \in {"off", "select", "fail", "pause"}, pc' = [pc EXCEPT ![w] = l]
        PROVE  \A u \in Worker : pc'[u] \in {"deliver", "publish"} => pc'[u] = pc[u]
    BY <2>2 DEF IInv, TypeOK
  <2> QED  BY <1>1, <2>1, <2>2
<1>5. TypeOK'
  BY <1>1, <1>2 DEF IInv, TypeOK
<1>6. BatchIsCommitted'
  BY <1>1, <1>3 DEF IInv, BatchIsCommitted
<1>7. RowInHand'
  BY <1>1, <1>3, <1>4 DEF IInv, RowInHand, IsCurrent
<1> QED  BY <1>1, <1>5, <1>6, <1>7, QuietKeeps

LEMMA NextInv == IInv /\ [Next]_vars => IInv'
<1> SUFFICES ASSUME IInv, [Next]_vars PROVE IInv'
  OBVIOUS
<1>1. CASE UNCHANGED vars
  <2>1. UNCHANGED <<outbox, handled>> /\ UNCHANGED <<pc, batch, next, stopping, faults>>
    BY <1>1 DEF vars
  <2>2. TypeOK' /\ BatchIsCommitted' /\ RowInHand'
    BY <2>1 DEF IInv, TypeOK, BatchIsCommitted, RowInHand, IsCurrent
  <2> QED  BY <2>1, <2>2, QuietKeeps
<1>2. ASSUME NEW w \in Worker, Tick(w) PROVE IInv'
  BY <1>2, SelectBatchKeeps, DeliverKeeps, NextRowKeeps, ControlKeeps DEF Tick
<1> QED  BY <1>1, <1>2, WriteKeeps, ControlKeeps DEF Next

(* Every reachable state satisfies the inductive invariant. *)
THEOREM RelayInvariant == Spec => []IInv
  BY InitInv, NextInv, PTL DEF Spec

(* doc 40 B3: a published event was handled by every subscriber, for any   *)
(* number of relays running at once and any crashes.                       *)
THEOREM NothingLost == Spec => []PublishedWasHandled
<1>1. IInv => PublishedWasHandled
  BY DEF IInv
<1> QED  BY <1>1, RelayInvariant, PTL

(* An event whose transaction rolled back reaches no subscriber. *)
THEOREM NothingInvented == Spec => []HandledWasCommitted
<1>1. IInv => HandledWasCommitted
  BY DEF IInv
<1> QED  BY <1>1, RelayInvariant, PTL

-----------------------------------------------------------------------------
OneRelay == \A v, w \in Worker : v = w

(* A relay between ticks has nothing in hand. *)
IdleIsEmpty == \A w \in Worker : pc[w] \in {"off", "select", "pause"} => batch[w] = {}

LEMMA OneRelayStep ==
  ASSUME OneRelay, IInv, IdleIsEmpty, BatchIsPending, [Next]_vars
  PROVE  IdleIsEmpty' /\ BatchIsPending'
<1>1. CASE UNCHANGED vars
  BY <1>1 DEF vars, IdleIsEmpty, BatchIsPending, Pending
<1>2. ASSUME NEW e \in Event, Write(e) \/ EndTransaction(e)
      PROVE  IdleIsEmpty' /\ BatchIsPending'
  <2>1. /\ outbox[e] \in {"unused", "open"} /\ UNCHANGED <<pc, batch>>
        /\ \A f \in Event \ {e} : outbox'[f] = outbox[f]
    BY <1>2 DEF Write, EndTransaction, worker, IInv, TypeOK
  <2>2. \A w \in Worker : e \notin batch[w]
    BY <2>1 DEF BatchIsPending, Pending
  <2> QED  BY <2>1, <2>2 DEF IdleIsEmpty, BatchIsPending, Pending
<1>3. ASSUME NEW w \in Worker, SelectBatch(w)
      PROVE  IdleIsEmpty' /\ BatchIsPending'
  <2>1. FirstPending(Limit) \subseteq Pending
    BY DEF FirstPending
  <2> QED  BY <1>3, <2>1 DEF SelectBatch, Goto, IInv, TypeOK, IdleIsEmpty, BatchIsPending, Pending
<1>4. ASSUME NEW w \in Worker, NEW e \in Event, Deliver(w, e)
      PROVE  IdleIsEmpty' /\ BatchIsPending'
  BY <1>4 DEF Deliver, Goto, IInv, TypeOK, IdleIsEmpty, BatchIsPending, Pending
<1>5. ASSUME NEW w \in Worker, NEW e \in Event, MarkPublished(w, e) \/ RecordFailure(w, e)
      PROVE  IdleIsEmpty' /\ BatchIsPending'
  <2>1. /\ batch'[w] = batch[w] \ {e} /\ \A u \in Worker : u = w
        /\ \A f \in Event \ {e} : outbox'[f] = outbox[f]
    BY <1>5 DEF MarkPublished, RecordFailure, NextRow, OneRelay, IInv, TypeOK
  <2>2. pc' = [pc EXCEPT ![w] = IF batch[w] = {e} THEN "pause" ELSE "deliver"]
    BY <1>5 DEF MarkPublished, RecordFailure, NextRow, Goto
  <2>3. IdleIsEmpty'
    BY <2>1, <2>2 DEF IdleIsEmpty, IInv, TypeOK
  <2>4. BatchIsPending'
    BY <2>1 DEF BatchIsPending, Pending
  <2> QED  BY <2>3, <2>4
<1>6. ASSUME NEW w \in Worker,
             \/ \E e \in Event : HandlerThrows(w, e)
             \/ QueryFails(w) \/ Wake(w) \/ Stop(w) \/ Exit(w) \/ Crash(w) \/ Restart(w)
      PROVE  IdleIsEmpty' /\ BatchIsPending'
  <2>1. outbox' = outbox /\ (batch' = batch \/ batch' = [batch EXCEPT ![w] = {}])
    BY <1>6 DEF HandlerThrows, QueryFails, Wake, Stop, Exit, Crash, Restart, Shut
  <2>2. BatchIsPending'
    BY <2>1 DEF BatchIsPending, Pending, IInv, TypeOK
  <2>3. CASE batch' = batch /\ pc[w] \in {"deliver", "publish", "fail"}
               /\ pc' = [pc EXCEPT ![w] = "fail"]
    BY <2>2, <2>3 DEF IdleIsEmpty, IInv, TypeOK
  <2>4. CASE batch' = [batch EXCEPT ![w] = {}]
               /\ \E l \in {"off", "pause"} : pc' = [pc EXCEPT ![w] = l]
    <3>1. PICK l \in {"off", "pause"} : pc' = [pc EXCEPT ![w] = l]
      BY <2>4
    <3>2. batch'[w] = {} /\ \A u \in Worker : u = w
      BY <2>4 DEF OneRelay, IInv, TypeOK
    <3> QED  BY <2>2, <3>2 DEF IdleIsEmpty
  <2>5. CASE batch' = batch /\ pc' = pc
    BY <2>2, <2>5 DEF IdleIsEmpty
  <2>6. CASE batch' = batch /\ pc[w] \in {"off", "pause"} /\ pc' = [pc EXCEPT ![w] = "select"]
    <3>1. batch'[w] = {} /\ \A u \in Worker : u = w
      BY <2>6 DEF OneRelay, IdleIsEmpty
    <3> QED  BY <2>2, <3>1 DEF IdleIsEmpty
  <2>7. \/ batch' = batch /\ pc[w] \in {"deliver", "publish", "fail"} /\ pc' = [pc EXCEPT ![w] = "fail"]
        \/ /\ batch' = [batch EXCEPT ![w] = {}]
           /\ \E l \in {"off", "pause"} : pc' = [pc EXCEPT ![w] = l]
        \/ batch' = batch /\ pc' = pc
        \/ batch' = batch /\ pc[w] \in {"off", "pause"} /\ pc' = [pc EXCEPT ![w] = "select"]
    BY <1>6 DEF HandlerThrows, QueryFails, Wake, Stop, Exit, Crash, Restart, Shut, Goto
  <2> QED  BY <2>2, <2>3, <2>4, <2>5, <2>6, <2>7
<1> QED  BY <1>1, <1>2, <1>3, <1>4, <1>5, <1>6 DEF Next, Tick

(* A single relay never has a published row in hand, whatever the number   *)
(* of events, faults and restarts: a published event is not delivered      *)
(* again.                                                                  *)
THEOREM NoRedelivery == OneRelay => (Spec => []BatchIsPending)
<1> SUFFICES ASSUME OneRelay PROVE Spec => []BatchIsPending
  OBVIOUS
<1>1. Init => IdleIsEmpty /\ BatchIsPending
  BY DEF Init, IdleIsEmpty, BatchIsPending
<1>2. IInv /\ IdleIsEmpty /\ BatchIsPending /\ [Next]_vars => IdleIsEmpty' /\ BatchIsPending'
  BY OneRelayStep
<1> QED  BY <1>1, <1>2, RelayInvariant, PTL DEF Spec

(* With one relay, deliveries are of committed events, in the order of the *)
(* subscribers and never repeated once published, whatever faults occur.   *)
THEOREM DeliveryInOrder == OneRelay => (Spec => []DeliveredOnceInOrder)
<1>1. IInv => HandledInOrder
  BY DEF IInv
<1>2. Spec => []HandledInOrder
  BY <1>1, RelayInvariant, PTL
<1> QED  BY <1>2, NothingInvented, NoRedelivery, PTL DEF DeliveredOnceInOrder

-----------------------------------------------------------------------------
(* Alert rules (Alerts).                                                   *)

LoggedAlert == [rule : AlertRule, ref : AlertRef, firedAt : 0..LastAlertHour, version : Nat,
                acknowledged : BOOLEAN, knew : SUBSET Nat, acks : Nat]
EvaluationState ==
  [step : {"idle", "rules", "refs", "firing"}, now : 0..LastAlertHour, rules : SUBSET AlertRule,
   rule : AlertRule \cup {"none"}, refs : SUBSET AlertRef, ref : AlertRef \cup {"none"},
   saved : Seq(LoggedAlert), wrote : Seq(LoggedAlert), knew : SUBSET Nat, failed : SUBSET AlertRule]

AlertTypes ==
  /\ alertLog \in Seq(LoggedAlert)
  /\ evaluation \in [Evaluation -> EvaluationState]
  /\ readAlert \in [Acknowledger -> [id : Nat, version : Nat]]
  /\ alertHour \in 0..LastAlertHour
  /\ \A a \in Acknowledger : readAlert[a].id <= Len(alertLog)

(* What was known when an alert was decided on is in the log, and no       *)
(* alert in it forbids this one.                                           *)
Knew(rows, rule, ref, at, knew) ==
  \A i \in knew :
    /\ i \in 1..Len(rows)
    /\ (rows[i].rule = rule /\ rows[i].ref = ref)
         => \/ at - rows[i].firedAt >= DedupeWindow[rule]
            \/ DedupeWindow[rule] = 0
AllKnew(rows, written) ==
  \A j \in 1..Len(written) :
    Knew(rows, written[j].rule, written[j].ref, written[j].firedAt, written[j].knew)
AlertsKnew ==
  /\ AllKnew(alertLog, alertLog)
  /\ \A e \in Evaluation :
       LET ev == evaluation[e] IN
       /\ AllKnew(alertLog, ev.wrote) /\ AllKnew(alertLog, ev.saved)
       /\ ev.step = "firing" => ev.ref \in AlertRef /\ Knew(alertLog, ev.rule, ev.ref, ev.now, ev.knew)

(* A rule that is still to come, or is at work, has written nothing yet    *)
(* that stays if it fails.                                                 *)
NotOf(written, rules) == \A j \in 1..Len(written) : written[j].rule \notin rules
RulesTakeTurns ==
  \A e \in Evaluation :
    LET ev == evaluation[e] IN
    /\ ev.failed \cap ev.rules = {} /\ NotOf(ev.wrote, ev.rules \cup ev.failed)
    /\ ev.step \in {"refs", "firing"} =>
         /\ ev.rule \in AlertRule /\ ev.rule \notin ev.rules \cup ev.failed
         /\ NotOf(ev.saved, ev.rules \cup ev.failed \cup {ev.rule})

Unseen(written) == \A j \in 1..Len(written) : written[j].acks = 0 /\ ~written[j].acknowledged
AcksAreFlagged ==
  /\ \A i \in 1..Len(alertLog) : alertLog[i].acks = IF alertLog[i].acknowledged THEN 1 ELSE 0
  /\ \A e \in Evaluation : Unseen(evaluation[e].wrote) /\ Unseen(evaluation[e].saved)

AlertsInv == AlertTypes /\ AlertsKnew /\ RulesTakeTurns /\ AcksAreFlagged

(* What the invariant says of one evaluation.                              *)
EvaluationSound(rows, ev) ==
  /\ ev \in EvaluationState
  /\ AllKnew(rows, ev.wrote) /\ AllKnew(rows, ev.saved)
  /\ ev.step = "firing" => ev.ref \in AlertRef /\ Knew(rows, ev.rule, ev.ref, ev.now, ev.knew)
  /\ ev.failed \cap ev.rules = {} /\ NotOf(ev.wrote, ev.rules \cup ev.failed)
  /\ ev.step \in {"refs", "firing"} =>
       /\ ev.rule \in AlertRule /\ ev.rule \notin ev.rules \cup ev.failed
       /\ NotOf(ev.saved, ev.rules \cup ev.failed \cup {ev.rule})
  /\ Unseen(ev.wrote) /\ Unseen(ev.saved)

LEMMA IdleIsSound ==
  ASSUME NEW rows
  PROVE  EvaluationSound(rows, NotRunning)
<1>1. Len(<<>>) = 0 /\ <<>> \in Seq(LoggedAlert)
  BY EmptySeq
<1>2. NotRunning \in EvaluationState
  BY <1>1, AlertsAssumption DEF NotRunning, EvaluationState
<1> QED  BY <1>1, <1>2 DEF EvaluationSound, NotRunning, AllKnew, NotOf, Unseen

LEMMA InitAlertsKeeps == InitAlerts => AlertsInv
<1> SUFFICES ASSUME InitAlerts PROVE AlertsInv
  OBVIOUS
<1>1. Len(alertLog) = 0 /\ alertLog \in Seq(LoggedAlert)
  BY EmptySeq DEF InitAlerts
<1>2. \A e \in Evaluation : evaluation[e] = NotRunning /\ EvaluationSound(alertLog, evaluation[e])
  BY IdleIsSound DEF InitAlerts
<1>3. AlertTypes
  <2>1. evaluation \in [Evaluation -> EvaluationState]
    <3>1. NotRunning \in EvaluationState
      BY IdleIsSound DEF EvaluationSound
    <3> QED  BY <3>1 DEF InitAlerts
  <2>2. readAlert \in [Acknowledger -> [id : Nat, version : Nat]] /\ \A a \in Acknowledger : readAlert[a].id = 0
    BY DEF InitAlerts
  <2> QED  BY <1>1, <2>1, <2>2, AlertsAssumption DEF InitAlerts, AlertTypes
<1>4. AlertsKnew
  <2>1. AllKnew(alertLog, alertLog)
    BY <1>1 DEF AllKnew
  <2>2. \A e \in Evaluation :
          /\ AllKnew(alertLog, evaluation[e].wrote) /\ AllKnew(alertLog, evaluation[e].saved)
          /\ evaluation[e].step # "firing"
    <3>1. NotRunning.step = "idle"
      BY DEF NotRunning
    <3> QED  BY <1>2, <3>1 DEF EvaluationSound
  <2> QED  BY <2>1, <2>2 DEF AlertsKnew
<1>5. RulesTakeTurns
  BY <1>2 DEF RulesTakeTurns, EvaluationSound
<1>6. AcksAreFlagged
  <2>1. \A e \in Evaluation : Unseen(evaluation[e].wrote) /\ Unseen(evaluation[e].saved)
    BY <1>2 DEF EvaluationSound
  <2>2. 1..Len(alertLog) = {}
    BY <1>1
  <2> QED  BY <2>1, <2>2 DEF AcksAreFlagged
<1> QED  BY <1>3, <1>4, <1>5, <1>6 DEF AlertsInv

LEMMA SoundEvaluation ==
  ASSUME AlertsInv, NEW e \in Evaluation
  PROVE  EvaluationSound(alertLog, evaluation[e])
<1>1. evaluation[e] \in EvaluationState
  BY DEF AlertsInv, AlertTypes
<1> QED  BY <1>1 DEF AlertsInv, AlertsKnew, RulesTakeTurns, AcksAreFlagged, EvaluationSound

(* A step of one evaluation that leaves the log alone.                     *)
LEMMA EvaluationKeeps ==
  ASSUME AlertsInv, NEW e \in Evaluation, NEW ev, EvaluationSound(alertLog, ev),
         evaluation' = [evaluation EXCEPT ![e] = ev],
         alertLog' = alertLog, readAlert' = readAlert, alertHour' = alertHour
  PROVE  AlertsInv'
<1>1. evaluation \in [Evaluation -> EvaluationState]
  BY DEF AlertsInv, AlertTypes
<1>2. \A f \in Evaluation : evaluation'[f] = IF f = e THEN ev ELSE evaluation[f]
  BY <1>1
<1>3. \A f \in Evaluation : EvaluationSound(alertLog', evaluation'[f])
  BY <1>2, SoundEvaluation
<1>4. AlertTypes'
  <2>1. ev \in EvaluationState
    BY DEF EvaluationSound
  <2>2. evaluation' \in [Evaluation -> EvaluationState]
    BY <1>1, <2>1
  <2> QED  BY <2>2 DEF AlertsInv, AlertTypes
<1>5. AlertsKnew'
  BY <1>3 DEF AlertsInv, AlertsKnew, EvaluationSound
<1>6. RulesTakeTurns'
  BY <1>3 DEF RulesTakeTurns, EvaluationSound
<1>7. AcksAreFlagged'
  BY <1>3 DEF AlertsInv, AcksAreFlagged, EvaluationSound
<1> QED  BY <1>4, <1>5, <1>6, <1>7 DEF AlertsInv

LEMMA EvaluateKeeps ==
  ASSUME AlertsInv, NEW e \in Evaluation, NEW rules \in SUBSET AlertRule, EvaluateAlertRules(e, rules)
  PROVE  AlertsInv'
<1> DEFINE todo == {r \in rules : ShouldEvaluate(r, alertHour)}
           ev == [NotRunning EXCEPT !.step = "rules", !.now = alertHour, !.rules = todo]
<1>1. evaluation' = [evaluation EXCEPT ![e] = ev]
  BY DEF EvaluateAlertRules
<1>2. alertHour \in 0..LastAlertHour /\ todo \subseteq AlertRule
  BY DEF AlertsInv, AlertTypes
<1>3. EvaluationSound(alertLog, NotRunning)
  BY IdleIsSound
<1> HIDE DEF todo
<1>4. /\ ev.step = "rules" /\ ev.rules = todo /\ ev.failed = {} /\ ev.wrote = <<>> /\ ev.saved = <<>>
      /\ ev \in EvaluationState
  BY <1>2, <1>3 DEF NotRunning, EvaluationSound, EvaluationState
<1> HIDE DEF ev
<1>5. EvaluationSound(alertLog, ev)
  <2>1. Len(<<>>) = 0
    BY EmptySeq
  <2> QED  BY <1>4, <2>1 DEF EvaluationSound, AllKnew, NotOf, Unseen
<1> QED  BY <1>1, <1>5, EvaluationKeeps DEF EvaluateAlertRules

LEMMA SourceQueryKeeps ==
  ASSUME AlertsInv, NEW e \in Evaluation, RunSourceQuery(e)
  PROVE  AlertsInv'
<1> DEFINE ev == evaluation[e]
<1>1. EvaluationSound(alertLog, ev) /\ ev.step = "rules"
  BY SoundEvaluation DEF RunSourceQuery
<1>2. PICK rule \in ev.rules :
        \/ \E refs \in SUBSET AlertRef :
             evaluation' = [evaluation EXCEPT ![e] =
               [ev EXCEPT !.step = "refs", !.rules = @ \ {rule}, !.rule = rule, !.refs = refs,
                          !.saved = ev.wrote]]
        \/ evaluation' = [evaluation EXCEPT ![e] =
               [ev EXCEPT !.rules = @ \ {rule}, !.failed = @ \cup {rule}]]
  BY DEF RunSourceQuery
<1> HIDE DEF ev
<1>3. rule \in AlertRule
  BY <1>1 DEF EvaluationSound, EvaluationState
<1>4. ASSUME NEW refs \in SUBSET AlertRef,
             evaluation' = [evaluation EXCEPT ![e] =
               [ev EXCEPT !.step = "refs", !.rules = @ \ {rule}, !.rule = rule, !.refs = refs,
                          !.saved = ev.wrote]]
      PROVE  AlertsInv'
  <2> DEFINE moved == [ev EXCEPT !.step = "refs", !.rules = @ \ {rule}, !.rule = rule, !.refs = refs,
                                !.saved = ev.wrote]
  <2>1. /\ moved.step = "refs" /\ moved.rules = ev.rules \ {rule} /\ moved.rule = rule
        /\ moved.saved = ev.wrote /\ moved.wrote = ev.wrote /\ moved.failed = ev.failed
        /\ moved \in EvaluationState
    BY <1>1, <1>3 DEF EvaluationSound, EvaluationState
  <2> HIDE DEF moved
  <2>2. EvaluationSound(alertLog, moved)
    BY <1>1, <1>3, <2>1 DEF EvaluationSound, NotOf
  <2> QED  BY <1>4, <2>2, EvaluationKeeps DEF RunSourceQuery, moved
<1>5. ASSUME evaluation' = [evaluation EXCEPT ![e] =
               [ev EXCEPT !.rules = @ \ {rule}, !.failed = @ \cup {rule}]]
      PROVE  AlertsInv'
  <2> DEFINE moved == [ev EXCEPT !.rules = @ \ {rule}, !.failed = @ \cup {rule}]
  <2>1. /\ moved.step = "rules" /\ moved.rules = ev.rules \ {rule} /\ moved.failed = ev.failed \cup {rule}
        /\ moved.saved = ev.saved /\ moved.wrote = ev.wrote
        /\ moved \in EvaluationState
    BY <1>1, <1>3 DEF EvaluationSound, EvaluationState
  <2> HIDE DEF moved
  <2>2. EvaluationSound(alertLog, moved)
    BY <1>1, <2>1 DEF EvaluationSound, NotOf
  <2> QED  BY <1>5, <2>2, EvaluationKeeps DEF RunSourceQuery, moved
<1> QED  BY <1>2, <1>4, <1>5

(* A set of hours that is not empty has a latest one.                      *)
LEMMA LatestHour ==
  ASSUME NEW H \in SUBSET (0..LastAlertHour), NEW h \in H
  PROVE  \E m \in H : \A k \in H : k <= m
<1> DEFINE D == {LastAlertHour - k : k \in H}
           R == {s \in Nat \X Nat : s[1] < s[2]}
<1>0. IsWellFoundedOn(R, Nat)
  BY NatLessThanWellFounded DEF OpToRel
<1>1. LastAlertHour \in Nat /\ D \subseteq Nat /\ D # {}
  BY AlertsAssumption
<1>2. \E d \in D : \A c \in D : <<c, d>> \notin R
  <2> HIDE DEF D, R
  <2> QED  BY <1>0, <1>1, WFMin
<1>3. PICK m \in H : \A c \in D : <<c, LastAlertHour - m>> \notin R
  BY <1>2
<1>4. \A k \in H : ~(LastAlertHour - k < LastAlertHour - m)
  <2>1. \A k \in H : LastAlertHour - k \in Nat /\ LastAlertHour - k \in D
    BY <1>1
  <2> QED  BY <1>3, <2>1
<1>5. \A k \in H : k <= m
  <2> TAKE k \in H
  <2>1. k \in Int /\ m \in Int /\ LastAlertHour \in Int
    BY <1>1
  <2> QED  BY <1>4, <2>1
<1> QED  BY <1>5

(* An entity that is not suppressed had no alert of the rule within the    *)
(* window, in the log as the evaluation sees it.                           *)
LEMMA LookedUp ==
  ASSUME NEW rows \in Seq(LoggedAlert), NEW rule \in AlertRule, NEW ref, NEW now \in Nat,
         NEW i \in 1..Len(rows), rows[i].rule = rule, rows[i].ref = ref,
         ~IsDeduped(rule, LastFired(rows, rule, ref), now)
  PROVE  \/ now - rows[i].firedAt >= DedupeWindow[rule]
         \/ DedupeWindow[rule] = 0
<1> DEFINE hours == {rows[k].firedAt : k \in {j \in 1..Len(rows) : rows[j].rule = rule /\ rows[j].ref = ref}}
<1>1. hours \subseteq 0..LastAlertHour /\ rows[i].firedAt \in hours
  <2>1. \A k \in 1..Len(rows) : rows[k] \in LoggedAlert
    BY ElementOfSeq
  <2>2. \A k \in 1..Len(rows) : rows[k].firedAt \in 0..LastAlertHour
    BY <2>1 DEF LoggedAlert
  <2> QED  BY <2>2
<1>2. LastFired(rows, rule, ref) = {h \in hours : \A k \in hours : k <= h}
  BY DEF LastFired
<1> HIDE DEF hours
<1>3. PICK m \in hours : \A k \in hours : k <= m
  BY <1>1, LatestHour
<1>4. m \in LastFired(rows, rule, ref)
  BY <1>2, <1>3
<1>5. DedupeWindow[rule] # 0 => ~(now - m < DedupeWindow[rule])
  BY <1>4 DEF IsDeduped
<1>6. DedupeWindow[rule] \in Nat
  BY AlertsAssumption
<1>7. m \in Nat /\ rows[i].firedAt \in Nat /\ rows[i].firedAt <= m
  <2>1. m \in 0..LastAlertHour /\ rows[i].firedAt \in 0..LastAlertHour /\ rows[i].firedAt <= m
    BY <1>1, <1>3
  <2> QED  BY <2>1
<1> DEFINE window == DedupeWindow[rule]
           at == rows[i].firedAt
<1>8. window \in Nat /\ m \in Nat /\ at \in Nat /\ at <= m /\ (window # 0 => ~(now - m < window))
  BY <1>5, <1>6, <1>7
<1> HIDE DEF window, at
<1>9. now - at >= window \/ window = 0
  BY <1>8
<1> QED  BY <1>9 DEF window, at

LEMMA LookUpKeeps ==
  ASSUME AlertsInv, NEW e \in Evaluation, LookUpAlert(e)
  PROVE  AlertsInv'
<1> DEFINE ev == evaluation[e]
<1>1. EvaluationSound(alertLog, ev) /\ ev.step = "refs" /\ alertLog \in Seq(LoggedAlert)
  BY SoundEvaluation DEF LookUpAlert, AlertsInv, AlertTypes
<1>2. PICK ref \in ev.refs :
        evaluation' = [evaluation EXCEPT ![e] =
          IF IsDeduped(ev.rule, LastFired(alertLog \o ev.wrote, ev.rule, ref), ev.now)
          THEN [ev EXCEPT !.refs = @ \ {ref}]
          ELSE [ev EXCEPT !.refs = @ \ {ref}, !.step = "firing", !.ref = ref,
                          !.knew = 1..Len(alertLog)]]
  BY DEF LookUpAlert
<1> HIDE DEF ev
<1>3. ref \in AlertRef /\ ev.rule \in AlertRule /\ ev.now \in Nat /\ ev.wrote \in Seq(LoggedAlert)
  BY <1>1 DEF EvaluationSound, EvaluationState
<1>4. CASE IsDeduped(ev.rule, LastFired(alertLog \o ev.wrote, ev.rule, ref), ev.now)
  <2> DEFINE moved == [ev EXCEPT !.refs = @ \ {ref}]
  <2>1. /\ moved.step = "refs" /\ moved.rules = ev.rules /\ moved.rule = ev.rule
        /\ moved.saved = ev.saved /\ moved.wrote = ev.wrote /\ moved.failed = ev.failed
        /\ moved \in EvaluationState
    BY <1>1 DEF EvaluationSound, EvaluationState
  <2> HIDE DEF moved
  <2>2. EvaluationSound(alertLog, moved)
    BY <1>1, <2>1 DEF EvaluationSound
  <2>3. evaluation' = [evaluation EXCEPT ![e] = moved]
    BY <1>2, <1>4 DEF moved
  <2> QED  BY <2>2, <2>3, EvaluationKeeps DEF LookUpAlert
<1>5. CASE ~IsDeduped(ev.rule, LastFired(alertLog \o ev.wrote, ev.rule, ref), ev.now)
  <2> DEFINE moved == [ev EXCEPT !.refs = @ \ {ref}, !.step = "firing", !.ref = ref,
                                !.knew = 1..Len(alertLog)]
             seen == alertLog \o ev.wrote
  <2>0. Len(alertLog) \in Nat /\ 1..Len(alertLog) \in SUBSET Nat
    BY <1>1, LenProperties
  <2>1. /\ moved.step = "firing" /\ moved.rules = ev.rules /\ moved.rule = ev.rule /\ moved.ref = ref
        /\ moved.saved = ev.saved /\ moved.wrote = ev.wrote /\ moved.failed = ev.failed
        /\ moved.knew = 1..Len(alertLog) /\ moved.now = ev.now
        /\ moved \in EvaluationState
    BY <1>1, <1>3, <2>0 DEF EvaluationSound, EvaluationState
  <2> HIDE DEF moved
  <2>2. /\ seen \in Seq(LoggedAlert)
        /\ \A i \in 1..Len(alertLog) : i \in 1..Len(seen) /\ seen[i] = alertLog[i]
    BY <1>1, <1>3, ConcatProperties, LenProperties
  <2>3. Knew(alertLog, moved.rule, moved.ref, moved.now, moved.knew)
    <3> SUFFICES ASSUME NEW i \in 1..Len(alertLog), alertLog[i].rule = ev.rule, alertLog[i].ref = ref
                 PROVE  \/ ev.now - alertLog[i].firedAt >= DedupeWindow[ev.rule]
                        \/ DedupeWindow[ev.rule] = 0
      BY <2>1 DEF Knew
    <3> HIDE DEF seen
    <3>1. seen[i].rule = ev.rule /\ seen[i].ref = ref /\ i \in 1..Len(seen) /\ seen[i] = alertLog[i]
      BY <2>2
    <3>2. ~IsDeduped(ev.rule, LastFired(seen, ev.rule, ref), ev.now)
      BY <1>5 DEF seen
    <3>3. \/ ev.now - seen[i].firedAt >= DedupeWindow[ev.rule]
          \/ DedupeWindow[ev.rule] = 0
      BY <1>3, <2>2, <3>1, <3>2, LookedUp
    <3> QED  BY <3>1, <3>3
  <2>4. EvaluationSound(alertLog, moved)
    BY <1>1, <1>3, <2>1, <2>3 DEF EvaluationSound
  <2>5. evaluation' = [evaluation EXCEPT ![e] = moved]
    BY <1>2, <1>5 DEF moved
  <2> QED  BY <2>4, <2>5, EvaluationKeeps DEF LookUpAlert
<1> QED  BY <1>4, <1>5

(* One more row in what an evaluation has written.                         *)
LEMMA OneMoreAlert ==
  ASSUME NEW written \in Seq(LoggedAlert), NEW row \in LoggedAlert
  PROVE  /\ Append(written, row) \in Seq(LoggedAlert)
         /\ \A j \in 1..Len(Append(written, row)) :
              \/ j \in 1..Len(written) /\ Append(written, row)[j] = written[j]
              \/ Append(written, row)[j] = row
  BY AppendProperties, LenProperties

LEMMA FireKeeps ==
  ASSUME AlertsInv, NEW e \in Evaluation, FireAlert(e)
  PROVE  AlertsInv'
<1> DEFINE ev == evaluation[e]
           row == [rule |-> ev.rule, ref |-> ev.ref, firedAt |-> ev.now, version |-> 1,
                   acknowledged |-> FALSE, knew |-> ev.knew, acks |-> 0]
           wrote == Append(ev.wrote, row)
           moved == [ev EXCEPT !.step = "refs", !.ref = "none", !.wrote = wrote]
<1>1. EvaluationSound(alertLog, ev) /\ ev.step = "firing"
  BY SoundEvaluation DEF FireAlert
<1>2. evaluation' = [evaluation EXCEPT ![e] = moved]
  BY DEF FireAlert
<1> HIDE DEF ev
<1>3. row \in LoggedAlert
  BY <1>1 DEF EvaluationSound, EvaluationState, LoggedAlert
<1>4. /\ Knew(alertLog, row.rule, row.ref, row.firedAt, row.knew) /\ row.acks = 0 /\ ~row.acknowledged
      /\ row.rule = ev.rule
  BY <1>1 DEF EvaluationSound
<1> HIDE DEF row
<1>5. /\ wrote \in Seq(LoggedAlert)
      /\ \A j \in 1..Len(wrote) : (j \in 1..Len(ev.wrote) /\ wrote[j] = ev.wrote[j]) \/ wrote[j] = row
  <2>1. ev.wrote \in Seq(LoggedAlert)
    BY <1>1 DEF EvaluationSound, EvaluationState
  <2> QED  BY <1>3, <2>1, OneMoreAlert
<1> HIDE DEF wrote
<1>6. /\ moved.step = "refs" /\ moved.rules = ev.rules /\ moved.rule = ev.rule
      /\ moved.saved = ev.saved /\ moved.wrote = wrote /\ moved.failed = ev.failed
      /\ moved \in EvaluationState
  BY <1>1, <1>5 DEF EvaluationSound, EvaluationState
<1> HIDE DEF moved
<1>7. AllKnew(alertLog, wrote) /\ Unseen(wrote) /\ NotOf(wrote, ev.rules \cup ev.failed)
  <2>1. AllKnew(alertLog, wrote)
    BY <1>1, <1>4, <1>5 DEF EvaluationSound, AllKnew
  <2>2. Unseen(wrote)
    BY <1>1, <1>4, <1>5 DEF EvaluationSound, Unseen
  <2>3. NotOf(wrote, ev.rules \cup ev.failed)
    BY <1>1, <1>4, <1>5 DEF EvaluationSound, NotOf
  <2> QED  BY <2>1, <2>2, <2>3
<1>8. EvaluationSound(alertLog, moved)
  BY <1>1, <1>6, <1>7 DEF EvaluationSound
<1> QED  BY <1>2, <1>8, EvaluationKeeps DEF FireAlert

LEMMA RuleEndsKeep ==
  ASSUME AlertsInv, NEW e \in Evaluation, RuleDone(e) \/ RuleFails(e)
  PROVE  AlertsInv'
<1> DEFINE ev == evaluation[e]
<1>1. EvaluationSound(alertLog, ev) /\ ev.step \in {"refs", "firing"}
  BY SoundEvaluation DEF RuleDone, RuleFails
<1>2. Len(<<>>) = 0 /\ <<>> \in Seq(LoggedAlert)
  BY EmptySeq
<1>3. CASE RuleDone(e)
  <2> DEFINE moved == [ev EXCEPT !.step = "rules", !.rule = "none", !.saved = <<>>, !.knew = {}]
  <2>0. evaluation' = [evaluation EXCEPT ![e] = moved]
    BY <1>3 DEF RuleDone
  <2> HIDE DEF ev
  <2>1. /\ moved.step = "rules" /\ moved.rules = ev.rules /\ moved.saved = <<>> /\ moved.wrote = ev.wrote
        /\ moved.failed = ev.failed /\ moved \in EvaluationState
    BY <1>1, <1>2 DEF EvaluationSound, EvaluationState
  <2> HIDE DEF moved
  <2>2. EvaluationSound(alertLog, moved)
    BY <1>1, <1>2, <2>1 DEF EvaluationSound, AllKnew, Unseen
  <2> QED  BY <1>3, <2>0, <2>2, EvaluationKeeps DEF RuleDone
<1>4. CASE RuleFails(e)
  <2> DEFINE moved == [ev EXCEPT !.step = "rules", !.rule = "none", !.refs = {}, !.ref = "none", !.knew = {},
                                !.saved = <<>>, !.wrote = ev.saved, !.failed = @ \cup {ev.rule}]
  <2>0. evaluation' = [evaluation EXCEPT ![e] = moved]
    BY <1>4 DEF RuleFails, RolledBack
  <2> HIDE DEF ev
  <2>1. /\ moved.step = "rules" /\ moved.rules = ev.rules /\ moved.saved = <<>> /\ moved.wrote = ev.saved
        /\ moved.failed = ev.failed \cup {ev.rule} /\ moved \in EvaluationState
    BY <1>1, <1>2 DEF EvaluationSound, EvaluationState
  <2> HIDE DEF moved
  <2>2. EvaluationSound(alertLog, moved)
    BY <1>1, <1>2, <2>1 DEF EvaluationSound, AllKnew, Unseen, NotOf
  <2> QED  BY <1>4, <2>0, <2>2, EvaluationKeeps DEF RuleFails
<1> QED  BY <1>3, <1>4

(* The log only grows, and of a row in it only the acknowledgement changes. *)
Outlives(rows, later) ==
  /\ Len(rows) <= Len(later)
  /\ \A i \in 1..Len(rows) : /\ later[i].rule = rows[i].rule /\ later[i].ref = rows[i].ref
                             /\ later[i].firedAt = rows[i].firedAt

LEMMA KnownStaysKnown ==
  ASSUME NEW rows, NEW later, Len(rows) \in Nat, Len(later) \in Nat, Outlives(rows, later)
  PROVE  /\ \A rule, ref, at, knew : Knew(rows, rule, ref, at, knew) => Knew(later, rule, ref, at, knew)
         /\ \A written : AllKnew(rows, written) => AllKnew(later, written)
         /\ \A ev : EvaluationSound(rows, ev) => EvaluationSound(later, ev)
<1>1. ASSUME NEW rule, NEW ref, NEW at, NEW knew, Knew(rows, rule, ref, at, knew)
      PROVE  Knew(later, rule, ref, at, knew)
  <2> SUFFICES ASSUME NEW i \in knew
               PROVE  /\ i \in 1..Len(later)
                      /\ (later[i].rule = rule /\ later[i].ref = ref)
                           => \/ at - later[i].firedAt >= DedupeWindow[rule]
                              \/ DedupeWindow[rule] = 0
    BY DEF Knew
  <2>1. i \in 1..Len(rows)
    BY <1>1 DEF Knew
  <2>2. i \in 1..Len(later) /\ later[i].rule = rows[i].rule /\ later[i].ref = rows[i].ref
        /\ later[i].firedAt = rows[i].firedAt
    BY <2>1 DEF Outlives
  <2> QED  BY <1>1, <2>1, <2>2 DEF Knew
<1>2. ASSUME NEW written, AllKnew(rows, written) PROVE AllKnew(later, written)
  BY <1>1, <1>2 DEF AllKnew
<1>3. ASSUME NEW ev, EvaluationSound(rows, ev) PROVE EvaluationSound(later, ev)
  BY <1>1, <1>2, <1>3 DEF EvaluationSound
<1> QED  BY <1>1, <1>2, <1>3

(* A step that changes the log, and of the evaluations at most resets one. *)
LEMMA LogKeeps ==
  ASSUME AlertsInv, alertLog' \in Seq(LoggedAlert), Outlives(alertLog, alertLog'),
         AllKnew(alertLog', alertLog'),
         \A i \in 1..Len(alertLog') : alertLog'[i].acks = IF alertLog'[i].acknowledged THEN 1 ELSE 0,
         evaluation' \in [Evaluation -> EvaluationState],
         \A e \in Evaluation : evaluation'[e] = evaluation[e] \/ evaluation'[e] = NotRunning,
         readAlert' = readAlert, alertHour' = alertHour
  PROVE  AlertsInv'
<1>1. Len(alertLog) \in Nat /\ Len(alertLog') \in Nat /\ Len(alertLog) <= Len(alertLog')
  BY LenProperties DEF AlertsInv, AlertTypes, Outlives
<1>2. \A e \in Evaluation : EvaluationSound(alertLog', evaluation'[e])
  <2> TAKE e \in Evaluation
  <2>1. EvaluationSound(alertLog', evaluation[e])
    BY <1>1, SoundEvaluation, KnownStaysKnown
  <2>2. EvaluationSound(alertLog', NotRunning)
    BY IdleIsSound
  <2> QED  BY <2>1, <2>2
<1>3. AlertTypes'
  <2>1. \A a \in Acknowledger : readAlert[a].id \in Nat /\ readAlert[a].id <= Len(alertLog)
    BY DEF AlertsInv, AlertTypes
  <2>2. \A a \in Acknowledger : readAlert'[a].id <= Len(alertLog')
    BY <1>1, <2>1
  <2> QED  BY <2>2 DEF AlertsInv, AlertTypes
<1>4. AlertsKnew'
  BY <1>2 DEF AlertsKnew, EvaluationSound
<1>5. RulesTakeTurns'
  BY <1>2 DEF RulesTakeTurns, EvaluationSound
<1>6. AcksAreFlagged'
  BY <1>2 DEF AcksAreFlagged, EvaluationSound
<1> QED  BY <1>3, <1>4, <1>5, <1>6 DEF AlertsInv

LEMMA EndEvaluationKeeps ==
  ASSUME AlertsInv, NEW e \in Evaluation, EndEvaluation(e)
  PROVE  AlertsInv'
<1> DEFINE wrote == evaluation[e].wrote
<1>1. /\ alertLog \in Seq(LoggedAlert) /\ wrote \in Seq(LoggedAlert)
      /\ Len(alertLog) \in Nat /\ Len(wrote) \in Nat
      /\ evaluation \in [Evaluation -> EvaluationState]
  <2>1. alertLog \in Seq(LoggedAlert) /\ evaluation \in [Evaluation -> EvaluationState]
    BY DEF AlertsInv, AlertTypes
  <2>2. wrote \in Seq(LoggedAlert)
    BY <2>1 DEF EvaluationState
  <2> QED  BY <2>1, <2>2, LenProperties
<1>2. AllKnew(alertLog, alertLog) /\ AllKnew(alertLog, wrote) /\ Unseen(wrote)
  BY SoundEvaluation DEF AlertsInv, AlertsKnew, EvaluationSound
<1>3. \A i \in 1..Len(alertLog) : alertLog[i].acks = IF alertLog[i].acknowledged THEN 1 ELSE 0
  BY DEF AlertsInv, AcksAreFlagged
<1>4. /\ evaluation' \in [Evaluation -> EvaluationState]
      /\ \A f \in Evaluation : evaluation'[f] = evaluation[f] \/ evaluation'[f] = NotRunning
      /\ readAlert' = readAlert /\ alertHour' = alertHour
  <2>1. evaluation' = [evaluation EXCEPT ![e] = NotRunning] /\ UNCHANGED <<readAlert, alertHour>>
    BY DEF EndEvaluation
  <2>2. NotRunning \in EvaluationState
    BY IdleIsSound DEF EvaluationSound
  <2> QED  BY <1>1, <2>1, <2>2
<1> HIDE DEF wrote
<1>5. CASE alertLog' = alertLog
  <2>1. Outlives(alertLog, alertLog)
    BY <1>1 DEF Outlives
  <2> QED  BY <1>1, <1>2, <1>3, <1>4, <1>5, <2>1, LogKeeps
<1>6. CASE alertLog' = alertLog \o wrote
  <2> DEFINE rows == alertLog \o wrote
  <2>1. /\ rows \in Seq(LoggedAlert) /\ Len(rows) = Len(alertLog) + Len(wrote)
        /\ \A i \in 1..(Len(alertLog) + Len(wrote)) :
             rows[i] = IF i <= Len(alertLog) THEN alertLog[i] ELSE wrote[i - Len(alertLog)]
    BY <1>1, ConcatProperties
  <2> HIDE DEF rows
  <2>2. \A i \in 1..Len(rows) : \/ i \in 1..Len(alertLog) /\ rows[i] = alertLog[i]
                                \/ \E j \in 1..Len(wrote) : rows[i] = wrote[j]
    <3> TAKE i \in 1..Len(rows)
    <3>1. CASE i <= Len(alertLog)
      BY <1>1, <2>1, <3>1
    <3>2. CASE i > Len(alertLog)
      <4>1. i - Len(alertLog) \in 1..Len(wrote) /\ rows[i] = wrote[i - Len(alertLog)]
        BY <1>1, <2>1, <3>2
      <4> QED  BY <4>1
    <3> QED  BY <1>1, <2>1, <3>1, <3>2
  <2>3. Outlives(alertLog, rows)
    BY <1>1, <2>1 DEF Outlives
  <2>4. AllKnew(rows, rows)
    <3>1. AllKnew(rows, alertLog) /\ AllKnew(rows, wrote)
      BY <1>1, <1>2, <2>1, <2>3, KnownStaysKnown
    <3> QED  BY <2>2, <3>1 DEF AllKnew
  <2>5. \A i \in 1..Len(rows) : rows[i].acks = IF rows[i].acknowledged THEN 1 ELSE 0
    BY <1>2, <1>3, <2>2 DEF Unseen
  <2>6. alertLog' = rows
    BY <1>6 DEF rows
  <2> QED  BY <1>4, <2>1, <2>3, <2>4, <2>5, <2>6, LogKeeps
<1> QED  BY <1>5, <1>6 DEF EndEvaluation, wrote

LEMMA AcknowledgeKeeps ==
  ASSUME AlertsInv, NEW a \in Acknowledger, AcknowledgeAlert(a)
  PROVE  AlertsInv'
<1> DEFINE id == readAlert[a].id
           row == [alertLog[id] EXCEPT !.acknowledged = TRUE, !.version = @ + 1, !.acks = @ + 1]
<1>1. alertLog \in Seq(LoggedAlert) /\ Len(alertLog) \in Nat /\ id \in 1..Len(alertLog)
  BY LenProperties DEF AcknowledgeAlert, AlertsInv, AlertTypes
<1>2. alertLog[id] \in LoggedAlert /\ alertLog[id].acks = 0
  BY <1>1, ElementOfSeq DEF AcknowledgeAlert, MayAcknowledge, AlertsInv, AcksAreFlagged
<1>3. alertLog' = [alertLog EXCEPT ![id] = row]
  BY DEF AcknowledgeAlert
<1>4. /\ row \in LoggedAlert /\ row.acks = 1 /\ row.acknowledged
      /\ row.rule = alertLog[id].rule /\ row.ref = alertLog[id].ref /\ row.firedAt = alertLog[id].firedAt
      /\ row.knew = alertLog[id].knew
  <2> DEFINE old == alertLog[id]
  <2>1. /\ old \in LoggedAlert /\ old.acks = 0
        /\ row = [old EXCEPT !.acknowledged = TRUE, !.version = @ + 1, !.acks = @ + 1]
    BY <1>2
  <2> HIDE DEF old, row
  <2>2. old.version + 1 \in Nat /\ old.acks + 1 = 1
    BY <2>1 DEF LoggedAlert
  <2>3. /\ row.acks = 1 /\ row.acknowledged
        /\ row.rule = old.rule /\ row.ref = old.ref /\ row.firedAt = old.firedAt /\ row.knew = old.knew
    BY <2>1, <2>2 DEF LoggedAlert
  <2>4. row \in LoggedAlert
    <3>1. row = [rule |-> old.rule, ref |-> old.ref, firedAt |-> old.firedAt, version |-> old.version + 1,
                 acknowledged |-> TRUE, knew |-> old.knew, acks |-> 1]
      BY <2>1, <2>2 DEF LoggedAlert
    <3>2. /\ old.rule \in AlertRule /\ old.ref \in AlertRef /\ old.firedAt \in 0..LastAlertHour
          /\ old.knew \in SUBSET Nat
      BY <2>1 DEF LoggedAlert
    <3> QED  BY <2>2, <3>1, <3>2 DEF LoggedAlert
  <2> QED  BY <2>3, <2>4 DEF old
<1> HIDE DEF row
<1>5. /\ alertLog' \in Seq(LoggedAlert) /\ Len(alertLog') = Len(alertLog)
      /\ \A i \in 1..Len(alertLog) : alertLog'[i] = IF i = id THEN row ELSE alertLog[i]
  BY <1>1, <1>3, <1>4, ExceptSeq
<1>6. \A i \in 1..Len(alertLog) :
        /\ alertLog'[i].rule = alertLog[i].rule /\ alertLog'[i].ref = alertLog[i].ref
        /\ alertLog'[i].firedAt = alertLog[i].firedAt /\ alertLog'[i].knew = alertLog[i].knew
  BY <1>4, <1>5
<1>7. Outlives(alertLog, alertLog')
  BY <1>1, <1>5, <1>6 DEF Outlives
<1>8. AllKnew(alertLog', alertLog')
  <2>1. AllKnew(alertLog', alertLog)
    BY <1>1, <1>5, <1>7, KnownStaysKnown DEF AlertsInv, AlertsKnew
  <2> QED  BY <1>5, <1>6, <2>1 DEF AllKnew
<1>9. \A i \in 1..Len(alertLog') : alertLog'[i].acks = IF alertLog'[i].acknowledged THEN 1 ELSE 0
  BY <1>4, <1>5 DEF AlertsInv, AcksAreFlagged
<1>10. /\ evaluation' = evaluation /\ readAlert' = readAlert /\ alertHour' = alertHour
       /\ evaluation \in [Evaluation -> EvaluationState]
  BY DEF AcknowledgeAlert, AlertsInv, AlertTypes
<1> QED  BY <1>5, <1>7, <1>8, <1>9, <1>10, LogKeeps

LEMMA UsersKeep ==
  ASSUME AlertsInv, NextAlertHour \/ (\E a \in Acknowledger : ReadAlert(a)) \/ UNCHANGED alertVars
  PROVE  AlertsInv'
<1>1. alertLog' = alertLog /\ evaluation' = evaluation
  BY DEF NextAlertHour, ReadAlert, alertVars
<1>2. alertHour' \in 0..LastAlertHour
  BY AlertsAssumption DEF NextAlertHour, ReadAlert, alertVars, AlertsInv, AlertTypes
<1>3. /\ readAlert' \in [Acknowledger -> [id : Nat, version : Nat]]
      /\ \A a \in Acknowledger : readAlert'[a].id <= Len(alertLog)
  <2>1. CASE \E a \in Acknowledger : ReadAlert(a)
    <3>1. PICK a \in Acknowledger, id \in 1..Len(alertLog) :
            readAlert' = [readAlert EXCEPT ![a] = [id |-> id, version |-> alertLog[id].version]]
      BY <2>1 DEF ReadAlert
    <3>2. alertLog[id] \in LoggedAlert /\ id \in Nat /\ id <= Len(alertLog)
      BY ElementOfSeq, LenProperties DEF AlertsInv, AlertTypes
    <3>3. alertLog[id].version \in Nat
      BY <3>2 DEF LoggedAlert
    <3>4. /\ readAlert \in [Acknowledger -> [id : Nat, version : Nat]]
          /\ \A b \in Acknowledger : readAlert[b].id <= Len(alertLog)
      BY DEF AlertsInv, AlertTypes
    <3>5. [id |-> id, version |-> alertLog[id].version] \in [id : Nat, version : Nat]
      BY <3>2, <3>3
    <3>6. \A b \in Acknowledger :
            readAlert'[b] = IF b = a THEN [id |-> id, version |-> alertLog[id].version] ELSE readAlert[b]
      BY <3>1, <3>4
    <3> QED  BY <3>1, <3>2, <3>4, <3>5, <3>6
  <2>2. CASE readAlert' = readAlert
    BY <2>2 DEF AlertsInv, AlertTypes
  <2> QED  BY <2>1, <2>2 DEF NextAlertHour, alertVars
<1>4. AlertTypes'
  BY <1>1, <1>2, <1>3 DEF AlertsInv, AlertTypes
<1>5. AlertsKnew' /\ RulesTakeTurns' /\ AcksAreFlagged'
  BY <1>1 DEF AlertsInv, AlertsKnew, RulesTakeTurns, AcksAreFlagged
<1> QED  BY <1>4, <1>5 DEF AlertsInv

LEMMA NextAlertsKeeps == AlertsInv /\ [NextAlerts]_alertVars => AlertsInv'
<1> SUFFICES ASSUME AlertsInv, [NextAlerts]_alertVars PROVE AlertsInv'
  OBVIOUS
<1>1. CASE NextAlertHour \/ (\E a \in Acknowledger : ReadAlert(a)) \/ UNCHANGED alertVars
  BY <1>1, UsersKeep
<1>2. ASSUME NEW a \in Acknowledger, AcknowledgeAlert(a)
      PROVE  AlertsInv'
  BY <1>2, AcknowledgeKeeps
<1>3. ASSUME NEW e \in Evaluation,
             \/ EvaluateAlertRules(e, AlertRule)
             \/ \E rule \in AlertRule : EvaluateAlertRules(e, {rule})
      PROVE  AlertsInv'
  <2>1. AlertRule \in SUBSET AlertRule /\ \A rule \in AlertRule : {rule} \in SUBSET AlertRule
    OBVIOUS
  <2> QED  BY <1>3, <2>1, EvaluateKeeps
<1>4. ASSUME NEW e \in Evaluation, RunSourceQuery(e)
      PROVE  AlertsInv'
  BY <1>4, SourceQueryKeeps
<1>5. ASSUME NEW e \in Evaluation, LookUpAlert(e)
      PROVE  AlertsInv'
  BY <1>5, LookUpKeeps
<1>6. ASSUME NEW e \in Evaluation, FireAlert(e)
      PROVE  AlertsInv'
  BY <1>6, FireKeeps
<1>7. ASSUME NEW e \in Evaluation, RuleDone(e) \/ RuleFails(e)
      PROVE  AlertsInv'
  BY <1>7, RuleEndsKeep
<1>8. ASSUME NEW e \in Evaluation, EndEvaluation(e)
      PROVE  AlertsInv'
  BY <1>8, EndEvaluationKeeps
<1> QED
  BY <1>1, <1>2, <1>3, <1>4, <1>5, <1>6, <1>7, <1>8 DEF NextAlerts

(* A rule repeats an alert within its window only if two evaluations       *)
(* overlapped, a rule that failed leaves none of its alerts, and an alert  *)
(* is acknowledged once: for any rules, entities, windows, number of       *)
(* evaluations and users (modules/platform, EvaluateAlertRules).           *)
THEOREM AlertsStaySound == SpecAlerts => []AlertsAreSound
<1>1. AlertsInv => AlertsAreSound
  <2> SUFFICES ASSUME AlertsInv PROVE AlertsAreSound
    OBVIOUS
  <2>1. RepeatsOverlapped
    <3> SUFFICES ASSUME NEW i \in 1..Len(alertLog), NEW j \in 1..Len(alertLog),
                        alertLog[i].rule = alertLog[j].rule, alertLog[i].ref = alertLog[j].ref,
                        i \in alertLog[j].knew
                 PROVE  \/ alertLog[j].firedAt - alertLog[i].firedAt >= DedupeWindow[alertLog[i].rule]
                        \/ DedupeWindow[alertLog[i].rule] = 0
      BY DEF RepeatsOverlapped
    <3>1. Knew(alertLog, alertLog[j].rule, alertLog[j].ref, alertLog[j].firedAt, alertLog[j].knew)
      BY DEF AlertsInv, AlertsKnew, AllKnew
    <3> QED  BY <3>1 DEF Knew
  <2>2. FailedRulesLeaveNothing
    BY DEF AlertsInv, RulesTakeTurns, NotOf, FailedRulesLeaveNothing
  <2>3. AcknowledgedOnce
    BY DEF AlertsInv, AcksAreFlagged, AcknowledgedOnce
  <2> QED  BY <2>1, <2>2, <2>3 DEF AlertsAreSound
<1> QED  BY <1>1, InitAlertsKeeps, NextAlertsKeeps, PTL DEF SpecAlerts

-----------------------------------------------------------------------------
(* The handheld (Handheld).                                                *)

SubmissionStage == {"checking", "saving", "committed", "over"}
Submission == [screen : Screen, scan : ScanNo, stage : SubmissionStage, goods : Goods,
               shelf : Shelf \cup {NoShelf}, missed : BOOLEAN]
FormState == {"idle", "ready", "suggesting", "unavailable", "submitting", "rejected", "accepted",
              "done"}
Word == {"nothing", "ok", "error"}

Failed == -1    \* what the badge shows of a count that failed

PdaTypes ==
  /\ page \in Screen \cup {"home"}
  /\ machine \in [state : FormState, typed : ScanNo, sub : Nat]
  /\ placing \in [goods : Goods, suggestFor : Goods, suggestion : Shelf \cup {NoShelf},
                  scanned : Shelf \cup {NoShelf}, missed : BOOLEAN]
  /\ subs \in Seq(Submission)
  /\ queued \in Seq(Nat) /\ \A q \in DOMAIN queued : queued[q] \in DOMAIN subs
  /\ told \in [1..MaxScans -> Word]
  /\ badge \in [shown : Nat \cup {Failed}, reads : Seq(Nat \cup {Reading}), overtaken : BOOLEAN]
  /\ scanNo \in ScanNo
  /\ page = "home" => machine = Unmounted

InQueue(i) == \E q \in DOMAIN queued : queued[q] = i

(* A submission is alive while it may still put, or has put, its scan into *)
(* the queue.                                                              *)
Alive(i) == i \in DOMAIN subs /\ (subs[i].stage # "over" \/ InQueue(i))
Claims(i, n) == Alive(i) /\ subs[i].scan = n

(* The commands in the queue are those that were committed, each once. *)
QueueOfCommitted ==
  /\ \A q \in DOMAIN queued : subs[queued[q]].stage \in {"committed", "over"}
  /\ \A i \in DOMAIN subs : subs[i].stage = "committed" => InQueue(i)
  /\ \A p, q \in DOMAIN queued : queued[p] = queued[q] => p = q

ScansBelow == machine.typed <= scanNo /\ \A i \in DOMAIN subs : subs[i].scan <= scanNo

(* A scan has one living submission, and a form that listens none: that is *)
(* what the second tap meets.                                              *)
OneAlive == \A n \in ScanNo \ {0} : \A i, j \in DOMAIN subs : Claims(i, n) /\ Claims(j, n) => i = j
FormIsFree ==
  /\ (machine.state # "submitting" /\ machine.typed # 0) =>
       \A i \in DOMAIN subs : ~Claims(i, machine.typed)
  /\ machine.state = "submitting" =>
       /\ machine.sub \in DOMAIN subs /\ subs[machine.sub].scan = machine.typed
       /\ machine.typed # 0 => \A i \in DOMAIN subs : Claims(i, machine.typed) => i = machine.sub

ToldRight ==
  \A n \in 1..MaxScans :
    /\ told[n] = "ok" => \E i \in DOMAIN subs : subs[i].scan = n /\ InQueue(i)
    /\ told[n] = "error" => \A i \in DOMAIN subs : ~Claims(i, n)

(* While nothing waits to be counted again, the last count under way is of *)
(* the queue as it is; when there is none, its result is on the badge.     *)
BadgeFollows ==
  ((\A i \in DOMAIN subs : subs[i].stage # "committed") /\ ~badge.overtaken) =>
    IF badge.reads = <<>> THEN badge.shown \in {Len(queued), Failed}
    ELSE badge.reads[Len(badge.reads)] \in {Reading, Len(queued)}

(* A suggestion is for the goods of the screen, unless it missed a change. *)
SuggestionsStand ==
  /\ placing.suggestion # NoShelf => placing.suggestion \in SuggestedShelf[placing.suggestFor]
  /\ ~placing.missed => placing.goods = placing.suggestFor
  /\ \A i \in DOMAIN subs : (subs[i].screen = "putaway" /\ ~subs[i].missed) =>
       subs[i].shelf \in SuggestedShelf[subs[i].goods]

PdaInv == /\ PdaTypes /\ QueueOfCommitted /\ ScansBelow /\ OneAlive /\ FormIsFree /\ ToldRight
          /\ BadgeFollows /\ SuggestionsStand


(* A submission that moves on keeps all but its stage. *)
LEMMA MovedOn ==
  ASSUME PdaTypes, NEW i \in DOMAIN subs, NEW from, NEW to \in SubmissionStage, MoveOn(i, from, to)
  PROVE  /\ subs[i].stage = from
         /\ subs' \in Seq(Submission) /\ DOMAIN subs' = DOMAIN subs
         /\ \A j \in DOMAIN subs :
              /\ subs'[j].scan = subs[j].scan /\ subs'[j].screen = subs[j].screen
              /\ subs'[j].goods = subs[j].goods /\ subs'[j].shelf = subs[j].shelf
              /\ subs'[j].missed = subs[j].missed
              /\ subs'[j].stage = IF j = i THEN to ELSE subs[j].stage
<1> DEFINE moved == [subs[i] EXCEPT !.stage = to]
<1>1. subs' = [subs EXCEPT ![i] = moved] /\ subs[i].stage = from
  BY DEF MoveOn
<1>2. subs \in Seq(Submission) /\ subs[i] \in Submission
  BY DEF PdaTypes
<1>3. /\ moved \in Submission /\ moved.stage = to /\ moved.scan = subs[i].scan
      /\ moved.screen = subs[i].screen /\ moved.goods = subs[i].goods
      /\ moved.shelf = subs[i].shelf /\ moved.missed = subs[i].missed
  BY <1>2 DEF Submission
<1> HIDE DEF moved
<1>4. subs' \in Seq(Submission) /\ DOMAIN subs' = DOMAIN subs
  BY <1>1, <1>2, <1>3
<1>5. \A j \in DOMAIN subs : subs'[j] = IF j = i THEN moved ELSE subs[j]
  BY <1>1, <1>2
<1> QED  BY <1>1, <1>3, <1>4, <1>5

(* What a form submits is one more submission, of what is typed. *)
LEMMA Started ==
  ASSUME PdaTypes, page # "home", NEW start \in SubmissionStage, NEW goods \in Goods,
         NEW shelf \in Shelf \cup {NoShelf}, StartSubmission(start, goods, shelf)
  PROVE  /\ subs' \in Seq(Submission) /\ Len(subs') = Len(subs) + 1
         /\ Len(subs) \in Nat /\ DOMAIN subs = 1..Len(subs) /\ DOMAIN subs' = 1..(Len(subs) + 1)
         /\ \A j \in DOMAIN subs : subs'[j] = subs[j]
         /\ LET new == subs'[Len(subs) + 1] IN
            /\ new.screen = page /\ new.scan = machine.typed /\ new.stage = start
            /\ new.goods = goods /\ new.shelf = shelf /\ new.missed = placing.missed
         /\ machine'.state = "submitting" /\ machine'.typed = machine.typed
         /\ machine'.sub = Len(subs) + 1
         /\ machine' \in [state : FormState, typed : ScanNo, sub : Nat]
<1> DEFINE new == [screen |-> page, scan |-> machine.typed, stage |-> start, goods |-> goods,
                   shelf |-> shelf, missed |-> placing.missed]
<1>1. new \in Submission
  BY DEF PdaTypes, Submission
<1>2. subs' = Append(subs, new) /\ subs \in Seq(Submission)
  BY DEF StartSubmission, PdaTypes
<1>3. /\ new.screen = page /\ new.scan = machine.typed /\ new.stage = start
      /\ new.goods = goods /\ new.shelf = shelf /\ new.missed = placing.missed
  OBVIOUS
<1> HIDE DEF new
<1>4. /\ subs' \in Seq(Submission) /\ Len(subs') = Len(subs) + 1 /\ Len(subs) \in Nat
      /\ DOMAIN subs = 1..Len(subs) /\ DOMAIN subs' = 1..(Len(subs) + 1)
  BY <1>1, <1>2
<1>5. subs'[Len(subs) + 1] = new /\ \A j \in DOMAIN subs : subs'[j] = subs[j]
  BY <1>1, <1>2, <1>4
<1>6. machine \in [state : FormState, typed : ScanNo, sub : Nat] /\ "submitting" \in FormState
  BY DEF PdaTypes, FormState
<1>7. machine' = [machine EXCEPT !.state = "submitting", !.sub = Len(subs) + 1]
  BY DEF StartSubmission
<1>8. /\ machine'.state = "submitting" /\ machine'.typed = machine.typed
      /\ machine'.sub = Len(subs) + 1
      /\ machine' \in [state : FormState, typed : ScanNo, sub : Nat]
  <2>1. ASSUME NEW k \in Nat
        PROVE  /\ [machine EXCEPT !.state = "submitting", !.sub = k].state = "submitting"
               /\ [machine EXCEPT !.state = "submitting", !.sub = k].typed = machine.typed
               /\ [machine EXCEPT !.state = "submitting", !.sub = k].sub = k
               /\ [machine EXCEPT !.state = "submitting", !.sub = k]
                    \in [state : FormState, typed : ScanNo, sub : Nat]
    BY <1>6
  <2>2. Len(subs) + 1 \in Nat
    BY <1>4
  <2> QED  BY <1>7, <2>1, <2>2
<1> QED  BY <1>3, <1>4, <1>5, <1>8

(* The word of one scan. *)
LEMMA ToldOf ==
  ASSUME PdaTypes, NEW n \in ScanNo, NEW word \in Word, told' = Tell(n, word)
  PROVE  /\ told' \in [1..MaxScans -> Word]
         /\ \A m \in 1..MaxScans : told'[m] = IF m = n THEN word ELSE told[m]
<1>1. told \in [1..MaxScans -> Word] /\ MaxScans \in Nat
  BY HandheldAssumption DEF PdaTypes
<1>2. CASE n = 0
  BY <1>1, <1>2 DEF Tell
<1>3. CASE n # 0
  <2>1. n \in 1..MaxScans
    BY <1>1, <1>3 DEF ScanNo
  <2> QED  BY <1>1, <1>3, <2>1 DEF Tell
<1> QED  BY <1>2, <1>3

(* Removing the first of a sequence keeps its last. *)
LEMMA FirstRemoved ==
  ASSUME NEW S, NEW s \in Seq(S), NEW k \in 1..Len(s)
  PROVE  /\ RemoveAt(s, k) \in Seq(S)
         /\ (k = 1 /\ Len(s) = 1) => RemoveAt(s, k) = <<>>
         /\ (k = 1 /\ Len(s) # 1) =>
              /\ RemoveAt(s, k) # <<>>
              /\ RemoveAt(s, k)[Len(RemoveAt(s, k))] = s[Len(s)]
<1> DEFINE front == SubSeq(s, 1, k - 1)
           back  == SubSeq(s, k + 1, Len(s))
<1>1. RemoveAt(s, k) = front \o back
  BY DEF RemoveAt
<1>2. Len(s) \in Nat /\ k \in Nat /\ 1 <= k /\ k <= Len(s)
  OBVIOUS
<1>3. front \in Seq(S) /\ Len(front) = k - 1
  BY <1>2, SubSeqProperties
<1>4. /\ back \in Seq(S) /\ Len(back) = Len(s) - k
      /\ \A i \in 1..(Len(s) - k) : back[i] = s[k + i]
  BY <1>2, SubSeqProperties
<1> HIDE DEF front, back
<1>5. front \o back \in Seq(S)
  BY <1>3, <1>4, ConcatProperties
<1>6. ASSUME k = 1
      PROVE  front \o back = back
  BY <1>3, <1>4, <1>6
<1>7. ASSUME k = 1, Len(s) = 1
      PROVE  back = <<>>
  BY <1>4, <1>7
<1>8. ASSUME k = 1, Len(s) # 1
      PROVE  back # <<>> /\ back[Len(back)] = s[Len(s)]
  <2>1. Len(back) = Len(s) - 1 /\ Len(s) - 1 \in 1..(Len(s) - 1)
    BY <1>2, <1>4, <1>8
  <2>2. back[Len(s) - 1] = s[1 + (Len(s) - 1)]
    BY <1>4, <1>8, <2>1
  <2> QED  BY <1>2, <2>1, <2>2
<1> QED  BY <1>1, <1>5, <1>6, <1>7, <1>8

LEMMA ScanNosAreNumbers == ScanNo \subseteq Nat
BY HandheldAssumption DEF ScanNo

LEMMA ScansAreNumbers ==
  /\ PdaTypes => /\ scanNo \in Nat /\ machine.typed \in Nat
                 /\ \A i \in DOMAIN subs : subs[i].scan \in ScanNo /\ subs[i].scan \in Nat
  /\ PdaTypes' => scanNo' \in Nat /\ machine'.typed \in Nat
<1>1. ASSUME PdaTypes, NEW i \in DOMAIN subs
      PROVE  subs[i].scan \in ScanNo
  <2>1. subs[i] \in Submission
    BY <1>1 DEF PdaTypes
  <2> QED  BY <2>1 DEF Submission
<1>2. PdaTypes => scanNo \in ScanNo /\ machine.typed \in ScanNo
  BY DEF PdaTypes
<1>3. PdaTypes' => scanNo' \in ScanNo /\ machine'.typed \in ScanNo
  BY DEF PdaTypes
<1> QED  BY <1>1, <1>2, <1>3, ScanNosAreNumbers

(* What stays while the submissions and the queue do. *)
LEMMA ClaimsStay ==
  ASSUME UNCHANGED <<subs, queued>>
  PROVE  /\ \A i, n : Claims(i, n)' <=> Claims(i, n)
         /\ \A i : InQueue(i)' <=> InQueue(i)
         /\ QueueOfCommitted => QueueOfCommitted'
         /\ OneAlive => OneAlive'
<1>1. \A i : InQueue(i)' <=> InQueue(i)
  BY DEF InQueue
<1>2. \A i, n : Claims(i, n)' <=> Claims(i, n)
  BY <1>1 DEF Claims, Alive
<1>3. QueueOfCommitted => QueueOfCommitted'
  BY <1>1 DEF QueueOfCommitted
<1>4. OneAlive => OneAlive'
  BY <1>2 DEF OneAlive
<1> QED  BY <1>1, <1>2, <1>3, <1>4

LEMMA ToldStays == UNCHANGED <<subs, queued, told>> /\ ToldRight => ToldRight'
BY ClaimsStay DEF ToldRight

LEMMA BadgeStays == UNCHANGED <<subs, queued, badge>> /\ BadgeFollows => BadgeFollows'
BY DEF BadgeFollows

(* Only the form, its context or the scan's number change. *)
LEMMA FormKeeps ==
  ASSUME PdaInv, UNCHANGED <<subs, queued, told, badge>>,
         PdaTypes', SuggestionsStand', scanNo <= scanNo',
         \/ machine' = machine
         \/ /\ machine'.state # "submitting"
            /\ \/ machine'.typed = 0
               \/ machine'.typed = machine.typed /\ machine.state # "submitting"
               \/ machine'.typed = scanNo' /\ scanNo' = scanNo + 1
  PROVE  PdaInv'
<1>1. /\ \A i, n : Claims(i, n)' <=> Claims(i, n)
      /\ QueueOfCommitted' /\ OneAlive' /\ ToldRight' /\ BadgeFollows'
  BY ClaimsStay, ToldStays, BadgeStays DEF PdaInv
<1>2. /\ scanNo \in Nat /\ scanNo' \in Nat /\ machine.typed \in Nat /\ machine'.typed \in Nat
      /\ \A i \in DOMAIN subs : subs[i].scan \in Nat
  BY ScansAreNumbers DEF PdaInv
<1>3. ScansBelow'
  BY <1>2 DEF PdaInv, ScansBelow
<1>4. FormIsFree'
  <2>1. CASE machine' = machine
    BY <1>1, <2>1 DEF PdaInv, FormIsFree
  <2>2. CASE machine'.state # "submitting" /\ machine'.typed = 0
    BY <2>2 DEF FormIsFree
  <2>3. CASE /\ machine'.state # "submitting" /\ machine.state # "submitting"
             /\ machine'.typed = machine.typed
    BY <1>1, <2>3 DEF PdaInv, FormIsFree
  <2>4. CASE machine'.state # "submitting" /\ machine'.typed = scanNo' /\ scanNo' = scanNo + 1
    <3>1. \A i \in DOMAIN subs : ~Claims(i, machine'.typed)
      BY <1>2, <2>4 DEF PdaInv, ScansBelow, Claims
    <3> QED  BY <1>1, <2>4, <3>1 DEF FormIsFree
  <2> QED  BY <2>1, <2>2, <2>3, <2>4
<1> QED  BY <1>1, <1>3, <1>4 DEF PdaInv

LEMMA AskedIsContext ==
  ASSUME NEW g \in Goods
  PROVE  /\ Asked(g) \in [goods : Goods, suggestFor : Goods, suggestion : Shelf \cup {NoShelf},
                          scanned : Shelf \cup {NoShelf}, missed : BOOLEAN]
         /\ Asked(g).suggestion = NoShelf /\ Asked(g).goods = Asked(g).suggestFor
         /\ ~Asked(g).missed
BY DEF Asked

LEMMA Starts ==
  ASSUME NEW p \in Screen
  PROVE  MachineOf[p].start \in FormState \ {"submitting"}
         /\ MachineOf[p].accepted \in FormState \ {"submitting"}
         /\ MachineOf[p].again \in FormState \ {"submitting"}
BY DEF Screen, MachineOf, FormState, ReceiveMachine, PickMachine, CheckMachine, LoadMachine,
       PutawayMachine

LEMMA InitPda == InitHandheld => PdaInv
<1> SUFFICES ASSUME InitHandheld PROVE PdaInv
  OBVIOUS
<1>1. PICK g \in Goods : placing = Asked(g)
  BY DEF InitHandheld
<1>2. Unmounted \in [state : FormState, typed : ScanNo, sub : Nat]
  BY HandheldAssumption DEF Unmounted, FormState, ScanNo
<1>3. told \in [1..MaxScans -> Word]
  BY DEF InitHandheld, Word
<1>4. badge.reads \in Seq(Nat \cup {Reading}) /\ Len(badge.reads) = 1 /\ badge.reads[1] = Reading
      /\ badge.reads # <<>>
  BY DEF InitHandheld
<1>5. PdaTypes
  <2>1. badge \in [shown : Nat \cup {Failed}, reads : Seq(Nat \cup {Reading}), overtaken : BOOLEAN]
    BY <1>4 DEF InitHandheld
  <2> QED  BY <1>1, <1>2, <1>3, <2>1, AskedIsContext, HandheldAssumption
              DEF PdaTypes, InitHandheld, ScanNo
<1>6. QueueOfCommitted /\ OneAlive /\ ToldRight
  BY DEF InitHandheld, QueueOfCommitted, OneAlive, ToldRight
<1>7. ScansBelow /\ FormIsFree
  BY DEF InitHandheld, ScansBelow, FormIsFree, Unmounted
<1>8. BadgeFollows
  BY <1>4 DEF BadgeFollows
<1>9. SuggestionsStand
  BY <1>1, AskedIsContext DEF InitHandheld, SuggestionsStand
<1> QED  BY <1>5, <1>6, <1>7, <1>8, <1>9 DEF PdaInv

LEMMA OpenPageKeeps ==
  ASSUME PdaInv, NEW p \in Screen \cup {"home"}, OpenPage(p)
  PROVE  PdaInv'
<1>1. PICK g \in Goods : placing' = Asked(g)
  BY DEF OpenPage
<1>2. Unmounted \in [state : FormState, typed : ScanNo, sub : Nat] /\ Unmounted.typed = 0
      /\ Unmounted.state # "submitting"
  BY HandheldAssumption DEF Unmounted, FormState, ScanNo
<1>3. /\ machine' \in [state : FormState, typed : ScanNo, sub : Nat] /\ machine'.typed = 0
      /\ machine'.state # "submitting"
  <2>1. CASE p = "home"
    BY <1>2, <2>1 DEF OpenPage
  <2>2. CASE p # "home"
    BY <1>2, <2>2, Starts DEF OpenPage, Unmounted
  <2> QED  BY <2>1, <2>2
<1>4. UNCHANGED <<subs, queued, told, badge, scanNo>> /\ page' = p
      /\ (p = "home" => machine' = Unmounted)
  BY DEF OpenPage
<1>5. PdaTypes'
  BY <1>1, <1>3, <1>4, AskedIsContext DEF PdaInv, PdaTypes
<1>6. SuggestionsStand'
  BY <1>1, <1>4, AskedIsContext DEF PdaInv, SuggestionsStand
<1>7. scanNo <= scanNo'
  BY <1>4, HandheldAssumption DEF PdaInv, PdaTypes, ScanNo
<1> QED  BY <1>3, <1>4, <1>5, <1>6, <1>7, FormKeeps

LEMMA EnterFieldsKeeps ==
  ASSUME PdaInv, EnterFields
  PROVE  PdaInv'
<1>1. scanNo \in Nat /\ scanNo' = scanNo + 1 /\ scanNo' \in ScanNo /\ scanNo <= scanNo'
  BY HandheldAssumption DEF PdaInv, PdaTypes, ScanNo, EnterFields
<1>2. /\ machine' \in [state : FormState, typed : ScanNo, sub : Nat] /\ machine'.typed = scanNo'
      /\ machine'.state = machine.state /\ machine.state # "submitting"
  <2>1. machine \in [state : FormState, typed : ScanNo, sub : Nat]
    BY DEF PdaInv, PdaTypes
  <2>2. machine' = [machine EXCEPT !.typed = scanNo']
    BY <1>1 DEF EnterFields
  <2>3. machine.state # "submitting"
    BY DEF EnterFields, Listening
  <2> QED  BY <1>1, <2>1, <2>2, <2>3
<1>3. /\ placing' \in [goods : Goods, suggestFor : Goods, suggestion : Shelf \cup {NoShelf},
                       scanned : Shelf \cup {NoShelf}, missed : BOOLEAN]
      /\ placing'.suggestion = placing.suggestion /\ placing'.suggestFor = placing.suggestFor
      /\ placing'.goods = placing.goods /\ placing'.missed = placing.missed
  <2>1. placing \in [goods : Goods, suggestFor : Goods, suggestion : Shelf \cup {NoShelf},
                     scanned : Shelf \cup {NoShelf}, missed : BOOLEAN]
    BY DEF PdaInv, PdaTypes
  <2>2. placing' = placing \/ \E s \in Shelf : placing' = [placing EXCEPT !.scanned = s]
    BY DEF EnterFields
  <2> QED  BY <2>1, <2>2
<1>4. UNCHANGED <<page, subs, queued, told, badge>> /\ page # "home"
  BY DEF EnterFields
<1>5. PdaTypes'
  BY <1>1, <1>2, <1>3, <1>4 DEF PdaInv, PdaTypes
<1>6. SuggestionsStand'
  BY <1>3, <1>4 DEF PdaInv, SuggestionsStand
<1> QED  BY <1>1, <1>2, <1>4, <1>5, <1>6, FormKeeps

(* SUBMIT with nothing typed. *)
LEMMA InvalidKeeps ==
  ASSUME PdaInv, page # "home", Listening, Invalid
  PROVE  PdaInv'
<1>1. /\ machine' \in [state : FormState, typed : ScanNo, sub : Nat]
      /\ machine'.typed = 0 /\ machine'.state # "submitting"
  <2>1. machine \in [state : FormState, typed : ScanNo, sub : Nat] /\ page \in Screen
    BY DEF PdaInv, PdaTypes
  <2>2. machine' = [machine EXCEPT !.state = MachineOf[page].again] /\ machine.typed = 0
    BY DEF Invalid
  <2> QED  BY <2>1, <2>2, Starts
<1>2. UNCHANGED <<page, placing, subs, queued, told, badge, scanNo>>
  BY DEF Invalid
<1>3. PdaTypes' /\ SuggestionsStand'
  BY <1>1, <1>2 DEF PdaInv, PdaTypes, SuggestionsStand
<1>4. scanNo <= scanNo'
  BY <1>2, HandheldAssumption DEF PdaInv, PdaTypes, ScanNo
<1> QED  BY <1>1, <1>2, <1>3, <1>4, FormKeeps

(* The put-away screen asks for a suggestion, again, or for other goods. *)
LEMMA SuggestLocationKeeps ==
  ASSUME PdaInv, SuggestLocation
  PROVE  PdaInv'
<1> DEFINE Contexts == [goods : Goods, suggestFor : Goods, suggestion : Shelf \cup {NoShelf},
                        scanned : Shelf \cup {NoShelf}, missed : BOOLEAN]
<1>1. /\ machine \in [state : FormState, typed : ScanNo, sub : Nat] /\ placing \in Contexts
      /\ page = "putaway" /\ machine.state = "suggesting"
      /\ UNCHANGED <<page, subs, queued, told, badge, scanNo>>
  BY DEF PdaInv, PdaTypes, SuggestLocation
<1>2. /\ machine' \in [state : FormState, typed : ScanNo, sub : Nat]
      /\ machine'.typed = machine.typed /\ machine'.state # "submitting"
  <2>1. \/ machine' = [machine EXCEPT !.state = "ready"]
        \/ machine' = [machine EXCEPT !.state = "unavailable"]
    BY DEF SuggestLocation
  <2> QED  BY <1>1, <2>1 DEF FormState
<1>3. /\ placing' \in Contexts /\ placing'.suggestFor = placing.suggestFor
      /\ placing'.goods = placing.goods /\ placing'.missed = placing.missed
      /\ \/ placing' = placing
         \/ placing'.suggestion \in SuggestedShelf[placing.suggestFor]
  <2>1. \/ placing' = placing
        \/ \E s \in SuggestedShelf[placing.suggestFor] :
             placing' = [placing EXCEPT !.suggestion = s]
    BY DEF SuggestLocation
  <2>2. SuggestedShelf[placing.suggestFor] \subseteq Shelf
    BY <1>1, HandheldAssumption
  <2> QED  BY <1>1, <2>1, <2>2
<1>4. PdaTypes' /\ SuggestionsStand'
  BY <1>1, <1>2, <1>3 DEF PdaInv, PdaTypes, SuggestionsStand
<1>5. scanNo <= scanNo'
  BY <1>1, ScansAreNumbers DEF PdaInv
<1> QED  BY <1>1, <1>2, <1>4, <1>5, FormKeeps

LEMMA RetryKeeps ==
  ASSUME PdaInv, RetrySuggestion
  PROVE  PdaInv'
<1> DEFINE Contexts == [goods : Goods, suggestFor : Goods, suggestion : Shelf \cup {NoShelf},
                        scanned : Shelf \cup {NoShelf}, missed : BOOLEAN]
<1>1. /\ machine \in [state : FormState, typed : ScanNo, sub : Nat] /\ placing \in Contexts
      /\ page = "putaway" /\ machine.state = "unavailable"
      /\ machine' = [machine EXCEPT !.state = "suggesting"]
      /\ placing' = [placing EXCEPT !.suggestion = NoShelf]
      /\ UNCHANGED <<page, subs, queued, told, badge, scanNo>>
  BY DEF PdaInv, PdaTypes, RetrySuggestion
<1>2. /\ machine' \in [state : FormState, typed : ScanNo, sub : Nat]
      /\ machine'.typed = machine.typed /\ machine'.state # "submitting"
  BY <1>1 DEF FormState
<1>3. /\ placing' \in Contexts /\ placing'.suggestFor = placing.suggestFor
      /\ placing'.goods = placing.goods /\ placing'.missed = placing.missed
      /\ placing'.suggestion = NoShelf
  BY <1>1
<1>4. PdaTypes' /\ SuggestionsStand'
  BY <1>1, <1>2, <1>3 DEF PdaInv, PdaTypes, SuggestionsStand
<1>5. scanNo <= scanNo'
  BY <1>1, ScansAreNumbers DEF PdaInv
<1> QED  BY <1>1, <1>2, <1>4, <1>5, FormKeeps

LEMMA SuggestChangedKeeps ==
  ASSUME PdaInv, NEW g \in Goods, SuggestChanged(g)
  PROVE  PdaInv'
<1> DEFINE Contexts == [goods : Goods, suggestFor : Goods, suggestion : Shelf \cup {NoShelf},
                        scanned : Shelf \cup {NoShelf}, missed : BOOLEAN]
<1>1. /\ machine \in [state : FormState, typed : ScanNo, sub : Nat] /\ placing \in Contexts
      /\ page = "putaway" /\ UNCHANGED <<page, subs, queued, told, badge, scanNo>>
  BY DEF PdaInv, PdaTypes, SuggestChanged
<1>2. \/ /\ placing' = [placing EXCEPT !.goods = g, !.missed = FALSE]
         /\ g = placing.suggestFor /\ machine' = machine
      \/ /\ placing' = ApplySuggest(g) /\ machine' = [machine EXCEPT !.state = "suggesting"]
         /\ machine.state # "submitting"
      \/ /\ placing' = [placing EXCEPT !.goods = g, !.missed = g # placing.suggestFor]
         /\ machine' = machine
  BY DEF SuggestChanged
<1>3. CASE /\ placing' = ApplySuggest(g) /\ machine' = [machine EXCEPT !.state = "suggesting"]
           /\ machine.state # "submitting"
  <2>1. /\ placing' \in Contexts /\ placing'.suggestion = NoShelf
        /\ placing'.goods = placing'.suggestFor
    BY <1>1, <1>3, AskedIsContext DEF ApplySuggest
  <2>2. /\ machine' \in [state : FormState, typed : ScanNo, sub : Nat]
        /\ machine'.typed = machine.typed /\ machine'.state # "submitting"
    BY <1>1, <1>3 DEF FormState
  <2>3. PdaTypes' /\ SuggestionsStand'
    BY <1>1, <2>1, <2>2 DEF PdaInv, PdaTypes, SuggestionsStand
  <2>4. scanNo <= scanNo'
    BY <1>1, ScansAreNumbers DEF PdaInv
  <2> QED  BY <1>1, <1>3, <2>2, <2>3, <2>4, FormKeeps
<1>4. CASE /\ machine' = machine
           /\ \/ /\ placing' = [placing EXCEPT !.goods = g, !.missed = FALSE]
                 /\ g = placing.suggestFor
              \/ placing' = [placing EXCEPT !.goods = g, !.missed = g # placing.suggestFor]
  <2>1. /\ placing' \in Contexts /\ placing'.suggestion = placing.suggestion
        /\ placing'.suggestFor = placing.suggestFor
        /\ ~placing'.missed => placing'.goods = placing'.suggestFor
    <3>1. CASE placing' = [placing EXCEPT !.goods = g, !.missed = FALSE] /\ g = placing.suggestFor
      BY <1>1, <3>1
    <3>2. CASE placing' = [placing EXCEPT !.goods = g, !.missed = g # placing.suggestFor]
      <4>1. (g # placing.suggestFor) \in BOOLEAN
        OBVIOUS
      <4>2. placing' \in Contexts
        BY <1>1, <3>2, <4>1
      <4>3. /\ placing'.suggestion = placing.suggestion /\ placing'.suggestFor = placing.suggestFor
            /\ placing'.goods = g /\ placing'.missed = (g # placing.suggestFor)
        BY <1>1, <3>2
      <4>4. ~placing'.missed => placing'.goods = placing'.suggestFor
        BY <4>3
      <4> HIDE DEF Contexts
      <4> QED  BY <4>2, <4>3, <4>4
    <3> QED  BY <1>4, <3>1, <3>2
  <2>2. PdaTypes' /\ SuggestionsStand'
    BY <1>1, <1>4, <2>1 DEF PdaInv, PdaTypes, SuggestionsStand
  <2>3. scanNo <= scanNo'
    BY <1>1, ScansAreNumbers DEF PdaInv
  <2> QED  BY <1>1, <1>4, <2>2, <2>3, FormKeeps
<1> QED  BY <1>2, <1>3, <1>4

(* A submission starts with what is typed, which nobody else claims. *)
LEMMA StartKeeps ==
  ASSUME PdaInv, page # "home", machine.state # "submitting",
         NEW start \in {"checking", "saving"}, NEW goods \in Goods,
         NEW shelf \in Shelf \cup {NoShelf}, StartSubmission(start, goods, shelf),
         (page = "putaway" /\ ~placing.missed) => shelf \in SuggestedShelf[goods]
  PROVE  PdaInv'
<1>0. PICK last \in {Len(subs) + 1} : TRUE
  OBVIOUS
<1>1. /\ subs' \in Seq(Submission) /\ last \in Nat /\ last \notin DOMAIN subs
      /\ DOMAIN subs' = DOMAIN subs \cup {last}
      /\ \A j \in DOMAIN subs : subs'[j] = subs[j]
      /\ subs'[last].screen = page /\ subs'[last].scan = machine.typed
      /\ subs'[last].stage = start /\ subs'[last].goods = goods
      /\ subs'[last].shelf = shelf /\ subs'[last].missed = placing.missed
  <2>1. start \in SubmissionStage
    BY DEF SubmissionStage
  <2>2. /\ Len(subs) \in Nat /\ DOMAIN subs = 1..Len(subs) /\ DOMAIN subs' = 1..(Len(subs) + 1)
    BY <2>1, Started DEF PdaInv
  <2>3. DOMAIN subs' = DOMAIN subs \cup {last} /\ last \in Nat /\ last \notin DOMAIN subs
    BY <1>0, <2>2
  <2> QED  BY <1>0, <2>1, <2>3, Started DEF PdaInv
<1>2. /\ machine' \in [state : FormState, typed : ScanNo, sub : Nat]
      /\ machine'.state = "submitting" /\ machine'.typed = machine.typed /\ machine'.sub = last
  <2>1. start \in SubmissionStage
    BY DEF SubmissionStage
  <2> QED  BY <1>0, <2>1, Started DEF PdaInv
<1>3. /\ told' = Tell(machine.typed, "nothing")
      /\ UNCHANGED <<page, placing, queued, badge, scanNo>>
  BY DEF StartSubmission
<1>4. machine.typed \in ScanNo /\ scanNo \in Nat /\ machine.typed \in Nat
  BY ScansAreNumbers DEF PdaInv, PdaTypes
<1>5. /\ told' \in [1..MaxScans -> Word]
      /\ \A m \in 1..MaxScans : told'[m] = IF m = machine.typed THEN "nothing" ELSE told[m]
  BY <1>3, <1>4, ToldOf DEF PdaInv, Word
<1>6. /\ \A q \in DOMAIN queued : queued[q] \in DOMAIN subs
      /\ \A i : InQueue(i)' <=> InQueue(i)
  BY <1>3 DEF PdaInv, PdaTypes, InQueue
<1>7. /\ \A j \in DOMAIN subs : \A n : Claims(j, n)' <=> Claims(j, n)
      /\ \A n : Claims(last, n)' <=> n = machine.typed
  <2>1. ASSUME NEW j \in DOMAIN subs, NEW n
        PROVE  Claims(j, n)' <=> Claims(j, n)
    BY <1>1, <1>6 DEF Claims, Alive
  <2>2. ASSUME NEW n
        PROVE  Claims(last, n)' <=> n = machine.typed
    <3>1. start # "over"
      OBVIOUS
    <3> QED  BY <1>1, <3>1 DEF Claims, Alive
  <2> QED  BY <2>1, <2>2
<1>8. PdaTypes'
  BY <1>1, <1>2, <1>3, <1>5, <1>6 DEF PdaInv, PdaTypes
<1>9. QueueOfCommitted'
  <2>1. start # "committed"
    OBVIOUS
  <2> QED  BY <1>1, <1>3, <1>6, <2>1 DEF PdaInv, QueueOfCommitted
<1>10. ScansBelow'
  BY <1>1, <1>2, <1>3, <1>4 DEF PdaInv, ScansBelow
<1>11. machine.typed # 0 => \A i \in DOMAIN subs : ~Claims(i, machine.typed)
  BY DEF PdaInv, FormIsFree
<1>12. OneAlive'
  <2> SUFFICES ASSUME NEW n \in ScanNo \ {0}, NEW i \in DOMAIN subs', NEW j \in DOMAIN subs',
                      Claims(i, n)', Claims(j, n)'
               PROVE  i = j
    BY DEF OneAlive
  <2>1. CASE n = machine.typed
    BY <1>1, <1>7, <1>11, <2>1
  <2>2. CASE n # machine.typed
    BY <1>1, <1>7, <2>2 DEF PdaInv, OneAlive
  <2> QED  BY <2>1, <2>2
<1>13. FormIsFree'
  <2>1. ASSUME NEW n, n = machine.typed, n # 0, NEW i \in DOMAIN subs', Claims(i, n)'
        PROVE  i = last
    BY <1>1, <1>7, <1>11, <2>1
  <2>2. \A i \in DOMAIN subs' :
          (machine'.typed # 0 /\ Claims(i, machine.typed)') => i = machine'.sub
    BY <1>2, <2>1
  <2>3. machine'.sub \in DOMAIN subs' /\ subs'[machine'.sub].scan = machine'.typed
    BY <1>1, <1>2
  <2> QED  BY <1>2, <2>2, <2>3 DEF FormIsFree
<1>14. ToldRight'
  <2> SUFFICES ASSUME NEW n \in 1..MaxScans
               PROVE  /\ told'[n] = "ok" => \E i \in DOMAIN subs' : subs'[i].scan = n /\ InQueue(i)'
                      /\ told'[n] = "error" => \A i \in DOMAIN subs' : ~Claims(i, n)'
    BY DEF ToldRight
  <2>1. CASE n = machine.typed
    BY <1>5, <2>1
  <2>2. CASE n # machine.typed
    <3>1. told'[n] = told[n]
      BY <1>5, <2>2
    <3> QED  BY <1>1, <1>6, <1>7, <2>2, <3>1 DEF PdaInv, ToldRight
  <2> QED  BY <2>1, <2>2
<1>15. BadgeFollows'
  <2>1. (\A i \in DOMAIN subs' : subs'[i].stage # "committed")
          => \A i \in DOMAIN subs : subs[i].stage # "committed"
    BY <1>1
  <2> QED  BY <1>3, <2>1 DEF PdaInv, BadgeFollows
<1>16. SuggestionsStand'
  BY <1>1, <1>3 DEF PdaInv, SuggestionsStand
<1> QED  BY <1>8, <1>9, <1>10, <1>12, <1>13, <1>14, <1>15, <1>16 DEF PdaInv

LEMMA SubmitScanKeeps ==
  ASSUME PdaInv, NEW screen \in Screen \ {"putaway"}, SubmitScan(screen)
  PROVE  PdaInv'
<1>1. page = screen /\ page # "home" /\ page # "putaway" /\ Listening
  BY DEF SubmitScan, Screen
<1>2. CASE Invalid
  BY <1>1, <1>2, InvalidKeeps
<1>3. CASE StartSubmission("checking", placing.goods, NoShelf)
  <2>1. placing.goods \in Goods
    BY DEF PdaInv, PdaTypes
  <2> QED  BY <1>1, <1>3, <2>1, StartKeeps DEF Listening
<1> QED  BY <1>2, <1>3 DEF SubmitScan

LEMMA ConfirmPutawayKeeps ==
  ASSUME PdaInv, ConfirmPutaway
  PROVE  PdaInv'
<1>1. page = "putaway" /\ page # "home" /\ machine.state # "submitting"
  BY DEF ConfirmPutaway, Listening
<1>2. CASE placing.suggestion # NoShelf /\ placing.scanned = placing.suggestion
  <2>1. StartSubmission("saving", placing.goods, placing.suggestion)
    BY <1>2 DEF ConfirmPutaway
  <2>2. /\ placing.goods \in Goods /\ placing.suggestion \in Shelf \cup {NoShelf}
        /\ ~placing.missed => placing.suggestion \in SuggestedShelf[placing.goods]
    BY <1>2 DEF PdaInv, PdaTypes, SuggestionsStand
  <2> QED  BY <1>1, <2>1, <2>2, StartKeeps
<1>3. CASE ~(placing.suggestion # NoShelf /\ placing.scanned = placing.suggestion)
  <2>1. /\ told' = Tell(machine.typed, "error")
        /\ UNCHANGED <<page, machine, placing, subs, queued, badge, scanNo>>
    BY <1>3 DEF ConfirmPutaway
  <2>2. machine.typed \in ScanNo
    BY DEF PdaInv, PdaTypes
  <2>3. /\ told' \in [1..MaxScans -> Word]
        /\ \A m \in 1..MaxScans : told'[m] = IF m = machine.typed THEN "error" ELSE told[m]
    BY <2>1, <2>2, ToldOf DEF PdaInv, Word
  <2>4. /\ \A i, n : Claims(i, n)' <=> Claims(i, n)
        /\ \A i : InQueue(i)' <=> InQueue(i)
        /\ QueueOfCommitted' /\ OneAlive' /\ BadgeFollows'
    BY <2>1, ClaimsStay, BadgeStays DEF PdaInv
  <2>5. PdaTypes'
    BY <2>1, <2>3 DEF PdaInv, PdaTypes
  <2>6. ScansBelow' /\ SuggestionsStand'
    BY <2>1 DEF PdaInv, ScansBelow, SuggestionsStand
  <2>7. FormIsFree'
    BY <2>1, <2>4 DEF PdaInv, FormIsFree
  <2>8. ToldRight'
    <3> SUFFICES ASSUME NEW n \in 1..MaxScans
                 PROVE  /\ told'[n] = "ok" => \E i \in DOMAIN subs' : subs'[i].scan = n /\ InQueue(i)'
                        /\ told'[n] = "error" => \A i \in DOMAIN subs' : ~Claims(i, n)'
      BY DEF ToldRight
    <3>1. CASE n = machine.typed
      BY <1>1, <2>1, <2>3, <2>4, <3>1 DEF PdaInv, FormIsFree
    <3>2. CASE n # machine.typed
      BY <2>1, <2>3, <2>4, <3>2 DEF PdaInv, ToldRight
    <3> QED  BY <3>1, <3>2
  <2> QED  BY <2>4, <2>5, <2>6, <2>7, <2>8 DEF PdaInv
<1> QED  BY <1>2, <1>3

(* Where no claim is added, no command lost and no word said. *)
LEMMA FewerClaims ==
  ASSUME PdaInv, DOMAIN subs' = DOMAIN subs,
         \A j \in DOMAIN subs : subs'[j].scan = subs[j].scan,
         \A j \in DOMAIN subs : \A n : Claims(j, n)' => Claims(j, n),
         \A j \in DOMAIN subs : InQueue(j) => InQueue(j)'
  PROVE  /\ OneAlive'
         /\ told' = told => ToldRight'
         /\ machine' = machine => FormIsFree'
         /\ (machine'.typed \in {0, machine.typed} /\ scanNo' = scanNo) => ScansBelow'
<1>1. OneAlive'
  BY DEF PdaInv, OneAlive
<1>2. told' = told => ToldRight'
  BY DEF PdaInv, ToldRight
<1>3. machine' = machine => FormIsFree'
  BY DEF PdaInv, FormIsFree
<1>4. ASSUME machine'.typed \in {0, machine.typed}, scanNo' = scanNo
      PROVE  ScansBelow'
  BY <1>4, ScansAreNumbers DEF PdaInv, ScansBelow
<1> QED  BY <1>1, <1>2, <1>3, <1>4

(* The claims after a submission has moved on. *)
LEMMA MovedClaims ==
  ASSUME PdaInv, NEW i \in DOMAIN subs, NEW from \in SubmissionStage \ {"over"},
         NEW to \in SubmissionStage, MoveOn(i, from, to), UNCHANGED queued
  PROVE  /\ DOMAIN subs' = DOMAIN subs /\ \A j \in DOMAIN subs : subs'[j].scan = subs[j].scan
         /\ \A j \in DOMAIN subs : \A n : Claims(j, n)' => Claims(j, n)
         /\ \A j : InQueue(j) <=> InQueue(j)'
         /\ \A n : Claims(i, n)' => (to # "over" \/ InQueue(i))
         /\ \A n : n = subs[i].scan => Claims(i, n)
<1>1. \A j : InQueue(j) <=> InQueue(j)'
  BY DEF InQueue
<1> QED  BY <1>1, MovedOn DEF PdaInv, Claims, Alive

(* A submission that has committed nothing moves on. *)
LEMMA NotYetCommitted ==
  ASSUME PdaInv, NEW i \in DOMAIN subs, NEW from \in {"checking", "saving"},
         NEW to \in {"saving", "over"}, MoveOn(i, from, to),
         UNCHANGED <<page, placing, queued, badge, scanNo>>,
         PdaTypes', ToldRight', FormIsFree', machine'.typed = machine.typed
  PROVE  PdaInv'
<1>1. /\ from \in SubmissionStage \ {"over"} /\ to \in SubmissionStage /\ from # "committed"
      /\ to # "committed"
  BY DEF SubmissionStage
<1>2. OneAlive' /\ ScansBelow'
  BY <1>1, MovedClaims, FewerClaims
<1>3. /\ subs[i].stage = from /\ DOMAIN subs' = DOMAIN subs
      /\ \A j \in DOMAIN subs :
           /\ subs'[j].screen = subs[j].screen
           /\ subs'[j].goods = subs[j].goods /\ subs'[j].shelf = subs[j].shelf
           /\ subs'[j].missed = subs[j].missed
           /\ subs'[j].stage = IF j = i THEN to ELSE subs[j].stage
  BY <1>1, MovedOn DEF PdaInv
<1>4. QueueOfCommitted'
  <2>1. \A q \in DOMAIN queued : queued[q] # i /\ queued[q] \in DOMAIN subs
    BY <1>3 DEF PdaInv, PdaTypes, QueueOfCommitted
  <2>2. \A q \in DOMAIN queued' : subs'[queued'[q]].stage \in {"committed", "over"}
    BY <1>3, <2>1 DEF PdaInv, QueueOfCommitted
  <2>3. \A j \in DOMAIN subs' : subs'[j].stage = "committed" => InQueue(j)'
    BY <1>1, <1>3 DEF PdaInv, QueueOfCommitted, InQueue
  <2> QED  BY <2>2, <2>3 DEF PdaInv, QueueOfCommitted
<1>5. BadgeFollows'
  <2>1. (\A j \in DOMAIN subs' : subs'[j].stage # "committed")
          => \A j \in DOMAIN subs : subs[j].stage # "committed"
    BY <1>1, <1>3
  <2> QED  BY <2>1 DEF PdaInv, BadgeFollows
<1>6. SuggestionsStand'
  BY <1>3 DEF PdaInv, SuggestionsStand
<1> QED  BY <1>2, <1>4, <1>5, <1>6 DEF PdaInv

LEMMA VerdictAcceptedKeeps ==
  ASSUME PdaInv, NEW i \in DOMAIN subs, VerdictAccepted(i)
  PROVE  PdaInv'
<1>1. /\ MoveOn(i, "checking", "saving")
      /\ UNCHANGED <<page, machine, placing, queued, told, badge, scanNo>>
      /\ "checking" \in SubmissionStage \ {"over"} /\ "saving" \in SubmissionStage
  BY DEF VerdictAccepted, SubmissionStage
<1>2. ToldRight' /\ FormIsFree'
  BY <1>1, MovedClaims, FewerClaims
<1>3. PdaTypes'
  BY <1>1, MovedOn DEF PdaInv, PdaTypes
<1> QED  BY <1>1, <1>2, <1>3, NotYetCommitted

(* Refused, failed or never answered: the form may send its scan again. *)
LEMMA GivenUpKeeps ==
  ASSUME PdaInv, NEW i \in DOMAIN subs, NEW from \in {"checking", "saving"},
         MoveOn(i, from, "over"), ToldFailed(i), UNCHANGED <<page, placing, queued, badge, scanNo>>
  PROVE  PdaInv'
<1>1. from \in SubmissionStage \ {"over"} /\ "over" \in SubmissionStage /\ subs[i].stage = from
  BY DEF SubmissionStage, MoveOn
<1>2. /\ DOMAIN subs' = DOMAIN subs /\ \A j \in DOMAIN subs : subs'[j].scan = subs[j].scan
      /\ \A j \in DOMAIN subs : \A n : Claims(j, n)' => Claims(j, n)
      /\ \A j : InQueue(j) <=> InQueue(j)'
      /\ \A n : n = subs[i].scan => Claims(i, n)
  BY <1>1, MovedClaims
<1>3. ~InQueue(i) /\ \A n : ~Claims(i, n)'
  <2>1. ~InQueue(i)
    BY <1>1 DEF PdaInv, QueueOfCommitted, InQueue
  <2> QED  BY <1>1, <2>1, MovedClaims
<1>4. subs' \in Seq(Submission) /\ subs[i].scan \in ScanNo
  BY <1>1, MovedOn, ScansAreNumbers DEF PdaInv
<1>5. CASE ~Hears(i)
  <2>1. UNCHANGED <<machine, told>>
    BY <1>5 DEF ToldFailed
  <2>2. ToldRight' /\ FormIsFree'
    BY <1>2, <2>1, FewerClaims
  <2>3. PdaTypes'
    BY <1>2, <1>4, <2>1 DEF PdaInv, PdaTypes
  <2> QED  BY <2>1, <2>2, <2>3, NotYetCommitted
<1>6. CASE Hears(i)
  <2>1. /\ machine' = [machine EXCEPT !.state = MachineOf[page].again, !.sub = 0]
        /\ told' = Tell(subs[i].scan, "error")
    BY <1>6 DEF ToldFailed
  <2>2. /\ machine \in [state : FormState, typed : ScanNo, sub : Nat] /\ page \in Screen
        /\ machine.state = "submitting" /\ machine.sub = i
    BY <1>6 DEF Hears, PdaInv, PdaTypes
  <2>3. /\ machine' \in [state : FormState, typed : ScanNo, sub : Nat]
        /\ machine'.typed = machine.typed /\ machine'.state # "submitting"
    BY <2>1, <2>2, Starts
  <2>4. /\ told' \in [1..MaxScans -> Word]
        /\ \A m \in 1..MaxScans : told'[m] = IF m = subs[i].scan THEN "error" ELSE told[m]
    BY <1>4, <2>1, ToldOf DEF PdaInv, Word
  <2>5. PdaTypes'
    <3>1. page' # "home"
      BY <1>6 DEF Hears
    <3> QED  BY <1>2, <1>4, <2>3, <2>4, <3>1 DEF PdaInv, PdaTypes
  <2>6. FormIsFree'
    <3>1. \A n : (n = machine.typed /\ n # 0) => \A j \in DOMAIN subs : ~Claims(j, n)'
      BY <1>2, <1>3, <2>2 DEF PdaInv, FormIsFree
    <3> QED  BY <1>2, <2>3, <3>1 DEF FormIsFree
  <2>7. ToldRight'
    <3> SUFFICES ASSUME NEW n \in 1..MaxScans
                 PROVE  /\ told'[n] = "ok" => \E j \in DOMAIN subs' : subs'[j].scan = n /\ InQueue(j)'
                        /\ told'[n] = "error" => \A j \in DOMAIN subs' : ~Claims(j, n)'
      BY DEF ToldRight
    <3>1. CASE n = subs[i].scan
      <4>1. n \in ScanNo \ {0}
        BY <1>4, <3>1
      <4>2. \A j \in DOMAIN subs : Claims(j, n) => j = i
        BY <1>2, <3>1, <4>1 DEF PdaInv, OneAlive
      <4> QED  BY <1>2, <1>3, <2>4, <3>1, <4>2
    <3>2. CASE n # subs[i].scan
      BY <1>2, <2>4, <3>2 DEF PdaInv, ToldRight
    <3> QED  BY <3>1, <3>2
  <2> QED  BY <2>3, <2>5, <2>6, <2>7, NotYetCommitted
<1> QED  BY <1>5, <1>6

(* The transaction of enqueue commits: nobody hears of it yet. *)
LEMMA EnqueueCommitsKeeps ==
  ASSUME PdaInv, NEW i \in DOMAIN subs, EnqueueCommits(i)
  PROVE  PdaInv'
<1>1. /\ MoveOn(i, "saving", "committed") /\ queued' = Append(queued, i)
      /\ UNCHANGED <<page, machine, placing, told, badge, scanNo>>
      /\ "committed" \in SubmissionStage
  BY DEF EnqueueCommits, SubmissionStage
<1>2. /\ subs[i].stage = "saving" /\ subs' \in Seq(Submission) /\ DOMAIN subs' = DOMAIN subs
      /\ \A j \in DOMAIN subs :
           /\ subs'[j].scan = subs[j].scan /\ subs'[j].screen = subs[j].screen
           /\ subs'[j].goods = subs[j].goods /\ subs'[j].shelf = subs[j].shelf
           /\ subs'[j].missed = subs[j].missed
           /\ subs'[j].stage = IF j = i THEN "committed" ELSE subs[j].stage
  BY <1>1, MovedOn DEF PdaInv
<1>3. /\ queued \in Seq(Nat) /\ Len(queued) \in Nat /\ DOMAIN queued = 1..Len(queued) /\ i \in Nat
  BY DEF PdaInv, PdaTypes
<1>4. PICK last \in {Len(queued) + 1} : TRUE
  OBVIOUS
<1>5. /\ queued' \in Seq(Nat) /\ last \notin DOMAIN queued
      /\ DOMAIN queued' = DOMAIN queued \cup {last}
      /\ queued'[last] = i /\ \A q \in DOMAIN queued : queued'[q] = queued[q]
  BY <1>1, <1>3, <1>4
<1>6. /\ \A q \in DOMAIN queued : queued[q] \in DOMAIN subs /\ queued[q] # i
  BY <1>2 DEF PdaInv, PdaTypes, QueueOfCommitted
<1>7. \A j : InQueue(j)' <=> (InQueue(j) \/ j = i)
  BY <1>5 DEF InQueue
<1>8. \A j \in DOMAIN subs : \A n : Claims(j, n)' => Claims(j, n)
  BY <1>2, <1>7 DEF Claims, Alive
<1>9. OneAlive' /\ ToldRight' /\ FormIsFree' /\ ScansBelow'
  BY <1>1, <1>2, <1>7, <1>8, FewerClaims
<1>10. PdaTypes'
  <2>1. \A q \in DOMAIN queued' : queued'[q] \in DOMAIN subs'
    BY <1>2, <1>5, <1>6
  <2> QED  BY <1>1, <1>2, <1>5, <2>1 DEF PdaInv, PdaTypes
<1>11. QueueOfCommitted'
  <2>1. \A q \in DOMAIN queued' : subs'[queued'[q]].stage \in {"committed", "over"}
    BY <1>2, <1>5, <1>6 DEF PdaInv, QueueOfCommitted
  <2>2. \A j \in DOMAIN subs' : subs'[j].stage = "committed" => InQueue(j)'
    BY <1>2, <1>7 DEF PdaInv, QueueOfCommitted
  <2>3. \A p, q \in DOMAIN queued' : queued'[p] = queued'[q] => p = q
    BY <1>5, <1>6 DEF PdaInv, QueueOfCommitted
  <2> QED  BY <2>1, <2>2, <2>3 DEF QueueOfCommitted
<1>12. BadgeFollows'
  BY <1>2 DEF BadgeFollows
<1>13. SuggestionsStand'
  BY <1>1, <1>2 DEF PdaInv, SuggestionsStand
<1> QED  BY <1>9, <1>10, <1>11, <1>12, <1>13 DEF PdaInv

LEMMA Badges ==
  ASSUME PdaTypes
  PROVE  /\ badge \in [shown : Nat \cup {Failed}, reads : Seq(Nat \cup {Reading}), overtaken : BOOLEAN]
         /\ badge.reads \in Seq(Nat \cup {Reading}) /\ Len(badge.reads) \in Nat
         /\ DOMAIN badge.reads = 1..Len(badge.reads)
         /\ Len(queued) \in Nat
BY DEF PdaTypes

(* Its caller hears, the form is cleared and the shell counts again. *)
LEMMA EnqueueReturnsKeeps ==
  ASSUME PdaInv, NEW i \in DOMAIN subs, EnqueueReturns(i)
  PROVE  PdaInv'
<1>1. /\ MoveOn(i, "committed", "over") /\ badge' = RefreshCount /\ ToldAccepted(i)
      /\ UNCHANGED <<page, placing, queued, scanNo>>
      /\ "committed" \in SubmissionStage \ {"over"} /\ "over" \in SubmissionStage
  BY DEF EnqueueReturns, SubmissionStage
<1>2. /\ subs[i].stage = "committed" /\ subs' \in Seq(Submission) /\ DOMAIN subs' = DOMAIN subs
      /\ \A j \in DOMAIN subs :
           /\ subs'[j].scan = subs[j].scan /\ subs'[j].screen = subs[j].screen
           /\ subs'[j].goods = subs[j].goods /\ subs'[j].shelf = subs[j].shelf
           /\ subs'[j].missed = subs[j].missed
           /\ subs'[j].stage = IF j = i THEN "over" ELSE subs[j].stage
  BY <1>1, MovedOn DEF PdaInv
<1>3. /\ \A j \in DOMAIN subs : \A n : Claims(j, n)' => Claims(j, n)
      /\ \A j : InQueue(j) <=> InQueue(j)'
  BY <1>1, MovedClaims
<1>4. InQueue(i)
  BY <1>2 DEF PdaInv, QueueOfCommitted
<1>5. subs[i].scan \in ScanNo
  BY ScansAreNumbers DEF PdaInv
<1>6. /\ badge' \in [shown : Nat \cup {Failed}, reads : Seq(Nat \cup {Reading}), overtaken : BOOLEAN]
      /\ badge'.reads # <<>> /\ badge'.reads[Len(badge'.reads)] = Reading
  <2>1. badge' = [badge EXCEPT !.reads = Append(badge.reads, Reading), !.overtaken = FALSE]
    BY <1>1 DEF RefreshCount
  <2>2. /\ Append(badge.reads, Reading) \in Seq(Nat \cup {Reading})
        /\ Append(badge.reads, Reading) # <<>>
        /\ Append(badge.reads, Reading)[Len(Append(badge.reads, Reading))] = Reading
    <3>1. ASSUME NEW S, NEW s \in Seq(S), NEW x \in S
          PROVE  Append(s, x) \in Seq(S) /\ Append(s, x) # <<>> /\ Append(s, x)[Len(Append(s, x))] = x
      OBVIOUS
    <3>2. badge.reads \in Seq(Nat \cup {Reading}) /\ Reading \in Nat \cup {Reading}
      BY Badges DEF PdaInv
    <3> QED  BY <3>1, <3>2
  <2>3. ASSUME NEW s \in Seq(Nat \cup {Reading}),
               badge' = [badge EXCEPT !.reads = s, !.overtaken = FALSE]
        PROVE  /\ badge'.reads = s
               /\ badge' \in [shown : Nat \cup {Failed}, reads : Seq(Nat \cup {Reading}),
                             overtaken : BOOLEAN]
    BY <2>3, Badges DEF PdaInv
  <2> QED  BY <2>1, <2>2, <2>3
<1>7. BadgeFollows'
  BY <1>6 DEF BadgeFollows
<1>8. QueueOfCommitted'
  <2>1. \A q \in DOMAIN queued' : subs'[queued'[q]].stage \in {"committed", "over"}
    BY <1>1, <1>2 DEF PdaInv, PdaTypes, QueueOfCommitted
  <2>2. \A j \in DOMAIN subs' : subs'[j].stage = "committed" => InQueue(j)'
    BY <1>2, <1>3 DEF PdaInv, QueueOfCommitted
  <2> QED  BY <1>1, <2>1, <2>2 DEF PdaInv, QueueOfCommitted
<1>9. SuggestionsStand'
  BY <1>1, <1>2 DEF PdaInv, SuggestionsStand
<1>10. CASE ~Hears(i)
  <2>1. UNCHANGED <<machine, told>>
    BY <1>1, <1>10 DEF ToldAccepted
  <2>2. OneAlive' /\ ToldRight' /\ FormIsFree' /\ ScansBelow'
    BY <1>1, <1>2, <1>3, <2>1, FewerClaims
  <2>3. PdaTypes'
    BY <1>1, <1>2, <1>6, <2>1 DEF PdaInv, PdaTypes
  <2> QED  BY <1>7, <1>8, <1>9, <2>2, <2>3 DEF PdaInv
<1>11. CASE Hears(i)
  <2>1. machine' = AcceptedForm /\ told' = Tell(subs[i].scan, "ok") /\ page # "home"
    BY <1>1, <1>11 DEF ToldAccepted, Hears
  <2>2. /\ machine' \in [state : FormState, typed : ScanNo, sub : Nat]
        /\ machine'.typed = 0 /\ machine'.state # "submitting"
    <3>1. page \in Screen /\ 0 \in ScanNo
      BY <2>1, HandheldAssumption DEF PdaInv, PdaTypes, ScanNo
    <3> QED  BY <2>1, <3>1, Starts DEF AcceptedForm
  <2>3. /\ told' \in [1..MaxScans -> Word]
        /\ \A m \in 1..MaxScans : told'[m] = IF m = subs[i].scan THEN "ok" ELSE told[m]
    BY <1>5, <2>1, ToldOf DEF PdaInv, Word
  <2>4. PdaTypes'
    BY <1>1, <1>2, <1>6, <2>1, <2>2, <2>3 DEF PdaInv, PdaTypes
  <2>5. OneAlive' /\ ScansBelow'
    BY <1>1, <1>2, <1>3, <2>2, FewerClaims
  <2>6. FormIsFree'
    BY <2>2 DEF FormIsFree
  <2>7. ToldRight'
    <3> SUFFICES ASSUME NEW n \in 1..MaxScans
                 PROVE  /\ told'[n] = "ok" => \E j \in DOMAIN subs' : subs'[j].scan = n /\ InQueue(j)'
                        /\ told'[n] = "error" => \A j \in DOMAIN subs' : ~Claims(j, n)'
      BY DEF ToldRight
    <3>1. CASE n = subs[i].scan
      BY <1>2, <1>3, <1>4, <2>3, <3>1
    <3>2. CASE n # subs[i].scan
      BY <1>2, <1>3, <2>3, <3>2 DEF PdaInv, ToldRight
    <3> QED  BY <3>1, <3>2
  <2> QED  BY <1>7, <1>8, <1>9, <2>4, <2>5, <2>6, <2>7 DEF PdaInv
<1> QED  BY <1>10, <1>11

(* The counts come in, in any order. *)
LEMMA CountsKeep ==
  ASSUME PdaInv, UNCHANGED <<page, machine, placing, subs, queued, told, scanNo>>,
         badge' \in [shown : Nat \cup {Failed}, reads : Seq(Nat \cup {Reading}), overtaken : BOOLEAN],
         BadgeFollows'
  PROVE  PdaInv'
<1>1. /\ \A i, n : Claims(i, n)' <=> Claims(i, n)
      /\ QueueOfCommitted' /\ OneAlive' /\ ToldRight'
  BY ClaimsStay, ToldStays DEF PdaInv
<1>2. PdaTypes'
  BY DEF PdaInv, PdaTypes
<1>3. ScansBelow' /\ SuggestionsStand'
  BY DEF PdaInv, ScansBelow, SuggestionsStand
<1>4. FormIsFree'
  BY <1>1 DEF PdaInv, FormIsFree
<1> QED  BY <1>1, <1>2, <1>3, <1>4 DEF PdaInv

LEMMA CountTakenKeeps ==
  ASSUME PdaInv, NEW k \in DOMAIN badge.reads, CountTaken(k)
  PROVE  PdaInv'
<1>1. /\ UNCHANGED <<page, machine, placing, subs, queued, told, scanNo>>
      /\ badge' = [badge EXCEPT !.reads = [badge.reads EXCEPT ![k] = Len(queued)]]
  BY DEF CountTaken
<1>2. /\ [badge.reads EXCEPT ![k] = Len(queued)] \in Seq(Nat \cup {Reading})
      /\ [badge.reads EXCEPT ![k] = Len(queued)] # <<>>
      /\ Len([badge.reads EXCEPT ![k] = Len(queued)]) = Len(badge.reads)
      /\ \A j \in DOMAIN badge.reads :
           [badge.reads EXCEPT ![k] = Len(queued)][j] = IF j = k THEN Len(queued) ELSE badge.reads[j]
  BY Badges, ExceptSeq DEF PdaInv
<1>3. ASSUME NEW s \in Seq(Nat \cup {Reading}), badge' = [badge EXCEPT !.reads = s]
      PROVE  /\ badge'.reads = s /\ badge'.overtaken = badge.overtaken
             /\ badge' \in [shown : Nat \cup {Failed}, reads : Seq(Nat \cup {Reading}),
                           overtaken : BOOLEAN]
  BY <1>3, Badges DEF PdaInv
<1>4. /\ badge' \in [shown : Nat \cup {Failed}, reads : Seq(Nat \cup {Reading}), overtaken : BOOLEAN]
      /\ badge'.overtaken = badge.overtaken /\ badge'.reads # <<>>
      /\ Len(badge'.reads) = Len(badge.reads)
      /\ \A j \in DOMAIN badge.reads :
           badge'.reads[j] = IF j = k THEN Len(queued) ELSE badge.reads[j]
  BY <1>1, <1>2, <1>3
<1>5. badge.reads # <<>> /\ Len(badge.reads) \in DOMAIN badge.reads
  BY Badges DEF PdaInv
<1>6. BadgeFollows'
  BY <1>1, <1>4, <1>5 DEF PdaInv, BadgeFollows
<1> QED  BY <1>1, <1>4, <1>6, CountsKeep

LEMMA CountShownKeeps ==
  ASSUME PdaInv, NEW k \in DOMAIN badge.reads, CountShown(k)
  PROVE  PdaInv'
<1>1. UNCHANGED <<page, machine, placing, subs, queued, told, scanNo>>
  BY DEF CountShown
<1>2. PICK shown \in {badge.reads[k], Failed} \ {Reading} :
        badge' = [shown |-> shown, reads |-> RemoveAt(badge.reads, k),
                  overtaken |-> badge.overtaken \/ k > 1]
  BY Zenon DEF CountShown, Failed
<1>3. /\ k \in 1..Len(badge.reads) /\ Len(badge.reads) \in Nat
      /\ badge.reads \in Seq(Nat \cup {Reading}) /\ badge.reads[k] \in Nat \cup {Reading}
  BY Badges DEF PdaInv
<1>4. /\ RemoveAt(badge.reads, k) \in Seq(Nat \cup {Reading})
      /\ (k = 1 /\ Len(badge.reads) = 1) => RemoveAt(badge.reads, k) = <<>>
      /\ (k = 1 /\ Len(badge.reads) # 1) =>
           /\ RemoveAt(badge.reads, k) # <<>>
           /\ RemoveAt(badge.reads, k)[Len(RemoveAt(badge.reads, k))] = badge.reads[Len(badge.reads)]
  BY <1>3, FirstRemoved
<1>5. badge' \in [shown : Nat \cup {Failed}, reads : Seq(Nat \cup {Reading}), overtaken : BOOLEAN]
  <2>1. shown \in Nat \cup {Failed}
    BY <1>2, <1>3
  <2>2. (badge.overtaken \/ k > 1) \in BOOLEAN
    OBVIOUS
  <2> QED  BY <1>2, <1>4, <2>1, <2>2
<1>6. /\ badge'.shown = shown /\ badge'.reads = RemoveAt(badge.reads, k)
      /\ ~badge'.overtaken => (~badge.overtaken /\ k = 1)
  <2>1. badge'.shown = shown /\ badge'.reads = RemoveAt(badge.reads, k)
    BY <1>2
  <2>2. badge'.overtaken = (badge.overtaken \/ k > 1)
    BY <1>2
  <2>3. k > 1 \/ k = 1
    BY <1>3
  <2> QED  BY <2>1, <2>2, <2>3
<1>7. BadgeFollows'
  <2> SUFFICES ASSUME \A i \in DOMAIN subs : subs[i].stage # "committed", ~badge.overtaken, k = 1
               PROVE  IF badge'.reads = <<>> THEN badge'.shown \in {Len(queued), Failed}
                      ELSE badge'.reads[Len(badge'.reads)] \in {Reading, Len(queued)}
    BY <1>1, <1>6 DEF BadgeFollows
  <2>1. badge.reads # <<>> /\ badge.reads[Len(badge.reads)] \in {Reading, Len(queued)}
    <3>1. badge.reads # <<>>
      BY <1>3
    <3> QED  BY <3>1 DEF PdaInv, BadgeFollows
  <2>2. CASE Len(badge.reads) = 1
    BY <1>2, <1>4, <1>6, <2>1, <2>2
  <2>3. CASE Len(badge.reads) # 1
    BY <1>4, <1>6, <2>1, <2>3
  <2> QED  BY <2>2, <2>3
<1> QED  BY <1>1, <1>5, <1>7, CountsKeep

(* A reload ends every submission and keeps the queue and what was told. *)
LEMMA ReloadKeeps ==
  ASSUME PdaInv, Reload
  PROVE  PdaInv'
<1>1. /\ page' = "home" /\ machine' = Unmounted /\ UNCHANGED <<queued, told, scanNo>>
      /\ subs' = [i \in DOMAIN subs |-> [subs[i] EXCEPT !.stage = "over"]]
      /\ badge' = [shown |-> 0, reads |-> <<Reading>>, overtaken |-> FALSE]
  BY DEF Reload
<1>2. PICK g \in Goods : placing' = Asked(g)
  BY DEF Reload
<1>3. /\ subs \in Seq(Submission) /\ Len(subs) \in Nat /\ DOMAIN subs = 1..Len(subs)
      /\ \A i \in DOMAIN subs : subs[i] \in Submission
  BY DEF PdaInv, PdaTypes
<1>4. \A i \in DOMAIN subs :
        /\ [subs[i] EXCEPT !.stage = "over"] \in Submission
        /\ [subs[i] EXCEPT !.stage = "over"].stage = "over"
        /\ [subs[i] EXCEPT !.stage = "over"].scan = subs[i].scan
        /\ [subs[i] EXCEPT !.stage = "over"].screen = subs[i].screen
        /\ [subs[i] EXCEPT !.stage = "over"].goods = subs[i].goods
        /\ [subs[i] EXCEPT !.stage = "over"].shelf = subs[i].shelf
        /\ [subs[i] EXCEPT !.stage = "over"].missed = subs[i].missed
  BY <1>3 DEF Submission, SubmissionStage
<1>5. /\ DOMAIN subs' = DOMAIN subs
      /\ \A i \in DOMAIN subs :
           /\ subs'[i] \in Submission /\ subs'[i].stage = "over" /\ subs'[i].scan = subs[i].scan
           /\ subs'[i].screen = subs[i].screen /\ subs'[i].goods = subs[i].goods
           /\ subs'[i].shelf = subs[i].shelf /\ subs'[i].missed = subs[i].missed
  BY <1>1, <1>4
<1>6. subs' \in Seq(Submission)
  <2>1. subs' = [i \in 1..Len(subs) |-> subs'[i]]
    BY <1>1, <1>3
  <2> QED  BY <1>3, <1>5, <2>1
<1>7. \A j : InQueue(j) <=> InQueue(j)'
  BY <1>1 DEF InQueue
<1>8. \A j \in DOMAIN subs : \A n : Claims(j, n)' => Claims(j, n)
  BY <1>5, <1>7 DEF Claims, Alive
<1>9. Unmounted \in [state : FormState, typed : ScanNo, sub : Nat] /\ Unmounted.typed = 0
      /\ Unmounted.state # "submitting"
  BY HandheldAssumption DEF Unmounted, FormState, ScanNo
<1>10. OneAlive' /\ ToldRight' /\ ScansBelow'
  BY <1>1, <1>5, <1>7, <1>8, <1>9, FewerClaims
<1>11. FormIsFree'
  BY <1>1, <1>9 DEF FormIsFree
<1>12. /\ badge' \in [shown : Nat \cup {Failed}, reads : Seq(Nat \cup {Reading}), overtaken : BOOLEAN]
       /\ badge'.reads # <<>> /\ badge'.reads[Len(badge'.reads)] = Reading
  BY <1>1
<1>13. PdaTypes'
  BY <1>1, <1>2, <1>5, <1>6, <1>9, <1>12, AskedIsContext DEF PdaInv, PdaTypes
<1>14. BadgeFollows'
  BY <1>12 DEF BadgeFollows
<1>15. QueueOfCommitted'
  BY <1>1, <1>5 DEF PdaInv, PdaTypes, QueueOfCommitted
<1>16. SuggestionsStand'
  BY <1>2, <1>5, AskedIsContext DEF PdaInv, SuggestionsStand
<1> QED  BY <1>10, <1>11, <1>13, <1>14, <1>15, <1>16 DEF PdaInv

LEMMA NextPda == PdaInv /\ [NextHandheld]_pdaVars => PdaInv'
<1> SUFFICES ASSUME PdaInv, [NextHandheld]_pdaVars
             PROVE  PdaInv'
  OBVIOUS
<1>1. CASE UNCHANGED pdaVars
  <2>1. UNCHANGED <<page, machine, placing, subs, queued, told, badge, scanNo>>
    BY <1>1 DEF pdaVars
  <2>2. /\ badge \in [shown : Nat \cup {Failed}, reads : Seq(Nat \cup {Reading}), overtaken : BOOLEAN]
        /\ BadgeFollows'
    BY <2>1, Badges, BadgeStays DEF PdaInv
  <2> QED  BY <2>1, <2>2, CountsKeep
<1>2. CASE \E p \in Screen \cup {"home"} : OpenPage(p)
  BY <1>2, OpenPageKeeps
<1>3. CASE EnterFields \/ SuggestLocation \/ RetrySuggestion \/ \E g \in Goods : SuggestChanged(g)
  BY <1>3, EnterFieldsKeeps, SuggestLocationKeeps, RetryKeeps, SuggestChangedKeeps
<1>4. CASE SubmitReceiveScan \/ SubmitPickScan \/ SubmitCheckScan \/ SubmitLoadScan
  <2>1. {"receive", "pick", "check", "load"} \subseteq Screen \ {"putaway"}
    BY DEF Screen
  <2> QED  BY <1>4, <2>1, SubmitScanKeeps
              DEF SubmitReceiveScan, SubmitPickScan, SubmitCheckScan, SubmitLoadScan
<1>5. CASE ConfirmPutaway
  BY <1>5, ConfirmPutawayKeeps
<1>6. ASSUME NEW i \in DOMAIN subs, VerdictAccepted(i) \/ EnqueueCommits(i) \/ EnqueueReturns(i)
      PROVE  PdaInv'
  BY <1>6, VerdictAcceptedKeeps, EnqueueCommitsKeeps, EnqueueReturnsKeeps
<1>7. ASSUME NEW i \in DOMAIN subs, VerdictRefused(i) \/ EnqueueFails(i)
      PROVE  PdaInv'
  BY <1>7, GivenUpKeeps DEF VerdictRefused, EnqueueFails
<1>8. ASSUME NEW k \in DOMAIN badge.reads, CountTaken(k) \/ CountShown(k)
      PROVE  PdaInv'
  BY <1>8, CountTakenKeeps, CountShownKeeps
<1>9. CASE Reload
  BY <1>9, ReloadKeeps
<1> QED  BY <1>1, <1>2, <1>3, <1>4, <1>5, <1>6, <1>7, <1>8, <1>9 DEF NextHandheld

(* The commands of a scan are counted by the submissions that are queued. *)
LEMMA CommandsCounted ==
  ASSUME PdaInv, NEW n \in ScanNo \ {0}
  PROVE  /\ CommandsOf(n) \in {0, 1}
         /\ CommandsOf(n) = 1 <=> \E i \in DOMAIN subs : subs[i].scan = n /\ InQueue(i)
<1> DEFINE its == {q \in DOMAIN queued : subs[queued[q]].scan = n}
<1>1. \A q \in its : queued[q] \in DOMAIN subs /\ InQueue(queued[q]) /\ Claims(queued[q], n)
  BY DEF PdaInv, PdaTypes, InQueue, Claims, Alive
<1>2. \A p, q \in its : p = q
  BY <1>1 DEF PdaInv, QueueOfCommitted, OneAlive
<1>3. its # {} <=> \E i \in DOMAIN subs : subs[i].scan = n /\ InQueue(i)
  BY <1>1 DEF InQueue
<1>4. CASE its = {}
  <2>1. CommandsOf(n) = 0
    BY <1>4, FS_EmptySet DEF CommandsOf
  <2> QED  BY <1>3, <1>4, <2>1
<1>5. CASE its # {}
  <2>1. PICK q : its = {q}
    BY <1>2, <1>5
  <2>2. CommandsOf(n) = 1
    BY <2>1, FS_Singleton DEF CommandsOf
  <2> QED  BY <1>3, <1>5, <2>2
<1> QED  BY <1>4, <1>5

LEMMA QueueFollows == PdaInv => QueueHoldsWhatWasTold
<1> SUFFICES ASSUME PdaInv PROVE QueueHoldsWhatWasTold
  OBVIOUS
<1>1. ToldMatchesQueue
  <2> SUFFICES ASSUME NEW n \in 1..scanNo
               PROVE  /\ CommandsOf(n) <= 1
                      /\ told[n] = "ok" => CommandsOf(n) = 1
                      /\ told[n] = "error" => CommandsOf(n) = 0
    BY DEF ToldMatchesQueue
  <2>1. n \in ScanNo \ {0} /\ n \in 1..MaxScans
    BY HandheldAssumption DEF PdaInv, PdaTypes, ScanNo
  <2>2. told[n] = "error" => ~\E i \in DOMAIN subs : subs[i].scan = n /\ InQueue(i)
    BY <2>1 DEF PdaInv, ToldRight, Claims, Alive
  <2>3. told[n] = "ok" => \E i \in DOMAIN subs : subs[i].scan = n /\ InQueue(i)
    BY <2>1 DEF PdaInv, ToldRight
  <2> QED  BY <2>1, <2>2, <2>3, CommandsCounted
<1>2. BadgeCounts
  BY Zenon DEF PdaInv, BadgeFollows, BadgeCounts, Failed
<1>3. PlacedAsSuggested
  BY DEF PdaInv, PdaTypes, SuggestionsStand, PlacedAsSuggested
<1> QED  BY <1>1, <1>2, <1>3 DEF QueueHoldsWhatWasTold

(* For any goods, shelves, scans, reloads and screens opened: a scan the   *)
(* worker heard accepted has one command in the queue, one heard refused   *)
(* or failed has none, the badge at rest shows the queue's size or its     *)
(* error unless two counts overtook each other, and a queued put-away goes *)
(* to a shelf suggested for its goods unless they changed while an earlier *)
(* attempt was being saved (apps/pda, pick-machine.ts and its siblings,    *)
(* offline-queue.ts, AppShell).                                            *)
THEOREM HandheldKeepsItsWord == SpecHandheld => []QueueHoldsWhatWasTold
<1>1. SpecHandheld => []PdaInv
  BY InitPda, NextPda, PTL DEF SpecHandheld
<1> QED  BY <1>1, QueueFollows, PTL
=============================================================================
