----------------------------- MODULE DeliveryTasks -----------------------------
(***************************************************************************)
(* Vehicles and delivery tasks (modules/fleet, modules/tms): vehicles are  *)
(* registered with their documents and asked for, and clerks make the one  *)
(* delivery task of an outbound order while the warehouse moves it on.     *)
(*                                                                         *)
(* What sets a task's vehicle is not built yet; the guard of migration     *)
(* 0046 is there, and AssignVehicle is the update it guards.  How an order *)
(* moves is module OutboundOrders; here only its statuses matter.          *)
(*                                                                         *)
(* Abstracted: a packed order is a checked one (both may have a task); two *)
(* instants a day, the later one past midnight in Kuwait (UTC+3) and not   *)
(* yet in UTC; a blank address is refused before anything is read.         *)
(***************************************************************************)
EXTENDS Integers, FiniteSets

CONSTANTS Clerk, TaskOrder, TaskEntity,
          EntityOf,          \* [Clerk \cup TaskOrder -> TaskEntity]: active entity, entity_id
          Vehicle,           \* plate numbers
          LastInstant, MaxTaskReads, MaxVerdicts  \* bounds

ASSUME TasksAssumption ==
    /\ EntityOf \in [Clerk \cup TaskOrder -> TaskEntity]
    /\ {LastInstant, MaxTaskReads, MaxVerdicts} \subseteq Nat
    /\ IsFiniteSet(TaskOrder) /\ TaskOrder # {}

VARIABLES orderRow,    \* wms.outbound_orders: [status, version, task]
          tasks,       \* tms.delivery_tasks: [entity, no, order, vehicle]
          taskCounter, \* platform.counters, the TSK row of an entity
          clerk,       \* what each clerk's command holds: [step, order, expected]
          taskReads,   \* commands sent so far
          documents,   \* tms.vehicle_documents: expiry dates; NoVehicle before registration
          instant,
          verdicts         \* ghost: what was said of a vehicle: [by, vehicle, at, assignable]
taskVars == <<orderRow, tasks, taskCounter, clerk, taskReads, documents, instant, verdicts>>

-----------------------------------------------------------------------------
Status == {"allocated", "cancelled", "picked", "checked", "loaded"}
(* outboundOrderMachine, from the allocation on.                           *)
NextStatus(s) ==
    CASE s = "allocated" -> {"cancelled", "picked"} [] s = "picked" -> {"checked"}
      [] s = "checked" -> {"loaded"} [] OTHER -> {}
ReadyStatus == {"checked", "loaded"}

NoTask == 0
NoVehicle == {-1}
Instant == 0..LastInstant
NoCommand == [step |-> "idle", order |-> CHOOSE o \in TaskOrder : TRUE, expected |-> 0]

UtcDate(at) == at \div 2
(* businessDateOf: the calendar date in Asia/Kuwait. *)
KuwaitDate(at) == (at + 1) \div 2
Expiry == 0..KuwaitDate(LastInstant)

TasksTypeOK ==
    /\ orderRow \in [TaskOrder -> [status : Status, version : 1..5,
                                 task : 0..Cardinality(TaskOrder)]]
    /\ tasks \subseteq [entity : TaskEntity, no : Nat, order : TaskOrder,
                        vehicle : Vehicle \cup {"none"}]
    /\ taskCounter \in [TaskEntity -> 0..Cardinality(TaskOrder)]
    /\ clerk \in [Clerk -> [step : {"idle", "sent", "locked", "numbered"}, order : TaskOrder,
                            expected : 0..5]]
    /\ taskReads \in 0..MaxTaskReads /\ instant \in Instant
    /\ documents \in [Vehicle -> SUBSET (Expiry \cup NoVehicle)]
    /\ verdicts \subseteq [by : {"register", "assert", "guard"}, vehicle : Vehicle, at : Instant,
                       assignable : BOOLEAN]

InitTasks ==
    /\ orderRow = [o \in TaskOrder |-> [status |-> "allocated", version |-> 1, task |-> NoTask]]
    /\ tasks = {} /\ taskCounter = [e \in TaskEntity |-> 0]
    /\ clerk = [c \in Clerk |-> NoCommand] /\ taskReads = 0
    /\ documents = [v \in Vehicle |-> NoVehicle] /\ instant = 0 /\ verdicts = {}

-----------------------------------------------------------------------------
(* Vehicles.                                                               *)

(* expiredDocumentsOf *)
ExpiredDocuments(docs, at) == {d \in docs : d < KuwaitDate(at)}
Say(by, v, at, assignable) ==
    /\ Cardinality(verdicts) < MaxVerdicts
    /\ verdicts' = verdicts \cup {[by |-> by, vehicle |-> v, at |-> at, assignable |-> assignable]}

(* registerVehicle: the plate is nobody's yet; expired documents are kept, *)
(* and told of.                                                            *)
RegisterVehicle(v, docs) ==
    /\ documents[v] = NoVehicle
    /\ documents' = [documents EXCEPT ![v] = docs]
    /\ Say("register", v, instant, ExpiredDocuments(docs, instant) = {})
    /\ UNCHANGED <<orderRow, tasks, taskCounter, clerk, taskReads, instant>>

(* assertVehicleAssignable, of the instant the caller asks about. *)
AssertVehicleAssignable(v, at) ==
    /\ documents[v] # NoVehicle
    /\ Say("assert", v, at, ExpiredDocuments(documents[v], at) = {})
    /\ UNCHANGED <<orderRow, tasks, taskCounter, clerk, taskReads, documents, instant>>

(* A mutant of GuardRefuses: the guard takes the date of the UTC clock.    *)
GuardRefusesByUtc(v) == \E d \in documents[v] : d < UtcDate(instant)
(* tms.guard_vehicle_assignable *)
GuardRefuses(v) == \E d \in documents[v] : d < KuwaitDate(instant)
AssignVehicle(t, v) ==
    /\ documents[v] # NoVehicle /\ t.vehicle # v
    /\ Say("guard", v, instant, ~GuardRefuses(v))
    /\ tasks' = IF GuardRefuses(v) THEN tasks ELSE (tasks \ {t}) \cup {[t EXCEPT !.vehicle = v]}
    /\ UNCHANGED <<orderRow, taskCounter, clerk, taskReads, documents, instant>>

PassTime ==
    /\ instant < LastInstant /\ instant' = instant + 1
    /\ UNCHANGED <<orderRow, tasks, taskCounter, clerk, taskReads, documents, verdicts>>

-----------------------------------------------------------------------------
(* Delivery tasks.                                                         *)

HoldsOrder(c, o) == clerk[c].step \in {"locked", "numbered"} /\ clerk[c].order = o
OrderUnlocked(o) == \A c \in Clerk : ~HoldsOrder(c, o)

(* The warehouse's commands, each under the order's lock. *)
AdvanceOrder(o) ==
    /\ OrderUnlocked(o)
    /\ \E s \in NextStatus(orderRow[o].status) :
         orderRow' = [orderRow EXCEPT ![o].status = s, ![o].version = @ + 1]
    /\ UNCHANGED <<tasks, taskCounter, clerk, taskReads, documents, instant, verdicts>>

SendCreateTask(c, o) ==
    /\ clerk[c].step = "idle" /\ taskReads < MaxTaskReads
    /\ clerk' = [clerk EXCEPT
                   ![c] = [step |-> "sent", order |-> o, expected |-> orderRow[o].version]]
    /\ taskReads' = taskReads + 1
    /\ UNCHANGED <<orderRow, tasks, taskCounter, documents, instant, verdicts>>

(* A mutant of MayHaveTask: the order's back-link is not looked at. *)
MayHaveOneMore(c, o) ==
    /\ EntityOf[c] = EntityOf[o]
    /\ orderRow[o].status \in ReadyStatus /\ orderRow[o].version = clerk[c].expected
(* What is read under the order's lock: the caller's entity, the back-link,*)
(* the status and the version, in that order.                              *)
MayHaveTask(c, o) ==
    /\ EntityOf[c] = EntityOf[o] /\ orderRow[o].task = NoTask
    /\ orderRow[o].status \in ReadyStatus /\ orderRow[o].version = clerk[c].expected
LockOrder(c) ==
    /\ clerk[c].step = "sent" /\ OrderUnlocked(clerk[c].order)
    /\ clerk' = [clerk EXCEPT
                   ![c] = IF MayHaveTask(c, @.order) THEN [@ EXCEPT !.step = "locked"]
                                                     ELSE NoCommand]
    /\ UNCHANGED <<orderRow, tasks, taskCounter, taskReads, documents, instant, verdicts>>

(* platform.next_doc_no: the counter's row stays locked until the end. *)
NextTaskNo(c) ==
    /\ clerk[c].step = "locked"
    /\ \A b \in Clerk : clerk[b].step = "numbered" => EntityOf[b] # EntityOf[c]
    /\ clerk' = [clerk EXCEPT ![c].step = "numbered"]
    /\ UNCHANGED <<orderRow, tasks, taskCounter, taskReads, documents, instant, verdicts>>

(* insertDeliveryTask, linkOrderToTask, the commit. *)
CommitTask(c) ==
    LET o  == clerk[c].order
        e  == EntityOf[c]
        no == taskCounter[e] + 1
    IN /\ clerk[c].step = "numbered" /\ orderRow[o].version = clerk[c].expected
       /\ tasks' = tasks \cup {[entity |-> e, no |-> no, order |-> o, vehicle |-> "none"]}
       /\ taskCounter' = [taskCounter EXCEPT ![e] = no]
       /\ orderRow' = [orderRow EXCEPT ![o].task = no, ![o].version = @ + 1]
       /\ clerk' = [clerk EXCEPT ![c] = NoCommand]
       /\ UNCHANGED <<taskReads, documents, instant, verdicts>>

(* An error or a crash after the lock: all of it is rolled back. *)
RollBackTask(c) ==
    /\ clerk[c].step \in {"locked", "numbered"}
    /\ clerk' = [clerk EXCEPT ![c] = NoCommand]
    /\ UNCHANGED <<orderRow, tasks, taskCounter, taskReads, documents, instant, verdicts>>

NextTasks ==
    \/ \E v \in Vehicle : \/ \E docs \in SUBSET Expiry : RegisterVehicle(v, docs)
                          \/ \E at \in Instant : AssertVehicleAssignable(v, at)
                          \/ \E t \in tasks : AssignVehicle(t, v)
    \/ PassTime
    \/ \E o \in TaskOrder : AdvanceOrder(o) \/ \E c \in Clerk : SendCreateTask(c, o)
    \/ \E c \in Clerk : LockOrder(c) \/ NextTaskNo(c) \/ CommitTask(c) \/ RollBackTask(c)
SpecTasks == InitTasks /\ [][NextTasks]_taskVars

-----------------------------------------------------------------------------
(* An order has one task at most, each names the other, both are of one    *)
(* entity, the numbers of an entity's tasks have no gap, and the goods of  *)
(* a task are checked and never given back.                                *)
OneTaskPerOrder ==
    /\ \A t \in tasks :
         /\ orderRow[t.order].task = t.no /\ EntityOf[t.order] = t.entity
         /\ orderRow[t.order].status \in ReadyStatus
         /\ \A u \in tasks : u.order = t.order => u = t
    /\ \A o \in TaskOrder : orderRow[o].task # NoTask => \E t \in tasks : t.order = o
    /\ \A e \in TaskEntity : {t.no : t \in {t \in tasks : t.entity = e}} = 1..taskCounter[e]

(* Whoever speaks of a vehicle says the same of it on the same day in      *)
(* Kuwait, at registration, when asked, and when it is put on a task; and  *)
(* what was refused once is refused on every later day.                    *)
VehicleVerdictsAgree ==
    \A s, t \in verdicts :
      s.vehicle = t.vehicle /\ KuwaitDate(s.at) <= KuwaitDate(t.at) =>
        /\ t.assignable => s.assignable
        /\ KuwaitDate(s.at) = KuwaitDate(t.at) => s.assignable = t.assignable

TasksFollowOrders == OneTaskPerOrder /\ VehicleVerdictsAgree
=============================================================================
