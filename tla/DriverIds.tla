------------------------------ MODULE DriverIds ------------------------------
(***************************************************************************)
(* Employees and their documents (modules/hr, RegisterEmployee) and the    *)
(* iMile driver ids they hold (modules/imile, AssignDriverId).             *)
(*                                                                         *)
(* AssignDriverId checks what it reads without a lock and writes later,    *)
(* READ COMMITTED; two partial unique indexes and the guarded update of    *)
(* driver_ids judge at the write.  ChangeEmployeeStatus holds the row of   *)
(* the employee, which the foreign key of an assignment waits for, so each *)
(* of the two is one step.  Two triggers close assignments: of a           *)
(* terminated employee, and of a suspended id.                             *)
(*                                                                         *)
(* Abstracted: of a document type only the latest expiry day, 0 for none;  *)
(* callers know the current version of an employee.                        *)
(***************************************************************************)
EXTENDS Integers, Sequences

CONSTANTS Dispatcher,              \* concurrent calls of AssignDriverId
          Employee, DriverId,
          LastStaffDay, MaxHeld    \* bounds: days, rows of driver_id_assignments

ASSUME StaffAssumption == {LastStaffDay, MaxHeld} \subseteq Nat /\ LastStaffDay # 0

DocType  == {"residency", "license"}
OnStaff  == {"active", "on_leave", "suspended"}

VARIABLES staff,        \* hr.employees.status; "unknown": not registered yet
          papers,       \* [Employee -> [DocType -> latest expiry]]
          driverIds,    \* imile.driver_ids.status
          holdings,     \* imile.driver_id_assignments: Seq of [id, employee, open], and a
                        \* ghost: late, the holder was terminated when the row came
          checked,      \* what each call has checked: NotChecked or [employee, id]
          staffDay
staffVars == <<staff, papers, driverIds, holdings, checked, staffDay>>

NotChecked == [employee |-> "none", id |-> "none"]

DriverIdsTypeOK ==
    /\ staff \in [Employee -> OnStaff \cup {"unknown", "terminated"}]
    /\ papers \in [Employee -> [DocType -> 0..LastStaffDay]]
    /\ driverIds \in [DriverId -> {"available", "assigned", "suspended"}]
    /\ holdings \in Seq([id : DriverId, employee : Employee, open : BOOLEAN, late : BOOLEAN])
    /\ checked \in [Dispatcher -> [employee : Employee, id : DriverId] \cup {NotChecked}]
    /\ staffDay \in 1..LastStaffDay

InitStaff ==
    /\ staff = [e \in Employee |-> "unknown"]
    /\ papers = [e \in Employee |-> [type \in DocType |-> 0]]
    /\ driverIds = [d \in DriverId |-> "available"]
    /\ holdings = <<>> /\ checked = [c \in Dispatcher |-> NotChecked] /\ staffDay = 1

-----------------------------------------------------------------------------
RegisterEmployee(e) ==
    /\ staff[e] = "unknown" /\ staff' = [staff EXCEPT ![e] = "active"]
    /\ UNCHANGED <<papers, driverIds, holdings, checked, staffDay>>

(* employeeMachine: leave and suspension go back through 'active'.         *)
StaffMoves == {<<"active", "on_leave">>, <<"active", "suspended">>, <<"active", "terminated">>,
               <<"on_leave", "active">>, <<"on_leave", "terminated">>,
               <<"suspended", "active">>, <<"suspended", "terminated">>}

(* A mutant of FreedIds: the ids stay assigned.                            *)
KeptIds(e) == {}
(* The ids the termination trigger frees: any the employee ever held.      *)
FreedIds(e) == {d \in DriverId : /\ driverIds[d] = "assigned"
                                 /\ \E i \in 1..Len(holdings) : holdings[i].id = d /\ holdings[i].employee = e}
Closed(rows) == [i \in 1..Len(holdings) |-> IF i \in rows THEN [holdings[i] EXCEPT !.open = FALSE] ELSE holdings[i]]

(* ChangeEmployeeStatus with hr.close_driver_id_on_termination.            *)
ChangeEmployeeStatus(e, new) ==
    /\ <<staff[e], new>> \in StaffMoves
    /\ staff' = [staff EXCEPT ![e] = new]
    /\ IF new = "terminated"
       THEN /\ holdings' = Closed({i \in 1..Len(holdings) : holdings[i].employee = e})
            /\ driverIds' = [d \in DriverId |-> IF d \in FreedIds(e) THEN "available" ELSE driverIds[d]]
       ELSE UNCHANGED <<holdings, driverIds>>
    /\ UNCHANGED <<papers, checked, staffDay>>

(* RecordEmployeeDocument: a renewal is a row of its own.                  *)
RecordEmployeeDocument(e, type, expiry) ==
    /\ staff[e] # "unknown" /\ papers[e][type] < expiry
    /\ papers' = [papers EXCEPT ![e][type] = expiry]
    /\ UNCHANGED <<staff, driverIds, holdings, checked, staffDay>>

(* assertDriverAssignable; CheckDriverAssignable answers with it.          *)
RequiredDocTypes == [task |-> {"residency"}, vehicle |-> {"residency", "license"}]
DriverAssignable(e, purpose) ==
    /\ staff[e] = "active"
    /\ \A type \in RequiredDocTypes[purpose] : papers[e][type] >= staffDay

-----------------------------------------------------------------------------
(* AssignDriverId: the employee with the documents, and the id, as read.   *)
AssignDriverId(c, e, d) ==
    /\ checked[c] = NotChecked
    /\ DriverAssignable(e, "task") /\ driverIds[d] = "available"
    /\ checked' = [checked EXCEPT ![c] = [employee |-> e, id |-> d]]
    /\ UNCHANGED <<staff, papers, driverIds, holdings, staffDay>>

(* insertAssignment under its two unique indexes, and                      *)
(* markDriverIdAssigned, which finds the id available or rolls it back.    *)
InsertAssignment(c) ==
    LET e == checked[c].employee  d == checked[c].id
    IN /\ checked[c] # NotChecked /\ Len(holdings) < MaxHeld
       /\ \A i \in 1..Len(holdings) : holdings[i].open => holdings[i].employee # e /\ holdings[i].id # d
       /\ driverIds[d] = "available"
       /\ holdings' = Append(holdings, [id |-> d, employee |-> e, open |-> TRUE,
                                late |-> staff[e] = "terminated"])
       /\ driverIds' = [driverIds EXCEPT ![d] = "assigned"]
       /\ checked' = [checked EXCEPT ![c] = NotChecked]
       /\ UNCHANGED <<staff, papers, staffDay>>

(* A refused write, a dead process: nothing is kept.                       *)
AbandonAssignment(c) ==
    /\ checked[c] # NotChecked /\ checked' = [checked EXCEPT ![c] = NotChecked]
    /\ UNCHANGED <<staff, papers, driverIds, holdings, staffDay>>

(* iMile suspends an id; imile.close_assignment_on_suspension closes its   *)
(* assignment if the id was 'assigned'.                                    *)
SuspendDriverId(d) ==
    /\ driverIds[d] # "suspended"
    /\ driverIds' = [driverIds EXCEPT ![d] = "suspended"]
    /\ holdings' = IF driverIds[d] = "assigned" THEN Closed({i \in 1..Len(holdings) : holdings[i].id = d}) ELSE holdings
    /\ UNCHANGED <<staff, papers, checked, staffDay>>

(* iMile gives a suspended id back.                                        *)
RestoreDriverId(d) ==
    /\ driverIds[d] = "suspended" /\ driverIds' = [driverIds EXCEPT ![d] = "available"]
    /\ UNCHANGED <<staff, papers, holdings, checked, staffDay>>

NextStaffDay ==
    /\ staffDay < LastStaffDay /\ staffDay' = staffDay + 1
    /\ UNCHANGED <<staff, papers, driverIds, holdings, checked>>

NextStaff ==
    \/ \E e \in Employee :
         \/ RegisterEmployee(e)
         \/ \E new \in OnStaff \cup {"terminated"} : ChangeEmployeeStatus(e, new)
         \/ \E type \in DocType, expiry \in 1..LastStaffDay : RecordEmployeeDocument(e, type, expiry)
    \/ \E c \in Dispatcher :
         \/ \E e \in Employee, d \in DriverId : AssignDriverId(c, e, d)
         \/ InsertAssignment(c) \/ AbandonAssignment(c)
    \/ \E d \in DriverId : SuspendDriverId(d) \/ RestoreDriverId(d)
    \/ NextStaffDay
SpecStaff == InitStaff /\ [][NextStaff]_staffVars

-----------------------------------------------------------------------------
(* Ids and their holders agree, up to what the triggers leave open: an     *)
(* assigned id has a holder; a held id is assigned unless the end of       *)
(* another holder's service freed it; an employee whose service ended      *)
(* holds an id only if it was assigned after the end, on an earlier check; *)
(* nobody holds two ids, and no id has two holders.                        *)
IdsFollowHolders ==
    LET Open == {i \in 1..Len(holdings) : holdings[i].open}
    IN /\ \A d \in DriverId : driverIds[d] = "assigned" => \E i \in Open : holdings[i].id = d
       /\ \A i \in Open :
            /\ \/ driverIds[holdings[i].id] = "assigned"
               \/ \E j \in 1..(i - 1) : holdings[j].id = holdings[i].id /\ staff[holdings[j].employee] = "terminated"
            /\ staff[holdings[i].employee] = "terminated" => holdings[i].late
       /\ \A i, j \in Open : i # j => holdings[i].id # holdings[j].id /\ holdings[i].employee # holdings[j].employee

(* The trigger's comment (13-Schema-Additions.sql:415), suspending an id   *)
(* closes its assignment at once: a suspended id has no open assignment.   *)
SuspendedIdsAreFree ==
    \A i \in 1..Len(holdings) : holdings[i].open => driverIds[holdings[i].id] # "suspended"
=============================================================================
