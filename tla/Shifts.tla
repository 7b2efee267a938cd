------------------------------- MODULE Shifts -------------------------------
(***************************************************************************)
(* Shift assignments of employees (modules/hr, MaintainShift).             *)
(*                                                                         *)
(* AssignShift reads the employee's ranges without a lock, READ COMMITTED, *)
(* and inserts later; the exclusion constraint judges at the insert.       *)
(* EndShiftAssignment holds the row's lock and is one step.                *)
(*                                                                         *)
(* Abstracted: shifts and groups have no identity (a group's shift is the  *)
(* caller's input, checked twice); callers know the current version.       *)
(***************************************************************************)
EXTENDS Integers, Sequences

CONSTANTS Planner,                 \* concurrent calls of AssignShift
          Worker,
          Forever,                 \* later than any day: an open-ended assignment
          LastShiftDay, MaxShifts  \* bounds

ASSUME ShiftsAssumption ==
    {Forever, LastShiftDay, MaxShifts} \subseteq Nat /\ Forever > LastShiftDay

VARIABLES shiftRows,    \* hr.shift_assignments: Seq of [worker, from, to]
          plan          \* what each call has checked: NoPlan or a row
shiftVars == <<shiftRows, plan>>

ShiftRow == [worker : Worker, from : 1..LastShiftDay, to : 1..LastShiftDay \cup {Forever}]
NoPlan   == [worker |-> "none", from |-> 0, to |-> 0]

ShiftsTypeOK ==
    /\ shiftRows \in Seq(ShiftRow)
    /\ plan \in [Planner -> ShiftRow \cup {NoPlan}]

InitShifts == shiftRows = <<>> /\ plan = [p \in Planner |-> NoPlan]

-----------------------------------------------------------------------------
(* Inclusive bounds, as daterange(valid_from, valid_to, '[]').             *)
RangesOverlap(a, b) == a.from <= b.to /\ b.from <= a.to
RangesOf(w) == {shiftRows[i] : i \in {j \in 1..Len(shiftRows) : shiftRows[j].worker = w}}
IsValidRange(row) == row.to >= row.from

(* AssignShift: the range, and the ranges of the employee, as read.        *)
AssignShift(p, row) ==
    /\ plan[p] = NoPlan /\ IsValidRange(row)
    /\ \A other \in RangesOf(row.worker) : ~RangesOverlap(other, row)
    /\ plan' = [plan EXCEPT ![p] = row]
    /\ UNCHANGED shiftRows

(* shift_assignments_no_overlap.                                           *)
NoOverlap(row) == \A other \in RangesOf(row.worker) : ~RangesOverlap(other, row)

InsertShiftAssignment(p) ==
    /\ plan[p] # NoPlan /\ Len(shiftRows) < MaxShifts
    /\ NoOverlap(plan[p])
    /\ shiftRows' = Append(shiftRows, plan[p])
    /\ plan' = [plan EXCEPT ![p] = NoPlan]

(* The constraint refuses it, or the process dies: nothing is kept.        *)
AbandonPlan(p) ==
    /\ plan[p] # NoPlan /\ plan' = [plan EXCEPT ![p] = NoPlan]
    /\ UNCHANGED shiftRows

(* EndShiftAssignment: once, for an open-ended assignment.                 *)
EndShiftAssignment(i, to) ==
    /\ shiftRows[i].to = Forever /\ IsValidRange([shiftRows[i] EXCEPT !.to = to])
    /\ shiftRows' = [shiftRows EXCEPT ![i].to = to]
    /\ UNCHANGED plan

NextShifts ==
    \/ \E p \in Planner :
         \/ \E row \in ShiftRow : AssignShift(p, row)
         \/ InsertShiftAssignment(p) \/ AbandonPlan(p)
    \/ \E i \in 1..Len(shiftRows), to \in 1..LastShiftDay : EndShiftAssignment(i, to)
SpecShifts == InitShifts /\ [][NextShifts]_shiftVars

-----------------------------------------------------------------------------
(* No employee is on two shifts on a day, whoever assigns and ends them at *)
(* the same time (doc 38, row 5.5a).                                       *)
OneShiftADay ==
    \A i, j \in 1..Len(shiftRows) :
        i < j /\ shiftRows[i].worker = shiftRows[j].worker
          => ~RangesOverlap(shiftRows[i], shiftRows[j])
=============================================================================
