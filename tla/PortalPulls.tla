----------------------------- MODULE PortalPulls -----------------------------
(***************************************************************************)
(* PullShipments (modules/imile): cycles that copy the portal's shipments. *)
(*                                                                         *)
(* A cycle is one READ COMMITTED transaction: it fetches the portal's      *)
(* answer, then takes record after record: an unknown tracking number is   *)
(* inserted, a changed one is updated if its row still has the version     *)
(* that was read, and every write is audited with what it replaced.  A     *)
(* cycle whose row moved on, or whose number was inserted by another, is   *)
(* rolled back whole; one whose portal is out of reach reports only that.  *)
(*                                                                         *)
(* The portal may answer anything, one tracking number several times too:  *)
(* the loop then finds what it wrote itself.                               *)
(*                                                                         *)
(* Abstracted: the fields the portal sends are one value; the tracking     *)
(* number is the row's key; an agent's health is the outcome of its cycle; *)
(* records that validatePortalRecord skips are left out of the answer.     *)
(***************************************************************************)
EXTENDS Integers, Sequences, FiniteSets

CONSTANTS Cycle, Tracking, PortalValue,
          MaxPulls,      \* bound: versions of a shipment
          MaxRecords, MaxHealth

ASSUME PullsAssumption ==
    {MaxPulls, MaxRecords, MaxHealth} \subseteq Nat /\ "none" \notin Cycle \cup PortalValue

VARIABLES shipments,  \* imile.shipments, committed: [Tracking -> row or Unknown]
          trail,      \* the audit rows of each shipment: Seq of [old, new]
          health,     \* imile.agent_health: Seq of TRUE (session valid) or FALSE
          cycle       \* [step, answer: the records left, read: a row, notes: own audit rows]
pullVars == <<shipments, trail, health, cycle>>

Record  == [no : Tracking, value : PortalValue]
Unknown == [value |-> "none", version |-> 0]
Asleep  == [step |-> "idle", answer |-> <<>>, read |-> Unknown,
            notes |-> [k \in Tracking |-> <<>>]]

(* The row as a cycle finds it.  One it has written is locked: nobody else *)
(* has changed it since.                                                   *)
Found(c, k) ==
    LET notes == cycle[c].notes[k]
    IN IF notes = <<>> THEN shipments[k]
       ELSE [value |-> notes[Len(notes)].new, version |-> shipments[k].version + Len(notes)]
WrittenByOther(c, k) == \E d \in Cycle \ {c} : cycle[d].notes[k] # <<>>

PullsTypeOK ==
    /\ shipments \in [Tracking -> [value : PortalValue \cup {"none"}, version : 0..MaxPulls]]
    /\ health \in Seq(BOOLEAN)
    /\ \A c \in Cycle :
         /\ cycle[c].step \in {"idle", "pulling", "read"} /\ cycle[c].answer \in Seq(Record)
         /\ \A k \in Tracking : Found(c, k).version <= MaxPulls

InitPulls ==
    /\ shipments = [k \in Tracking |-> Unknown] /\ trail = [k \in Tracking |-> <<>>]
    /\ health = <<>> /\ cycle = [c \in Cycle |-> Asleep]

-----------------------------------------------------------------------------
(* The answer is fetched before anything is read.                          *)
FetchShipments(c) ==
    /\ cycle[c].step = "idle"
    /\ \E n \in 0..MaxRecords : \E answer \in [1..n -> Record] :
         cycle' = [cycle EXCEPT ![c] = [Asleep EXCEPT !.step = "pulling", !.answer = answer]]
    /\ UNCHANGED <<shipments, trail, health>>

(* PortalUnreachableError: the cycle commits a failed health row alone.    *)
PortalUnreachable(c) ==
    /\ cycle[c].step = "idle" /\ Len(health) < MaxHealth
    /\ health' = Append(health, FALSE)
    /\ UNCHANGED <<shipments, trail, cycle>>

(* findShipmentByTrackingNo of the next record.                            *)
FindShipmentByTrackingNo(c) ==
    /\ cycle[c].step = "pulling" /\ cycle[c].answer # <<>>
    /\ cycle' = [cycle EXCEPT ![c].step = "read", ![c].read = Found(c, Head(cycle[c].answer).no)]
    /\ UNCHANGED <<shipments, trail, health>>

(* A mutant of RowIsAsRead: 'and version = ...' is missing.                *)
RowExists(row, read) == (row.version = 0) = (read.version = 0)
(* 'where id = ... and version = ...'; for an insert, the unique index.    *)
RowIsAsRead(row, read) == row.version = read.version

(* iMileChangedFieldKeys is empty: nothing is written.                     *)
UnchangedRecord(c) ==
    /\ cycle[c].step = "read" /\ cycle[c].read.value = Head(cycle[c].answer).value
    /\ cycle' = [cycle EXCEPT ![c].step = "pulling", ![c].answer = Tail(@)]
    /\ UNCHANGED <<shipments, trail, health>>

(* insertShipment or updateShipmentIMileFields, once the row is not        *)
(* locked, and the audit row with what was read before.                    *)
WriteShipment(c) ==
    LET read == cycle[c].read  record == Head(cycle[c].answer)  row == Found(c, record.no)
    IN /\ cycle[c].step = "read" /\ read.value # record.value
       /\ ~WrittenByOther(c, record.no) /\ RowIsAsRead(row, read)
       /\ row.version < MaxPulls
       /\ cycle' = [cycle EXCEPT ![c].step = "pulling", ![c].answer = Tail(@),
              ![c].notes[record.no] = Append(@, [old |-> read.value, new |-> record.value])]
       /\ UNCHANGED <<shipments, trail, health>>

(* The row moved on (StaleVersionError), its number was inserted by        *)
(* another cycle, or the process dies: rolled back, health row included.   *)
AbortCycle(c) ==
    /\ cycle[c].step # "idle"
    /\ cycle' = [cycle EXCEPT ![c] = Asleep]
    /\ UNCHANGED <<shipments, trail, health>>

(* The health row and the commit: rows, versions, audit rows.              *)
CommitCycle(c) ==
    /\ cycle[c].step = "pulling" /\ cycle[c].answer = <<>> /\ Len(health) < MaxHealth
    /\ shipments' = [k \in Tracking |-> Found(c, k)]
    /\ trail' = [k \in Tracking |-> trail[k] \o cycle[c].notes[k]]
    /\ health' = Append(health, TRUE)
    /\ cycle' = [cycle EXCEPT ![c] = Asleep]

NextPulls ==
    \E c \in Cycle :
      \/ FetchShipments(c) \/ PortalUnreachable(c) \/ FindShipmentByTrackingNo(c)
      \/ UnchangedRecord(c) \/ WriteShipment(c) \/ AbortCycle(c) \/ CommitCycle(c)
SpecPulls == InitPulls /\ [][NextPulls]_pullVars

-----------------------------------------------------------------------------
(* Audit rows that lead from one value to another, each replacing what the *)
(* one before it left.                                                     *)
Replays(from, notes, to) ==
    /\ IF notes = <<>> THEN from = to ELSE notes[1].old = from /\ notes[Len(notes)].new = to
    /\ \A i \in 2..Len(notes) : notes[i].old = notes[i - 1].new

(* The audit rows of a shipment tell its history, from no row to what the  *)
(* row holds, and there are as many as the row has versions, whatever      *)
(* cycles run at the same time and however often an answer repeats a       *)
(* tracking number.                                                        *)
PullsAuditReplays ==
    \A k \in Tracking : /\ Len(trail[k]) = shipments[k].version
                        /\ Replays("none", trail[k], shipments[k].value)
=============================================================================
