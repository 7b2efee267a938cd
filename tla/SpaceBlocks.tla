---------------------------- MODULE SpaceBlocks ------------------------------
(***************************************************************************)
(* Selling warehouse space: AllocateSpace and ReserveSpace of              *)
(* modules/wms/application/manage-space over wms.space_allocations and     *)
(* wms.space_reservations.                                                 *)
(*                                                                         *)
(* A command locks the block's row, asks wms.check_space_available what is *)
(* still sellable and inserts its row: three steps, because the check      *)
(* reads what is committed when it runs.  Allocations and reservations are *)
(* rows of one set: the check adds both up in the same way.  Space out of  *)
(* service only lowers the capacity and is left out, and so are the units  *)
(* (the check adds quantities of every unit) and the caller's role.        *)
(***************************************************************************)
EXTENDS Integers, FiniteSets, Functions

CONSTANTS
  SpaceSession,     \* database sessions
  NoSession,        \* a block row nobody has locked
  Block,            \* wms.space_blocks
  BlockCapacity,    \* capacity_pallets of every block
  LastDay,          \* the days are 1..LastDay
  SpaceQty,         \* quantities asked for
  ReservationMaxDays,  \* platform.thresholds 'space.reservation_max_days'
  MaxSpaceRows      \* bound: rows sold

ASSUME SpaceConstants ==
  /\ NoSession \notin SpaceSession
  /\ BlockCapacity \in Nat
  /\ LastDay \in Nat \ {0}
  /\ SpaceQty \subseteq Nat \ {0}
  /\ ReservationMaxDays \in Nat
  /\ MaxSpaceRows \in Nat

Day == 1..LastDay
OpenEnded == 0      \* SQL null in valid_to

VARIABLES
  spaceRows,        \* committed allocations and reservations, all 'active'
  blockLock,        \* who holds each block's row lock
  spacePc,          \* where each session is
  spaceReq          \* the request a session is working on

spaceVars == <<spaceRows, blockLock, spacePc, spaceReq>>

(* Rows of wms.space_allocations ... *)
Allocation ==
  [table : {"allocation"}, block : Block, qty : SpaceQty, from : Day, to : Day \cup {OpenEnded}]

(* ... and of wms.space_reservations, which always end. *)
Reservation ==
  [table : {"reservation"}, block : Block, qty : SpaceQty, from : Day, to : Day]

IsValidReservationRange(req) == req.to > req.from

IsWithinMaxDuration(req) == req.to - req.from <= ReservationMaxDays

(* The day up to which the check looks: coalesce(p_to, p_from). *)
CheckedUntil(req) == IF req.to = OpenEnded THEN req.from ELSE req.to

Overlaps(row, req) ==
  /\ row.block = req.block
  /\ row.from <= CheckedUntil(req)
  /\ row.to = OpenEnded \/ row.to >= req.from

QtyOf == [e \in spaceRows |-> e.row.qty]

(* wms.space_availability: every overlapping row is taken off the capacity, *)
(* whether or not the rows overlap each other.                              *)
Sellable(req) ==
  BlockCapacity - SumFunctionOnSet(QtyOf, {e \in spaceRows : Overlaps(e.row, req)})

InitSpace ==
  /\ spaceRows = {}
  /\ blockLock = [b \in Block |-> NoSession]
  /\ spacePc = [s \in SpaceSession |-> "idle"]
  /\ spaceReq = [s \in SpaceSession |-> {}]

(* A mutant of GetBlock: the block is read without "for update". *)
ReadBlock(s, req) ==
  /\ spacePc[s] = "idle"
  /\ spacePc' = [spacePc EXCEPT ![s] = "check"]
  /\ spaceReq' = [spaceReq EXCEPT ![s] = {req}]
  /\ UNCHANGED <<spaceRows, blockLock>>

(* select ... from wms.space_blocks where id = ... for update *)
GetBlock(s, req) ==
  /\ spacePc[s] = "idle"
  /\ blockLock[req.block] = NoSession
  /\ blockLock' = [blockLock EXCEPT ![req.block] = s]
  /\ spacePc' = [spacePc EXCEPT ![s] = "check"]
  /\ spaceReq' = [spaceReq EXCEPT ![s] = {req}]
  /\ UNCHANGED spaceRows

ReserveSpace(s) ==
  \E req \in Reservation :
    IsValidReservationRange(req) /\ IsWithinMaxDuration(req) /\ GetBlock(s, req)

(* validTo may be left out and is compared with nothing. *)
AllocateSpace(s) == \E req \in Allocation : GetBlock(s, req)

(* wms.check_space_available, and for a reservation the trigger's second look. *)
CheckSpaceAvailable(s) ==
  /\ spacePc[s] = "check"
  /\ \A req \in spaceReq[s] : Sellable(req) >= req.qty
  /\ spacePc' = [spacePc EXCEPT ![s] = "insert"]
  /\ UNCHANGED <<spaceRows, blockLock, spaceReq>>

ReleaseBlock(s) ==
  /\ spacePc' = [spacePc EXCEPT ![s] = "idle"]
  /\ spaceReq' = [spaceReq EXCEPT ![s] = {}]
  /\ blockLock' = [b \in Block |-> IF blockLock[b] = s THEN NoSession ELSE blockLock[b]]

SpaceNotAvailable(s) ==
  /\ spacePc[s] = "check"
  /\ \E req \in spaceReq[s] : Sellable(req) < req.qty
  /\ ReleaseBlock(s)
  /\ UNCHANGED spaceRows

InsertSpaceRow(s) ==
  /\ spacePc[s] = "insert"
  /\ Cardinality(spaceRows) < MaxSpaceRows
  /\ spaceRows' = spaceRows \cup
       {[id |-> Cardinality(spaceRows) + 1, row |-> req] : req \in spaceReq[s]}
  /\ ReleaseBlock(s)

(* The transaction fails after the check, or the process is lost. *)
AbandonSpace(s) ==
  /\ spacePc[s] # "idle"
  /\ ReleaseBlock(s)
  /\ UNCHANGED spaceRows

NextSpace ==
  \E s \in SpaceSession :
    \/ ReserveSpace(s) \/ AllocateSpace(s)
    \/ CheckSpaceAvailable(s) \/ SpaceNotAvailable(s)
    \/ InsertSpaceRow(s) \/ AbandonSpace(s)

SpecSpace == InitSpace /\ [][NextSpace]_spaceVars

-----------------------------------------------------------------------------
SpaceTypeOK ==
  /\ \A e \in spaceRows : e.id \in Nat /\ e.row \in Allocation \cup Reservation
  /\ blockLock \in [Block -> SpaceSession \cup {NoSession}]
  /\ spacePc \in [SpaceSession -> {"idle", "check", "insert"}]
  /\ \A s \in SpaceSession : spaceReq[s] \subseteq Allocation \cup Reservation

(* What is sold of a block on a day. *)
SoldOn(b, d) ==
  SumFunctionOnSet(QtyOf,
    {e \in spaceRows : /\ e.row.block = b
                       /\ e.row.from <= d
                       /\ e.row.to = OpenEnded \/ e.row.to >= d})

(* "No sale of space that does not exist" (the reservation trigger): on no  *)
(* day is more of a block sold than it has.  Violated: an allocation with   *)
(* no end is checked for its first day only.                                *)
SpaceNotOversold == \A b \in Block, d \in Day : SoldOn(b, d) <= BlockCapacity

(* Up to the first day of the first allocation without an end, the block is *)
(* never oversold, however the commands of several sessions interleave.     *)
SoldWithinTerms ==
  \A b \in Block, d \in Day :
    (\A e \in spaceRows : (e.row.block = b /\ e.row.to = OpenEnded) => d <= e.row.from)
      => SoldOn(b, d) <= BlockCapacity
=============================================================================
