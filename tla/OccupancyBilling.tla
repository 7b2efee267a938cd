-------------------------- MODULE OccupancyBilling ---------------------------
(***************************************************************************)
(* The daily occupancy snapshot and what it bills: TakeOccupancySnapshot   *)
(* over wms.occupancy_snapshots, and the rows of billing.billable_events   *)
(* that it and insertBillableEvent (record-billable-event) write.          *)
(*                                                                         *)
(* A run reads the occupied pallets, then the contracted ones, in two      *)
(* statements of a READ COMMITTED transaction; the stock and the           *)
(* allocations change in between and while it inserts its rows.  The       *)
(* unique index on (day, client, block) makes a second run wait for a row  *)
(* the first has not committed, and skip it once committed.  The model     *)
(* follows one warehouse and one day; a group is a (client, block) pair.   *)
(***************************************************************************)
EXTENDS Integers, FiniteSets

CONSTANTS
  Run,              \* database sessions that take a snapshot
  Group,            \* (client, space block) pairs
  MaxPallets,       \* pallets a group occupies or has contracted
  OtherSource,      \* rows of the other billable source tables
  MaxRuns,          \* bound: runs started
  MaxChanges        \* bound: changes of stock or allocations

ASSUME OccupancyConstants ==
  /\ MaxPallets \in Nat
  /\ MaxRuns \in Nat
  /\ MaxChanges \in Nat
  /\ Group \cap OtherSource = {}

NoSnapshot == [pallets |-> -1, contracted |-> -1]
Pallets == 0..MaxPallets

VARIABLES
  occupied,         \* pallet locations of a group with stock now
  contracted,       \* pallets of its allocations active on the day
  daySnapshot,      \* committed wms.occupancy_snapshots (contracted is a ghost)
  billed,           \* committed billing.billable_events
  run,              \* what each run read, and what it wrote and has not committed
  runs,             \* runs started
  occupancyChanges  \* changes of stock or allocations so far

occupancyVars == <<occupied, contracted, daySnapshot, billed, run, runs, occupancyChanges>>

NoRun == [pc |-> "idle", occupied |-> <<>>, contracted |-> <<>>, rest |-> {}, rows |-> <<>>]

OverflowQty(pallets, allowance) == IF pallets > allowance THEN pallets - allowance ELSE 0

InitOccupancy ==
  /\ occupied \in [Group -> Pallets]
  /\ contracted \in [Group -> Pallets]
  /\ daySnapshot = [g \in Group |-> NoSnapshot]
  /\ billed = {}
  /\ run = [r \in Run |-> NoRun]
  /\ runs = 0
  /\ occupancyChanges = 0

(* getOccupiedLocationsByClient: only groups with stock have rows, also those *)
(* (others) whose stock lies in no pallet location.                           *)
GetOccupied(r) ==
  /\ run[r].pc = "idle"
  /\ runs < MaxRuns
  /\ runs' = runs + 1
  /\ \E others \in SUBSET {g \in Group : occupied[g] = 0} :
       run' = [run EXCEPT ![r] = [NoRun EXCEPT !.pc = "contracted", !.occupied = occupied,
                                  !.rest = {g \in Group : occupied[g] > 0} \cup others]]
  /\ UNCHANGED <<occupied, contracted, daySnapshot, billed, occupancyChanges>>

GetContracted(r) ==
  /\ run[r].pc = "contracted"
  /\ run' = [run EXCEPT ![r].pc = "upsert", ![r].contracted = contracted]
  /\ UNCHANGED <<occupied, contracted, daySnapshot, billed, runs, occupancyChanges>>

(* The rows of a group come in no order; the insert waits for a row of the  *)
(* same key that another run has not committed.                             *)
MayUpsert(r, g) ==
  /\ run[r].pc = "upsert"
  /\ g \in run[r].rest
  /\ \A other \in Run \ {r} : g \notin DOMAIN run[other].rows

(* The insert wins: the run bills the group when it commits. *)
CreateSnapshot(r, g) ==
  /\ MayUpsert(r, g)
  /\ daySnapshot[g] = NoSnapshot
  /\ run' = [run EXCEPT ![r].rest = @ \ {g},
       ![r].rows = [h \in DOMAIN @ \cup {g} |->
          IF h = g THEN [pallets |-> run[r].occupied[g], contracted |-> run[r].contracted[g]]
                   ELSE @[h]]]
  /\ UNCHANGED <<occupied, contracted, daySnapshot, billed, runs, occupancyChanges>>

(* A mutant of KeepSnapshot: a row that stands is billed again, as the run sees it. *)
BillAgain(r, g) ==
  /\ MayUpsert(r, g)
  /\ daySnapshot[g] # NoSnapshot
  /\ run' = [run EXCEPT ![r].rest = @ \ {g},
       ![r].rows = [h \in DOMAIN @ \cup {g} |->
          IF h = g THEN [daySnapshot[g] EXCEPT !.contracted = run[r].contracted[g]] ELSE @[h]]]
  /\ UNCHANGED <<occupied, contracted, daySnapshot, billed, runs, occupancyChanges>>

(* ON CONFLICT DO NOTHING: the first snapshot stands and is not billed again. *)
KeepSnapshot(r, g) ==
  /\ MayUpsert(r, g)
  /\ daySnapshot[g] # NoSnapshot
  /\ run' = [run EXCEPT ![r].rest = @ \ {g}]
  /\ UNCHANGED <<occupied, contracted, daySnapshot, billed, runs, occupancyChanges>>

BillableEvent(source, service, qty) == [source |-> source, service |-> service, qty |-> qty]

(* ST-01 bills the pallets, ST-12 what exceeds the contract. *)
BillingOf(g, row) ==
  LET overflow == OverflowQty(row.pallets, row.contracted) IN
    {BillableEvent(g, "ST-01", row.pallets)} \cup
    (IF overflow > 0 THEN {BillableEvent(g, "ST-12", overflow)} ELSE {})

Triple(event) == <<event.source, event.service>>

(* on conflict (source_table, source_id, service_id) do nothing *)
InsertEvents(events) == billed \cup {e \in events : \A f \in billed : Triple(f) # Triple(e)}

CommitSnapshot(r) ==
  /\ run[r].pc = "upsert"
  /\ run[r].rest = {}
  /\ daySnapshot' = [g \in Group |-> IF g \in DOMAIN run[r].rows /\ daySnapshot[g] = NoSnapshot
                                   THEN run[r].rows[g] ELSE daySnapshot[g]]
  /\ billed' = InsertEvents(UNION {BillingOf(g, run[r].rows[g]) : g \in DOMAIN run[r].rows})
  /\ run' = [run EXCEPT ![r] = NoRun]
  /\ UNCHANGED <<occupied, contracted, runs, occupancyChanges>>

(* A statement fails, two runs deadlock on each other's rows, or a process is lost. *)
AbortSnapshot(r) ==
  /\ run[r].pc # "idle"
  /\ run' = [run EXCEPT ![r] = NoRun]
  /\ UNCHANGED <<occupied, contracted, daySnapshot, billed, runs, occupancyChanges>>

(* insertBillableEvent for another source row: a triple that is billed is   *)
(* refused, by the look before the insert or by the unique index.           *)
InsertBillableEvent(source) ==
  \E service \in {"ST-01", "ST-12"}, qty \in Pallets \ {0} :
    LET event == BillableEvent(source, service, qty) IN
      /\ \A e \in billed : Triple(e) # Triple(event)
      /\ billed' = billed \cup {event}
      /\ UNCHANGED <<occupied, contracted, daySnapshot, run, runs, occupancyChanges>>

(* Goods move, or an allocation is made or ends. *)
ChangeSpace(g) ==
  /\ occupancyChanges < MaxChanges
  /\ \/ occupied' = [occupied EXCEPT ![g] = IF @ > 0 THEN @ - 1 ELSE MaxPallets] /\ UNCHANGED contracted
     \/ contracted' = [contracted EXCEPT ![g] = IF @ > 0 THEN @ - 1 ELSE MaxPallets] /\ UNCHANGED occupied
  /\ occupancyChanges' = occupancyChanges + 1
  /\ UNCHANGED <<daySnapshot, billed, run, runs>>

NextOccupancy ==
  \/ \E r \in Run : GetOccupied(r) \/ GetContracted(r) \/ CommitSnapshot(r) \/ AbortSnapshot(r)
  \/ \E r \in Run, g \in Group : CreateSnapshot(r, g) \/ KeepSnapshot(r, g)
  \/ \E source \in OtherSource : InsertBillableEvent(source)
  \/ \E g \in Group : ChangeSpace(g)

SpecOccupancy == InitOccupancy /\ [][NextOccupancy]_occupancyVars

-----------------------------------------------------------------------------
OccupancyTypeOK ==
  /\ occupied \in [Group -> Pallets] /\ contracted \in [Group -> Pallets]
  /\ \A g \in Group : daySnapshot[g] = NoSnapshot \/ daySnapshot[g] \in [pallets : Pallets, contracted : Pallets]
  /\ \A e \in billed : e.source \in Group \cup OtherSource /\ e.qty \in Pallets
  /\ \A r \in Run : run[r].rest \subseteq Group /\ DOMAIN run[r].rows \subseteq Group

(* A snapshot is billed once, for the pallets and the overflow of the run    *)
(* that took it: neither runs of the same day beside it or after it, nor a   *)
(* contract that changes later, add to what the day costs the client.        *)
SnapshotBilledAsTaken ==
  \A g \in Group :
    {e \in billed : e.source = g} =
      IF daySnapshot[g] = NoSnapshot THEN {} ELSE BillingOf(g, daySnapshot[g])
=============================================================================
