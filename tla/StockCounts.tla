---------------------------- MODULE StockCounts ------------------------------
(***************************************************************************)
(* Inventory counts: wms.inventory_counts with its lines, the commands of  *)
(* modules/wms/application/count-inventory, and the stock they correct.    *)
(*                                                                         *)
(* Every command but StartCount holds the count's row lock from its first  *)
(* statement, so a command is one step.  StartCount's snapshot is a single *)
(* unlocked SELECT; AdjustCount adds each line's difference under the      *)
(* balance row's lock, so it is a step between the movements of others.    *)
(* A place is a balance row (location, SKU, batch); a line exists for each *)
(* place of the snapshot and is named by it.  Role and entity checks only  *)
(* refuse a command and are left out.                                      *)
(***************************************************************************)
EXTENDS Integers, FiniteSets

CONSTANTS
  Place,        \* balance rows: (location, SKU, batch)
  Count,        \* counts that may be opened
  CountQty,     \* quantities a counter may type; also the range of a movement
  PlaceLimit,   \* what a location takes before the ledger refuses an inflow
  MaxMovements  \* bound: postings of other commands

ASSUME CountConstants ==
  /\ CountQty \subseteq Nat
  /\ PlaceLimit \in Nat
  /\ MaxMovements \in Nat

NotCounted == -1   \* SQL null in qty_counted and recount_qty

VARIABLES
  stock,        \* qty_on_hand of each place
  counts,       \* wms.inventory_counts: status, version and lines of each count
  quiet,        \* ghost: the places nothing was posted to since the count's snapshot
  seen,         \* what the manager last read of the count: version and lines
  movements     \* postings of other commands so far

countVars == <<stock, counts, quiet, seen, movements>>

CountLineRow == [system : Nat, counted : Nat \cup {NotCounted}, recount : Nat \cup {NotCounted}]

CountStatus == {"none", "in_progress", "review", "recount", "adjusted"}

(* inventoryCountMachine: the status an event leads to. *)
AfterEvent ==
  [START |-> [draft |-> "in_progress"],
   COMPLETE |-> [in_progress |-> "review"],
   COUNT_LINE |-> [in_progress |-> "in_progress"],
   FLAG_RECOUNT |-> [review |-> "recount"],
   RECOUNT_COMPLETE |-> [recount |-> "review"],
   RECOUNT_LINE |-> [review |-> "review", recount |-> "recount"],
   ADJUST |-> [review |-> "adjusted"]]

CanTransition(status, event) == status \in DOMAIN AfterEvent[event]

(* What one event, when it is asked for, makes of a status. *)
Advance(status, event, asked) == IF asked THEN AfterEvent[event][status] ELSE status

HasVariance(line) == line.counted # line.system

LineNeedsRecount(line) ==
  /\ line.counted # NotCounted
  /\ line.recount = NotCounted
  /\ HasVariance(line)

IsCountComplete(lines) == \A p \in DOMAIN lines : lines[p].counted # NotCounted

AllVariancesRecounted(lines) == \A p \in DOMAIN lines : ~ LineNeedsRecount(lines[p])

FinalQty(line) == IF line.recount # NotCounted THEN line.recount ELSE line.counted

(* planAdjustment, signed: an inflow is positive. *)
Difference(line) ==
  IF line.counted = NotCounted THEN 0 ELSE FinalQty(line) - line.system

InitCounts ==
  /\ stock \in [Place -> {q \in CountQty : q <= PlaceLimit}]
  /\ counts = [c \in Count |-> [status |-> "none", version |-> 0, lines |-> <<>>]]
  /\ quiet = [c \in Count |-> {}]
  /\ seen = [c \in Count |-> [version |-> 0, lines |-> <<>>]]
  /\ movements = 0

(* The rows of the snapshot: the places in scope with stock, at what they hold. *)
SnapshotStock(scope) ==
  [p \in {q \in scope : stock[q] # 0} |->
     [system |-> stock[p], counted |-> NotCounted, recount |-> NotCounted]]

(* A full count is about every place; a cycle or spot count names some. *)
Scopes == SUBSET Place \ {{}}

InsertCount(c, status, lines) ==
  /\ counts[c].status = "none"
  /\ counts' = [counts EXCEPT ![c] = [status |-> status, version |-> 1, lines |-> lines]]

StartCount(c) ==
  \E scope \in Scopes :
    LET lines == SnapshotStock(scope) IN
      /\ InsertCount(c, Advance(Advance("draft", "START", TRUE), "COMPLETE", DOMAIN lines = {}), lines)
      /\ quiet' = [quiet EXCEPT ![c] = DOMAIN lines]
      /\ UNCHANGED <<stock, seen, movements>>

UpdateLineQtyCounted(c, p, q) == [counts[c].lines EXCEPT ![p].counted = q]

UpdateLineRecountQty(c, p, q) == [counts[c].lines EXCEPT ![p].recount = q]

(* A mutant of UpdateCount: the version follows the status only. *)
UpdateWithoutVersion(c, status, lines, touched) ==
  counts' = [counts EXCEPT ![c] =
    [status |-> status, lines |-> lines,
     version |-> IF status # @.status THEN @.version + 1 ELSE @.version]]

(* updateCountStatus raises the version; a change of a line alone does not. *)
UpdateCount(c, status, lines, touched) ==
  counts' = [counts EXCEPT ![c] =
    [status |-> status, lines |-> lines,
     version |-> IF touched THEN @.version + 1 ELSE @.version]]

CountLocation(c, p) ==
  /\ CanTransition(counts[c].status, "COUNT_LINE")
  /\ p \in DOMAIN counts[c].lines
  /\ counts[c].lines[p].counted = NotCounted
  /\ \E q \in CountQty :
       LET lines == UpdateLineQtyCounted(c, p, q)
           complete == IsCountComplete(lines)
       IN UpdateCount(c, Advance(counts[c].status, "COMPLETE", complete), lines, complete)
  /\ UNCHANGED <<stock, quiet, seen, movements>>

(* The recount that leaves no line waiting returns the count to review, also *)
(* when it is the one that flagged it.                                       *)
Recount(c, p) ==
  /\ CanTransition(counts[c].status, "RECOUNT_LINE")
  /\ p \in DOMAIN counts[c].lines
  /\ LineNeedsRecount(counts[c].lines[p])
  /\ \E q \in CountQty :
       LET lines == UpdateLineRecountQty(c, p, q)
           flags == CanTransition(counts[c].status, "FLAG_RECOUNT")
           completes == AllVariancesRecounted(lines)
           flagged == Advance(counts[c].status, "FLAG_RECOUNT", flags)
       IN UpdateCount(c, Advance(flagged, "RECOUNT_COMPLETE", completes), lines, flags \/ completes)
  /\ UNCHANGED <<stock, quiet, seen, movements>>

(* The manager reads the count put up for review, to adjust it later. *)
ReadCount(c) ==
  /\ counts[c].status = "review"
  /\ seen' = [seen EXCEPT ![c] = [version |-> counts[c].version, lines |-> counts[c].lines]]
  /\ UNCHANGED <<stock, counts, quiet, movements>>

UpToDateCount(c) == counts[c].version = seen[c].version

(* postMovementInTx refuses an outflow below zero and an inflow over the limit. *)
Postable(p, diff) == diff # 0 => /\ stock[p] + diff >= 0
                                 /\ diff > 0 => stock[p] + diff <= PlaceLimit

(* Other counts' snapshots are stale at the places this step posts to. *)
Disturb(places) == quiet' = [d \in Count |-> quiet[d] \ places]

(* One posting refused rolls every line back. *)
AdjustCount(c) ==
  LET lines == counts[c].lines
      diff == [p \in Place |-> IF p \in DOMAIN lines THEN Difference(lines[p]) ELSE 0]
  IN /\ seen[c].version # 0
     /\ UpToDateCount(c)
     /\ CanTransition(counts[c].status, "ADJUST")
     /\ AllVariancesRecounted(lines)
     /\ \A p \in Place : Postable(p, diff[p])
     /\ stock' = [p \in Place |-> stock[p] + diff[p]]
     /\ UpdateCount(c, "adjusted", lines, TRUE)
     /\ Disturb({p \in Place : diff[p] # 0})
     /\ UNCHANGED <<seen, movements>>

(* A receipt, a pick or a transfer posts to a place, or another command corrects it. *)
Movement(p) ==
  \E q \in CountQty :
    /\ movements < MaxMovements
    /\ q # stock[p]
    /\ Postable(p, q - stock[p])
    /\ stock' = [stock EXCEPT ![p] = q]
    /\ movements' = movements + 1
    /\ Disturb({p})
    /\ UNCHANGED <<counts, seen>>

NextCounts ==
  \/ \E c \in Count : StartCount(c) \/ ReadCount(c) \/ AdjustCount(c)
  \/ \E c \in Count, p \in Place : CountLocation(c, p) \/ Recount(c, p)
  \/ \E p \in Place : Movement(p)

SpecCounts == InitCounts /\ [][NextCounts]_countVars

-----------------------------------------------------------------------------
(* Every row has its columns' types. *)
CountsTypeOK ==
  /\ stock \in [Place -> Nat]
  /\ \A c \in Count :
       /\ counts[c].status \in CountStatus
       /\ counts[c].version \in Nat
       /\ DOMAIN counts[c].lines \subseteq Place
       /\ \A p \in DOMAIN counts[c].lines : counts[c].lines[p] \in CountLineRow
       /\ quiet[c] \subseteq Place

(* The adjustment applied is the one the manager read: the lines have no    *)
(* version of their own and CountLocation and Recount may leave the count's *)
(* version alone, yet no line differs from what expectedVersion stood for.  *)
AdjustedAsRead ==
  \A c \in Count :
    counts[c].status = "adjusted" => counts[c].lines = seen[c].lines

(* An adjusted line that nothing else posted to since the snapshot leaves the *)
(* place holding exactly what was counted last (the stock of a place another  *)
(* command moved in between is corrected by a stale difference instead).      *)
AdjustsQuietLines ==
  \A c \in Count :
    (counts[c].status # "adjusted" /\ counts'[c].status = "adjusted") =>
      \A p \in quiet[c] : stock'[p] = FinalQty(counts[c].lines[p])
=============================================================================
