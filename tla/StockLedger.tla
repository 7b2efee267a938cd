----------------------------- MODULE StockLedger -----------------------------
(***************************************************************************)
(* The stock ledger of modules/wms/src/stock-ledger: the append-only table *)
(* wms.stock_movements, the derived table wms.stock_balance, and the       *)
(* database transactions that write both at the same time.                 *)
(*                                                                         *)
(* Every SQL statement that takes a lock, reads what another transaction   *)
(* may change, or publishes something is a step of its own, under READ     *)
(* COMMITTED: a statement sees what is committed when it runs plus the     *)
(* transaction's own writes.  What a transaction wrote stays private       *)
(* (moves, delta) until Commit; advisory and row locks are kept to the     *)
(* end of the transaction.  A balance row that does not exist is a row     *)
(* with quantity 0 and no expiry: the UPDATE branch and the INSERT branch  *)
(* of applyLockedBalanceDelta differ in nothing else.                      *)
(***************************************************************************)
EXTENDS Integers, FiniteSets, Functions

CONSTANTS
  Txn,          \* database sessions, each running one transaction at a time
  Sku,          \* wms.skus (a SKU belongs to one client, so it stands for the pair)
  Location,     \* wms.locations
  Batch,        \* batch numbers ('' included)
  Expiry,       \* expiry dates
  NoExpiry,     \* SQL null in an expiry column
  NoLocation,   \* SQL null in from_location_id / to_location_id
  Qty,          \* quantities a caller may post
  Weight,       \* [Sku -> Nat]  gross_weight_kg
  Capacity,     \* [Location -> Nat \cup {NoLimit}]  max_weight_kg of pallet/shelf locations
  NoLimit,      \* an operational location, or max_weight_kg is null
  Open,         \* the locations with is_blocked = false
  KeyRank,      \* [Key -> Nat]  place of a balance key in the sorted order of lock keys
  Commands,     \* bound: the commands the sessions issue
  MaxRounds,    \* bound: transactions a session commits
  MaxLines      \* bound: lines AdjustCount posts in one transaction

Key == Sku \X Location \X Batch

(* The columns of a key have finite domains. *)
ASSUME StockConstants ==
  /\ IsFiniteSet(Key)
  /\ NoExpiry \notin Expiry
  /\ NoLocation \notin Location
  /\ NoLimit \notin Nat
  /\ Qty \subseteq Nat \ {0}
  /\ Weight \in [Sku -> Nat]
  /\ Capacity \in [Location -> Nat \cup {NoLimit}]
  /\ Open \subseteq Location
  /\ KeyRank \in [Key -> Nat]
  /\ \A j, k \in Key : KeyRank[j] = KeyRank[k] => j = k
  /\ Commands \subseteq {"post", "transfer", "reverse", "adjust", "rebuild"}
  /\ MaxRounds \in Nat
  /\ MaxLines \in Nat

VARIABLES
  ledger,   \* committed wms.stock_movements
  onHand,   \* committed wms.stock_balance.qty_on_hand, by balance key
  expiry,   \* committed wms.stock_balance.expiry_date, by balance key
  pc,       \* the statement each transaction runs next
  job,      \* the posting (or the rebuild) a transaction is working on
  rest,     \* AdjustCount: the lines it has not posted yet
  moves,    \* ledger rows a transaction inserted and has not committed
  delta,    \* what it added to each balance row and has not committed
  seen,     \* the ledger as a rebuild's fold statement read it
  holds,    \* locks each transaction holds exclusively
  shares,   \* locks it holds in shared mode
  round     \* transactions a session has committed

stock == <<ledger, onHand, expiry>>
locks == <<holds, shares>>
draft == <<moves, delta>>
vars  == <<ledger, onHand, expiry, pc, job, rest, moves, delta, seen, holds, shares, round>>

OptExpiry   == Expiry \cup {NoExpiry}
OptLocation == Location \cup {NoLocation}

(* A ledger entry has exactly one of from/to; the two rows of a transfer   *)
(* are kept together as one record with both.                              *)
Entry == [kind : {"post", "transfer", "reverse", "adjust"}, sku : Sku, batch : Batch,
          from : OptLocation, to : OptLocation, qty : Nat \ {0}, exp : OptExpiry]
Posting == {p \in Entry : IF p.kind = "transfer" THEN p.from # NoLocation /\ p.to # NoLocation
                          ELSE (p.from = NoLocation) # (p.to = NoLocation)}
Rebuild == [kind : {"rebuild"}, sku : Sku]
NoJob   == [kind |-> "none"]

Movement == [by : Txn, round : Nat, key : Key, qty : Int \ {0}, exp : OptExpiry]

FromKey(p) == <<p.sku, p.from, p.batch>>
ToKey(p)   == <<p.sku, p.to, p.batch>>
KeysOf(p)  == (IF p.from # NoLocation THEN {FromKey(p)} ELSE {}) \cup
              (IF p.to # NoLocation THEN {ToKey(p)} ELSE {})

(* wms.verify_balance_integrity's fold: the signed sum of the rows of one key. *)
Fold(rows, k) == SumFunctionOnSet([m \in rows |-> m.qty], {m \in rows : m.key = k})

(* sum(qty_on_hand * gross_weight_kg) over the balance rows of a location. *)
Load(balance, l) ==
  SumFunctionOnSet([k \in Key |-> balance[k] * Weight[k[1]]], {k \in Key : k[2] = l})

(* The balance a statement of transaction t reads. *)
View(t) == [k \in Key |-> onHand[k] + delta[t][k]]

-----------------------------------------------------------------------------
(* Locks: pg_advisory_xact_lock, and the row lock of the balance UPDATE.   *)

RebuildLock(s)  == <<"rebuild", s>>
LocationLock(l) == <<"location", l>>
BatchLock(s, b) == <<"batch", s, b>>
RowLock(k)      == <<"row", k>>
AuditLock       == <<"audit">>

Lock == {RebuildLock(s) : s \in Sku} \cup {LocationLock(l) : l \in Location}
        \cup {BatchLock(s, b) : s \in Sku, b \in Batch}
        \cup {RowLock(k) : k \in Key} \cup {AuditLock}

HeldByOther(t, r)   == \E u \in Txn \ {t} : r \in holds[u]
SharedByOther(t, r) == \E u \in Txn \ {t} : r \in shares[u]

Grab(t, r) ==
  /\ ~HeldByOther(t, r) /\ ~SharedByOther(t, r)
  /\ holds' = [holds EXCEPT ![t] = @ \cup {r}]
  /\ UNCHANGED shares

Share(t, r) ==
  /\ ~HeldByOther(t, r)
  /\ shares' = [shares EXCEPT ![t] = @ \cup {r}]
  /\ UNCHANGED holds

Goto(t, label) == pc' = [pc EXCEPT ![t] = label]

-----------------------------------------------------------------------------
(* A command opens its transaction.  Nothing is read or locked yet, except *)
(* that reverseMovement selects the (immutable) row it reverses.           *)

Idle(t) == pc[t] = "idle" /\ round[t] < MaxRounds

Begin(t, label, j, lines) ==
  /\ pc' = [pc EXCEPT ![t] = label]
  /\ job' = [job EXCEPT ![t] = j]
  /\ rest' = [rest EXCEPT ![t] = lines]

BeginPost(t) ==
  /\ Idle(t) /\ "post" \in Commands
  /\ \E s \in Sku, b \in Batch, l \in Location, q \in Qty, inflow \in BOOLEAN, e \in OptExpiry :
       Begin(t, "rebuild",
             [kind |-> "post", sku |-> s, batch |-> b,
              from |-> IF inflow THEN NoLocation ELSE l, to |-> IF inflow THEN l ELSE NoLocation,
              qty |-> q, exp |-> IF inflow THEN e ELSE NoExpiry], {})
  /\ UNCHANGED <<stock, draft, seen, locks, round>>

BeginTransfer(t) ==
  /\ Idle(t) /\ "transfer" \in Commands
  /\ \E s \in Sku, b \in Batch, from, to \in Location, q \in Qty :
       Begin(t, "rebuild",
             [kind |-> "transfer", sku |-> s, batch |-> b, from |-> from, to |-> to,
              qty |-> q, exp |-> NoExpiry], {})
  /\ UNCHANGED <<stock, draft, seen, locks, round>>

(* planReversal: the same row with its sides swapped. *)
Reversal(m) ==
  [kind |-> "reverse", sku |-> m.key[1], batch |-> m.key[3],
   from |-> IF m.qty > 0 THEN m.key[2] ELSE NoLocation,
   to |-> IF m.qty > 0 THEN NoLocation ELSE m.key[2],
   qty |-> IF m.qty > 0 THEN m.qty ELSE -m.qty, exp |-> m.exp]

BeginReverse(t) ==
  /\ Idle(t) /\ "reverse" \in Commands
  /\ \E m \in ledger : Begin(t, "rebuild", Reversal(m), {})
  /\ UNCHANGED <<stock, draft, seen, locks, round>>

(* AdjustCount posts one movement per count line that differs, all in one  *)
(* transaction; a line is a distinct key that has moved before (its uom is *)
(* looked up in the ledger), and the lines come back in no defined order.  *)
Adjustment(k, q, up) ==
  [kind |-> "adjust", sku |-> k[1], batch |-> k[3],
   from |-> IF up THEN NoLocation ELSE k[2], to |-> IF up THEN k[2] ELSE NoLocation,
   qty |-> q, exp |-> NoExpiry]

HasMoved(rows, k) == \E m \in rows : m.key = k

BeginAdjust(t) ==
  /\ Idle(t) /\ "adjust" \in Commands
  /\ \E K \in SUBSET {k \in Key : HasMoved(ledger, k)} :
       /\ K # {} /\ Cardinality(K) <= MaxLines
       /\ \E q \in [K -> Qty], up \in [K -> BOOLEAN], k \in K :
            Begin(t, "rebuild", Adjustment(k, q[k], up[k]),
                  {Adjustment(j, q[j], up[j]) : j \in K \ {k}})
  /\ UNCHANGED <<stock, draft, seen, locks, round>>

BeginRebuild(t) ==
  /\ Idle(t) /\ "rebuild" \in Commands
  /\ \E s \in Sku : Begin(t, "exclusive", [kind |-> "rebuild", sku |-> s], {})
  /\ UNCHANGED <<stock, draft, seen, locks, round>>

-----------------------------------------------------------------------------
(* One posting, statement by statement.                                    *)

(* Mutant: a posting that carries an expiry skips the batch lock and check. *)
AfterLimitsOfTransfers(p) == IF p.kind = "transfer" THEN "batch" ELSE "row"

AfterLimits(p) == IF p.kind = "transfer" \/ p.exp # NoExpiry THEN "batch" ELSE "row"

(* Mutant: a posting takes no rebuild key. *)
PostWithoutRebuildKey(t) ==
  /\ pc[t] = "rebuild"
  /\ Goto(t, IF job[t].to # NoLocation THEN "location" ELSE AfterLimits(job[t]))
  /\ UNCHANGED <<stock, job, rest, draft, seen, locks, round>>

LockRebuildKeyShared(t) ==
  /\ pc[t] = "rebuild"
  /\ Share(t, RebuildLock(job[t].sku))
  /\ Goto(t, IF job[t].to # NoLocation THEN "location" ELSE AfterLimits(job[t]))
  /\ UNCHANGED <<stock, job, rest, draft, seen, round>>

(* Mutant: the limits are checked without the location lock. *)
CheckWithoutLocationLock(t) ==
  /\ pc[t] = "location"
  /\ Goto(t, "limits")
  /\ UNCHANGED <<stock, job, rest, draft, seen, locks, round>>

LockLocation(t) ==
  /\ pc[t] = "location"
  /\ Grab(t, LocationLock(job[t].to))
  /\ Goto(t, "limits")
  /\ UNCHANGED <<stock, job, rest, draft, seen, round>>

(* Mutant: the limit is compared with the load before the put-away. *)
WithinLimitsBefore(t) ==
  LET p == job[t] IN
    /\ p.to \in Open
    /\ Capacity[p.to] # NoLimit => Load(View(t), p.to) <= Capacity[p.to]

(* evaluateLocationLimits on the load as of this statement. *)
WithinLimits(t) ==
  LET p == job[t] IN
    /\ p.to \in Open
    /\ Capacity[p.to] # NoLimit =>
         Load(View(t), p.to) + p.qty * Weight[p.sku] <= Capacity[p.to]

CheckLimits(t) ==
  /\ pc[t] = "limits"
  /\ WithinLimits(t)
  /\ Goto(t, AfterLimits(job[t]))
  /\ UNCHANGED <<stock, job, rest, draft, seen, locks, round>>

(* Mutant: the batch lock is a shared one. *)
ShareBatchExpiry(t) ==
  /\ pc[t] = "batch"
  /\ Share(t, BatchLock(job[t].sku, job[t].batch))
  /\ Goto(t, "expiry")
  /\ UNCHANGED <<stock, job, rest, draft, seen, round>>

LockBatchExpiry(t) ==
  /\ pc[t] = "batch"
  /\ Grab(t, BatchLock(job[t].sku, job[t].batch))
  /\ Goto(t, "expiry")
  /\ UNCHANGED <<stock, job, rest, draft, seen, round>>

(* A transfer carries the expiry of its source row, a posting its own; the *)
(* reversal writes the original's expiry and checks nothing.               *)
CarriedExpiry(t) ==
  IF job[t].kind = "transfer" THEN expiry[FromKey(job[t])] ELSE job[t].exp

Carrying(p, e) == [kind |-> p.kind, sku |-> p.sku, batch |-> p.batch,
                   from |-> p.from, to |-> p.to, qty |-> p.qty, exp |-> e]

SameBatch(k, p) == k[1] = p.sku /\ k[3] = p.batch

BatchExpiryConsistent(t) ==
  (job[t].kind # "reverse" /\ CarriedExpiry(t) # NoExpiry) =>
    \A k \in Key : SameBatch(k, job[t]) => expiry[k] \in {NoExpiry, CarriedExpiry(t)}

AssertBatchExpiry(t) ==
  /\ pc[t] = "expiry"
  /\ BatchExpiryConsistent(t)
  /\ job' = [job EXCEPT ![t] = Carrying(job[t], CarriedExpiry(t))]
  /\ Goto(t, "row")
  /\ UNCHANGED <<stock, rest, draft, seen, locks, round>>

(* The balance keys still to lock, and the sorted order over them. *)
Unlocked(t) == {k \in KeysOf(job[t]) : RowLock(k) \notin holds[t]}

NextRow(t, k) == k \in Unlocked(t) /\ \A j \in Unlocked(t) : KeyRank[k] <= KeyRank[j]

LockBalanceRow(t) ==
  /\ pc[t] = "row"
  /\ \E k \in Key :
       /\ NextRow(t, k)
       /\ Grab(t, RowLock(k))
       /\ Goto(t, IF Unlocked(t) = {k} THEN "apply" ELSE "row")
  /\ UNCHANGED <<stock, job, rest, draft, seen, round>>

(* Outgoing leg first, then the incoming one; the CHECK no_negative_stock  *)
(* refuses the UPDATE that would leave a negative quantity.                *)
SignedQty(p, k) == (IF p.to # NoLocation /\ k = ToKey(p) THEN p.qty ELSE 0)
                   - (IF p.from # NoLocation /\ k = FromKey(p) THEN p.qty ELSE 0)

(* Mutant: the check looks at the quantity before the movement. *)
WasNonNegative(t) == job[t].from # NoLocation => View(t)[FromKey(job[t])] >= 0

StaysNonNegative(t) ==
  job[t].from # NoLocation => View(t)[FromKey(job[t])] >= job[t].qty

Row(t, k, q) == [by |-> t, round |-> round[t], key |-> k, qty |-> q, exp |-> job[t].exp]

RowsOf(t) ==
  LET p == job[t] IN
    (IF p.from # NoLocation THEN {Row(t, FromKey(p), -p.qty)} ELSE {}) \cup
    (IF p.to # NoLocation THEN {Row(t, ToKey(p), p.qty)} ELSE {})

ApplyDelta(t) ==
  /\ pc[t] = "apply"
  /\ StaysNonNegative(t)
  /\ moves' = [moves EXCEPT ![t] = @ \cup RowsOf(t)]
  /\ delta' = [delta EXCEPT ![t] = [k \in Key |-> @[k] + SignedQty(job[t], k)]]
  /\ Goto(t, "audit")
  /\ UNCHANGED <<stock, job, rest, seen, locks, round>>

(* The audit rows; AdjustCount then goes on to its next line.              *)
WriteAuditRow(t) ==
  /\ pc[t] = "audit"
  /\ Grab(t, AuditLock)
  /\ \/ /\ rest[t] = {}
        /\ Goto(t, "commit")
        /\ UNCHANGED <<job, rest>>
     \/ \E p \in rest[t] :
          /\ Goto(t, "rebuild")
          /\ job' = [job EXCEPT ![t] = p]
          /\ rest' = [rest EXCEPT ![t] = @ \ {p}]
  /\ UNCHANGED <<stock, draft, seen, round>>

-----------------------------------------------------------------------------
(* rebuildBalance: its scope check writes nothing and is left out.         *)

(* Mutant: a rebuild shares its key first and upgrades the lock. *)
UpgradeRebuildKey(t) ==
  /\ pc[t] = "exclusive"
  /\ IF RebuildLock(job[t].sku) \in shares[t]
       THEN Grab(t, RebuildLock(job[t].sku)) /\ Goto(t, "fold")
       ELSE Share(t, RebuildLock(job[t].sku)) /\ UNCHANGED pc
  /\ UNCHANGED <<stock, job, rest, draft, seen, round>>

(* Mutant: a rebuild folds without its key. *)
RebuildWithoutKey(t) ==
  /\ pc[t] = "exclusive"
  /\ Goto(t, "fold")
  /\ UNCHANGED <<stock, job, rest, draft, seen, locks, round>>

LockRebuildKeyExclusive(t) ==
  /\ pc[t] = "exclusive"
  /\ Grab(t, RebuildLock(job[t].sku))
  /\ Goto(t, "fold")
  /\ UNCHANGED <<stock, job, rest, draft, seen, round>>

FoldLedger(t) ==
  /\ pc[t] = "fold"
  /\ seen' = [seen EXCEPT ![t] = ledger]
  /\ Goto(t, "overwrite")
  /\ UNCHANGED <<stock, job, rest, draft, locks, round>>

-----------------------------------------------------------------------------
(* The end of a transaction.                                               *)

(* Mutant: the shared locks belong to the session, not to the transaction. *)
ReleaseKeepingShares(t) ==
  /\ pc' = [pc EXCEPT ![t] = "idle"]
  /\ job' = [job EXCEPT ![t] = NoJob]
  /\ rest' = [rest EXCEPT ![t] = {}]
  /\ moves' = [moves EXCEPT ![t] = {}]
  /\ delta' = [delta EXCEPT ![t] = [k \in Key |-> 0]]
  /\ seen' = [seen EXCEPT ![t] = {}]
  /\ holds' = [holds EXCEPT ![t] = {}]
  /\ UNCHANGED shares

Release(t) ==
  /\ pc' = [pc EXCEPT ![t] = "idle"]
  /\ job' = [job EXCEPT ![t] = NoJob]
  /\ rest' = [rest EXCEPT ![t] = {}]
  /\ moves' = [moves EXCEPT ![t] = {}]
  /\ delta' = [delta EXCEPT ![t] = [k \in Key |-> 0]]
  /\ seen' = [seen EXCEPT ![t] = {}]
  /\ holds' = [holds EXCEPT ![t] = {}]
  /\ shares' = [shares EXCEPT ![t] = {}]

(* coalesce(expiry_date, the posting's expiry) on the rows it touched. *)
Stamped(p) == [k \in Key |-> IF k \in KeysOf(p) /\ expiry[k] = NoExpiry THEN p.exp ELSE expiry[k]]

Commit(t) ==
  /\ pc[t] = "commit"
  /\ ledger' = ledger \cup moves[t]
  /\ onHand' = View(t)
  /\ expiry' = Stamped(job[t])
  /\ round' = [round EXCEPT ![t] = @ + 1]
  /\ Release(t)

(* Mutant: a rebuild deletes every row of the SKU and inserts them anew. *)
DeletedAndInserted(t) == {k \in Key : k[1] = job[t].sku}

(* Rows without any movement are deleted, the others are overwritten with  *)
(* what the fold statement read; an existing row keeps its expiry.         *)
Overwritten(t) == {k \in Key : k[1] = job[t].sku /\ HasMoved(seen[t], k)}
Deleted(t)     == {k \in Key : k[1] = job[t].sku /\ ~HasMoved(ledger, k)}

OverwriteBalance(t) ==
  /\ pc[t] = "overwrite"
  /\ \A k \in Overwritten(t) : Fold(seen[t], k) \in Nat
  /\ onHand' = [k \in Key |-> IF k \in Overwritten(t) THEN Fold(seen[t], k)
                              ELSE IF k \in Deleted(t) THEN 0 ELSE onHand[k]]
  /\ expiry' = [k \in Key |-> IF k \in Deleted(t) THEN NoExpiry ELSE expiry[k]]
  /\ round' = [round EXCEPT ![t] = @ + 1]
  /\ Release(t)
  /\ UNCHANGED ledger

Rollback(t) == Release(t) /\ UNCHANGED <<ledger, onHand, expiry, round>>

(* LocationBlocked/LocationLimitExceeded, InvalidLedgerEntry (D-204), NegativeStock. *)
Refuse(t) ==
  /\ \/ pc[t] = "limits" /\ ~WithinLimits(t)
     \/ pc[t] = "expiry" /\ ~BatchExpiryConsistent(t)
     \/ pc[t] = "apply" /\ ~StaysNonNegative(t)
  /\ Rollback(t)

(* The connection or the process dies at any statement. *)
Crash(t) == pc[t] # "idle" /\ Rollback(t)

-----------------------------------------------------------------------------
(* Waiting.  A transaction waits for the holders of the lock its next      *)
(* statement requests.                                                     *)

Wants(t) ==
  CASE pc[t] \in {"rebuild", "exclusive"} -> {RebuildLock(job[t].sku)}
    [] pc[t] = "location" -> {LocationLock(job[t].to)}
    [] pc[t] = "batch"    -> {BatchLock(job[t].sku, job[t].batch)}
    [] pc[t] = "row"      -> {RowLock(k) : k \in {j \in Key : NextRow(t, j)}}
    [] pc[t] = "audit"    -> {AuditLock}
    [] OTHER              -> {}

WaitsFor(t, u) ==
  /\ t # u
  /\ \E r \in Wants(t) : r \in holds[u] \/ (pc[t] # "rebuild" /\ r \in shares[u])

(* A set in which everyone waits for someone of the set. *)
CircularWait(S) == S # {} /\ \A t \in S : \E u \in S : WaitsFor(t, u)

(* PostgreSQL's deadlock detector cancels one statement of the cycle. *)
DeadlockVictim(t) ==
  /\ \E S \in SUBSET Txn : t \in S /\ CircularWait(S)
  /\ Rollback(t)

-----------------------------------------------------------------------------
Init ==
  /\ ledger = {}
  /\ onHand = [k \in Key |-> 0]
  /\ expiry = [k \in Key |-> NoExpiry]
  /\ pc = [t \in Txn |-> "idle"]
  /\ job = [t \in Txn |-> NoJob]
  /\ rest = [t \in Txn |-> {}]
  /\ moves = [t \in Txn |-> {}]
  /\ delta = [t \in Txn |-> [k \in Key |-> 0]]
  /\ seen = [t \in Txn |-> {}]
  /\ holds = [t \in Txn |-> {}]
  /\ shares = [t \in Txn |-> {}]
  /\ round = [t \in Txn |-> 0]

(* What a running transaction does next, whoever else is running. *)
Step(t) ==
  \/ LockRebuildKeyShared(t) \/ LockLocation(t) \/ CheckLimits(t)
  \/ LockBatchExpiry(t) \/ AssertBatchExpiry(t) \/ LockBalanceRow(t)
  \/ ApplyDelta(t) \/ WriteAuditRow(t) \/ Commit(t)
  \/ LockRebuildKeyExclusive(t) \/ FoldLedger(t) \/ OverwriteBalance(t)
  \/ Refuse(t) \/ DeadlockVictim(t)

Start(t) == BeginPost(t) \/ BeginTransfer(t) \/ BeginReverse(t) \/ BeginAdjust(t) \/ BeginRebuild(t)

Next == \E t \in Txn : Start(t) \/ Step(t) \/ Crash(t)

Spec == Init /\ [][Next]_vars

(* A transaction whose next statement can run is run; a lock request that  *)
(* is granted again and again is served (PostgreSQL queues them).          *)
FairSpec == Spec /\ \A t \in Txn : SF_vars(Step(t))

-----------------------------------------------------------------------------
(* Properties.                                                             *)

PostingPC == {"rebuild", "location", "limits", "batch", "expiry", "row", "apply", "audit", "commit"}
RebuildPC == {"exclusive", "fold", "overwrite"}

(* A statement of a posting works on a posting, one of a rebuild on a rebuild. *)
JobFitsStatement ==
  \A t \in Txn : /\ pc[t] \in PostingPC => job[t] \in Posting
                 /\ pc[t] \in RebuildPC => job[t] \in Rebuild
                 /\ pc[t] \in {"location", "limits"} => job[t].to # NoLocation

TypeOK ==
  /\ ledger \subseteq Movement
  /\ onHand \in [Key -> Int]
  /\ expiry \in [Key -> OptExpiry]
  /\ pc \in [Txn -> PostingPC \cup RebuildPC \cup {"idle"}]
  /\ job \in [Txn -> Posting \cup Rebuild \cup {NoJob}]
  /\ rest \in [Txn -> SUBSET Posting]
  /\ moves \in [Txn -> SUBSET Movement]
  /\ delta \in [Txn -> [Key -> Int]]
  /\ seen \in [Txn -> SUBSET Movement]
  /\ holds \in [Txn -> SUBSET Lock]
  /\ shares \in [Txn -> SUBSET Lock]
  /\ round \in [Txn -> Nat]
  /\ JobFitsStatement

(* G1 / doc 40 P4: whatever postings, reversals, adjustments and rebuilds  *)
(* overlap, the committed balance of every key is the signed sum of its    *)
(* committed ledger rows.                                                  *)
BalanceIsFold == \A k \in Key : onHand[k] = Fold(ledger, k)

(* D-204: one expiry per (client, SKU, batch) across all locations, also   *)
(* when two transactions write different locations of a batch at once, and *)
(* after a reversal brought a row back.                                    *)
OneExpiryPerBatch ==
  \A j, k \in Key : (j[1] = k[1] /\ j[3] = k[3] /\ expiry[j] # NoExpiry /\ expiry[k] # NoExpiry)
                      => expiry[j] = expiry[k]

(* A ledger row that carries an expiry agrees with the balance row of its  *)
(* key: no later command may have dropped or replaced that expiry.         *)
LedgerExpiryOnBalance ==
  \A m \in ledger : m.exp # NoExpiry => expiry[m.key] = m.exp

(* Both: a batch has one expiry, on every balance and in the ledger.       *)
BatchExpiryAgrees == OneExpiryPerBatch /\ LedgerExpiryOnBalance

(* The quantity no transaction may drive below zero, counting what the     *)
(* transaction that holds the row has drafted and not yet committed.       *)
NoNegativeStock ==
  \A k \in Key : onHand[k] >= 0 /\ \A t \in Txn : onHand[k] + delta[t][k] >= 0

(* D2/D4: two put-aways that together exceed a location's limit are        *)
(* serialised, so no location ever holds more than its limit.              *)
LocationWithinCapacity ==
  \A l \in Location : Capacity[l] # NoLimit => Load(onHand, l) <= Capacity[l]

(* Both bounds of a quantity, under any overlap of withdrawals, put-aways  *)
(* and reversals.                                                          *)
QuantitiesInBounds == NoNegativeStock /\ LocationWithinCapacity

(* decision 8: a rebuild that commits changes neither a quantity nor an    *)
(* expiry, whatever was posted while it waited and ran.                    *)
RebuildChangesNothing ==
  [][\A t \in Txn : (pc[t] = "overwrite" /\ round'[t] # round[t]) => UNCHANGED stock]_vars

(* Two transactions never hold the same lock, unless both share it.        *)
LockExclusion ==
  \A t, u \in Txn : t # u => holds[t] \cap (holds[u] \cup shares[u]) = {}

(* post-movement.ts:198-202: the fixed order of lock acquisition makes a   *)
(* circular wait impossible.                                               *)
NoCircularWait == \A S \in SUBSET Txn : ~CircularWait(S)

(* It does for postings of one line, transfers, reversals and rebuilds:    *)
(* whoever waits in a circle, one of them counts several lines.            *)
CirclesNeedSeveralLines ==
  \A S \in SUBSET Txn : CircularWait(S) =>
    \E t \in S : pc[t] \in PostingPC /\ job[t].kind = "adjust" /\ rest[t] \cup moves[t] # {}

(* The inductive invariant of StockLedgerProofs: what a transaction owns   *)
(* and knows at each statement.                                            *)
HoldsItsLocks ==
  \A t \in Txn :
    /\ pc[t] \in PostingPC \ {"rebuild"} => RebuildLock(job[t].sku) \in shares[t]
    /\ pc[t] \in {"fold", "overwrite"} => RebuildLock(job[t].sku) \in holds[t]
    /\ pc[t] = "expiry" => BatchLock(job[t].sku, job[t].batch) \in holds[t]
    /\ pc[t] = "apply" => \A k \in KeysOf(job[t]) : RowLock(k) \in holds[t]

(* An uncommitted quantity is covered by its row lock and rebuild lock. *)
DraftIsLocked ==
  \A t \in Txn, k \in Key :
    delta[t][k] # 0 => RowLock(k) \in holds[t] /\ RebuildLock(k[1]) \in shares[t]

(* A transaction about to write an expiry owns the batch, and no row of    *)
(* the batch has another one.                                              *)
ExpiryIsAgreed ==
  \A t \in Txn :
    (pc[t] \in {"row", "apply", "audit", "commit"} /\ job[t].exp # NoExpiry) =>
      /\ BatchLock(job[t].sku, job[t].batch) \in holds[t]
      /\ \A k \in Key : SameBatch(k, job[t]) => expiry[k] \in {NoExpiry, job[t].exp}

(* The expiry a drafted row carries is that of the posting at work, and    *)
(* the lines of a count carry none.                                        *)
DraftCarriesJobExpiry ==
  \A t \in Txn :
    /\ \A m \in moves[t] : m.exp # NoExpiry =>
         pc[t] \in {"audit", "commit"} /\ m.exp = job[t].exp /\ m.key \in KeysOf(job[t])
    /\ \A p \in rest[t] : p.exp = NoExpiry /\ p.kind = "adjust"
    /\ (pc[t] \in PostingPC /\ rest[t] # {}) =>
         job[t].exp = NoExpiry /\ job[t].kind = "adjust"

ReversesLedgerRow ==
  \A t \in Txn : (pc[t] \in PostingPC /\ job[t].kind = "reverse") =>
    \E m \in ledger : job[t] = Reversal(m)

IInv ==
  /\ TypeOK /\ LockExclusion /\ HoldsItsLocks /\ DraftIsLocked /\ NoNegativeStock
  /\ ExpiryIsAgreed /\ DraftCarriesJobExpiry /\ ReversesLedgerRow
  /\ LedgerExpiryOnBalance /\ OneExpiryPerBatch

(* Every command that opened a transaction gets an answer. *)
EveryTransactionEnds == \A t \in Txn : pc[t] # "idle" ~> pc[t] = "idle"

(* All of this is one promise: the committed tables behave as the atomic   *)
(* StockBook, to which locks, drafts and rebuilds are invisible.           *)
Book == INSTANCE StockBook WITH ledger <- ledger, onHand <- onHand, expiry <- expiry
ImplementsBook == Book!Spec

=============================================================================
