-------------------------- MODULE StockLedgerProofs --------------------------
(***************************************************************************)
(* Theorems about StockLedger, for any number of sessions, SKUs,           *)
(* locations, batches and quantities.                                      *)
(***************************************************************************)
EXTENDS StockLedger, SumLemmas, TLAPS

(* The keys a posting touches are balance keys. *)
LEMMA KeysOfPosting ==
  ASSUME NEW p \in Posting
  PROVE  /\ KeysOf(p) \subseteq Key
         /\ p.from # NoLocation => FromKey(p) \in Key
         /\ p.to # NoLocation => ToKey(p) \in Key
         /\ \A k \in KeysOf(p) : SameBatch(k, p) /\ k[1] = p.sku
  BY StockConstants
     DEF Posting, Entry, KeysOf, FromKey, ToKey, Key, OptLocation, SameBatch

(* The reversal of a ledger row is a posting on the row's own key. *)
LEMMA ReversalPosting ==
  ASSUME NEW m \in Movement
  PROVE  /\ Reversal(m) \in Posting
         /\ Reversal(m).exp = m.exp /\ Reversal(m).kind = "reverse"
         /\ m.key = <<Reversal(m).sku, m.key[2], Reversal(m).batch>>
         /\ KeysOf(Reversal(m)) = {m.key}
<1>1. /\ m.key \in Key /\ m.key = <<m.key[1], m.key[2], m.key[3]>>
      /\ m.key[1] \in Sku /\ m.key[2] \in Location /\ m.key[3] \in Batch
      /\ m.qty \in Int /\ m.qty # 0 /\ m.exp \in OptExpiry /\ m.key[2] # NoLocation
  BY StockConstants DEF Movement, Key
<1>2. Reversal(m) \in Posting
  <2>1. (IF m.qty > 0 THEN m.qty ELSE -m.qty) \in Nat \ {0}
    BY <1>1
  <2> QED  BY <1>1, <2>1 DEF Reversal, Posting, Entry, OptLocation
<1>3. KeysOf(Reversal(m)) = {m.key}
  BY <1>1 DEF Reversal, KeysOf, FromKey, ToKey
<1> QED  BY <1>1, <1>2, <1>3 DEF Reversal

LEMMA AdjustmentPosting ==
  ASSUME NEW k \in Key, NEW q \in Qty, NEW up \in BOOLEAN
  PROVE  /\ Adjustment(k, q, up) \in Posting
         /\ Adjustment(k, q, up).exp = NoExpiry /\ Adjustment(k, q, up).kind = "adjust"
         /\ KeysOf(Adjustment(k, q, up)) = {k}
<1>1. k[2] # NoLocation /\ k = <<k[1], k[2], k[3]>>
  BY StockConstants DEF Key
<1>2. KeysOf(Adjustment(k, q, up)) = {k}
  BY <1>1 DEF Adjustment, KeysOf, FromKey, ToKey
<1> QED  BY <1>2, StockConstants DEF Adjustment, Posting, Entry, Key, OptLocation, OptExpiry

(* What the five commands that open a transaction have in common. *)
Opened(t) ==
  \E label \in {"rebuild", "exclusive"}, j \in Posting \cup Rebuild, lines \in SUBSET Posting :
    /\ pc[t] = "idle" /\ Begin(t, label, j, lines)
    /\ UNCHANGED <<ledger, onHand, expiry, moves, delta, seen, holds, shares, round>>
    /\ label = "rebuild" => j \in Posting
    /\ label = "exclusive" => j \in Rebuild
    /\ \A p \in lines : p.exp = NoExpiry /\ p.kind = "adjust"
    /\ label = "rebuild" /\ lines # {} => j.exp = NoExpiry /\ j.kind = "adjust"
    /\ label = "rebuild" /\ j.kind = "reverse" => \E m \in ledger : j = Reversal(m)
    /\ label = "exclusive" \/ j.kind = "transfer" => lines = {}
    /\ \A p, q \in lines : p # q => KeysOf(p) \cap KeysOf(q) = {}
    /\ label = "rebuild" => \A p \in lines : KeysOf(p) \cap KeysOf(j) = {}

LEMMA StartOpens ==
  ASSUME TypeOK, NEW t \in Txn, Start(t)
  PROVE  Opened(t)
<1>0. UNCHANGED <<ledger, onHand, expiry, moves, delta, seen, holds, shares, round>>
  BY DEF Start, BeginPost, BeginTransfer, BeginReverse, BeginAdjust, BeginRebuild, stock, draft, locks
<1>1. CASE BeginPost(t)
  <2>1. PICK s \in Sku, b \in Batch, l \in Location, q \in Qty, inflow \in BOOLEAN, e \in OptExpiry :
          /\ pc[t] = "idle"
          /\ Begin(t, "rebuild",
               [kind |-> "post", sku |-> s, batch |-> b,
                from |-> IF inflow THEN NoLocation ELSE l, to |-> IF inflow THEN l ELSE NoLocation,
                qty |-> q, exp |-> IF inflow THEN e ELSE NoExpiry], {})
    BY <1>1 DEF BeginPost, Idle
  <2> DEFINE j == [kind |-> "post", sku |-> s, batch |-> b,
                   from |-> IF inflow THEN NoLocation ELSE l,
                   to |-> IF inflow THEN l ELSE NoLocation,
                   qty |-> q, exp |-> IF inflow THEN e ELSE NoExpiry]
  <2>2. j \in Posting /\ j.kind # "reverse"
    BY StockConstants DEF Posting, Entry, OptLocation, OptExpiry
  <2> HIDE DEF j
  <2>3. Begin(t, "rebuild", j, {})
    BY <2>1 DEF j
  <2> QED  BY <1>0, <2>1, <2>2, <2>3 DEF Opened
<1>2. CASE BeginTransfer(t)
  <2>1. PICK s \in Sku, b \in Batch, from \in Location, to \in Location, q \in Qty :
          /\ pc[t] = "idle"
          /\ Begin(t, "rebuild",
               [kind |-> "transfer", sku |-> s, batch |-> b, from |-> from, to |-> to,
                qty |-> q, exp |-> NoExpiry], {})
    BY <1>2 DEF BeginTransfer, Idle
  <2> DEFINE j == [kind |-> "transfer", sku |-> s, batch |-> b, from |-> from, to |-> to,
                   qty |-> q, exp |-> NoExpiry]
  <2>2. j \in Posting /\ j.kind # "reverse"
    BY StockConstants DEF Posting, Entry, OptLocation, OptExpiry
  <2> HIDE DEF j
  <2>3. Begin(t, "rebuild", j, {})
    BY <2>1 DEF j
  <2> QED  BY <1>0, <2>1, <2>2, <2>3 DEF Opened
<1>3. CASE BeginReverse(t)
  <2>1. PICK m \in ledger : pc[t] = "idle" /\ Begin(t, "rebuild", Reversal(m), {})
    BY <1>3 DEF BeginReverse, Idle
  <2>2. Reversal(m) \in Posting
    BY ReversalPosting DEF TypeOK
  <2> QED  BY <1>0, <2>1, <2>2 DEF Opened
<1>4. CASE BeginAdjust(t)
  <2>1. PICK K \in SUBSET {k \in Key : HasMoved(ledger, k)} :
          \E q \in [K -> Qty], up \in [K -> BOOLEAN], k \in K :
            Begin(t, "rebuild", Adjustment(k, q[k], up[k]),
                  {Adjustment(j, q[j], up[j]) : j \in K \ {k}})
    BY <1>4 DEF BeginAdjust
  <2>2. PICK q \in [K -> Qty], up \in [K -> BOOLEAN], k \in K :
          Begin(t, "rebuild", Adjustment(k, q[k], up[k]),
                {Adjustment(j, q[j], up[j]) : j \in K \ {k}})
    BY <2>1
  <2>3. \A j \in K : /\ Adjustment(j, q[j], up[j]) \in Posting
                     /\ Adjustment(j, q[j], up[j]).exp = NoExpiry
                     /\ Adjustment(j, q[j], up[j]).kind = "adjust"
                     /\ KeysOf(Adjustment(j, q[j], up[j])) = {j}
    BY AdjustmentPosting
  <2> DEFINE first == Adjustment(k, q[k], up[k])
             lines == {Adjustment(j, q[j], up[j]) : j \in K \ {k}}
  <2>4. /\ first \in Posting /\ first.exp = NoExpiry /\ first.kind = "adjust"
        /\ lines \in SUBSET Posting
        /\ \A p \in lines : p.exp = NoExpiry /\ p.kind = "adjust"
    BY <2>3
  <2>6. /\ \A p, n \in lines : p # n => KeysOf(p) \cap KeysOf(n) = {}
        /\ \A p \in lines : KeysOf(p) \cap KeysOf(first) = {}
    BY <2>3
  <2>5. pc[t] = "idle" /\ Begin(t, "rebuild", first, lines)
    BY <1>4, <2>2 DEF BeginAdjust, Idle
  <2> HIDE DEF first, lines
  <2> QED  BY <1>0, <2>4, <2>5, <2>6 DEF Opened
<1>5. CASE BeginRebuild(t)
  <2>1. PICK s \in Sku : pc[t] = "idle" /\ Begin(t, "exclusive", [kind |-> "rebuild", sku |-> s], {})
    BY <1>5 DEF BeginRebuild, Idle
  <2>2. [kind |-> "rebuild", sku |-> s] \in Rebuild
    BY DEF Rebuild
  <2> QED  BY <1>0, <2>1, <2>2 DEF Opened
<1> QED  BY <1>1, <1>2, <1>3, <1>4, <1>5 DEF Start

(* Every way a transaction ends without a commit is a rollback. *)
LEMMA EndsInRollback ==
  ASSUME NEW t \in Txn, Refuse(t) \/ DeadlockVictim(t) \/ Crash(t)
  PROVE  Rollback(t)
  BY DEF Refuse, DeadlockVictim, Crash

-----------------------------------------------------------------------------
(* Type correctness.                                                       *)

LEMMA LocksTyped ==
  /\ \A s \in Sku : RebuildLock(s) \in Lock
  /\ \A l \in Location : LocationLock(l) \in Lock
  /\ \A s \in Sku, b \in Batch : BatchLock(s, b) \in Lock
  /\ \A k \in Key : RowLock(k) \in Lock
  /\ AuditLock \in Lock
  BY DEF Lock

LEMMA TypeInit == Init => TypeOK
  BY StockConstants DEF Init, TypeOK, JobFitsStatement, OptExpiry, PostingPC, RebuildPC

LEMMA RowsTyped ==
  ASSUME TypeOK, NEW t \in Txn, pc[t] = "apply"
  PROVE  /\ RowsOf(t) \subseteq Movement
         /\ \A k \in Key : SignedQty(job[t], k) \in Int
         /\ \A m \in RowsOf(t) : m.exp = job[t].exp /\ m.key \in KeysOf(job[t])
<1> DEFINE p == job[t]
<1>1. p \in Posting
  BY DEF TypeOK, JobFitsStatement, PostingPC
<1>2. /\ p.qty \in Nat /\ p.qty # 0 /\ p.exp \in OptExpiry
      /\ p.from # NoLocation => FromKey(p) \in Key
      /\ p.to # NoLocation => ToKey(p) \in Key
  BY <1>1, KeysOfPosting DEF Posting, Entry
<1>3. \A k \in Key : SignedQty(p, k) \in Int
  BY <1>2 DEF SignedQty
<1>4. /\ \A k \in Key : Row(t, k, p.qty) \in Movement /\ Row(t, k, -p.qty) \in Movement
      /\ \A k, q : Row(t, k, q).exp = p.exp /\ Row(t, k, q).key = k
  <2>1. round[t] \in Nat /\ p.qty \in Int \ {0} /\ -p.qty \in Int \ {0}
    BY <1>2 DEF TypeOK
  <2> QED  BY <1>2, <2>1 DEF Row, Movement
<1>5. \A m \in RowsOf(t) : m \in Movement /\ m.exp = p.exp /\ m.key \in KeysOf(p)
  BY <1>2, <1>4 DEF RowsOf, KeysOf
<1> QED  BY <1>3, <1>5

(* Facts about the posting at work that several steps use. *)
LEMMA CarriedTyped ==
  ASSUME TypeOK, NEW t \in Txn, job[t] \in Posting
  PROVE  CarriedExpiry(t) \in OptExpiry
<1>1. expiry \in [Key -> OptExpiry] /\ job[t].exp \in OptExpiry
  BY DEF TypeOK, Posting, Entry
<1>2. job[t].kind = "transfer" => FromKey(job[t]) \in Key
  BY KeysOfPosting DEF Posting
<1> QED  BY <1>1, <1>2 DEF CarriedExpiry

LEMMA ReleaseTyped ==
  ASSUME TypeOK, NEW t \in Txn, Release(t), ledger' \subseteq Movement,
         onHand' \in [Key -> Int], expiry' \in [Key -> OptExpiry], round' \in [Txn -> Nat]
  PROVE  TypeOK'
<1>1. JobFitsStatement'
  BY DEF Release, TypeOK, JobFitsStatement, PostingPC, RebuildPC
<1>2. /\ pc' \in [Txn -> PostingPC \cup RebuildPC \cup {"idle"}]
      /\ job' \in [Txn -> Posting \cup Rebuild \cup {NoJob}]
      /\ rest' \in [Txn -> SUBSET Posting]
  BY DEF Release, TypeOK
<1>3. /\ moves' \in [Txn -> SUBSET Movement] /\ delta' \in [Txn -> [Key -> Int]]
      /\ seen' \in [Txn -> SUBSET Movement]
      /\ holds' \in [Txn -> SUBSET Lock] /\ shares' \in [Txn -> SUBSET Lock]
  BY DEF Release, TypeOK
<1> QED  BY <1>1, <1>2, <1>3 DEF TypeOK

(* The lock a statement requests is a lock. *)
LEMMA RequestTyped ==
  ASSUME TypeOK, NEW t \in Txn
  PROVE  /\ pc[t] \in PostingPC => RebuildLock(job[t].sku) \in Lock
         /\ pc[t] \in RebuildPC => RebuildLock(job[t].sku) \in Lock
         /\ pc[t] \in PostingPC => BatchLock(job[t].sku, job[t].batch) \in Lock
<1>1. pc[t] \in PostingPC => job[t].sku \in Sku /\ job[t].batch \in Batch
  BY DEF TypeOK, JobFitsStatement, Posting, Entry
<1>2. pc[t] \in RebuildPC => job[t].sku \in Sku
  BY DEF TypeOK, JobFitsStatement, Rebuild
<1> QED  BY <1>1, <1>2, LocksTyped

(* A step that only takes a lock and moves to another statement of the same *)
(* kind keeps every type.                                                   *)
LEMMA LockStepTyped ==
  ASSUME TypeOK, NEW t \in Txn, NEW label,
         pc' = [pc EXCEPT ![t] = label],
         \/ pc[t] \in PostingPC /\ label \in PostingPC
         \/ pc[t] \in RebuildPC /\ label \in RebuildPC,
         label \in {"location", "limits"} => job[t].to # NoLocation,
         holds' \in [Txn -> SUBSET Lock], shares' \in [Txn -> SUBSET Lock],
         UNCHANGED <<ledger, onHand, expiry, job, rest, moves, delta, round>>,
         seen' \in [Txn -> SUBSET Movement]
  PROVE  TypeOK'
<1>1. JobFitsStatement'
  BY DEF JobFitsStatement, TypeOK, PostingPC, RebuildPC
<1>2. pc' \in [Txn -> PostingPC \cup RebuildPC \cup {"idle"}]
  BY DEF TypeOK
<1> QED  BY <1>1, <1>2 DEF TypeOK

LEMMA GrabTyped ==
  ASSUME TypeOK, NEW t \in Txn, NEW r \in Lock, Grab(t, r) \/ Share(t, r)
  PROVE  holds' \in [Txn -> SUBSET Lock] /\ shares' \in [Txn -> SUBSET Lock]
<1>1. CASE Grab(t, r)
  BY <1>1 DEF TypeOK, Grab
<1>2. CASE Share(t, r)
  BY <1>2 DEF TypeOK, Share
<1> QED  BY <1>1, <1>2

LEMMA TypeNext == TypeOK /\ [Next]_vars => TypeOK'
<1> SUFFICES ASSUME TypeOK, [Next]_vars PROVE TypeOK'
  OBVIOUS
<1>1. CASE UNCHANGED vars
  BY <1>1 DEF vars, TypeOK, JobFitsStatement
<1>2. ASSUME NEW t \in Txn, Start(t) PROVE TypeOK'
  <2>1. Opened(t)
    BY <1>2, StartOpens
  <2> QED  BY <2>1 DEF Opened, Begin, TypeOK, JobFitsStatement, PostingPC, RebuildPC
<1>3. ASSUME NEW t \in Txn, Rollback(t) PROVE TypeOK'
  BY <1>3 DEF Rollback, Release, TypeOK, JobFitsStatement, PostingPC, RebuildPC
<1>4. ASSUME NEW t \in Txn, LockRebuildKeyShared(t) PROVE TypeOK'
  <2>1. pc[t] \in PostingPC /\ AfterLimits(job[t]) \in PostingPC /\ "location" \in PostingPC
        /\ AfterLimits(job[t]) \notin {"location", "limits"}
    BY <1>4 DEF LockRebuildKeyShared, AfterLimits, PostingPC
  <2>2. holds' \in [Txn -> SUBSET Lock] /\ shares' \in [Txn -> SUBSET Lock]
    BY <1>4, <2>1, RequestTyped, GrabTyped DEF LockRebuildKeyShared
  <2> QED
    BY <1>4, <2>1, <2>2, LockStepTyped DEF LockRebuildKeyShared, Goto, TypeOK, stock, draft
<1>5. ASSUME NEW t \in Txn, LockLocation(t) PROVE TypeOK'
  <2>1. pc[t] \in PostingPC /\ "limits" \in PostingPC /\ job[t].to # NoLocation
    BY <1>5 DEF LockLocation, PostingPC, TypeOK, JobFitsStatement
  <2>2. holds' \in [Txn -> SUBSET Lock] /\ shares' \in [Txn -> SUBSET Lock]
    <3>1. job[t].to \in Location
      BY <1>5, <2>1 DEF LockLocation, TypeOK, JobFitsStatement, Posting, Entry, OptLocation
    <3> QED  BY <1>5, <3>1, GrabTyped, LocksTyped DEF LockLocation
  <2> QED  BY <1>5, <2>1, <2>2, LockStepTyped DEF LockLocation, Goto, TypeOK, stock, draft
<1>6. ASSUME NEW t \in Txn, CheckLimits(t) PROVE TypeOK'
  <2>1. pc[t] \in PostingPC /\ AfterLimits(job[t]) \in PostingPC \ {"location", "limits"}
    BY <1>6 DEF CheckLimits, AfterLimits, PostingPC
  <2> QED  BY <1>6, <2>1, LockStepTyped DEF CheckLimits, Goto, TypeOK, stock, draft, locks
<1>7. ASSUME NEW t \in Txn, LockBatchExpiry(t) PROVE TypeOK'
  <2>1. pc[t] \in PostingPC /\ "expiry" \in PostingPC
    BY <1>7 DEF LockBatchExpiry, PostingPC
  <2>2. holds' \in [Txn -> SUBSET Lock] /\ shares' \in [Txn -> SUBSET Lock]
    BY <1>7, <2>1, RequestTyped, GrabTyped DEF LockBatchExpiry
  <2> QED  BY <1>7, <2>1, <2>2, LockStepTyped DEF LockBatchExpiry, Goto, TypeOK, stock, draft
<1>8. ASSUME NEW t \in Txn, AssertBatchExpiry(t) PROVE TypeOK'
  <2>1. job[t] \in Posting /\ pc[t] = "expiry"
    BY <1>8 DEF AssertBatchExpiry, TypeOK, JobFitsStatement, PostingPC
  <2>2. CarriedExpiry(t) \in OptExpiry
    BY <2>1, CarriedTyped
  <2>3. Carrying(job[t], CarriedExpiry(t)) \in Posting
    BY <2>1, <2>2 DEF Carrying, Posting, Entry
  <2>4. job' \in [Txn -> Posting \cup Rebuild \cup {NoJob}] /\ job'[t] \in Posting
        /\ \A u \in Txn \ {t} : job'[u] = job[u]
    BY <1>8, <2>3 DEF AssertBatchExpiry, TypeOK
  <2>5. JobFitsStatement'
    BY <1>8, <2>4 DEF AssertBatchExpiry, Goto, TypeOK, JobFitsStatement, PostingPC, RebuildPC
  <2>6. pc' \in [Txn -> PostingPC \cup RebuildPC \cup {"idle"}]
    BY <1>8 DEF AssertBatchExpiry, Goto, TypeOK, PostingPC
  <2> QED  BY <1>8, <2>4, <2>5, <2>6 DEF AssertBatchExpiry, TypeOK, stock, draft, locks
<1>9. ASSUME NEW t \in Txn, LockBalanceRow(t) PROVE TypeOK'
  <2>1. PICK k \in Key : Grab(t, RowLock(k)) /\ Goto(t, IF Unlocked(t) = {k} THEN "apply" ELSE "row")
    BY <1>9 DEF LockBalanceRow
  <2>2. /\ pc[t] \in PostingPC
        /\ (IF Unlocked(t) = {k} THEN "apply" ELSE "row") \in PostingPC
    BY <1>9 DEF LockBalanceRow, PostingPC
  <2>3. holds' \in [Txn -> SUBSET Lock] /\ shares' \in [Txn -> SUBSET Lock]
    BY <2>1, GrabTyped, LocksTyped
  <2> QED
    BY <1>9, <2>1, <2>2, <2>3, LockStepTyped DEF LockBalanceRow, Goto, TypeOK, stock, draft
<1>10. ASSUME NEW t \in Txn, ApplyDelta(t) PROVE TypeOK'
  <2>1. RowsOf(t) \subseteq Movement /\ \A k \in Key : SignedQty(job[t], k) \in Int
    BY <1>10, RowsTyped DEF ApplyDelta
  <2>2. moves' \in [Txn -> SUBSET Movement]
    BY <1>10, <2>1 DEF ApplyDelta, TypeOK
  <2>3. delta' \in [Txn -> [Key -> Int]]
    BY <1>10, <2>1 DEF ApplyDelta, TypeOK
  <2>4. JobFitsStatement'
    BY <1>10 DEF ApplyDelta, Goto, TypeOK, JobFitsStatement, PostingPC, RebuildPC
  <2>5. pc' \in [Txn -> PostingPC \cup RebuildPC \cup {"idle"}]
    BY <1>10 DEF ApplyDelta, Goto, TypeOK, PostingPC
  <2> QED  BY <1>10, <2>2, <2>3, <2>4, <2>5 DEF ApplyDelta, TypeOK, stock, locks
<1>11. ASSUME NEW t \in Txn, WriteAuditRow(t) PROVE TypeOK'
  <2>1. holds' \in [Txn -> SUBSET Lock] /\ shares' \in [Txn -> SUBSET Lock]
    BY <1>11, GrabTyped, LocksTyped DEF WriteAuditRow
  <2>2. CASE rest[t] = {} /\ Goto(t, "commit") /\ UNCHANGED <<job, rest>>
    <3>1. pc[t] \in PostingPC /\ "commit" \in PostingPC
      BY <1>11 DEF WriteAuditRow, PostingPC
    <3> QED  BY <1>11, <2>1, <2>2, <3>1, LockStepTyped DEF WriteAuditRow, Goto, TypeOK, stock, draft
  <2>3. CASE \E p \in rest[t] : /\ Goto(t, "rebuild")
                               /\ job' = [job EXCEPT ![t] = p]
                               /\ rest' = [rest EXCEPT ![t] = @ \ {p}]
    <3>1. PICK p \in rest[t] : /\ Goto(t, "rebuild")
                              /\ job' = [job EXCEPT ![t] = p]
                              /\ rest' = [rest EXCEPT ![t] = @ \ {p}]
      BY <2>3
    <3>2. p \in Posting
      BY DEF TypeOK
    <3>3. job' \in [Txn -> Posting \cup Rebuild \cup {NoJob}] /\ rest' \in [Txn -> SUBSET Posting]
      BY <3>1, <3>2 DEF TypeOK
    <3>4. JobFitsStatement'
      BY <3>1, <3>2 DEF Goto, TypeOK, JobFitsStatement, PostingPC, RebuildPC
    <3>5. pc' \in [Txn -> PostingPC \cup RebuildPC \cup {"idle"}]
      BY <3>1 DEF Goto, TypeOK, PostingPC
    <3> QED  BY <1>11, <2>1, <3>3, <3>4, <3>5 DEF WriteAuditRow, TypeOK, stock, draft
  <2> QED  BY <1>11, <2>2, <2>3 DEF WriteAuditRow
<1>12. ASSUME NEW t \in Txn, Commit(t) PROVE TypeOK'
  <2>1. onHand' \in [Key -> Int]
    BY <1>12 DEF Commit, View, TypeOK
  <2>2. expiry' \in [Key -> OptExpiry]
    <3>1. job[t] \in Posting
      BY <1>12 DEF Commit, TypeOK, JobFitsStatement, PostingPC
    <3> QED  BY <1>12, <3>1 DEF Commit, Stamped, TypeOK, Posting, Entry
  <2>3. ledger' \subseteq Movement /\ round' \in [Txn -> Nat]
    BY <1>12 DEF Commit, TypeOK
  <2> QED  BY <1>12, <2>1, <2>2, <2>3, ReleaseTyped DEF Commit
<1>13. ASSUME NEW t \in Txn, LockRebuildKeyExclusive(t) PROVE TypeOK'
  <2>1. pc[t] \in RebuildPC /\ "fold" \in RebuildPC
    BY <1>13 DEF LockRebuildKeyExclusive, RebuildPC
  <2>2. holds' \in [Txn -> SUBSET Lock] /\ shares' \in [Txn -> SUBSET Lock]
    BY <1>13, <2>1, RequestTyped, GrabTyped DEF LockRebuildKeyExclusive
  <2> QED  BY <1>13, <2>1, <2>2, LockStepTyped DEF LockRebuildKeyExclusive, Goto, TypeOK, stock, draft
<1>14. ASSUME NEW t \in Txn, FoldLedger(t) PROVE TypeOK'
  <2>1. pc[t] \in RebuildPC /\ "overwrite" \in RebuildPC
    BY <1>14 DEF FoldLedger, RebuildPC
  <2>2. seen' \in [Txn -> SUBSET Movement]
    BY <1>14 DEF FoldLedger, TypeOK
  <2> QED  BY <1>14, <2>1, <2>2, LockStepTyped DEF FoldLedger, Goto, TypeOK, stock, draft, locks
<1>15. ASSUME NEW t \in Txn, OverwriteBalance(t) PROVE TypeOK'
  <2>1. onHand' \in [Key -> Int]
    BY <1>15 DEF OverwriteBalance, TypeOK
  <2>2. expiry' \in [Key -> OptExpiry]
    BY <1>15 DEF OverwriteBalance, TypeOK, OptExpiry
  <2>3. ledger' \subseteq Movement /\ round' \in [Txn -> Nat]
    BY <1>15 DEF OverwriteBalance, TypeOK
  <2> QED  BY <1>15, <2>1, <2>2, <2>3, ReleaseTyped DEF OverwriteBalance
<1> QED
  BY <1>1, <1>2, <1>3, <1>4, <1>5, <1>6, <1>7, <1>8, <1>9, <1>10, <1>11, <1>12, <1>13, <1>14,
     <1>15, EndsInRollback DEF Next, Step

-----------------------------------------------------------------------------
(* Frames: what a step of t leaves alone.                                  *)

Acts(t) == Start(t) \/ Step(t) \/ Crash(t)

LEMMA OthersUntouched ==
  ASSUME TypeOK, NEW t \in Txn, Acts(t), NEW u \in Txn, u # t
  PROVE  /\ pc'[u] = pc[u] /\ job'[u] = job[u] /\ rest'[u] = rest[u]
         /\ moves'[u] = moves[u] /\ delta'[u] = delta[u]
         /\ holds'[u] = holds[u] /\ shares'[u] = shares[u]
         /\ seen'[u] = seen[u] /\ round'[u] = round[u]
<1> USE DEF TypeOK
<1>1. CASE Start(t)
  BY <1>1, StartOpens DEF Opened, Begin
<1>2. CASE Rollback(t)
  BY <1>2 DEF Rollback, Release
<1>3. CASE Commit(t) \/ OverwriteBalance(t)
  BY <1>3 DEF Commit, OverwriteBalance, Release
<1>4. CASE LockRebuildKeyShared(t)
  BY <1>4 DEF LockRebuildKeyShared, Share, Goto, draft
<1>5. CASE LockLocation(t)
  BY <1>5 DEF LockLocation, Grab, Goto, draft
<1>6. CASE CheckLimits(t)
  BY <1>6 DEF CheckLimits, Goto, draft, locks
<1>7. CASE LockBatchExpiry(t)
  BY <1>7 DEF LockBatchExpiry, Grab, Goto, draft
<1>8. CASE AssertBatchExpiry(t)
  BY <1>8 DEF AssertBatchExpiry, Goto, draft, locks
<1>9. CASE LockBalanceRow(t)
  BY <1>9 DEF LockBalanceRow, Grab, Goto, draft
<1>10. CASE ApplyDelta(t)
  BY <1>10 DEF ApplyDelta, Goto, locks
<1>11. CASE WriteAuditRow(t)
  BY <1>11 DEF WriteAuditRow, Grab, Goto, draft
<1>12. CASE LockRebuildKeyExclusive(t)
  BY <1>12 DEF LockRebuildKeyExclusive, Grab, Goto, draft
<1>13. CASE FoldLedger(t)
  BY <1>13 DEF FoldLedger, Goto, draft, locks
<1> QED
  BY <1>1, <1>2, <1>3, <1>4, <1>5, <1>6, <1>7, <1>8, <1>9, <1>10, <1>11, <1>12, <1>13,
     EndsInRollback DEF Acts, Step

(* Only the two kinds of commit write the committed tables. *)
LEMMA StockUntouched ==
  ASSUME TypeOK, NEW t \in Txn, Acts(t), ~Commit(t), ~OverwriteBalance(t)
  PROVE  UNCHANGED <<ledger, onHand, expiry>>
<1>1. CASE Start(t)
  BY <1>1, StartOpens DEF Opened, Begin
<1>2. CASE Rollback(t)
  BY <1>2 DEF Rollback
<1> QED
  BY <1>1, <1>2, EndsInRollback
     DEF Acts, Step, LockRebuildKeyShared, LockLocation, CheckLimits, LockBatchExpiry,
         AssertBatchExpiry, LockBalanceRow, ApplyDelta, WriteAuditRow,
         LockRebuildKeyExclusive, FoldLedger, stock

(* A step takes one lock, takes none, or gives up every lock of t. *)
LEMMA LockMoves ==
  ASSUME TypeOK, NEW t \in Txn, Acts(t)
  PROVE  \/ \E r : Grab(t, r) \/ Share(t, r)
         \/ UNCHANGED <<holds, shares>>
         \/ holds' = [holds EXCEPT ![t] = {}] /\ shares' = [shares EXCEPT ![t] = {}]
<1>1. CASE Start(t)
  BY <1>1, StartOpens DEF Opened, Begin
<1>2. CASE Rollback(t) \/ Commit(t) \/ OverwriteBalance(t)
  BY <1>2 DEF Rollback, Commit, OverwriteBalance, Release
<1>3. CASE \/ CheckLimits(t) \/ AssertBatchExpiry(t) \/ ApplyDelta(t) \/ FoldLedger(t)
  BY <1>3 DEF CheckLimits, AssertBatchExpiry, ApplyDelta, FoldLedger, locks
<1>4. CASE \/ LockRebuildKeyShared(t) \/ LockLocation(t) \/ LockBatchExpiry(t)
           \/ LockBalanceRow(t) \/ WriteAuditRow(t) \/ LockRebuildKeyExclusive(t)
  BY <1>4 DEF LockRebuildKeyShared, LockLocation, LockBatchExpiry, LockBalanceRow,
              WriteAuditRow, LockRebuildKeyExclusive
<1> QED  BY <1>1, <1>2, <1>3, <1>4, EndsInRollback DEF Acts, Step

LEMMA LockExclusionStep ==
  ASSUME TypeOK, LockExclusion, NEW t \in Txn, Acts(t)
  PROVE  LockExclusion'
<1> USE DEF TypeOK, LockExclusion
<1>1. CASE \E r : Grab(t, r)
  BY <1>1 DEF Grab, HeldByOther, SharedByOther
<1>2. CASE \E r : Share(t, r)
  BY <1>2 DEF Share, HeldByOther
<1>3. CASE UNCHANGED <<holds, shares>>
  BY <1>3
<1>4. CASE holds' = [holds EXCEPT ![t] = {}] /\ shares' = [shares EXCEPT ![t] = {}]
  BY <1>4
<1> QED  BY <1>1, <1>2, <1>3, <1>4, LockMoves

-----------------------------------------------------------------------------
(* What a transaction owns at each statement.                              *)

LEMMA HoldsItsLocksStep ==
  ASSUME TypeOK, HoldsItsLocks, NEW t \in Txn, Acts(t)
  PROVE  HoldsItsLocks'
<1> DEFINE Owns(u) ==
       /\ pc[u] \in PostingPC \ {"rebuild"} => RebuildLock(job[u].sku) \in shares[u]
       /\ pc[u] \in {"fold", "overwrite"} => RebuildLock(job[u].sku) \in holds[u]
       /\ pc[u] = "expiry" => BatchLock(job[u].sku, job[u].batch) \in holds[u]
       /\ pc[u] = "apply" => \A k \in KeysOf(job[u]) : RowLock(k) \in holds[u]
<1>1. ASSUME NEW u \in Txn, u # t PROVE Owns(u)'
  BY <1>1, OthersUntouched DEF HoldsItsLocks, KeysOf, FromKey, ToKey
<1>2. Owns(t)'
  <2>0. Owns(t)
    BY DEF HoldsItsLocks
  <2> HIDE DEF Owns
  <2> USE DEF TypeOK, PostingPC
  <2>1. CASE Start(t)
    BY <2>1, StartOpens DEF Opened, Begin, Owns
  <2>2. CASE Rollback(t) \/ Commit(t) \/ OverwriteBalance(t)
    BY <2>2 DEF Rollback, Commit, OverwriteBalance, Release, Owns
  <2>3. CASE LockRebuildKeyShared(t)
    BY <2>3 DEF LockRebuildKeyShared, Share, Goto, AfterLimits, Owns
  <2>4. CASE LockLocation(t)
    BY <2>4, <2>0 DEF LockLocation, Grab, Goto, Owns
  <2>5. CASE CheckLimits(t)
    BY <2>5, <2>0 DEF CheckLimits, Goto, AfterLimits, locks, Owns
  <2>6. CASE LockBatchExpiry(t)
    BY <2>6, <2>0 DEF LockBatchExpiry, Grab, Goto, Owns
  <2>7. CASE AssertBatchExpiry(t)
    BY <2>7, <2>0 DEF AssertBatchExpiry, Carrying, Goto, locks, Owns
  <2>8. CASE LockBalanceRow(t)
    <3>1. PICK k \in Key : /\ NextRow(t, k) /\ Grab(t, RowLock(k))
                           /\ Goto(t, IF Unlocked(t) = {k} THEN "apply" ELSE "row")
      BY <2>8 DEF LockBalanceRow
    <3>2. holds'[t] = holds[t] \cup {RowLock(k)} /\ shares'[t] = shares[t] /\ job'[t] = job[t]
      BY <2>8, <3>1 DEF LockBalanceRow, Grab
    <3>3. CASE Unlocked(t) = {k}
      <4>1. \A j \in KeysOf(job[t]) : RowLock(j) \in holds[t] \cup {RowLock(k)}
        BY <3>3 DEF Unlocked
      <4>2. pc'[t] = "apply" /\ KeysOf(job[t])' = KeysOf(job[t])
        BY <3>1, <3>2, <3>3 DEF Goto, KeysOf, FromKey, ToKey
      <4> QED  BY <2>0, <2>8, <3>2, <4>1, <4>2 DEF LockBalanceRow, Owns
    <3>4. CASE Unlocked(t) # {k}
      BY <2>0, <2>8, <3>1, <3>2, <3>4 DEF LockBalanceRow, Goto, Owns
    <3> QED  BY <3>3, <3>4
  <2>9. CASE ApplyDelta(t)
    BY <2>9, <2>0 DEF ApplyDelta, Goto, locks, Owns
  <2>10. CASE WriteAuditRow(t)
    BY <2>10, <2>0 DEF WriteAuditRow, Grab, Goto, Owns
  <2>11. CASE LockRebuildKeyExclusive(t)
    BY <2>11 DEF LockRebuildKeyExclusive, Grab, Goto, Owns
  <2>12. CASE FoldLedger(t)
    BY <2>12, <2>0 DEF FoldLedger, Goto, locks, Owns
  <2> QED
    BY <2>1, <2>2, <2>3, <2>4, <2>5, <2>6, <2>7, <2>8, <2>9, <2>10, <2>11, <2>12,
       EndsInRollback DEF Acts, Step
<1> HIDE DEF Owns
<1>3. HoldsItsLocks' <=> \A u \in Txn : Owns(u)'
  BY DEF HoldsItsLocks, Owns
<1> QED  BY <1>1, <1>2, <1>3

(* The drafted quantity of t at each step. *)
LEMMA DraftIsLockedStep ==
  ASSUME TypeOK, HoldsItsLocks, DraftIsLocked, NEW t \in Txn, Acts(t)
  PROVE  DraftIsLocked'
<1> SUFFICES ASSUME NEW u \in Txn, NEW k \in Key, delta'[u][k] # 0
             PROVE  RowLock(k) \in holds'[u] /\ RebuildLock(k[1]) \in shares'[u]
  BY DEF DraftIsLocked
<1>1. CASE u # t
  BY <1>1, OthersUntouched DEF DraftIsLocked
<1>2. CASE u = t /\ ApplyDelta(t)
  <2>1. /\ delta'[t] = [j \in Key |-> delta[t][j] + SignedQty(job[t], j)]
        /\ holds' = holds /\ shares' = shares /\ pc[t] = "apply"
    BY <1>2 DEF ApplyDelta, TypeOK, locks
  <2>2. CASE delta[t][k] # 0
    BY <1>2, <2>1, <2>2 DEF DraftIsLocked
  <2>3. CASE delta[t][k] = 0
    <3>1. job[t] \in Posting
      BY <2>1 DEF TypeOK, JobFitsStatement, PostingPC
    <3>2. SignedQty(job[t], k) # 0
      BY <1>2, <2>1, <2>3
    <3>3. k \in KeysOf(job[t])
      BY <3>2 DEF SignedQty, KeysOf
    <3>4. RowLock(k) \in holds[t]
      BY <2>1, <3>3 DEF HoldsItsLocks
    <3>5. k[1] = job[t].sku
      BY <3>1, <3>3, KeysOfPosting
    <3>6. RebuildLock(job[t].sku) \in shares[t]
      BY <2>1 DEF HoldsItsLocks, PostingPC
    <3> QED  BY <1>2, <2>1, <3>4, <3>5, <3>6
  <2> QED  BY <2>2, <2>3
<1>3. CASE u = t /\ (Rollback(t) \/ Commit(t) \/ OverwriteBalance(t))
  <2>1. delta'[t] = [j \in Key |-> 0]
    BY <1>3 DEF Rollback, Commit, OverwriteBalance, Release, TypeOK
  <2> QED  BY <1>3, <2>1
<1>4. CASE u = t /\ ~ApplyDelta(t) /\ ~Rollback(t) /\ ~Commit(t) /\ ~OverwriteBalance(t)
  <2>1. delta' = delta
    <3>1. CASE Start(t)
      BY <3>1, StartOpens DEF Opened, Begin
    <3> QED
      BY <1>4, <3>1, EndsInRollback
         DEF Acts, Step, LockRebuildKeyShared, LockLocation, CheckLimits, LockBatchExpiry,
             AssertBatchExpiry, LockBalanceRow, WriteAuditRow, LockRebuildKeyExclusive,
             FoldLedger, draft
  <2>2. holds[t] \subseteq holds'[t] /\ shares[t] \subseteq shares'[t]
    <3>1. CASE Start(t)
      BY <3>1, StartOpens DEF Opened, Begin
    <3> QED
      BY <1>4, <3>1, EndsInRollback
         DEF Acts, Step, LockRebuildKeyShared, LockLocation, CheckLimits, LockBatchExpiry,
             AssertBatchExpiry, LockBalanceRow, WriteAuditRow, LockRebuildKeyExclusive,
             FoldLedger, Grab, Share, locks, TypeOK
  <2> QED  BY <1>4, <2>1, <2>2 DEF DraftIsLocked
<1> QED  BY <1>1, <1>2, <1>3, <1>4

LEMMA NoNegativeStockStep ==
  ASSUME TypeOK, LockExclusion, HoldsItsLocks, DraftIsLocked, NoNegativeStock,
         NEW t \in Txn, Acts(t)
  PROVE  NoNegativeStock'
<1> SUFFICES ASSUME NEW k \in Key
             PROVE  onHand'[k] >= 0 /\ \A u \in Txn : onHand'[k] + delta'[u][k] >= 0
  BY DEF NoNegativeStock
<1>0. onHand[k] \in Int /\ onHand[k] >= 0
      /\ \A u \in Txn : delta[u][k] \in Int /\ onHand[k] + delta[u][k] >= 0
  BY DEF NoNegativeStock, TypeOK
<1>1. CASE Commit(t)
  <2>1. onHand'[k] = onHand[k] + delta[t][k] /\ delta'[t][k] = 0
    BY <1>1 DEF Commit, View, Release, TypeOK
  <2>2. ASSUME NEW u \in Txn, u # t PROVE onHand'[k] + delta'[u][k] >= 0
    <3>1. delta'[u][k] = delta[u][k]
      BY <2>2, OthersUntouched
    <3>2. delta[u][k] = 0 \/ delta[t][k] = 0
      BY <2>2 DEF DraftIsLocked, LockExclusion
    <3> QED  BY <1>0, <2>1, <3>1, <3>2
  <2> QED  BY <1>0, <2>1, <2>2
<1>2. CASE OverwriteBalance(t)
  <2>1. pc[t] = "overwrite" /\ RebuildLock(job[t].sku) \in holds[t]
    BY <1>2 DEF OverwriteBalance, HoldsItsLocks
  <2>2. delta'[t][k] = 0
    BY <1>2 DEF OverwriteBalance, Release, TypeOK
  <2>3. \A u \in Txn \ {t} : delta'[u][k] = delta[u][k]
    BY <1>2, OthersUntouched
  <2>4. CASE k[1] = job[t].sku
    <3>1. \A u \in Txn \ {t} : delta[u][k] = 0
      BY <2>1, <2>4 DEF DraftIsLocked, LockExclusion
    <3>2. onHand'[k] \in Nat \/ onHand'[k] = onHand[k]
      BY <1>2 DEF OverwriteBalance
    <3> QED  BY <1>0, <2>2, <2>3, <3>1, <3>2
  <2>5. CASE k[1] # job[t].sku
    <3>1. onHand'[k] = onHand[k]
      BY <1>2, <2>5 DEF OverwriteBalance, Overwritten, Deleted
    <3> QED  BY <1>0, <2>2, <2>3, <3>1
  <2> QED  BY <2>4, <2>5
<1>3. CASE ApplyDelta(t)
  <2>1. /\ delta'[t][k] = delta[t][k] + SignedQty(job[t], k) /\ onHand' = onHand
        /\ \A u \in Txn \ {t} : delta'[u][k] = delta[u][k]
    BY <1>3, OthersUntouched DEF ApplyDelta, TypeOK, stock
  <2>2. job[t] \in Posting /\ job[t].qty \in Nat
    BY <1>3 DEF ApplyDelta, TypeOK, JobFitsStatement, PostingPC, Posting, Entry
  <2>3. CASE job[t].from # NoLocation /\ k = FromKey(job[t])
    <3>1. onHand[k] + delta[t][k] >= job[t].qty
      BY <1>3, <2>3 DEF ApplyDelta, StaysNonNegative, View
    <3>2. SignedQty(job[t], k) \in Int /\ SignedQty(job[t], k) >= -job[t].qty
      BY <2>2 DEF SignedQty
    <3> QED  BY <1>0, <2>1, <2>2, <3>1, <3>2
  <2>4. CASE ~(job[t].from # NoLocation /\ k = FromKey(job[t]))
    <3>1. SignedQty(job[t], k) \in Int /\ SignedQty(job[t], k) >= 0
      BY <2>2, <2>4 DEF SignedQty
    <3> QED  BY <1>0, <2>1, <3>1
  <2> QED  BY <2>3, <2>4
<1>4. CASE Rollback(t)
  <2>1. onHand' = onHand /\ delta'[t][k] = 0 /\ \A u \in Txn \ {t} : delta'[u][k] = delta[u][k]
    BY <1>4, OthersUntouched DEF Rollback, Release, TypeOK
  <2> QED  BY <1>0, <2>1
<1>5. CASE ~Commit(t) /\ ~OverwriteBalance(t) /\ ~ApplyDelta(t) /\ ~Rollback(t)
  <2>1. onHand' = onHand
    BY <1>5, StockUntouched
  <2>2. delta' = delta
    <3>1. CASE Start(t)
      BY <3>1, StartOpens DEF Opened, Begin
    <3> QED
      BY <1>5, <3>1, EndsInRollback
         DEF Acts, Step, LockRebuildKeyShared, LockLocation, CheckLimits, LockBatchExpiry,
             AssertBatchExpiry, LockBalanceRow, WriteAuditRow, LockRebuildKeyExclusive,
             FoldLedger, draft
  <2> QED  BY <1>0, <2>1, <2>2
<1> QED  BY <1>1, <1>2, <1>3, <1>4, <1>5

-----------------------------------------------------------------------------
(* Expiry: what a posting carries, what the balance records.               *)

LEMMA DraftCarriesJobExpiryStep ==
  ASSUME TypeOK, DraftCarriesJobExpiry, NEW t \in Txn, Acts(t)
  PROVE  DraftCarriesJobExpiry'
<1> DEFINE Carries(u) ==
       /\ \A m \in moves[u] : m.exp # NoExpiry =>
            pc[u] \in {"audit", "commit"} /\ m.exp = job[u].exp /\ m.key \in KeysOf(job[u])
       /\ \A p \in rest[u] : p.exp = NoExpiry /\ p.kind = "adjust"
       /\ (pc[u] \in PostingPC /\ rest[u] # {}) =>
            job[u].exp = NoExpiry /\ job[u].kind = "adjust"
<1>1. ASSUME NEW u \in Txn, u # t PROVE Carries(u)'
  BY <1>1, OthersUntouched DEF DraftCarriesJobExpiry, KeysOf, FromKey, ToKey
<1>2. Carries(t)'
  <2>0. Carries(t)
    BY DEF DraftCarriesJobExpiry
  <2> HIDE DEF Carries
  <2> USE DEF TypeOK, PostingPC
  <2>1. CASE Start(t)
    BY <2>0, <2>1, StartOpens DEF Opened, Begin, Carries
  <2>2. CASE Rollback(t) \/ Commit(t) \/ OverwriteBalance(t)
    BY <2>2 DEF Rollback, Commit, OverwriteBalance, Release, Carries
  <2>3. CASE ApplyDelta(t)
    <3>1. \A m \in RowsOf(t) : m.exp = job[t].exp /\ m.key \in KeysOf(job[t])
      BY <2>3, RowsTyped DEF ApplyDelta
    <3>2. \A m \in moves[t] : m.exp = NoExpiry
      BY <2>0, <2>3 DEF ApplyDelta, Carries
    <3>3. moves'[t] = moves[t] \cup RowsOf(t) /\ job' = job /\ rest' = rest /\ pc'[t] = "audit"
          /\ pc[t] = "apply"
      BY <2>3 DEF ApplyDelta, Goto
    <3>4. KeysOf(job[t])' = KeysOf(job[t])
      BY <3>3 DEF KeysOf, FromKey, ToKey
    <3> QED  BY <2>0, <3>1, <3>2, <3>3, <3>4 DEF Carries
  <2>4. CASE WriteAuditRow(t)
    <3>1. moves' = moves /\ pc[t] = "audit"
      BY <2>4 DEF WriteAuditRow, draft
    <3>2. CASE rest[t] = {} /\ Goto(t, "commit") /\ UNCHANGED <<job, rest>>
      <4>1. KeysOf(job[t])' = KeysOf(job[t]) /\ pc'[t] = "commit"
        BY <3>2 DEF KeysOf, FromKey, ToKey, Goto
      <4> QED  BY <2>0, <3>1, <3>2, <4>1 DEF Carries
    <3>3. CASE \E p \in rest[t] : /\ Goto(t, "rebuild")
                                 /\ job' = [job EXCEPT ![t] = p]
                                 /\ rest' = [rest EXCEPT ![t] = @ \ {p}]
      <4>1. PICK p \in rest[t] : job'[t] = p /\ rest'[t] = rest[t] \ {p}
        BY <3>3
      <4>2. \A m \in moves[t] : m.exp = NoExpiry
        BY <2>0, <3>1, <3>3 DEF Carries
      <4> QED  BY <2>0, <3>1, <4>1, <4>2 DEF Carries
    <3> QED  BY <2>4, <3>2, <3>3 DEF WriteAuditRow
  <2>5. CASE AssertBatchExpiry(t)
    <3>1. /\ moves' = moves /\ rest' = rest /\ pc[t] = "expiry" /\ pc'[t] = "row"
          /\ job'[t] = Carrying(job[t], CarriedExpiry(t))
      BY <2>5 DEF AssertBatchExpiry, Goto, draft
    <3>2. rest[t] # {} => job[t].kind = "adjust"
      BY <2>0, <3>1 DEF Carries
    <3> QED  BY <2>0, <3>1, <3>2 DEF Carries, Carrying, CarriedExpiry
  <2>6. CASE \/ LockRebuildKeyShared(t) \/ LockLocation(t) \/ CheckLimits(t)
             \/ LockBatchExpiry(t) \/ LockBalanceRow(t) \/ LockRebuildKeyExclusive(t)
             \/ FoldLedger(t)
    <3>1. moves' = moves /\ rest' = rest /\ job' = job /\ pc[t] \notin {"audit", "commit"}
      BY <2>6 DEF LockRebuildKeyShared, LockLocation, CheckLimits, LockBatchExpiry,
                  LockBalanceRow, LockRebuildKeyExclusive, FoldLedger, draft
    <3>2. pc'[t] \in PostingPC => pc[t] \in PostingPC
      BY <2>6 DEF LockRebuildKeyShared, LockLocation, CheckLimits, LockBatchExpiry,
                  LockBalanceRow, LockRebuildKeyExclusive, FoldLedger, Goto
    <3> QED  BY <2>0, <3>1, <3>2 DEF Carries
  <2> QED
    BY <2>1, <2>2, <2>3, <2>4, <2>5, <2>6, EndsInRollback DEF Acts, Step
<1> HIDE DEF Carries
<1>3. DraftCarriesJobExpiry' <=> \A u \in Txn : Carries(u)'
  BY DEF DraftCarriesJobExpiry, Carries
<1> QED  BY <1>1, <1>2, <1>3

LEMMA LedgerGrows ==
  ASSUME TypeOK, NEW t \in Txn, Acts(t)
  PROVE  ledger \subseteq ledger'
  BY StockUntouched DEF Commit, OverwriteBalance

LEMMA ReversesLedgerRowStep ==
  ASSUME TypeOK, DraftCarriesJobExpiry, ReversesLedgerRow, NEW t \in Txn, Acts(t)
  PROVE  ReversesLedgerRow'
<1> SUFFICES ASSUME NEW u \in Txn, pc'[u] \in PostingPC, job'[u].kind = "reverse"
             PROVE  \E m \in ledger' : job'[u] = Reversal(m)
  BY DEF ReversesLedgerRow, Reversal
<1>0. (pc[u] \in PostingPC /\ job[u] = job'[u]) => \E m \in ledger' : job'[u] = Reversal(m)
  BY LedgerGrows DEF ReversesLedgerRow
<1>1. CASE u # t
  BY <1>0, <1>1, OthersUntouched
<1>2. CASE u = t
  <2> USE DEF TypeOK, PostingPC
  <2>1. CASE Start(t)
    <3>1. pc'[t] = "rebuild" => \E m \in ledger : job'[t] = Reversal(m)
      BY <1>2, <2>1, StartOpens DEF Opened, Begin
    <3>2. pc'[t] = "rebuild"
      BY <1>2, <2>1, StartOpens DEF Opened, Begin
    <3> QED  BY <1>2, <3>1, <3>2, LedgerGrows
  <2>2. CASE Rollback(t) \/ Commit(t) \/ OverwriteBalance(t)
    BY <1>2, <2>2 DEF Rollback, Commit, OverwriteBalance, Release
  <2>3. CASE AssertBatchExpiry(t)
    <3>1. /\ pc[t] = "expiry" /\ job'[t] = Carrying(job[t], CarriedExpiry(t))
          /\ job[t] \in Posting
      BY <2>3 DEF AssertBatchExpiry, JobFitsStatement
    <3>2. job[t].kind = "reverse" /\ CarriedExpiry(t) = job[t].exp
      BY <1>2, <3>1 DEF Carrying, CarriedExpiry
    <3>3. job'[t] = job[t]
      BY <3>1, <3>2 DEF Carrying, Posting, Entry
    <3> QED  BY <1>0, <1>2, <3>1, <3>3
  <2>4. CASE WriteAuditRow(t)
    <3>1. pc[t] = "audit" /\ (job' = job \/ \E p \in rest[t] : job'[t] = p)
      BY <2>4 DEF WriteAuditRow
    <3>2. \A p \in rest[t] : p.kind = "adjust"
      BY DEF DraftCarriesJobExpiry
    <3> QED  BY <1>0, <1>2, <3>1, <3>2
  <2>5. CASE \/ LockRebuildKeyShared(t) \/ LockLocation(t) \/ CheckLimits(t)
             \/ LockBatchExpiry(t) \/ LockBalanceRow(t) \/ ApplyDelta(t)
    BY <1>0, <1>2, <2>5
       DEF LockRebuildKeyShared, LockLocation, CheckLimits, LockBatchExpiry,
           LockBalanceRow, ApplyDelta
  <2>6. CASE LockRebuildKeyExclusive(t) \/ FoldLedger(t)
    BY <1>2, <2>6 DEF LockRebuildKeyExclusive, FoldLedger, Goto
  <2> QED
    BY <2>1, <2>2, <2>3, <2>4, <2>5, <2>6, EndsInRollback DEF Acts, Step
<1> QED  BY <1>1, <1>2

(* What a commit does to the expiry column. *)
LEMMA CommitStamps ==
  ASSUME TypeOK, ExpiryIsAgreed, NEW t \in Txn, Commit(t)
  PROVE  /\ job[t] \in Posting
         /\ \A k \in Key : expiry'[k] = IF k \in KeysOf(job[t]) /\ expiry[k] = NoExpiry
                                         THEN job[t].exp ELSE expiry[k]
         /\ job[t].exp # NoExpiry =>
              /\ BatchLock(job[t].sku, job[t].batch) \in holds[t]
              /\ \A k \in Key : SameBatch(k, job[t]) => expiry[k] \in {NoExpiry, job[t].exp}
<1>1. pc[t] = "commit" /\ expiry' = Stamped(job[t])
  BY DEF Commit
<1> QED  BY <1>1 DEF Stamped, TypeOK, JobFitsStatement, PostingPC, ExpiryIsAgreed

LEMMA LedgerExpiryOnBalanceStep ==
  ASSUME TypeOK, ExpiryIsAgreed, DraftCarriesJobExpiry, LedgerExpiryOnBalance,
         NEW t \in Txn, Acts(t)
  PROVE  LedgerExpiryOnBalance'
<1> SUFFICES ASSUME NEW m \in ledger', m.exp # NoExpiry
             PROVE  expiry'[m.key] = m.exp
  BY DEF LedgerExpiryOnBalance
<1>1. CASE Commit(t)
  <2>1. m \in ledger \/ m \in moves[t]
    BY <1>1 DEF Commit
  <2>2. m.key \in Key
    BY <2>1 DEF TypeOK, Movement
  <2>3. CASE m \in ledger
    BY <1>1, <2>2, <2>3, CommitStamps DEF LedgerExpiryOnBalance
  <2>4. CASE m \in moves[t]
    <3>1. m.exp = job[t].exp /\ m.key \in KeysOf(job[t])
      BY <2>4 DEF DraftCarriesJobExpiry
    <3>2. SameBatch(m.key, job[t])
      BY <1>1, <3>1, CommitStamps, KeysOfPosting
    <3> QED  BY <1>1, <2>2, <3>1, <3>2, CommitStamps
  <2> QED  BY <2>1, <2>3, <2>4
<1>2. CASE OverwriteBalance(t)
  <2>1. m \in ledger /\ m.key \in Key
    BY <1>2 DEF OverwriteBalance, TypeOK, Movement
  <2>2. m.key \notin Deleted(t)
    BY <2>1 DEF Deleted, HasMoved
  <2> QED  BY <1>2, <2>1, <2>2 DEF OverwriteBalance, LedgerExpiryOnBalance
<1>3. CASE ~Commit(t) /\ ~OverwriteBalance(t)
  BY <1>3, StockUntouched DEF LedgerExpiryOnBalance
<1> QED  BY <1>1, <1>2, <1>3

LEMMA OneExpiryPerBatchStep ==
  ASSUME TypeOK, ExpiryIsAgreed, OneExpiryPerBatch, NEW t \in Txn, Acts(t)
  PROVE  OneExpiryPerBatch'
<1> SUFFICES ASSUME NEW j \in Key, NEW k \in Key, j[1] = k[1], j[3] = k[3],
                    expiry'[j] # NoExpiry, expiry'[k] # NoExpiry
             PROVE  expiry'[j] = expiry'[k]
  BY DEF OneExpiryPerBatch
<1>1. CASE Commit(t)
  <2>1. \A i \in KeysOf(job[t]) : SameBatch(i, job[t])
    BY <1>1, CommitStamps, KeysOfPosting
  <2>2. SameBatch(j, job[t]) <=> SameBatch(k, job[t])
    BY DEF SameBatch
  <2>3. CASE job[t].exp # NoExpiry /\ SameBatch(j, job[t])
    BY <1>1, <2>2, <2>3, CommitStamps
  <2>4. CASE job[t].exp = NoExpiry \/ ~SameBatch(j, job[t])
    BY <1>1, <2>1, <2>2, <2>4, CommitStamps DEF OneExpiryPerBatch
  <2> QED  BY <2>3, <2>4
<1>2. CASE OverwriteBalance(t)
  BY <1>2 DEF OverwriteBalance, OneExpiryPerBatch
<1>3. CASE ~Commit(t) /\ ~OverwriteBalance(t)
  BY <1>3, StockUntouched DEF OneExpiryPerBatch
<1> QED  BY <1>1, <1>2, <1>3

(* A reversal carries the expiry its ledger row has, which the balance row *)
(* still records and the whole batch agrees with.                          *)
LEMMA ReversalAgrees ==
  ASSUME TypeOK, ReversesLedgerRow, LedgerExpiryOnBalance, OneExpiryPerBatch,
         NEW t \in Txn, pc[t] \in PostingPC, job[t].kind = "reverse", job[t].exp # NoExpiry
  PROVE  \A k \in Key : SameBatch(k, job[t]) => expiry[k] \in {NoExpiry, job[t].exp}
<1>1. PICK m \in ledger : job[t] = Reversal(m)
  BY DEF ReversesLedgerRow
<1>2. m \in Movement /\ m.key \in Key
  BY <1>1 DEF TypeOK, Movement
<1>3. expiry[m.key] = job[t].exp
  BY <1>1, <1>2, ReversalPosting DEF LedgerExpiryOnBalance
<1>4. SameBatch(m.key, job[t])
  BY <1>1, <1>2 DEF SameBatch, Reversal
<1> QED  BY <1>2, <1>3, <1>4 DEF OneExpiryPerBatch, SameBatch

LEMMA ExpiryIsAgreedStep ==
  ASSUME TypeOK, LockExclusion, HoldsItsLocks, ExpiryIsAgreed, DraftCarriesJobExpiry,
         ReversesLedgerRow, LedgerExpiryOnBalance, OneExpiryPerBatch, NEW t \in Txn, Acts(t)
  PROVE  ExpiryIsAgreed'
<1> DEFINE Stamping == {"row", "apply", "audit", "commit"}
<1> SUFFICES ASSUME NEW u \in Txn, pc'[u] \in Stamping, job'[u].exp # NoExpiry
             PROVE  /\ BatchLock(job'[u].sku, job'[u].batch) \in holds'[u]
                    /\ \A k \in Key : SameBatch(k, job'[u]) => expiry'[k] \in {NoExpiry, job'[u].exp}
  BY DEF ExpiryIsAgreed, SameBatch
<1>1. CASE u # t
  <2>1. /\ pc[u] \in Stamping /\ job'[u] = job[u] /\ holds'[u] = holds[u] /\ job[u].exp # NoExpiry
    BY <1>1, OthersUntouched
  <2>2. /\ BatchLock(job[u].sku, job[u].batch) \in holds[u]
        /\ \A k \in Key : SameBatch(k, job[u]) => expiry[k] \in {NoExpiry, job[u].exp}
    BY <2>1 DEF ExpiryIsAgreed
  <2>3. CASE Commit(t)
    <3>1. SUFFICES ASSUME NEW k \in Key, SameBatch(k, job[u])
                   PROVE  expiry'[k] \in {NoExpiry, job[u].exp}
      BY <2>1, <2>2
    <3>2. CASE SameBatch(k, job[t]) /\ job[t].exp # NoExpiry
      <4>1. BatchLock(job[t].sku, job[t].batch) = BatchLock(job[u].sku, job[u].batch)
        BY <3>1, <3>2 DEF SameBatch
      <4> QED  BY <1>1, <2>2, <2>3, <3>2, <4>1, CommitStamps DEF LockExclusion
    <3>3. CASE ~(SameBatch(k, job[t]) /\ job[t].exp # NoExpiry)
      <4>1. k \in KeysOf(job[t]) => SameBatch(k, job[t])
        BY <2>3, CommitStamps, KeysOfPosting
      <4> QED  BY <2>2, <2>3, <3>1, <3>3, <4>1, CommitStamps
    <3> QED  BY <3>2, <3>3
  <2>4. CASE OverwriteBalance(t)
    BY <2>1, <2>2, <2>4 DEF OverwriteBalance
  <2>5. CASE ~Commit(t) /\ ~OverwriteBalance(t)
    BY <2>1, <2>2, <2>5, StockUntouched
  <2> QED  BY <2>3, <2>4, <2>5
<1>2. CASE u = t
  <2> USE DEF TypeOK, PostingPC
  <2>1. CASE Start(t) \/ Rollback(t) \/ Commit(t) \/ OverwriteBalance(t)
    BY <1>2, <2>1, StartOpens DEF Opened, Begin, Rollback, Commit, OverwriteBalance, Release
  <2>2. CASE LockRebuildKeyShared(t) \/ CheckLimits(t)
    <3>1. job' = job /\ pc'[t] \in {"location", AfterLimits(job[t])}
      BY <2>2 DEF LockRebuildKeyShared, CheckLimits, Goto
    <3> QED  BY <1>2, <3>1 DEF AfterLimits
  <2>3. CASE AssertBatchExpiry(t)
    <3>1. /\ pc[t] = "expiry" /\ BatchExpiryConsistent(t) /\ holds' = holds /\ expiry' = expiry
          /\ job'[t] = Carrying(job[t], CarriedExpiry(t)) /\ job[t] \in Posting
      BY <2>3 DEF AssertBatchExpiry, JobFitsStatement, locks, stock
    <3>2. /\ job'[t].sku = job[t].sku /\ job'[t].batch = job[t].batch
          /\ job'[t].exp = CarriedExpiry(t)
      BY <3>1 DEF Carrying
    <3>3. BatchLock(job'[t].sku, job'[t].batch) \in holds'[t]
      BY <3>1, <3>2 DEF HoldsItsLocks
    <3>4. \A k \in Key : SameBatch(k, job[t]) => expiry[k] \in {NoExpiry, CarriedExpiry(t)}
      <4>1. CASE job[t].kind = "reverse"
        BY <1>2, <3>1, <3>2, <4>1, ReversalAgrees DEF CarriedExpiry
      <4>2. CASE job[t].kind # "reverse"
        BY <1>2, <3>1, <3>2, <4>2 DEF BatchExpiryConsistent
      <4> QED  BY <4>1, <4>2
    <3> QED  BY <1>2, <3>1, <3>2, <3>3, <3>4 DEF SameBatch
  <2>4. CASE LockBalanceRow(t) \/ ApplyDelta(t)
    <3>1. /\ job' = job /\ pc[t] \in Stamping /\ holds[t] \subseteq holds'[t] /\ expiry' = expiry
      BY <2>4 DEF LockBalanceRow, ApplyDelta, Grab, stock, locks
    <3> QED  BY <1>2, <3>1 DEF ExpiryIsAgreed
  <2>5. CASE WriteAuditRow(t)
    <3>1. pc[t] = "audit" /\ holds[t] \subseteq holds'[t] /\ expiry' = expiry
          /\ (job' = job \/ pc'[t] = "rebuild")
      BY <2>5 DEF WriteAuditRow, Grab, Goto, stock
    <3> QED  BY <1>2, <3>1 DEF ExpiryIsAgreed
  <2>6. CASE \/ LockLocation(t) \/ LockBatchExpiry(t) \/ LockRebuildKeyExclusive(t) \/ FoldLedger(t)
    BY <1>2, <2>6 DEF LockLocation, LockBatchExpiry, LockRebuildKeyExclusive, FoldLedger, Goto
  <2> QED
    BY <2>1, <2>2, <2>3, <2>4, <2>5, <2>6, EndsInRollback DEF Acts, Step
<1> QED  BY <1>1, <1>2

-----------------------------------------------------------------------------
(* The inductive invariant and the theorems.                               *)

LEMMA InvInit == Init => IInv
<1> SUFFICES ASSUME Init PROVE IInv
  OBVIOUS
<1>1. TypeOK
  BY TypeInit
<1>2. LockExclusion /\ HoldsItsLocks /\ DraftIsLocked /\ NoNegativeStock
  BY DEF Init, LockExclusion, HoldsItsLocks, DraftIsLocked, NoNegativeStock, PostingPC
<1>3. ExpiryIsAgreed /\ DraftCarriesJobExpiry /\ ReversesLedgerRow
  BY DEF Init, ExpiryIsAgreed, DraftCarriesJobExpiry, ReversesLedgerRow, PostingPC
<1>4. LedgerExpiryOnBalance /\ OneExpiryPerBatch
  BY DEF Init, LedgerExpiryOnBalance, OneExpiryPerBatch
<1> QED  BY <1>1, <1>2, <1>3, <1>4 DEF IInv

LEMMA InvNext == IInv /\ [Next]_vars => IInv'
<1> SUFFICES ASSUME IInv, [Next]_vars PROVE IInv'
  OBVIOUS
<1> USE DEF IInv
<1>1. TypeOK'
  BY TypeNext
<1>2. CASE UNCHANGED vars
  BY <1>1, <1>2
     DEF vars, LockExclusion, HoldsItsLocks, DraftIsLocked, NoNegativeStock, ExpiryIsAgreed,
         DraftCarriesJobExpiry, ReversesLedgerRow, LedgerExpiryOnBalance, OneExpiryPerBatch,
         KeysOf, FromKey, ToKey
<1>3. ASSUME NEW t \in Txn, Acts(t) PROVE IInv'
  BY <1>1, <1>3, LockExclusionStep, HoldsItsLocksStep, DraftIsLockedStep, NoNegativeStockStep,
     ExpiryIsAgreedStep, DraftCarriesJobExpiryStep, ReversesLedgerRowStep,
     LedgerExpiryOnBalanceStep, OneExpiryPerBatchStep
<1> QED  BY <1>2, <1>3 DEF Next, Acts

(* Every reachable state satisfies the inductive invariant. *)
THEOREM StockInvariant == Spec => []IInv
  BY InvInit, InvNext, PTL DEF Spec

(* The tables and the transactions keep their types: in particular no step *)
(* of a rebuild ever runs on a posting or the reverse.                     *)
THEOREM StockTypeCorrect == Spec => []TypeOK
<1>1. IInv => TypeOK
  BY DEF IInv
<1> QED  BY <1>1, StockInvariant, PTL

(* No two transactions hold one lock in modes that exclude each other. *)
THEOREM StockLocksExclude == Spec => []LockExclusion
<1>1. IInv => LockExclusion
  BY DEF IInv
<1> QED  BY <1>1, StockInvariant, PTL

(* qty_on_hand never goes below zero, drafts of running transactions       *)
(* included: the row lock and the shared rebuild lock cover every draft.   *)
THEOREM StockNeverNegative == Spec => []NoNegativeStock
<1>1. IInv => NoNegativeStock
  BY DEF IInv
<1> QED  BY <1>1, StockInvariant, PTL

(* D-204 for any number of sessions, locations and expiry dates: all       *)
(* balance rows of a batch agree on its expiry.                            *)
THEOREM BatchHasOneExpiry == Spec => []OneExpiryPerBatch
<1>1. IInv => OneExpiryPerBatch
  BY DEF IInv
<1> QED  BY <1>1, StockInvariant, PTL

(* The expiry a ledger row was posted with is the one its balance row      *)
(* still shows, rebuilds and reversals notwithstanding.                    *)
THEOREM LedgerExpiryKept == Spec => []LedgerExpiryOnBalance
<1>1. IInv => LedgerExpiryOnBalance
  BY DEF IInv
<1> QED  BY <1>1, StockInvariant, PTL

(* Expiry dates agree, for any number of sessions, locations and dates.    *)
THEOREM ExpiriesAgree == Spec => []BatchExpiryAgrees
<1> QED  BY BatchHasOneExpiry, LedgerExpiryKept, PTL DEF BatchExpiryAgrees

-----------------------------------------------------------------------------
(* The fold of a set of ledger rows.                                       *)

LEMMA FoldTyped ==
  ASSUME NEW rows \in SUBSET Movement, IsFiniteSet(rows), NEW k
  PROVE  Fold(rows, k) \in Int
<1>1. IsFiniteSet({m \in rows : m.key = k})
  BY FS_Subset
<1>2. \A m \in {n \in rows : n.key = k} : [n \in rows |-> n.qty][m] \in Int
  BY DEF Movement
<1> QED  BY <1>1, <1>2, SumIsInt DEF Fold

(* Only the rows of the key count. *)
LEMMA FoldOfSameRows ==
  ASSUME NEW rows, NEW more, NEW k, IsFiniteSet(rows),
         {m \in rows : m.key = k} = {m \in more : m.key = k}
  PROVE  Fold(rows, k) = Fold(more, k)
<1> DEFINE S == {m \in rows : m.key = k}
           f == [m \in rows |-> m.qty]
           e == [m \in more |-> m.qty]
<1>1. IsFiniteSet(S)
  BY FS_Subset
<1>2. \A m \in S : f[m] = e[m]
  OBVIOUS
<1>3. Fold(rows, k) = SumFunctionOnSet(f, S) /\ Fold(more, k) = SumFunctionOnSet(e, S)
  BY DEF Fold
<1> HIDE DEF S, f, e
<1> QED  BY <1>1, <1>2, <1>3, SumOfEquals

LEMMA FoldOfNone ==
  ASSUME NEW rows, NEW k, \A m \in rows : m.key # k
  PROVE  Fold(rows, k) = 0
<1>1. {m \in rows : m.key = k} = {}
  OBVIOUS
<1> QED  BY <1>1, SumOfNone DEF Fold

LEMMA FoldOfUnion ==
  ASSUME NEW rows \in SUBSET Movement, NEW more \in SUBSET Movement,
         IsFiniteSet(rows), IsFiniteSet(more), rows \cap more = {}, NEW k
  PROVE  Fold(rows \cup more, k) = Fold(rows, k) + Fold(more, k)
<1> DEFINE S == {m \in rows : m.key = k}
           T == {m \in more : m.key = k}
           f == [m \in rows \cup more |-> m.qty]
           e == [m \in rows |-> m.qty]
           g == [m \in more |-> m.qty]
<1>1. IsFiniteSet(S) /\ IsFiniteSet(T) /\ S \cap T = {}
  BY FS_Subset
<1>2. /\ \A m \in S : f[m] = e[m]
      /\ \A m \in T : f[m] = g[m]
      /\ \A m \in S \cup T : f[m] \in Int
  BY DEF Movement
<1>3. {m \in rows \cup more : m.key = k} = S \cup T
  OBVIOUS
<1>4. /\ Fold(rows \cup more, k) = SumFunctionOnSet(f, S \cup T)
      /\ Fold(rows, k) = SumFunctionOnSet(e, S) /\ Fold(more, k) = SumFunctionOnSet(g, T)
  BY <1>3 DEF Fold
<1> HIDE DEF S, T, f, e, g
<1>5. SumFunctionOnSet(f, S \cup T) = SumFunctionOnSet(f, S) + SumFunctionOnSet(f, T)
  BY <1>1, <1>2, SumOfUnion
<1>6. SumFunctionOnSet(f, S) = SumFunctionOnSet(e, S)
  BY <1>1, <1>2, SumOfEquals
<1>7. SumFunctionOnSet(f, T) = SumFunctionOnSet(g, T)
  BY <1>1, <1>2, SumOfEquals
<1> QED  BY <1>4, <1>5, <1>6, <1>7

LEMMA FoldOfOne ==
  ASSUME NEW m \in Movement
  PROVE  /\ Fold({m}, m.key) = m.qty
         /\ \A k : k # m.key => Fold({m}, k) = 0
<1> DEFINE f == [n \in {m} |-> n.qty]
<1>1. {n \in {m} : n.key = m.key} = {m} /\ IsFiniteSet({m}) /\ {m} \ {m} = {}
  BY FS_Singleton
<1>2. f[m] = m.qty /\ m.qty \in Int
  BY DEF Movement
<1>3. Fold({m}, m.key) = SumFunctionOnSet(f, {m})
  BY <1>1 DEF Fold
<1>5. \A k : k # m.key => Fold({m}, k) = 0
  BY FoldOfNone
<1> HIDE DEF f
<1>4. SumFunctionOnSet(f, {m}) = f[m] + SumFunctionOnSet(f, {m} \ {m})
  BY <1>1, <1>2, SumTakesOne
<1>6. SumFunctionOnSet(f, {m} \ {m}) = 0
  BY <1>1, SumOfNone
<1>7. Fold({m}, m.key) = m.qty
  BY <1>2, <1>3, <1>4, <1>6
<1> QED  BY <1>5, <1>7

(* The rows of the posting at work add up to what it does to a key. *)
LEMMA FoldOfRows ==
  ASSUME TypeOK, NEW t \in Txn, pc[t] = "apply", NEW k \in Key
  PROVE  IsFiniteSet(RowsOf(t)) /\ Fold(RowsOf(t), k) = SignedQty(job[t], k)
<1> DEFINE p == job[t]
           out == Row(t, FromKey(p), -p.qty)
           in == Row(t, ToKey(p), p.qty)
<1>1. p \in Posting /\ p.qty \in Nat /\ p.qty # 0 /\ RowsOf(t) \subseteq Movement
  BY RowsTyped DEF TypeOK, JobFitsStatement, PostingPC, Posting, Entry
<1>2. /\ out.key = FromKey(p) /\ out.qty = -p.qty /\ in.key = ToKey(p) /\ in.qty = p.qty
      /\ out # in
  <2>1. out.key = FromKey(p) /\ out.qty = -p.qty /\ in.key = ToKey(p) /\ in.qty = p.qty
    BY DEF Row
  <2>2. p.qty # -p.qty
    BY <1>1
  <2> QED  BY <2>1, <2>2
<1>3. RowsOf(t) = (IF p.from # NoLocation THEN {out} ELSE {}) \cup (IF p.to # NoLocation THEN {in} ELSE {})
  BY DEF RowsOf
<1>4. /\ p.from # NoLocation => out \in Movement
      /\ p.to # NoLocation => in \in Movement
  <2> HIDE DEF p, out, in
  <2> QED  BY <1>1, <1>3
<1> HIDE DEF p, out, in
<1>5. /\ p.from # NoLocation => Fold({out}, k) = IF k = FromKey(p) THEN -p.qty ELSE 0
      /\ p.to # NoLocation => Fold({in}, k) = IF k = ToKey(p) THEN p.qty ELSE 0
  BY <1>2, <1>4, FoldOfOne
<1>6. IsFiniteSet({out}) /\ IsFiniteSet({in}) /\ IsFiniteSet({}) /\ IsFiniteSet({out} \cup {in})
  BY FS_Singleton, FS_EmptySet, FS_Union
<1>7. CASE p.from # NoLocation /\ p.to # NoLocation
  <2>1. RowsOf(t) = {out} \cup {in} /\ {out} \cap {in} = {}
    BY <1>2, <1>3, <1>7
  <2>2. Fold({out} \cup {in}, k) = Fold({out}, k) + Fold({in}, k)
    <3>1. {out} \in SUBSET Movement /\ {in} \in SUBSET Movement
      BY <1>4, <1>7
    <3> QED  BY <1>6, <2>1, <3>1, FoldOfUnion, ZenonT(30)
  <2>3. Fold({out} \cup {in}, k)
          = (IF k = FromKey(p) THEN -p.qty ELSE 0) + (IF k = ToKey(p) THEN p.qty ELSE 0)
    BY <1>5, <1>7, <2>2
  <2>4. SignedQty(p, k) = (IF k = ToKey(p) THEN p.qty ELSE 0) - (IF k = FromKey(p) THEN p.qty ELSE 0)
    BY <1>7 DEF SignedQty
  <2>5. (IF k = FromKey(p) THEN -p.qty ELSE 0) + (IF k = ToKey(p) THEN p.qty ELSE 0)
          = (IF k = ToKey(p) THEN p.qty ELSE 0) - (IF k = FromKey(p) THEN p.qty ELSE 0)
    BY <1>1
  <2> QED  BY <1>6, <2>1, <2>3, <2>4, <2>5 DEF p
<1>8. CASE p.from # NoLocation /\ p.to = NoLocation
  <2>1. RowsOf(t) = {out}
    BY <1>3, <1>8
  <2> QED  BY <1>1, <1>5, <1>6, <1>8, <2>1 DEF SignedQty, p
<1>9. CASE p.from = NoLocation /\ p.to # NoLocation
  <2>1. RowsOf(t) = {in}
    BY <1>3, <1>9
  <2> QED  BY <1>1, <1>5, <1>6, <1>9, <2>1 DEF SignedQty, p
<1>10. p.from # NoLocation \/ p.to # NoLocation
  BY <1>1 DEF Posting
<1> QED  BY <1>7, <1>8, <1>9, <1>10

(* The keys of the rows of a posting are its keys. *)
LEMMA RowsOfKeys ==
  ASSUME TypeOK, NEW t \in Txn, pc[t] = "apply"
  PROVE  /\ \A k \in KeysOf(job[t]) : \E m \in RowsOf(t) : m.key = k /\ m.exp = job[t].exp
         /\ \A m \in RowsOf(t) : m.by = t /\ m.round = round[t]
         /\ job[t].kind # "transfer" => \A m, n \in RowsOf(t) : m.key = n.key => m = n
<1> DEFINE p == job[t]
<1>1. p \in Posting
  BY DEF TypeOK, JobFitsStatement, PostingPC
<1>2. \A k, q : /\ Row(t, k, q).key = k /\ Row(t, k, q).exp = p.exp
                /\ Row(t, k, q).by = t /\ Row(t, k, q).round = round[t]
  BY DEF Row
<1>3. \A k \in KeysOf(p) : \E m \in RowsOf(t) : m.key = k /\ m.exp = p.exp
  BY <1>2 DEF RowsOf, KeysOf
<1>4. p.kind # "transfer" => (p.from = NoLocation) # (p.to = NoLocation)
  BY <1>1 DEF Posting
<1>5. p.kind # "transfer" => \A m, n \in RowsOf(t) : m = n
  BY <1>4 DEF RowsOf
<1>6. \A m \in RowsOf(t) : m.by = t /\ m.round = round[t]
  BY <1>2 DEF RowsOf
<1> QED  BY <1>3, <1>5, <1>6
-----------------------------------------------------------------------------
(* More frames: how a transaction ends, and what its other steps keep.     *)

LEMMA EndsClean ==
  ASSUME TypeOK, NEW t \in Txn, Rollback(t) \/ Commit(t) \/ OverwriteBalance(t)
  PROVE  /\ pc'[t] = "idle" /\ rest'[t] = {} /\ moves'[t] = {}
         /\ delta'[t] = [k \in Key |-> 0] /\ holds'[t] = {} /\ shares'[t] = {}
  BY DEF Rollback, Commit, OverwriteBalance, Release, TypeOK

LEMMA DraftKept ==
  ASSUME TypeOK, NEW t \in Txn, Acts(t),
         ~ApplyDelta(t), ~Rollback(t), ~Commit(t), ~OverwriteBalance(t)
  PROVE  /\ moves' = moves /\ delta' = delta /\ round' = round
         /\ holds[t] \subseteq holds'[t] /\ shares[t] \subseteq shares'[t]
<1>1. CASE Start(t)
  BY <1>1, StartOpens DEF Opened, Begin
<1>2. CASE ~Start(t)
  <2>1. moves' = moves /\ delta' = delta /\ round' = round
    BY <1>2, EndsInRollback
       DEF Acts, Step, LockRebuildKeyShared, LockLocation, CheckLimits, LockBatchExpiry,
           AssertBatchExpiry, LockBalanceRow, WriteAuditRow, LockRebuildKeyExclusive,
           FoldLedger, draft
  <2>2. holds[t] \subseteq holds'[t] /\ shares[t] \subseteq shares'[t]
    BY <1>2, EndsInRollback
       DEF Acts, Step, LockRebuildKeyShared, LockLocation, CheckLimits, LockBatchExpiry,
           AssertBatchExpiry, LockBalanceRow, WriteAuditRow, LockRebuildKeyExclusive,
           FoldLedger, Grab, Share, locks, TypeOK
  <2> QED  BY <2>1, <2>2
<1> QED  BY <1>1, <1>2

(* What applying a posting does to its transaction. *)
LEMMA DraftGrows ==
  ASSUME TypeOK, NEW t \in Txn, ApplyDelta(t)
  PROVE  /\ pc[t] = "apply" /\ pc'[t] = "audit"
         /\ moves'[t] = moves[t] \cup RowsOf(t)
         /\ delta'[t] = [k \in Key |-> delta[t][k] + SignedQty(job[t], k)]
         /\ job' = job /\ rest' = rest /\ holds' = holds /\ shares' = shares /\ round' = round
         /\ ledger' = ledger /\ onHand' = onHand /\ expiry' = expiry
         /\ job[t] \in Posting
  BY DEF ApplyDelta, Goto, TypeOK, stock, locks, JobFitsStatement, PostingPC

-----------------------------------------------------------------------------
(* The second layer of the invariant: what the drafts of the running       *)
(* transactions have to do with the ledger, the balances and the limits.   *)

TablesFinite == IsFiniteSet(ledger) /\ \A t \in Txn : IsFiniteSet(moves[t])

(* A drafted row bears the number of the transaction that will commit it,  *)
(* a committed row that of one which is over.                              *)
RowsAreNew ==
  /\ \A m \in ledger : m.round < round[m.by]
  /\ \A t \in Txn : \A m \in moves[t] : m.by = t /\ m.round = round[t]

(* The lines of a count, posted, at work and to come, are of different keys. *)
LinesAreApart ==
  \A t \in Txn :
    /\ \A p, q \in rest[t] : p # q => KeysOf(p) \cap KeysOf(q) = {}
    /\ \A m \in moves[t], p \in rest[t] : m.key \notin KeysOf(p)
    /\ pc[t] \in PostingPC => \A p \in rest[t] : KeysOf(p) \cap KeysOf(job[t]) = {}
    /\ pc[t] \in PostingPC \ {"audit", "commit"} => \A m \in moves[t] : m.key \notin KeysOf(job[t])

(* Between the balance update and the commit, every key of the posting has *)
(* its row among the drafted ones.                                         *)
PostedKeysHaveRows ==
  \A t \in Txn : pc[t] \in {"audit", "commit"} =>
    \A k \in KeysOf(job[t]) : \E m \in moves[t] : m.key = k /\ m.exp = job[t].exp

DraftsAreWellformed ==
  \A t \in Txn :
    /\ pc[t] \notin PostingPC => moves[t] = {} /\ rest[t] = {}
    /\ pc[t] = "commit" => rest[t] = {}
    /\ (pc[t] \in PostingPC /\ job[t].kind = "transfer") =>
         rest[t] = {} /\ moves[t] = IF pc[t] \in {"audit", "commit"} THEN RowsOf(t) ELSE {}
    /\ (pc[t] \in PostingPC /\ job[t].kind # "transfer") =>
         \A m, n \in moves[t] : m.key = n.key => m = n

(* What a transaction added to a balance is the fold of its rows. *)
DraftIsFold == \A t \in Txn, k \in Key : delta[t][k] = Fold(moves[t], k)

RowsAreLocked ==
  \A t \in Txn : \A m \in moves[t] :
    /\ RebuildLock(m.key[1]) \in shares[t]
    /\ m.qty > 0 => LocationLock(m.key[2]) \in holds[t] /\ m.key[2] \in Open

PutAwayIsLocked ==
  \A t \in Txn :
    (pc[t] \in PostingPC \ {"rebuild", "location"} /\ job[t].to # NoLocation) =>
      /\ LocationLock(job[t].to) \in holds[t]
      /\ pc[t] # "limits" => job[t].to \in Open

(* Without its location's lock a transaction brought no stock to a key. *)
BroughtUnderLock ==
  \A t \in Txn, k \in Key : LocationLock(k[2]) \notin holds[t] => delta[t][k] <= 0

(* A rebuild that read the ledger still sees every row of its SKU. *)
FoldIsCurrent ==
  \A t \in Txn : pc[t] = "overwrite" =>
    \A m \in ledger \cup seen[t] : m.key[1] = job[t].sku => m \in ledger /\ m \in seen[t]

UnmovedHasNoExpiry == \A k \in Key : ~HasMoved(ledger, k) => expiry[k] = NoExpiry

(* The weight a put-away passed the limit check with and has not drafted. *)
Incoming(t, l) ==
  IF pc[t] \in {"batch", "expiry", "row", "apply"} /\ job[t].to = l
    THEN job[t].qty * Weight[job[t].sku] ELSE 0

(* Who holds a location's lock leaves it within its limit. *)
CapacityIsKept ==
  \A l \in Location : Capacity[l] # NoLimit =>
    \A t \in Txn : LocationLock(l) \in holds[t] => Load(View(t), l) + Incoming(t, l) <= Capacity[l]

-----------------------------------------------------------------------------
LEMMA TablesFiniteStep ==
  ASSUME TypeOK, TablesFinite, NEW t \in Txn, Acts(t)
  PROVE  TablesFinite'
<1>1. IsFiniteSet(ledger')
  <2>1. CASE Commit(t)
    BY <2>1, FS_Union DEF Commit, TablesFinite
  <2>2. CASE ~Commit(t)
    <3>1. ledger' = ledger
      BY <2>2, StockUntouched DEF OverwriteBalance
    <3> QED  BY <3>1 DEF TablesFinite
  <2> QED  BY <2>1, <2>2
<1>2. ASSUME NEW u \in Txn PROVE IsFiniteSet(moves'[u])
  <2>1. CASE u # t
    BY <2>1, OthersUntouched DEF TablesFinite
  <2>2. CASE u = t /\ ApplyDelta(t)
    <3>1. moves'[t] = moves[t] \cup RowsOf(t)
      BY <2>2, DraftGrows
    <3>2. IsFiniteSet(RowsOf(t))
      BY FS_Singleton, FS_EmptySet, FS_Union DEF RowsOf
    <3> QED  BY <2>2, <3>1, <3>2, FS_Union DEF TablesFinite
  <2>3. CASE u = t /\ (Rollback(t) \/ Commit(t) \/ OverwriteBalance(t))
    BY <2>3, EndsClean, FS_EmptySet
  <2>4. CASE ~ApplyDelta(t) /\ ~Rollback(t) /\ ~Commit(t) /\ ~OverwriteBalance(t)
    BY <2>4, DraftKept DEF TablesFinite
  <2> QED  BY <2>1, <2>2, <2>3, <2>4
<1> QED  BY <1>1, <1>2 DEF TablesFinite

LEMMA RowsAreNewStep ==
  ASSUME TypeOK, RowsAreNew, NEW t \in Txn, Acts(t)
  PROVE  RowsAreNew'
<1>0. \A u \in Txn : round[u] \in Nat
  BY DEF TypeOK
<1>1. \A u \in Txn : round'[u] \in Nat /\ round[u] <= round'[u]
  <2>1. CASE Commit(t) \/ OverwriteBalance(t)
    BY <1>0, <2>1 DEF Commit, OverwriteBalance, TypeOK
  <2>2. CASE ApplyDelta(t) \/ Rollback(t)
    BY <1>0, <2>2 DEF ApplyDelta, Rollback
  <2>3. CASE ~ApplyDelta(t) /\ ~Rollback(t) /\ ~Commit(t) /\ ~OverwriteBalance(t)
    BY <1>0, <2>3, DraftKept
  <2> QED  BY <2>1, <2>2, <2>3
<1>2. ASSUME NEW m \in ledger' PROVE m.round < round'[m.by]
  <2>1. CASE m \in ledger
    <3>1. m.round < round[m.by] /\ m.round \in Nat /\ m.by \in Txn
      BY <2>1 DEF RowsAreNew, TypeOK, Movement
    <3> QED  BY <1>0, <1>1, <3>1
  <2>2. CASE m \notin ledger
    <3>1. Commit(t) /\ m \in moves[t]
      BY <2>2, StockUntouched DEF OverwriteBalance, Commit
    <3>2. m.by = t /\ m.round = round[t]
      BY <3>1 DEF RowsAreNew
    <3>3. round'[t] = round[t] + 1
      BY <3>1 DEF Commit, TypeOK
    <3> QED  BY <1>0, <3>2, <3>3
  <2> QED  BY <2>1, <2>2
<1>3. ASSUME NEW u \in Txn, NEW m \in moves'[u] PROVE m.by = u /\ m.round = round'[u]
  <2>1. CASE u # t
    BY <1>3, <2>1, OthersUntouched DEF RowsAreNew
  <2>2. CASE u = t /\ ApplyDelta(t)
    <3>1. m \in moves[t] \/ m \in RowsOf(t)
      BY <1>3, <2>2, DraftGrows
    <3>2. round' = round /\ pc[t] = "apply"
      BY <2>2, DraftGrows
    <3> QED  BY <2>2, <3>1, <3>2, RowsOfKeys DEF RowsAreNew
  <2>3. CASE u = t /\ (Rollback(t) \/ Commit(t) \/ OverwriteBalance(t))
    BY <1>3, <2>3, EndsClean
  <2>4. CASE ~ApplyDelta(t) /\ ~Rollback(t) /\ ~Commit(t) /\ ~OverwriteBalance(t)
    BY <1>3, <2>4, DraftKept DEF RowsAreNew
  <2> QED  BY <2>1, <2>2, <2>3, <2>4
<1> QED  BY <1>2, <1>3 DEF RowsAreNew

(* The rows a transaction commits are not in the ledger yet. *)
LEMMA RowsAreFresh ==
  ASSUME TypeOK, RowsAreNew, NEW t \in Txn
  PROVE  ledger \cap moves[t] = {}
<1> SUFFICES ASSUME NEW m \in ledger, m \in moves[t] PROVE FALSE
  OBVIOUS
<1>1. m.round < round[t] /\ m.round = round[t] /\ round[t] \in Nat
  BY DEF RowsAreNew, TypeOK
<1> QED  BY <1>1

LEMMA DraftIsFoldStep ==
  ASSUME TypeOK, TablesFinite, LinesAreApart, DraftIsFold, NEW t \in Txn, Acts(t)
  PROVE  DraftIsFold'
<1> SUFFICES ASSUME NEW u \in Txn, NEW k \in Key PROVE delta'[u][k] = Fold(moves'[u], k)
  BY DEF DraftIsFold, Fold
<1>1. CASE u # t
  BY <1>1, OthersUntouched DEF DraftIsFold
<1>2. CASE u = t /\ ApplyDelta(t)
  <2>1. /\ pc[t] = "apply" /\ moves'[t] = moves[t] \cup RowsOf(t)
        /\ delta'[t][k] = delta[t][k] + SignedQty(job[t], k)
    BY <1>2, DraftGrows
  <2>2. moves[t] \cap RowsOf(t) = {}
    BY <2>1, RowsTyped DEF LinesAreApart, PostingPC
  <2>3. IsFiniteSet(RowsOf(t)) /\ Fold(RowsOf(t), k) = SignedQty(job[t], k)
    BY <2>1, FoldOfRows
  <2>4. moves[t] \in SUBSET Movement /\ RowsOf(t) \in SUBSET Movement /\ IsFiniteSet(moves[t])
    BY <2>1, RowsTyped DEF TypeOK, TablesFinite
  <2>5. Fold(moves[t] \cup RowsOf(t), k) = Fold(moves[t], k) + Fold(RowsOf(t), k)
    BY <2>2, <2>3, <2>4, FoldOfUnion
  <2> QED  BY <1>2, <2>1, <2>3, <2>5 DEF DraftIsFold
<1>3. CASE u = t /\ (Rollback(t) \/ Commit(t) \/ OverwriteBalance(t))
  <2>1. moves'[t] = {} /\ delta'[t][k] = 0
    BY <1>3, EndsClean
  <2> QED  BY <1>3, <2>1, FoldOfNone
<1>4. CASE ~ApplyDelta(t) /\ ~Rollback(t) /\ ~Commit(t) /\ ~OverwriteBalance(t)
  BY <1>4, DraftKept DEF DraftIsFold
<1> QED  BY <1>1, <1>2, <1>3, <1>4
-----------------------------------------------------------------------------
(* The statements that only take a lock or read leave the draft as it is.  *)
Quiet(t) ==
  \/ LockRebuildKeyShared(t) \/ LockLocation(t) \/ CheckLimits(t) \/ LockBatchExpiry(t)
  \/ LockBalanceRow(t) \/ LockRebuildKeyExclusive(t) \/ FoldLedger(t)

LEMMA QuietKeeps ==
  ASSUME TypeOK, NEW t \in Txn, Quiet(t)
  PROVE  /\ job' = job /\ rest' = rest /\ moves' = moves /\ delta' = delta /\ round' = round
         /\ holds[t] \subseteq holds'[t] /\ shares[t] \subseteq shares'[t]
         /\ UNCHANGED <<ledger, onHand, expiry>>
         /\ \/ /\ pc[t] \in PostingPC \ {"audit", "commit"}
               /\ pc'[t] \in PostingPC \ {"audit", "commit", "rebuild"}
            \/ pc[t] \in RebuildPC /\ pc'[t] \in RebuildPC
<1>1. /\ job' = job /\ rest' = rest /\ moves' = moves /\ delta' = delta /\ round' = round
      /\ UNCHANGED <<ledger, onHand, expiry>>
  BY DEF Quiet, LockRebuildKeyShared, LockLocation, CheckLimits, LockBatchExpiry,
         LockBalanceRow, LockRebuildKeyExclusive, FoldLedger, draft, stock
<1>2. holds[t] \subseteq holds'[t] /\ shares[t] \subseteq shares'[t]
  BY DEF Quiet, LockRebuildKeyShared, LockLocation, CheckLimits, LockBatchExpiry,
         LockBalanceRow, LockRebuildKeyExclusive, FoldLedger, Grab, Share, locks, TypeOK
<1>3. \/ /\ pc[t] \in PostingPC \ {"audit", "commit"}
         /\ pc'[t] \in PostingPC \ {"audit", "commit", "rebuild"}
      \/ pc[t] \in RebuildPC /\ pc'[t] \in RebuildPC
  BY DEF Quiet, LockRebuildKeyShared, LockLocation, CheckLimits, LockBatchExpiry,
         LockBalanceRow, LockRebuildKeyExclusive, FoldLedger, Goto, AfterLimits, TypeOK,
         PostingPC, RebuildPC
<1> QED  BY <1>1, <1>2, <1>3

LEMMA StepKinds ==
  ASSUME NEW t \in Txn, Acts(t)
  PROVE  \/ Start(t) \/ Quiet(t) \/ AssertBatchExpiry(t) \/ ApplyDelta(t) \/ WriteAuditRow(t)
         \/ Rollback(t) \/ Commit(t) \/ OverwriteBalance(t)
  BY EndsInRollback DEF Acts, Step, Quiet

LEMMA CarriesOn ==
  ASSUME TypeOK, NEW t \in Txn, AssertBatchExpiry(t)
  PROVE  /\ pc[t] = "expiry" /\ pc'[t] = "row" /\ job[t] \in Posting
         /\ job'[t] = Carrying(job[t], CarriedExpiry(t))
         /\ job'[t].kind = job[t].kind /\ job'[t].to = job[t].to /\ job'[t].from = job[t].from
         /\ job'[t].sku = job[t].sku /\ job'[t].batch = job[t].batch /\ job'[t].qty = job[t].qty
         /\ KeysOf(job'[t]) = KeysOf(job[t])
         /\ rest' = rest /\ moves' = moves /\ delta' = delta /\ round' = round
         /\ holds' = holds /\ shares' = shares /\ UNCHANGED <<ledger, onHand, expiry>>
<1>1. /\ pc[t] = "expiry" /\ pc'[t] = "row" /\ job[t] \in Posting
      /\ job'[t] = Carrying(job[t], CarriedExpiry(t))
      /\ rest' = rest /\ moves' = moves /\ delta' = delta /\ round' = round
      /\ holds' = holds /\ shares' = shares /\ UNCHANGED <<ledger, onHand, expiry>>
  BY DEF AssertBatchExpiry, Goto, TypeOK, JobFitsStatement, PostingPC, draft, locks, stock
<1> QED  BY <1>1 DEF Carrying, KeysOf, FromKey, ToKey

LEMMA AuditGoesOn ==
  ASSUME TypeOK, NEW t \in Txn, WriteAuditRow(t)
  PROVE  /\ pc[t] = "audit" /\ moves' = moves /\ delta' = delta /\ round' = round
         /\ holds[t] \subseteq holds'[t] /\ shares' = shares /\ UNCHANGED <<ledger, onHand, expiry>>
         /\ \/ rest[t] = {} /\ pc'[t] = "commit" /\ job' = job /\ rest' = rest
            \/ \E p \in rest[t] : pc'[t] = "rebuild" /\ job'[t] = p /\ rest'[t] = rest[t] \ {p}
<1>1. /\ pc[t] = "audit" /\ moves' = moves /\ delta' = delta /\ round' = round
      /\ holds[t] \subseteq holds'[t] /\ shares' = shares /\ UNCHANGED <<ledger, onHand, expiry>>
  BY DEF WriteAuditRow, Grab, draft, stock, TypeOK
<1>2. CASE rest[t] = {} /\ Goto(t, "commit") /\ UNCHANGED <<job, rest>>
  BY <1>1, <1>2 DEF Goto, TypeOK
<1>3. CASE \E p \in rest[t] : /\ Goto(t, "rebuild")
                             /\ job' = [job EXCEPT ![t] = p]
                             /\ rest' = [rest EXCEPT ![t] = @ \ {p}]
  BY <1>1, <1>3 DEF Goto, TypeOK
<1> QED  BY <1>2, <1>3 DEF WriteAuditRow

LEMMA LinesAreApartStep ==
  ASSUME TypeOK, LinesAreApart, DraftsAreWellformed, NEW t \in Txn, Acts(t)
  PROVE  LinesAreApart'
<1> DEFINE Apart(R, M, label, j) ==
       /\ \A p, q \in R : p # q => KeysOf(p) \cap KeysOf(q) = {}
       /\ \A m \in M, p \in R : m.key \notin KeysOf(p)
       /\ label \in PostingPC => \A p \in R : KeysOf(p) \cap KeysOf(j) = {}
       /\ label \in PostingPC \ {"audit", "commit"} => \A m \in M : m.key \notin KeysOf(j)
<1>0. \A u \in Txn : Apart(rest[u], moves[u], pc[u], job[u])
  BY DEF LinesAreApart
<1>1. ASSUME NEW u \in Txn PROVE Apart(rest'[u], moves'[u], pc'[u], job'[u])
  <2> HIDE DEF Apart
  <2> USE DEF PostingPC
  <2>1. CASE u # t
    BY <1>0, <2>1, OthersUntouched
  <2>2. CASE u = t /\ Start(t)
    <3>1. /\ moves'[t] = {} /\ pc'[t] \in {"rebuild", "exclusive"}
          /\ \A p, q \in rest'[t] : p # q => KeysOf(p) \cap KeysOf(q) = {}
          /\ pc'[t] = "rebuild" => \A p \in rest'[t] : KeysOf(p) \cap KeysOf(job'[t]) = {}
      BY <2>2, StartOpens, SMTT(30) DEF Opened, Begin, DraftsAreWellformed, TypeOK
    <3> QED  BY <2>2, <3>1 DEF Apart
  <2>3. CASE u = t /\ Quiet(t)
    BY <1>0, <2>3, QuietKeeps DEF Apart, RebuildPC
  <2>4. CASE u = t /\ AssertBatchExpiry(t)
    BY <1>0, <2>4, CarriesOn DEF Apart
  <2>5. CASE u = t /\ ApplyDelta(t)
    <3>1. /\ pc[t] = "apply" /\ pc'[t] = "audit" /\ job'[t] = job[t] /\ rest'[t] = rest[t]
          /\ moves'[t] = moves[t] \cup RowsOf(t)
      BY <2>5, DraftGrows
    <3>2. \A m \in RowsOf(t) : m.key \in KeysOf(job[t])
      BY <3>1, RowsTyped
    <3> QED  BY <1>0, <2>5, <3>1, <3>2 DEF Apart
  <2>6. CASE u = t /\ WriteAuditRow(t)
    <3>1. /\ pc[t] = "audit" /\ moves'[t] = moves[t] /\ pc'[t] \in {"commit", "rebuild"}
          /\ \/ pc'[t] = "commit" /\ job'[t] = job[t] /\ rest'[t] = rest[t]
             \/ \E p \in rest[t] : job'[t] = p /\ rest'[t] = rest[t] \ {p}
      BY <2>6, AuditGoesOn
    <3>2. CASE pc'[t] = "commit" /\ job'[t] = job[t] /\ rest'[t] = rest[t]
      BY <1>0, <2>6, <3>1, <3>2 DEF Apart
    <3>3. CASE \E p \in rest[t] : job'[t] = p /\ rest'[t] = rest[t] \ {p}
      BY <1>0, <2>6, <3>1, <3>3 DEF Apart
    <3> QED  BY <3>1, <3>2, <3>3
  <2>7. CASE u = t /\ (Rollback(t) \/ Commit(t) \/ OverwriteBalance(t))
    BY <2>7, EndsClean DEF Apart
  <2> QED  BY <2>1, <2>2, <2>3, <2>4, <2>5, <2>6, <2>7, StepKinds
<1>2. LinesAreApart' <=> \A u \in Txn : Apart(rest'[u], moves'[u], pc'[u], job'[u])
  BY DEF LinesAreApart, KeysOf, FromKey, ToKey
<1> QED  BY <1>1, <1>2

LEMMA PostedKeysHaveRowsStep ==
  ASSUME TypeOK, PostedKeysHaveRows, NEW t \in Txn, Acts(t)
  PROVE  PostedKeysHaveRows'
<1> SUFFICES ASSUME NEW u \in Txn, pc'[u] \in {"audit", "commit"}, NEW k \in KeysOf(job'[u])
             PROVE  \E m \in moves'[u] : m.key = k /\ m.exp = job'[u].exp
  BY DEF PostedKeysHaveRows, KeysOf, FromKey, ToKey
<1>1. CASE u # t
  BY <1>1, OthersUntouched DEF PostedKeysHaveRows
<1>2. CASE u = t /\ ApplyDelta(t)
  <2>1. pc[t] = "apply" /\ job'[t] = job[t] /\ moves'[t] = moves[t] \cup RowsOf(t)
    BY <1>2, DraftGrows
  <2> QED  BY <1>2, <2>1, RowsOfKeys
<1>3. CASE u = t /\ WriteAuditRow(t)
  <2>1. pc[t] = "audit" /\ job'[t] = job[t] /\ moves'[t] = moves[t]
    BY <1>3, AuditGoesOn
  <2> QED  BY <1>3, <2>1 DEF PostedKeysHaveRows
<1>4. CASE u = t /\ (Start(t) \/ Quiet(t) \/ AssertBatchExpiry(t) \/ Rollback(t) \/ Commit(t) \/ OverwriteBalance(t))
  <2>1. Start(t) => pc'[t] \in {"rebuild", "exclusive"}
    BY StartOpens DEF Opened, Begin, TypeOK
  <2> QED  BY <1>4, <2>1, QuietKeeps, CarriesOn, EndsClean DEF RebuildPC
<1> QED  BY <1>1, <1>2, <1>3, <1>4, StepKinds

LEMMA DraftsAreWellformedStep ==
  ASSUME TypeOK, LinesAreApart, DraftsAreWellformed, DraftCarriesJobExpiry, NEW t \in Txn, Acts(t)
  PROVE  DraftsAreWellformed'
<1> DEFINE Drafted(u) ==
     /\ pc[u] \notin PostingPC => moves[u] = {} /\ rest[u] = {}
     /\ pc[u] = "commit" => rest[u] = {}
     /\ (pc[u] \in PostingPC /\ job[u].kind = "transfer") =>
          rest[u] = {} /\ moves[u] = IF pc[u] \in {"audit", "commit"} THEN RowsOf(u) ELSE {}
     /\ (pc[u] \in PostingPC /\ job[u].kind # "transfer") =>
          \A m, n \in moves[u] : m.key = n.key => m = n
<1>0. \A u \in Txn : Drafted(u)
  BY DEF DraftsAreWellformed
<1>1. ASSUME NEW u \in Txn PROVE Drafted(u)'
  <2> USE DEF PostingPC
  <2>1. CASE u # t
    <3>1. /\ pc'[u] = pc[u] /\ job'[u] = job[u] /\ rest'[u] = rest[u]
          /\ moves'[u] = moves[u] /\ round'[u] = round[u]
      BY <2>1, OthersUntouched
    <3>2. RowsOf(u)' = RowsOf(u)
      BY <3>1 DEF RowsOf, Row, FromKey, ToKey
    <3> QED  BY <1>0, <3>1, <3>2
  <2>2. CASE u = t /\ Start(t)
    <3>1. /\ moves'[t] = {} /\ pc'[t] \in {"rebuild", "exclusive"}
          /\ pc'[t] = "exclusive" \/ job'[t].kind = "transfer" => rest'[t] = {}
      BY <1>0, <2>2, StartOpens DEF Opened, Begin, TypeOK
    <3> QED  BY <2>2, <3>1
  <2>3. CASE u = t /\ Quiet(t)
    <3>1. /\ job'[t] = job[t] /\ rest'[t] = rest[t] /\ moves'[t] = moves[t]
          /\ pc[t] \in PostingPC <=> pc'[t] \in PostingPC
          /\ pc[t] \notin {"audit", "commit"} /\ pc'[t] \notin {"audit", "commit"}
      BY <2>3, QuietKeeps DEF RebuildPC
    <3> QED  BY <1>0, <2>3, <3>1
  <2>4. CASE u = t /\ AssertBatchExpiry(t)
    <3>1. /\ job'[t].kind = job[t].kind /\ rest'[t] = rest[t] /\ moves'[t] = moves[t]
          /\ pc[t] = "expiry" /\ pc'[t] = "row"
      BY <2>4, CarriesOn
    <3> QED  BY <1>0, <2>4, <3>1
  <2>5. CASE u = t /\ ApplyDelta(t)
    <3>1. /\ pc[t] = "apply" /\ pc'[t] = "audit" /\ job' = job /\ rest'[t] = rest[t]
          /\ moves'[t] = moves[t] \cup RowsOf(t) /\ round' = round
      BY <2>5, DraftGrows
    <3>2. RowsOf(t)' = RowsOf(t)
      BY <3>1 DEF RowsOf, Row, FromKey, ToKey
    <3>3. job[t].kind # "transfer" => \A m, n \in moves'[t] : m.key = n.key => m = n
      <4>1. \A m \in moves[t], n \in RowsOf(t) : m.key # n.key
        BY <3>1, RowsTyped DEF LinesAreApart
      <4> QED  BY <1>0, <3>1, <4>1, RowsOfKeys
    <3> QED  BY <1>0, <2>5, <3>1, <3>2, <3>3
  <2>6. CASE u = t /\ WriteAuditRow(t)
    <3>1. /\ pc[t] = "audit" /\ moves'[t] = moves[t] /\ round' = round
          /\ \/ rest[t] = {} /\ pc'[t] = "commit" /\ job' = job /\ rest' = rest
             \/ \E p \in rest[t] : pc'[t] = "rebuild" /\ job'[t] = p /\ rest'[t] = rest[t] \ {p}
      BY <2>6, AuditGoesOn
    <3>2. CASE rest[t] = {} /\ pc'[t] = "commit" /\ job' = job /\ rest' = rest
      <4>1. RowsOf(t)' = RowsOf(t)
        BY <3>1, <3>2 DEF RowsOf, Row, FromKey, ToKey
      <4> QED  BY <1>0, <2>6, <3>1, <3>2, <4>1
    <3>3. CASE \E p \in rest[t] : pc'[t] = "rebuild" /\ job'[t] = p /\ rest'[t] = rest[t] \ {p}
      <4>1. job[t].kind = "adjust" /\ job'[t].kind = "adjust"
        BY <3>1, <3>3 DEF DraftCarriesJobExpiry
      <4> QED  BY <1>0, <2>6, <3>1, <3>3, <4>1
    <3> QED  BY <3>1, <3>2, <3>3
  <2>7. CASE u = t /\ (Rollback(t) \/ Commit(t) \/ OverwriteBalance(t))
    BY <2>7, EndsClean
  <2> QED  BY <2>1, <2>2, <2>3, <2>4, <2>5, <2>6, <2>7, StepKinds
<1> HIDE DEF Drafted
<1>2. DraftsAreWellformed' <=> \A u \in Txn : Drafted(u)'
  BY DEF DraftsAreWellformed, Drafted
<1> QED  BY <1>1, <1>2
-----------------------------------------------------------------------------
LEMMA RowsAreLockedStep ==
  ASSUME TypeOK, HoldsItsLocks, RowsAreLocked, PutAwayIsLocked, NEW t \in Txn, Acts(t)
  PROVE  RowsAreLocked'
<1> SUFFICES ASSUME NEW u \in Txn, NEW m \in moves'[u]
             PROVE  /\ RebuildLock(m.key[1]) \in shares'[u]
                    /\ m.qty > 0 => LocationLock(m.key[2]) \in holds'[u] /\ m.key[2] \in Open
  BY DEF RowsAreLocked
<1>1. CASE u # t
  BY <1>1, OthersUntouched DEF RowsAreLocked
<1>2. CASE u = t /\ ApplyDelta(t)
  <2>1. /\ pc[t] = "apply" /\ moves'[t] = moves[t] \cup RowsOf(t) /\ job[t] \in Posting
        /\ holds' = holds /\ shares' = shares
    BY <1>2, DraftGrows
  <2>2. CASE m \in moves[t]
    BY <1>2, <2>1, <2>2 DEF RowsAreLocked
  <2>3. CASE m \in RowsOf(t)
    <3>1. m.key[1] = job[t].sku /\ RebuildLock(job[t].sku) \in shares[t]
      BY <2>1, <2>3, RowsTyped, KeysOfPosting DEF HoldsItsLocks, PostingPC
    <3>2. m.qty > 0 => job[t].to # NoLocation /\ m.key[2] = job[t].to
      <4>1. job[t].qty \in Nat
        BY <2>1 DEF Posting, Entry
      <4>2. \/ m = Row(t, FromKey(job[t]), -job[t].qty)
            \/ job[t].to # NoLocation /\ m = Row(t, ToKey(job[t]), job[t].qty)
        BY <2>3 DEF RowsOf
      <4>3. CASE m = Row(t, FromKey(job[t]), -job[t].qty)
        BY <4>1, <4>3 DEF Row
      <4>4. CASE job[t].to # NoLocation /\ m = Row(t, ToKey(job[t]), job[t].qty)
        BY <4>4 DEF Row, ToKey
      <4> QED  BY <4>2, <4>3, <4>4
    <3> QED  BY <1>2, <2>1, <3>1, <3>2 DEF PutAwayIsLocked, PostingPC
  <2> QED  BY <1>2, <2>1, <2>2, <2>3
<1>3. CASE u = t /\ (Rollback(t) \/ Commit(t) \/ OverwriteBalance(t))
  BY <1>3, EndsClean
<1>4. CASE u = t /\ ~ApplyDelta(t) /\ ~Rollback(t) /\ ~Commit(t) /\ ~OverwriteBalance(t)
  BY <1>4, DraftKept DEF RowsAreLocked
<1> QED  BY <1>1, <1>2, <1>3, <1>4

LEMMA PutAwayIsLockedStep ==
  ASSUME TypeOK, PutAwayIsLocked, NEW t \in Txn, Acts(t)
  PROVE  PutAwayIsLocked'
<1> SUFFICES ASSUME NEW u \in Txn, pc'[u] \in PostingPC \ {"rebuild", "location"},
                    job'[u].to # NoLocation
             PROVE  /\ LocationLock(job'[u].to) \in holds'[u]
                    /\ pc'[u] # "limits" => job'[u].to \in Open
  BY DEF PutAwayIsLocked
<1> USE DEF PostingPC
<1>1. CASE u # t
  BY <1>1, OthersUntouched DEF PutAwayIsLocked
<1>2. CASE u = t /\ LockLocation(t)
  BY <1>2 DEF LockLocation, Grab, Goto, TypeOK
<1>3. CASE u = t /\ CheckLimits(t)
  <2>1. /\ pc[t] = "limits" /\ job' = job /\ holds' = holds /\ job[t].to \in Open
    BY <1>3 DEF CheckLimits, WithinLimits, locks
  <2> QED  BY <1>3, <2>1 DEF PutAwayIsLocked
<1>4. CASE u = t /\ LockRebuildKeyShared(t)
  <2>1. job' = job /\ (job[t].to # NoLocation => pc'[t] = "location")
    BY <1>4 DEF LockRebuildKeyShared, Goto, TypeOK
  <2> QED  BY <1>4, <2>1
<1>5. CASE u = t /\ (LockBatchExpiry(t) \/ LockBalanceRow(t))
  <2>1. Quiet(t) /\ pc[t] \in {"batch", "row"} /\ pc'[t] # "limits"
    BY <1>5 DEF Quiet, LockBatchExpiry, LockBalanceRow, Goto, TypeOK
  <2> QED  BY <1>5, <2>1, QuietKeeps DEF PutAwayIsLocked
<1>6. CASE u = t /\ (LockRebuildKeyExclusive(t) \/ FoldLedger(t))
  BY <1>6 DEF LockRebuildKeyExclusive, FoldLedger, Goto, TypeOK
<1>7. CASE u = t /\ AssertBatchExpiry(t)
  BY <1>7, CarriesOn DEF PutAwayIsLocked
<1>8. CASE u = t /\ ApplyDelta(t)
  BY <1>8, DraftGrows DEF PutAwayIsLocked
<1>9. CASE u = t /\ WriteAuditRow(t)
  <2>1. pc[t] = "audit" /\ job' = job /\ holds[t] \subseteq holds'[t]
    BY <1>9, AuditGoesOn
  <2> QED  BY <1>9, <2>1 DEF PutAwayIsLocked
<1>10. CASE u = t /\ (Start(t) \/ Rollback(t) \/ Commit(t) \/ OverwriteBalance(t))
  <2>1. Start(t) => pc'[t] \in {"rebuild", "exclusive"}
    BY StartOpens DEF Opened, Begin, TypeOK
  <2> QED  BY <1>10, <2>1, EndsClean
<1> QED
  BY <1>1, <1>2, <1>3, <1>4, <1>5, <1>6, <1>7, <1>8, <1>9, <1>10, StepKinds DEF Quiet

(* A posting brings stock only to the key it puts away to. *)
LEMMA OnlyPutAwaysBring ==
  ASSUME NEW p \in Posting, NEW k \in Key
  PROVE  /\ SignedQty(p, k) \in Int
         /\ p.to = NoLocation \/ k # ToKey(p) => SignedQty(p, k) <= 0
         /\ SignedQty(p, k) <= p.qty
<1>1. p.qty \in Nat
  BY DEF Posting, Entry
<1> QED  BY <1>1 DEF SignedQty

LEMMA BroughtUnderLockStep ==
  ASSUME TypeOK, BroughtUnderLock, PutAwayIsLocked, NEW t \in Txn, Acts(t)
  PROVE  BroughtUnderLock'
<1> SUFFICES ASSUME NEW u \in Txn, NEW k \in Key, LocationLock(k[2]) \notin holds'[u]
             PROVE  delta'[u][k] <= 0
  BY DEF BroughtUnderLock
<1>1. CASE u # t
  BY <1>1, OthersUntouched DEF BroughtUnderLock
<1>2. CASE u = t /\ ApplyDelta(t)
  <2>1. /\ pc[t] = "apply" /\ job[t] \in Posting /\ holds' = holds
        /\ delta'[t][k] = delta[t][k] + SignedQty(job[t], k)
    BY <1>2, DraftGrows
  <2>2. delta[t][k] \in Int /\ delta[t][k] <= 0
    BY <1>2, <2>1 DEF BroughtUnderLock, TypeOK
  <2>3. job[t].to = NoLocation \/ k # ToKey(job[t])
    <3>1. ToKey(job[t])[2] = job[t].to
      BY DEF ToKey
    <3> QED  BY <1>2, <2>1, <3>1 DEF PutAwayIsLocked, PostingPC
  <2>4. SignedQty(job[t], k) \in Int /\ SignedQty(job[t], k) <= 0
    BY <2>1, <2>3, OnlyPutAwaysBring
  <2> QED  BY <1>2, <2>1, <2>2, <2>4
<1>3. CASE u = t /\ (Rollback(t) \/ Commit(t) \/ OverwriteBalance(t))
  <2>1. delta'[t][k] = 0
    BY <1>3, EndsClean
  <2> QED  BY <1>3, <2>1
<1>4. CASE u = t /\ ~ApplyDelta(t) /\ ~Rollback(t) /\ ~Commit(t) /\ ~OverwriteBalance(t)
  BY <1>4, DraftKept DEF BroughtUnderLock
<1> QED  BY <1>1, <1>2, <1>3, <1>4

LEMMA FoldIsCurrentStep ==
  ASSUME TypeOK, LockExclusion, HoldsItsLocks, RowsAreLocked, FoldIsCurrent,
         NEW t \in Txn, Acts(t)
  PROVE  FoldIsCurrent'
<1> SUFFICES ASSUME NEW u \in Txn, pc'[u] = "overwrite", NEW m \in ledger' \cup seen'[u],
                    m.key[1] = job'[u].sku
             PROVE  m \in ledger' /\ m \in seen'[u]
  BY DEF FoldIsCurrent
<1>1. CASE u # t
  <2>1. pc[u] = "overwrite" /\ job'[u] = job[u] /\ seen'[u] = seen[u]
    BY <1>1, OthersUntouched
  <2>2. CASE Commit(t)
    <3>1. ledger' = ledger \cup moves[t]
      BY <2>2 DEF Commit
    <3>2. RebuildLock(job[u].sku) \notin shares[t]
      BY <1>1, <2>1 DEF HoldsItsLocks, LockExclusion
    <3>3. m \notin moves[t]
      BY <2>1, <3>2 DEF RowsAreLocked
    <3> QED  BY <2>1, <3>1, <3>3 DEF FoldIsCurrent
  <2>3. CASE ~Commit(t)
    <3>1. ledger' = ledger
      BY <2>3, StockUntouched DEF OverwriteBalance
    <3> QED  BY <2>1, <3>1 DEF FoldIsCurrent
  <2> QED  BY <2>2, <2>3
<1>2. CASE u = t /\ FoldLedger(t)
  BY <1>2 DEF FoldLedger, TypeOK, stock
<1>3. CASE u = t /\ ~FoldLedger(t)
  <2>1. Start(t) => pc'[t] \in {"rebuild", "exclusive"}
    BY StartOpens DEF Opened, Begin, TypeOK
  <2>2. ApplyDelta(t) \/ AssertBatchExpiry(t) \/ WriteAuditRow(t) => pc'[t] # "overwrite"
    BY DraftGrows, CarriesOn, AuditGoesOn
  <2>3. Quiet(t) => pc'[t] # "overwrite"
    BY <1>3 DEF Quiet, LockRebuildKeyShared, LockLocation, CheckLimits, LockBatchExpiry,
       LockBalanceRow, LockRebuildKeyExclusive, Goto, AfterLimits, TypeOK
  <2> QED  BY <1>3, <2>1, <2>2, <2>3, EndsClean, StepKinds
<1> QED  BY <1>1, <1>2, <1>3

LEMMA UnmovedHasNoExpiryStep ==
  ASSUME TypeOK, ExpiryIsAgreed, PostedKeysHaveRows, UnmovedHasNoExpiry, NEW t \in Txn, Acts(t)
  PROVE  UnmovedHasNoExpiry'
<1> SUFFICES ASSUME NEW k \in Key, ~HasMoved(ledger', k) PROVE expiry'[k] = NoExpiry
  BY DEF UnmovedHasNoExpiry, HasMoved
<1>1. ~HasMoved(ledger, k) /\ expiry[k] = NoExpiry
  BY LedgerGrows DEF HasMoved, UnmovedHasNoExpiry
<1>2. CASE Commit(t)
  <2>1. pc[t] = "commit" /\ ledger' = ledger \cup moves[t]
    BY <1>2 DEF Commit
  <2>2. k \notin KeysOf(job[t])
    BY <2>1 DEF PostedKeysHaveRows, HasMoved
  <2> QED  BY <1>1, <1>2, <2>2, CommitStamps
<1>3. CASE OverwriteBalance(t)
  BY <1>1, <1>3 DEF OverwriteBalance
<1>4. CASE ~Commit(t) /\ ~OverwriteBalance(t)
  BY <1>1, <1>4, StockUntouched
<1> QED  BY <1>2, <1>3, <1>4
-----------------------------------------------------------------------------
(* The weight of the balances of a location.                               *)

LEMMA Heavier ==
  ASSUME NEW w \in Nat, NEW a \in Int, NEW b \in Int
  PROVE  /\ a * w \in Int /\ b * w \in Int
         /\ a <= b => a * w <= b * w
         /\ b * w - a * w = (b - a) * w
  OBVIOUS

LEMMA WeightsTyped ==
  ASSUME NEW k \in Key
  PROVE  k[1] \in Sku /\ k[2] \in Location /\ Weight[k[1]] \in Nat
  BY StockConstants DEF Key

LEMMA LoadTyped ==
  ASSUME NEW balance \in [Key -> Int], NEW l
  PROVE  Load(balance, l) \in Int
<1> DEFINE S == {k \in Key : k[2] = l}
           f == [k \in Key |-> balance[k] * Weight[k[1]]]
<1>1. IsFiniteSet(S)
  BY StockConstants, FS_Subset
<1>2. \A k \in S : f[k] \in Int
  BY WeightsTyped, Heavier
<1>3. Load(balance, l) = SumFunctionOnSet(f, S)
  BY DEF Load
<1> HIDE DEF S, f
<1> QED  BY <1>1, <1>2, <1>3, SumIsInt

LEMMA LoadIsMonotone ==
  ASSUME NEW less \in [Key -> Int], NEW more \in [Key -> Int], NEW l,
         \A k \in Key : k[2] = l => less[k] <= more[k]
  PROVE  Load(less, l) <= Load(more, l)
<1> DEFINE S == {k \in Key : k[2] = l}
           f == [k \in Key |-> less[k] * Weight[k[1]]]
           e == [k \in Key |-> more[k] * Weight[k[1]]]
<1>1. IsFiniteSet(S)
  BY StockConstants, FS_Subset
<1>2. \A k \in S : f[k] \in Int /\ e[k] \in Int /\ f[k] <= e[k]
  <2> TAKE k \in S
  <2>1. k \in Key /\ less[k] \in Int /\ more[k] \in Int /\ less[k] <= more[k]
    OBVIOUS
  <2>2. Weight[k[1]] \in Nat
    BY <2>1, WeightsTyped
  <2>3. less[k] * Weight[k[1]] \in Int /\ more[k] * Weight[k[1]] \in Int
        /\ less[k] * Weight[k[1]] <= more[k] * Weight[k[1]]
    BY <2>1, <2>2, Heavier
  <2> QED  BY <2>1, <2>3
<1>3. Load(less, l) = SumFunctionOnSet(f, S) /\ Load(more, l) = SumFunctionOnSet(e, S)
  BY DEF Load
<1> HIDE DEF S, f, e
<1> QED  BY <1>1, <1>2, <1>3, SumIsMonotone

(* More of one key is heavier by what was added. *)
LEMMA LoadChanges ==
  ASSUME NEW before \in [Key -> Int], NEW after \in [Key -> Int], NEW j \in Key,
         \A k \in Key : k # j => after[k] = before[k]
  PROVE  Load(after, j[2]) = Load(before, j[2]) + (after[j] - before[j]) * Weight[j[1]]
<1> DEFINE S == {k \in Key : k[2] = j[2]}
           f == [k \in Key |-> before[k] * Weight[k[1]]]
           e == [k \in Key |-> after[k] * Weight[k[1]]]
<1>1. IsFiniteSet(S) /\ j \in S
  BY StockConstants, FS_Subset
<1>2. \A k \in S : f[k] \in Int /\ e[k] \in Int
  BY WeightsTyped, Heavier
<1>3. \A k \in S \ {j} : e[k] = f[k]
  OBVIOUS
<1>4. /\ Load(before, j[2]) = SumFunctionOnSet(f, S) /\ Load(after, j[2]) = SumFunctionOnSet(e, S)
      /\ e[j] = after[j] * Weight[j[1]] /\ f[j] = before[j] * Weight[j[1]]
  BY DEF Load
<1>5. after[j] * Weight[j[1]] - before[j] * Weight[j[1]] = (after[j] - before[j]) * Weight[j[1]]
  BY WeightsTyped, Heavier
<1> HIDE DEF S, f, e
<1>6. SumFunctionOnSet(e, S) = SumFunctionOnSet(f, S) + (e[j] - f[j])
  BY <1>1, <1>2, <1>3, SumChanges
<1> QED  BY <1>4, <1>5, <1>6

-----------------------------------------------------------------------------
(* The balance and the limits.                                             *)

BookInv ==
  /\ TablesFinite /\ RowsAreNew /\ LinesAreApart /\ PostedKeysHaveRows /\ DraftsAreWellformed
  /\ DraftIsFold /\ RowsAreLocked /\ PutAwayIsLocked /\ BroughtUnderLock /\ FoldIsCurrent
  /\ UnmovedHasNoExpiry /\ BalanceIsFold /\ LocationWithinCapacity /\ CapacityIsKept

(* What a rebuild writes is what was there. *)
LEMMA OverwriteKeeps ==
  ASSUME TypeOK, TablesFinite, FoldIsCurrent, BalanceIsFold, UnmovedHasNoExpiry,
         NEW t \in Txn, OverwriteBalance(t)
  PROVE  UNCHANGED <<ledger, onHand, expiry>>
<1>1. /\ pc[t] = "overwrite" /\ ledger' = ledger
      /\ onHand' = [k \in Key |-> IF k \in Overwritten(t) THEN Fold(seen[t], k)
                                  ELSE IF k \in Deleted(t) THEN 0 ELSE onHand[k]]
      /\ expiry' = [k \in Key |-> IF k \in Deleted(t) THEN NoExpiry ELSE expiry[k]]
  BY DEF OverwriteBalance
<1>2. \A k \in Overwritten(t) : Fold(seen[t], k) = onHand[k]
  <2> TAKE k \in Overwritten(t)
  <2>1. k \in Key /\ k[1] = job[t].sku
    BY DEF Overwritten
  <2>2. {m \in ledger : m.key = k} = {m \in seen[t] : m.key = k}
    BY <1>1, <2>1 DEF FoldIsCurrent
  <2>3. Fold(ledger, k) = Fold(seen[t], k)
    BY <2>2, FoldOfSameRows DEF TablesFinite
  <2> QED  BY <2>1, <2>3 DEF BalanceIsFold
<1>3. \A k \in Deleted(t) : k \in Key /\ onHand[k] = 0 /\ expiry[k] = NoExpiry
  <2> TAKE k \in Deleted(t)
  <2>1. k \in Key /\ ~HasMoved(ledger, k)
    BY DEF Deleted
  <2>2. Fold(ledger, k) = 0
    BY <2>1, FoldOfNone DEF HasMoved
  <2> QED  BY <2>1, <2>2 DEF BalanceIsFold, UnmovedHasNoExpiry
<1>4. onHand' = onHand
  BY <1>1, <1>2, <1>3 DEF TypeOK
<1>5. expiry' = expiry
  BY <1>1, <1>3 DEF TypeOK
<1> QED  BY <1>1, <1>4, <1>5

LEMMA BalanceIsFoldStep ==
  ASSUME TypeOK, TablesFinite, RowsAreNew, DraftIsFold, FoldIsCurrent, BalanceIsFold,
         UnmovedHasNoExpiry, NEW t \in Txn, Acts(t)
  PROVE  BalanceIsFold'
<1> SUFFICES ASSUME NEW k \in Key PROVE onHand'[k] = Fold(ledger', k)
  BY DEF BalanceIsFold, Fold
<1>1. CASE Commit(t)
  <2>1. ledger' = ledger \cup moves[t] /\ onHand'[k] = onHand[k] + delta[t][k]
    BY <1>1 DEF Commit, View
  <2>2. Fold(ledger \cup moves[t], k) = Fold(ledger, k) + Fold(moves[t], k)
    <3>1. /\ ledger \in SUBSET Movement /\ moves[t] \in SUBSET Movement
          /\ IsFiniteSet(ledger) /\ IsFiniteSet(moves[t]) /\ ledger \cap moves[t] = {}
      BY RowsAreFresh DEF TypeOK, TablesFinite
    <3> QED  BY <3>1, FoldOfUnion
  <2> QED  BY <2>1, <2>2 DEF BalanceIsFold, DraftIsFold
<1>2. CASE OverwriteBalance(t)
  BY <1>2, OverwriteKeeps DEF BalanceIsFold
<1>3. CASE ~Commit(t) /\ ~OverwriteBalance(t)
  BY <1>3, StockUntouched DEF BalanceIsFold
<1> QED  BY <1>1, <1>2, <1>3

LEMMA ViewTyped ==
  ASSUME TypeOK, NEW t \in Txn
  PROVE  /\ View(t) \in [Key -> Int] /\ onHand \in [Key -> Int]
         /\ \A k \in Key : delta[t][k] \in Int /\ onHand[k] \in Int /\ View(t)[k] = onHand[k] + delta[t][k]
  BY DEF View, TypeOK

(* No balance a transaction did not lock the location of gets heavier. *)
LEMMA UnlockedViewIsLighter ==
  ASSUME TypeOK, BroughtUnderLock, NEW t \in Txn, NEW l, LocationLock(l) \notin holds[t]
  PROVE  Load(View(t), l) <= Load(onHand, l)
<1>1. \A k \in Key : k[2] = l => View(t)[k] <= onHand[k]
  BY ViewTyped DEF BroughtUnderLock
<1> QED  BY <1>1, ViewTyped, LoadIsMonotone

LEMMA WithinCapacityStep ==
  ASSUME TypeOK, TablesFinite, FoldIsCurrent, BalanceIsFold, UnmovedHasNoExpiry,
         BroughtUnderLock, LocationWithinCapacity, CapacityIsKept, NEW t \in Txn, Acts(t)
  PROVE  LocationWithinCapacity'
<1> SUFFICES ASSUME NEW l \in Location, Capacity[l] # NoLimit
             PROVE  Load(onHand', l) <= Capacity[l]
  BY DEF LocationWithinCapacity, Load
<1>0. Capacity[l] \in Int /\ Load(onHand, l) \in Int /\ Load(onHand, l) <= Capacity[l]
  BY StockConstants, ViewTyped, LoadTyped DEF LocationWithinCapacity
<1>1. CASE Commit(t)
  <2>1. pc[t] = "commit" /\ onHand' = View(t) /\ Load(View(t), l) \in Int
    BY <1>1, ViewTyped, LoadTyped DEF Commit
  <2>2. CASE LocationLock(l) \in holds[t]
    <3>1. Load(View(t), l) + Incoming(t, l) <= Capacity[l] /\ Incoming(t, l) = 0
      BY <2>1, <2>2 DEF CapacityIsKept, Incoming
    <3> QED  BY <2>1, <3>1
  <2>3. CASE LocationLock(l) \notin holds[t]
    <3>1. Load(View(t), l) <= Load(onHand, l)
      BY <2>3, UnlockedViewIsLighter
    <3> QED  BY <1>0, <2>1, <3>1
  <2> QED  BY <2>2, <2>3
<1>2. CASE ~Commit(t)
  <2>1. onHand' = onHand
    BY <1>2, StockUntouched, OverwriteKeeps
  <2> QED  BY <1>0, <2>1
<1> QED  BY <1>1, <1>2
LEMMA LocationLockIsApart ==
  ASSUME NEW l
  PROVE  /\ \A s : LocationLock(l) # RebuildLock(s)
         /\ \A s, b : LocationLock(l) # BatchLock(s, b)
         /\ \A k : LocationLock(l) # RowLock(k)
         /\ LocationLock(l) # AuditLock
  BY DEF LocationLock, RebuildLock, BatchLock, RowLock, AuditLock

LEMMA IncomingTyped ==
  ASSUME TypeOK, NEW t \in Txn, NEW l \in Location
  PROVE  Incoming(t, l) \in Nat
<1>1. CASE pc[t] \in {"batch", "expiry", "row", "apply"}
  <2>1. job[t] \in Posting
    BY <1>1 DEF TypeOK, JobFitsStatement, PostingPC
  <2>2. job[t].qty \in Nat /\ Weight[job[t].sku] \in Nat
    BY <2>1, StockConstants DEF Posting, Entry
  <2> DEFINE q == job[t].qty
             w == Weight[job[t].sku]
  <2>3. q * w \in Nat
    <3> HIDE DEF q, w
    <3>1. q \in Nat /\ w \in Nat
      BY <2>2 DEF q, w
    <3> QED  BY <3>1
  <2> QED  BY <2>3 DEF Incoming
<1>2. CASE pc[t] \notin {"batch", "expiry", "row", "apply"}
  BY <1>2 DEF Incoming
<1> QED  BY <1>1, <1>2

(* The weight of a location after a posting is applied to what its         *)
(* transaction sees.                                                       *)
LEMMA AppliedWithinLimit ==
  ASSUME TypeOK, NEW t \in Txn, pc[t] = "apply", NEW l \in Location,
         NEW after \in [Key -> Int], \A k \in Key : after[k] = View(t)[k] + SignedQty(job[t], k)
  PROVE  Load(after, l) <= Load(View(t), l) + Incoming(t, l)
<1> DEFINE p == job[t]
           before == View(t)
           qty == p.qty
<1>0. p \in Posting /\ qty \in Nat
  BY DEF TypeOK, JobFitsStatement, PostingPC, Posting, Entry
<1>1. before \in [Key -> Int] /\ \A k \in Key : before[k] \in Int
  BY ViewTyped
<1>2. \A k \in Key : /\ SignedQty(p, k) \in Int
                     /\ p.to = NoLocation \/ k # ToKey(p) => SignedQty(p, k) <= 0
                     /\ SignedQty(p, k) <= qty
  BY <1>0, OnlyPutAwaysBring
<1>3. Load(before, l) \in Int /\ Load(after, l) \in Int
  BY <1>1, LoadTyped
<1>4. CASE p.to = l
  <2>1. p.to # NoLocation
    BY <1>4, StockConstants
  <2> DEFINE j == ToKey(p)
             raised == [k \in Key |-> IF k = j THEN before[k] + qty ELSE before[k]]
  <2>2. j \in Key /\ j[1] = p.sku /\ j[2] = l
    BY <1>0, <1>4, <2>1, KeysOfPosting DEF ToKey
  <2> HIDE DEF p, before, qty, j
  <2>3. /\ raised \in [Key -> Int] /\ raised[j] - before[j] = qty
        /\ \A k \in Key : k # j => raised[k] = before[k]
    BY <1>0, <1>1, <2>2
  <2>4. \A k \in Key : after[k] <= raised[k]
    <3> TAKE k \in Key
    <3>1. /\ after[k] = before[k] + SignedQty(p, k) /\ before[k] \in Int /\ SignedQty(p, k) \in Int
          /\ SignedQty(p, k) <= qty /\ (k # j => SignedQty(p, k) <= 0)
      BY <1>1, <1>2 DEF p, before, qty, j
    <3> QED  BY <1>0, <3>1
  <2> HIDE DEF raised
  <2>5. Load(after, l) <= Load(raised, l)
    BY <2>3, <2>4, LoadIsMonotone
  <2>6. Load(raised, j[2]) = Load(before, j[2]) + (raised[j] - before[j]) * Weight[j[1]]
    BY <1>1, <2>2, <2>3, LoadChanges
  <2>7. Incoming(t, l) = qty * Weight[p.sku]
    BY <1>4 DEF Incoming, p, qty
  <2>8. Load(raised, l) = Load(before, l) + Incoming(t, l)
    BY <2>2, <2>3, <2>6, <2>7
  <2> QED  BY <2>5, <2>8 DEF before
<1>5. CASE p.to # l
  <2>1. Incoming(t, l) = 0
    BY <1>5 DEF Incoming
  <2>2. \A k \in Key : k[2] = l => after[k] <= before[k]
    <3> SUFFICES ASSUME NEW k \in Key, k[2] = l PROVE after[k] <= before[k]
      OBVIOUS
    <3>1. k # ToKey(p)
      BY <1>5 DEF ToKey
    <3>2. SignedQty(p, k) \in Int /\ SignedQty(p, k) <= 0 /\ before[k] \in Int
      BY <1>1, <1>2, <3>1
    <3>3. after[k] = before[k] + SignedQty(p, k)
      OBVIOUS
    <3> HIDE DEF before, p
    <3> QED  BY <3>2, <3>3
  <2>3. Load(after, l) <= Load(before, l)
    <3> HIDE DEF before, p
    <3> QED  BY <1>1, <2>2, LoadIsMonotone
  <2> HIDE DEF before
  <2>4. Load(after, l) <= Load(before, l) + Incoming(t, l)
    BY <1>3, <2>1, <2>3
  <2> QED  BY <2>4 DEF before
<1> QED  BY <1>4, <1>5

LEMMA CapacityIsKeptStep ==
  ASSUME TypeOK, LockExclusion, TablesFinite, FoldIsCurrent, BalanceIsFold, UnmovedHasNoExpiry,
         BroughtUnderLock, LocationWithinCapacity, CapacityIsKept, NEW t \in Txn, Acts(t)
  PROVE  CapacityIsKept'
<1> SUFFICES ASSUME NEW l \in Location, Capacity[l] # NoLimit,
                    NEW u \in Txn, LocationLock(l) \in holds'[u]
             PROVE  (Load(View(u), l) + Incoming(u, l) <= Capacity[l])'
  BY DEF CapacityIsKept
<1> DEFINE after == [k \in Key |-> onHand'[k] + delta'[u][k]]
           coming == IF pc'[u] \in {"batch", "expiry", "row", "apply"} /\ job'[u].to = l
                       THEN job'[u].qty * Weight[job'[u].sku] ELSE 0
<1> SUFFICES Load(after, l) + coming <= Capacity[l]
  BY DEF View, Load, Incoming
<1>0. /\ Capacity[l] \in Int /\ Load(onHand, l) <= Capacity[l]
      /\ LocationLock(l) \in holds[u] => Load(View(u), l) + Incoming(u, l) <= Capacity[l]
      /\ Load(View(u), l) \in Int /\ Load(onHand, l) \in Int
      /\ Incoming(u, l) \in Int /\ Incoming(u, l) >= 0
  BY StockConstants, ViewTyped, LoadTyped, IncomingTyped DEF LocationWithinCapacity, CapacityIsKept
<1>1. (after = View(u) /\ coming = Incoming(u, l) /\ LocationLock(l) \in holds[u])
        => Load(after, l) + coming <= Capacity[l]
  BY <1>0
<1>2. (after = View(u) /\ coming = 0) => Load(after, l) + coming <= Capacity[l]
  <2>1. Load(View(u), l) <= Capacity[l]
    <3>1. CASE LocationLock(l) \in holds[u]
      BY <1>0, <3>1
    <3>2. CASE LocationLock(l) \notin holds[u]
      BY <1>0, <3>2, UnlockedViewIsLighter
    <3> QED  BY <3>1, <3>2
  <2> HIDE DEF after, coming
  <2> QED  BY <1>0, <2>1
<1>3. (onHand' = onHand /\ delta'[u] = delta[u]) => after = View(u)
  BY DEF View
<1>4. CASE u # t
  <2>1. /\ coming = Incoming(u, l) /\ delta'[u] = delta[u] /\ LocationLock(l) \in holds[u]
    BY <1>4, OthersUntouched DEF Incoming
  <2>2. CASE Commit(t)
    <3>1. LocationLock(l) \notin holds[t]
      BY <1>4, <2>1 DEF LockExclusion
    <3>2. after \in [Key -> Int] /\ \A k \in Key : k[2] = l => after[k] <= View(u)[k]
      <4>1. \A k \in Key : after[k] = onHand[k] + delta[t][k] + delta[u][k]
        BY <2>1, <2>2 DEF Commit, View
      <4>2. \A k \in Key : k[2] = l => delta[t][k] <= 0
        BY <3>1 DEF BroughtUnderLock
      <4>3. \A k \in Key : /\ onHand[k] \in Int /\ delta[t][k] \in Int /\ delta[u][k] \in Int
                           /\ View(u)[k] = onHand[k] + delta[u][k]
        BY ViewTyped
      <4>4. after = [k \in Key |-> after[k]]
        OBVIOUS
      <4> HIDE DEF after
      <4>5. after \in [Key -> Int]
        BY <4>1, <4>3, <4>4
      <4>6. ASSUME NEW k \in Key, k[2] = l PROVE after[k] <= View(u)[k]
        BY <4>1, <4>2, <4>3, <4>6
      <4> QED  BY <4>5, <4>6
    <3> HIDE DEF after, coming
    <3>3. Load(after, l) <= Load(View(u), l) /\ Load(after, l) \in Int
      BY <3>2, ViewTyped, LoadIsMonotone, LoadTyped
    <3> QED  BY <1>0, <2>1, <3>3
  <2>3. CASE ~Commit(t)
    <3>1. onHand' = onHand
      BY <2>3, StockUntouched, OverwriteKeeps
    <3> QED  BY <1>1, <1>3, <2>1, <3>1
  <2> QED  BY <2>2, <2>3
<1>5. CASE u = t /\ (Rollback(t) \/ Commit(t) \/ OverwriteBalance(t))
  BY <1>5, EndsClean
<1>6. CASE u = t /\ ApplyDelta(t)
  <2>1. /\ pc[t] = "apply" /\ pc'[t] = "audit" /\ holds' = holds /\ onHand' = onHand
        /\ delta'[t] = [k \in Key |-> delta[t][k] + SignedQty(job[t], k)] /\ job[t] \in Posting
    BY <1>6, DraftGrows
  <2>2. coming = 0
    BY <1>6, <2>1
  <2>3. \A k \in Key : /\ after[k] = onHand[k] + (delta[t][k] + SignedQty(job[t], k))
                       /\ View(t)[k] = onHand[k] + delta[t][k]
                       /\ onHand[k] \in Int /\ delta[t][k] \in Int /\ SignedQty(job[t], k) \in Int
    BY <1>6, <2>1, ViewTyped, OnlyPutAwaysBring
  <2>4. after = [k \in Key |-> after[k]]
    OBVIOUS
  <2> HIDE DEF after, coming
  <2>5. after \in [Key -> Int] /\ \A k \in Key : after[k] = View(t)[k] + SignedQty(job[t], k)
    <3>1. \A k \in Key : after[k] \in Int /\ after[k] = View(t)[k] + SignedQty(job[t], k)
      BY <2>3
    <3> QED  BY <2>4, <3>1
  <2>6. Load(after, l) <= Load(View(t), l) + Incoming(t, l) /\ Load(after, l) \in Int
    BY <2>1, <2>5, AppliedWithinLimit, LoadTyped
  <2> QED  BY <1>0, <1>6, <2>1, <2>2, <2>6
<1>7. CASE u = t /\ (Start(t) \/ WriteAuditRow(t))
  <2>1. pc'[t] \in {"rebuild", "exclusive", "commit"} /\ onHand' = onHand /\ delta' = delta
    BY <1>7, AuditGoesOn, StartOpens DEF Opened, Begin, TypeOK
  <2> QED  BY <1>2, <1>3, <1>7, <2>1
<1>8. CASE u = t /\ AssertBatchExpiry(t)
  <2>1. /\ pc[t] = "expiry" /\ pc'[t] = "row" /\ holds' = holds /\ onHand' = onHand /\ delta' = delta
        /\ job'[t].to = job[t].to /\ job'[t].sku = job[t].sku /\ job'[t].qty = job[t].qty
    BY <1>8, CarriesOn
  <2>2. coming = Incoming(t, l)
    BY <1>8, <2>1 DEF Incoming
  <2> QED  BY <1>1, <1>3, <1>8, <2>1, <2>2
<1>9. CASE u = t /\ Quiet(t)
  <2>0. job' = job /\ onHand' = onHand /\ delta' = delta
    BY <1>9, QuietKeeps
  <2>1. CASE LockLocation(t) \/ LockRebuildKeyExclusive(t) \/ FoldLedger(t)
    <3>1. pc'[t] \in {"limits", "fold", "overwrite"}
      BY <2>1 DEF LockLocation, LockRebuildKeyExclusive, FoldLedger, Goto, TypeOK
    <3> QED  BY <1>2, <1>3, <1>9, <2>0, <3>1
  <2>2. CASE LockRebuildKeyShared(t)
    <3>1. pc'[t] = "location" \/ job[t].to = NoLocation
      BY <2>2 DEF LockRebuildKeyShared, Goto, TypeOK
    <3>2. coming = 0
      BY <1>9, <2>0, <3>1, StockConstants
    <3> QED  BY <1>2, <1>3, <1>9, <2>0, <3>2
  <2>3. CASE CheckLimits(t)
    <3>1. /\ pc'[t] \in {"batch", "row"} /\ WithinLimits(t)
      BY <2>3 DEF CheckLimits, Goto, TypeOK, AfterLimits
    <3>2. CASE job[t].to = l
      <4>1. Load(View(t), l) + job[t].qty * Weight[job[t].sku] <= Capacity[l]
        BY <3>1, <3>2 DEF WithinLimits
      <4>2. coming = job[t].qty * Weight[job[t].sku]
        BY <1>9, <2>0, <3>1, <3>2
      <4> QED  BY <1>3, <1>9, <2>0, <4>1, <4>2
    <3>3. CASE job[t].to # l
      BY <1>2, <1>3, <1>9, <2>0, <3>3
    <3> QED  BY <3>2, <3>3
  <2>4. CASE LockBatchExpiry(t) \/ LockBalanceRow(t)
    <3>1. \E r : r # LocationLock(l) /\ holds'[t] = holds[t] \cup {r}
      <4>1. \A r : Grab(t, r) => holds'[t] = holds[t] \cup {r}
        BY DEF Grab, TypeOK
      <4>2. (\E s, b : Grab(t, BatchLock(s, b))) \/ (\E k : Grab(t, RowLock(k)))
        BY <2>4 DEF LockBatchExpiry, LockBalanceRow
      <4> QED  BY <4>1, <4>2, LocationLockIsApart
    <3>2. pc[t] \in {"batch", "row"} /\ pc'[t] \in {"expiry", "row", "apply"}
      BY <2>4 DEF LockBatchExpiry, LockBalanceRow, Goto, TypeOK
    <3>3. coming = Incoming(t, l)
      BY <1>9, <2>0, <3>2 DEF Incoming
    <3> QED  BY <1>1, <1>3, <1>9, <2>0, <3>1, <3>3
  <2> QED  BY <1>9, <2>1, <2>2, <2>3, <2>4 DEF Quiet
<1> QED  BY <1>4, <1>5, <1>6, <1>7, <1>8, <1>9, StepKinds

LEMMA BookInit == Init => BookInv
<1> SUFFICES ASSUME Init PROVE BookInv
  OBVIOUS
<1>1. /\ ledger = {} /\ onHand = [k \in Key |-> 0] /\ expiry = [k \in Key |-> NoExpiry]
      /\ \A t \in Txn : /\ moves[t] = {} /\ rest[t] = {} /\ holds[t] = {} /\ pc[t] = "idle"
                        /\ delta[t] = [k \in Key |-> 0]
  BY DEF Init
<1>2. TablesFinite /\ RowsAreNew /\ LinesAreApart /\ PostedKeysHaveRows /\ DraftsAreWellformed
  BY <1>1, FS_EmptySet
     DEF TablesFinite, RowsAreNew, LinesAreApart, PostedKeysHaveRows, DraftsAreWellformed, PostingPC
<1>3. RowsAreLocked /\ PutAwayIsLocked /\ FoldIsCurrent /\ UnmovedHasNoExpiry /\ CapacityIsKept
  BY <1>1
     DEF RowsAreLocked, PutAwayIsLocked, FoldIsCurrent, UnmovedHasNoExpiry, CapacityIsKept, PostingPC
<1>4. BroughtUnderLock
  <2>1. \A t \in Txn, k \in Key : delta[t][k] = 0
    BY <1>1
  <2> QED  BY <2>1 DEF BroughtUnderLock
<1>5. DraftIsFold /\ BalanceIsFold
  BY <1>1, FoldOfNone DEF DraftIsFold, BalanceIsFold
<1>6. ASSUME NEW l \in Location PROVE Load(onHand, l) = 0
  <2> DEFINE S == {k \in Key : k[2] = l}
             f == [k \in Key |-> onHand[k] * Weight[k[1]]]
             none == [k \in Key |-> 0]
  <2>1. IsFiniteSet(S)
    BY StockConstants, FS_Subset
  <2>2. \A k \in S : f[k] = none[k]
    <3> TAKE k \in S
    <3>1. onHand[k] = 0 /\ Weight[k[1]] \in Nat
      BY <1>1, WeightsTyped
    <3> QED  BY <3>1
  <2>3. Load(onHand, l) = SumFunctionOnSet(f, S)
    BY DEF Load
  <2>4. \A k \in S : none[k] = 0
    OBVIOUS
  <2> HIDE DEF S, f, none
  <2>5. SumFunctionOnSet(f, S) = SumFunctionOnSet(none, S)
    BY <2>1, <2>2, SumOfEquals
  <2>6. SumFunctionOnSet(none, S) = 0
    BY <2>1, <2>4, SumOfZeroes
  <2> QED  BY <2>3, <2>5, <2>6
<1>7. LocationWithinCapacity
  BY <1>6, StockConstants DEF LocationWithinCapacity
<1> QED  BY <1>2, <1>3, <1>4, <1>5, <1>7 DEF BookInv

LEMMA BookNext == IInv /\ BookInv /\ [Next]_vars => BookInv'
<1> SUFFICES ASSUME IInv, BookInv, [Next]_vars PROVE BookInv'
  OBVIOUS
<1> USE DEF IInv, BookInv
<1>1. CASE UNCHANGED vars
  <2> USE <1>1 DEF vars
  <2>1. TablesFinite' /\ RowsAreNew' /\ LinesAreApart' /\ PostedKeysHaveRows'
    BY DEF TablesFinite, RowsAreNew, LinesAreApart, PostedKeysHaveRows, KeysOf, FromKey, ToKey
  <2>2. DraftsAreWellformed' /\ DraftIsFold' /\ RowsAreLocked' /\ PutAwayIsLocked'
    BY DEF DraftsAreWellformed, DraftIsFold, RowsAreLocked, PutAwayIsLocked, RowsOf, Row,
           FromKey, ToKey, Fold
  <2>3. BroughtUnderLock' /\ FoldIsCurrent' /\ UnmovedHasNoExpiry' /\ BalanceIsFold'
    BY DEF BroughtUnderLock, FoldIsCurrent, UnmovedHasNoExpiry, BalanceIsFold, HasMoved, Fold
  <2>4. LocationWithinCapacity' /\ CapacityIsKept'
    BY DEF LocationWithinCapacity, CapacityIsKept, Load, View, Incoming
  <2> QED  BY <2>1, <2>2, <2>3, <2>4
<1>2. ASSUME NEW t \in Txn, Acts(t) PROVE BookInv'
  <2>1. TablesFinite' /\ RowsAreNew' /\ LinesAreApart' /\ PostedKeysHaveRows'
    BY <1>2, TablesFiniteStep, RowsAreNewStep, LinesAreApartStep, PostedKeysHaveRowsStep
  <2>2. DraftsAreWellformed' /\ DraftIsFold' /\ RowsAreLocked' /\ PutAwayIsLocked'
    BY <1>2, DraftsAreWellformedStep, DraftIsFoldStep, RowsAreLockedStep, PutAwayIsLockedStep
  <2>3. BroughtUnderLock' /\ FoldIsCurrent' /\ UnmovedHasNoExpiry' /\ BalanceIsFold'
    BY <1>2, BroughtUnderLockStep, FoldIsCurrentStep, UnmovedHasNoExpiryStep, BalanceIsFoldStep
  <2>4. LocationWithinCapacity' /\ CapacityIsKept'
    BY <1>2, WithinCapacityStep, CapacityIsKeptStep
  <2> QED  BY <2>1, <2>2, <2>3, <2>4
<1> QED  BY <1>1, <1>2 DEF Next, Acts

(* Every reachable state satisfies the second layer too. *)
THEOREM StockBookInvariant == Spec => []BookInv
  BY StockInvariant, BookInit, BookNext, PTL DEF Spec

(* G1: the committed balance of every key is the signed sum of its         *)
(* committed ledger rows, for any number of sessions and commands.         *)
THEOREM BalanceAlwaysFold == Spec => []BalanceIsFold
<1>1. BookInv => BalanceIsFold
  BY DEF BookInv
<1> QED  BY <1>1, StockBookInvariant, PTL

(* No quantity goes negative and no location above its weight limit.       *)
THEOREM QuantitiesBounded == Spec => []QuantitiesInBounds
<1>1. IInv /\ BookInv => QuantitiesInBounds
  BY DEF IInv, BookInv, QuantitiesInBounds
<1> QED  BY <1>1, StockInvariant, StockBookInvariant, PTL

(* decision 8: a rebuild that commits changes nothing.                     *)
THEOREM RebuildKeepsBooks == Spec => RebuildChangesNothing
<1> DEFINE Kept == \A t \in Txn : (pc[t] = "overwrite" /\ round'[t] # round[t]) => UNCHANGED stock
<1>1. IInv /\ BookInv /\ [Next]_vars => [Kept]_vars
  <2> SUFFICES ASSUME IInv, BookInv, NEW u \in Txn, Acts(u), NEW t \in Txn,
                      pc[t] = "overwrite", round'[t] # round[t]
               PROVE  UNCHANGED stock
    BY DEF Next, Acts
  <2> USE DEF IInv, BookInv
  <2>1. u = t
    BY OthersUntouched
  <2>2. OverwriteBalance(t)
    <3>1. ~Commit(t)
      BY DEF Commit
    <3>2. ~Rollback(t) /\ ~ApplyDelta(t)
      BY DraftGrows DEF Rollback
    <3> QED  BY <2>1, <3>1, <3>2, DraftKept
  <2> QED  BY <2>2, OverwriteKeeps DEF stock
<1> QED  BY <1>1, StockInvariant, StockBookInvariant, PTL DEF Spec, RebuildChangesNothing

-----------------------------------------------------------------------------
(* The ledger implements the atomic book: a commit books its rows, and     *)
(* every other step leaves the committed tables alone.                     *)

LEMMA SameTerms ==
  /\ Book!Key = Key
  /\ \A rows, k : Book!Balance(rows, k) = Fold(rows, k)
  /\ \A balance, l : Book!Load(balance, l) = Load(balance, l)
<1>1. Book!Key = Key
  BY DEF Book!Key, Key
<1>2. \A f, S : Book!SumFunctionOnSet(f, S) = SumFunctionOnSet(f, S)
  BY DEF Book!SumFunctionOnSet, SumFunctionOnSet, Book!FoldFunctionOnSet, FoldFunctionOnSet,
         Book!MapThenFoldSet, MapThenFoldSet
<1> QED  BY <1>1, <1>2 DEF Book!Balance, Fold, Book!Load, Load

LEMMA CommittedWellformed ==
  ASSUME TypeOK, DraftsAreWellformed, PostedKeysHaveRows, NEW t \in Txn, Commit(t)
  PROVE  moves[t] # {} /\ Book!Wellformed(moves[t])
<1> DEFINE p == job[t]
<1>1. pc[t] = "commit" /\ p \in Posting
  BY DEF Commit, TypeOK, JobFitsStatement, PostingPC
<1>2. p.qty \in Nat /\ KeysOf(p) # {}
  BY <1>1 DEF Posting, Entry, KeysOf
<1>3. moves[t] # {}
  BY <1>1, <1>2 DEF PostedKeysHaveRows
<1>4. CASE p.kind = "transfer"
  <2> DEFINE out == Row(t, FromKey(p), -p.qty)
             in == Row(t, ToKey(p), p.qty)
  <2>1. moves[t] = {out, in}
    <3>1. moves[t] = RowsOf(t) /\ p.from # NoLocation /\ p.to # NoLocation
      BY <1>1, <1>4 DEF DraftsAreWellformed, PostingPC, Posting
    <3> QED  BY <3>1 DEF RowsOf
  <2>2. out.qty = -p.qty /\ in.qty = p.qty
    BY DEF Row
  <2>3. out.qty = -in.qty
    BY <1>2, <2>2
  <2> HIDE DEF out, in
  <2> QED  BY <1>3, <2>1, <2>3 DEF Book!Wellformed
<1>5. CASE p.kind # "transfer"
  <2>1. \A m, n \in moves[t] : m.key = n.key => m = n
    BY <1>1, <1>5 DEF DraftsAreWellformed, PostingPC
  <2> QED  BY <1>3, <2>1 DEF Book!Wellformed
<1> QED  BY <1>4, <1>5

LEMMA CommittedExpiryBooked ==
  ASSUME IInv, BookInv, IInv', NEW t \in Txn, Commit(t)
  PROVE  Book!ExpiryBooked(moves[t])
<1> USE DEF IInv, BookInv
<1>1. pc[t] = "commit" /\ ledger' = ledger \cup moves[t]
  BY DEF Commit
<1>2. ASSUME NEW k \in Key
      PROVE  \/ expiry'[k] = expiry[k]
             \/ expiry[k] = NoExpiry /\ \E m \in moves[t] : m.key = k /\ m.exp = expiry'[k]
  <2>1. CASE k \in KeysOf(job[t]) /\ expiry[k] = NoExpiry
    <3>1. expiry'[k] = job[t].exp
      BY <2>1, CommitStamps
    <3> QED  BY <1>1, <2>1, <3>1 DEF PostedKeysHaveRows
  <2>2. CASE ~(k \in KeysOf(job[t]) /\ expiry[k] = NoExpiry)
    BY <2>2, CommitStamps
  <2> QED  BY <2>1, <2>2
<1>3. ASSUME NEW m \in moves[t], m.exp # NoExpiry,
             NEW k \in Key, k[1] = m.key[1], k[3] = m.key[3]
      PROVE  expiry'[k] \in {NoExpiry, m.exp}
  <2>1. m \in ledger' /\ m.key \in Key
    BY <1>1 DEF TypeOK, Movement
  <2>2. expiry'[m.key] = m.exp
    BY <1>3, <2>1 DEF LedgerExpiryOnBalance
  <2>3. expiry'[k] # NoExpiry => expiry'[k] = expiry'[m.key]
    BY <1>3, <2>1, <2>2 DEF OneExpiryPerBatch
  <2> QED  BY <2>2, <2>3
<1> QED  BY <1>2, <1>3, SameTerms DEF Book!ExpiryBooked

LEMMA CommitIsBooked ==
  ASSUME IInv, BookInv, IInv', BookInv', NEW t \in Txn, Commit(t)
  PROVE  Book!Next
<1> USE DEF IInv, BookInv
<1>1. ledger' = ledger \cup moves[t] /\ ledger \cap moves[t] = {}
  BY RowsAreFresh DEF Commit
<1>2. ledger' \ ledger = moves[t]
  BY <1>1
<1>3. moves[t] # {} /\ Book!Wellformed(moves[t])
  BY CommittedWellformed
<1>4. onHand' = [k \in Key |-> Fold(ledger', k)] /\ \A k \in Key : onHand'[k] >= 0
  <2>1. onHand' \in [Key -> Int] /\ \A k \in Key : onHand'[k] = Fold(ledger', k)
    BY DEF BalanceIsFold, TypeOK, Fold
  <2> QED  BY <2>1 DEF NoNegativeStock
<1>5. Book!ExpiryBooked(moves[t])
  BY CommittedExpiryBooked
<1>6. Book!Admissible(moves[t])
  <2>1. ASSUME NEW m \in moves[t], m.qty > 0 PROVE m.key[2] \in Open
    BY <2>1 DEF RowsAreLocked
  <2>2. ASSUME NEW m \in moves[t], m.qty > 0, Capacity[m.key[2]] # NoLimit
        PROVE  Load(onHand', m.key[2]) <= Capacity[m.key[2]]
    <3>1. m.key[2] \in Location
      BY DEF TypeOK, Movement, Key
    <3> QED  BY <2>2, <3>1 DEF LocationWithinCapacity, Load
  <2> QED  BY <2>1, <2>2, SameTerms DEF Book!Admissible
<1>7. onHand' = [k \in Book!Key |-> Book!Balance(ledger', k)] /\ \A k \in Book!Key : onHand'[k] >= 0
  BY <1>4, SameTerms
<1> HIDE DEF IInv, BookInv
<1>8. Book!Book(moves[t])
  BY <1>1, <1>3, <1>5, <1>6, <1>7 DEF Book!Book
<1> QED  BY <1>2, <1>8 DEF Book!Next

(* StockLedger implements StockBook: to a reader of the committed tables,  *)
(* every step books one admissible set of movements or changes nothing.    *)
THEOREM LedgerImplementsBook == Spec => ImplementsBook
<1>1. Init => Book!Init
  BY SameTerms DEF Init, Book!Init
<1>2. IInv /\ BookInv /\ IInv' /\ BookInv' /\ [Next]_vars => [Book!Next]_<<ledger, onHand, expiry>>
  <2>1. SUFFICES ASSUME IInv, BookInv, IInv', BookInv', NEW t \in Txn, Acts(t)
                 PROVE  Book!Next \/ UNCHANGED <<ledger, onHand, expiry>>
    BY DEF Next, Acts, vars
  <2>2. CASE Commit(t)
    BY <2>1, <2>2, CommitIsBooked
  <2>3. CASE OverwriteBalance(t)
    BY <2>1, <2>3, OverwriteKeeps DEF IInv, BookInv
  <2>4. CASE ~Commit(t) /\ ~OverwriteBalance(t)
    BY <2>1, <2>4, StockUntouched DEF IInv
  <2> QED  BY <2>2, <2>3, <2>4
<1> QED  BY <1>1, <1>2, StockInvariant, StockBookInvariant, PTL DEF Spec, ImplementsBook, Book!Spec

-----------------------------------------------------------------------------
(* Circular waits.  A transaction with one posting requests its locks in   *)
(* one order: the rebuild key, the location, the batch, the balance rows   *)
(* by rank, the audit chain.  Whoever waits in a circle waits for someone  *)
(* further on in that order, up to the rows of the greatest rank.          *)

CountsLines(t) == pc[t] \in PostingPC /\ job[t].kind = "adjust" /\ rest[t] \cup moves[t] # {}

PastLocation == {"limits", "batch", "expiry", "row", "apply", "audit", "commit"}
PastBatch    == {"expiry", "row", "apply", "audit", "commit"}
AtRows       == {"row", "apply", "audit", "commit"}

(* The row lock of a key of the posting at work, of lower rank than those  *)
(* it does not hold yet.                                                   *)
LowerRow(t, r) ==
  \E k \in KeysOf(job[t]) : r = RowLock(k) /\ \A j \in Unlocked(t) : KeyRank[k] < KeyRank[j]

TakenInOrder(t, r) ==
  \/ pc[t] \in PastLocation /\ \E l : r = LocationLock(l)
  \/ pc[t] \in PastBatch /\ \E s, b : r = BatchLock(s, b)
  \/ pc[t] \in AtRows /\ LowerRow(t, r)
  \/ pc[t] = "commit" /\ r = AuditLock

LocksInOrder ==
  \A t \in Txn :
    /\ pc[t] \in {"idle", "exclusive"} => holds[t] = {} /\ shares[t] = {}
    /\ pc[t] \in {"fold", "overwrite"} =>
         shares[t] = {} /\ \A r \in holds[t] : \E s : r = RebuildLock(s)
    /\ (pc[t] \in PostingPC /\ ~CountsLines(t)) =>
         /\ pc[t] = "rebuild" => shares[t] = {}
         /\ \A r \in shares[t] : \E s : r = RebuildLock(s)
         /\ \A r \in holds[t] : TakenInOrder(t, r)

LEMMA LocksAreApart ==
  /\ \A s, l : RebuildLock(s) # LocationLock(l)
  /\ \A s, q, b : RebuildLock(s) # BatchLock(q, b)
  /\ \A s, k : RebuildLock(s) # RowLock(k)
  /\ \A s : RebuildLock(s) # AuditLock
  /\ \A l, s, b : LocationLock(l) # BatchLock(s, b)
  /\ \A l, k : LocationLock(l) # RowLock(k)
  /\ \A l : LocationLock(l) # AuditLock
  /\ \A s, b, k : BatchLock(s, b) # RowLock(k)
  /\ \A s, b : BatchLock(s, b) # AuditLock
  /\ \A k : RowLock(k) # AuditLock
  /\ \A j, k : RowLock(j) = RowLock(k) => j = k
  BY DEF LocationLock, RebuildLock, BatchLock, RowLock, AuditLock

(* Once a transaction counts several lines, it does so until it ends. *)
LEMMA CountsOn ==
  ASSUME TypeOK, PostedKeysHaveRows, DraftCarriesJobExpiry, NEW t \in Txn, Acts(t), CountsLines(t)
  PROVE  CountsLines(t)' \/ pc'[t] = "idle"
<1> USE DEF PostingPC
<1>1. CASE Start(t)
  BY <1>1, StartOpens DEF Opened, CountsLines
<1>2. CASE Quiet(t)
  BY <1>2, QuietKeeps DEF CountsLines, RebuildPC
<1>3. CASE AssertBatchExpiry(t)
  BY <1>3, CarriesOn DEF CountsLines
<1>4. CASE ApplyDelta(t)
  BY <1>4, DraftGrows DEF CountsLines
<1>5. CASE WriteAuditRow(t)
  <2>1. /\ pc[t] = "audit" /\ moves'[t] = moves[t]
        /\ \/ pc'[t] = "commit" /\ job' = job /\ rest' = rest
           \/ \E p \in rest[t] : pc'[t] = "rebuild" /\ job'[t] = p
    BY <1>5, AuditGoesOn
  <2>2. CASE pc'[t] = "commit" /\ job' = job /\ rest' = rest
    BY <2>1, <2>2 DEF CountsLines
  <2>3. CASE \E p \in rest[t] : pc'[t] = "rebuild" /\ job'[t] = p
    <3>1. job'[t].kind = "adjust"
      BY <2>3 DEF DraftCarriesJobExpiry
    <3>2. moves[t] # {}
      <4>1. job[t] \in Posting
        BY <2>1 DEF TypeOK, JobFitsStatement
      <4>2. KeysOf(job[t]) # {}
        BY <4>1 DEF Posting, KeysOf
      <4> QED  BY <2>1, <4>2 DEF PostedKeysHaveRows
    <3> QED  BY <2>1, <2>3, <3>1, <3>2 DEF CountsLines
  <2> QED  BY <2>1, <2>2, <2>3
<1>6. CASE Rollback(t) \/ Commit(t) \/ OverwriteBalance(t)
  BY <1>6, EndsClean
<1> QED  BY <1>1, <1>2, <1>3, <1>4, <1>5, <1>6, StepKinds

LEMMA LocksInOrderStep ==
  ASSUME TypeOK, PostedKeysHaveRows, DraftCarriesJobExpiry, LocksInOrder, NEW t \in Txn, Acts(t)
  PROVE  LocksInOrder'
<1> DEFINE Ordered(u) ==
      /\ pc[u] \in {"idle", "exclusive"} => holds[u] = {} /\ shares[u] = {}
      /\ pc[u] \in {"fold", "overwrite"} =>
           shares[u] = {} /\ \A r \in holds[u] : \E s : r = RebuildLock(s)
      /\ (pc[u] \in PostingPC /\ ~CountsLines(u)) =>
           /\ pc[u] = "rebuild" => shares[u] = {}
           /\ \A r \in shares[u] : \E s : r = RebuildLock(s)
           /\ \A r \in holds[u] : TakenInOrder(u, r)
<1>0. \A u \in Txn : Ordered(u)
  BY DEF LocksInOrder
<1> SUFFICES ASSUME NEW u \in Txn PROVE Ordered(u)'
  BY DEF LocksInOrder
<1> USE DEF PostingPC
<1>1. CASE u # t
  <2>1. /\ pc'[u] = pc[u] /\ job'[u] = job[u] /\ rest'[u] = rest[u] /\ moves'[u] = moves[u]
        /\ holds'[u] = holds[u] /\ shares'[u] = shares[u]
    BY <1>1, OthersUntouched
  <2>2. \A r : TakenInOrder(u, r)' <=> TakenInOrder(u, r)
    BY <2>1 DEF TakenInOrder, LowerRow, Unlocked, KeysOf, FromKey, ToKey
  <2>3. CountsLines(u)' <=> CountsLines(u)
    BY <2>1 DEF CountsLines
  <2> QED  BY <1>0, <2>1, <2>2, <2>3
<1>2. CASE u = t /\ (Rollback(t) \/ Commit(t) \/ OverwriteBalance(t))
  BY <1>2, EndsClean
<1>3. CASE u = t /\ Start(t)
  <2>1. pc[t] = "idle" /\ pc'[t] \in {"rebuild", "exclusive"} /\ holds' = holds /\ shares' = shares
    BY <1>3, StartOpens DEF Opened, Begin, TypeOK
  <2> QED  BY <1>0, <1>3, <2>1
<1>4. CASE u = t /\ LockRebuildKeyExclusive(t)
  <2>1. /\ pc[t] = "exclusive" /\ pc'[t] = "fold" /\ shares' = shares
        /\ holds'[t] = holds[t] \cup {RebuildLock(job[t].sku)}
    BY <1>4 DEF LockRebuildKeyExclusive, Goto, Grab, TypeOK
  <2> QED  BY <1>0, <1>4, <2>1
<1>5. CASE u = t /\ FoldLedger(t)
  <2>1. pc[t] = "fold" /\ pc'[t] = "overwrite" /\ shares' = shares /\ holds' = holds
    BY <1>5 DEF FoldLedger, Goto, TypeOK, locks
  <2> QED  BY <1>0, <1>5, <2>1
<1>6. CASE /\ u = t
           /\ \/ LockRebuildKeyShared(t) \/ LockLocation(t) \/ CheckLimits(t) \/ LockBatchExpiry(t)
              \/ LockBalanceRow(t) \/ AssertBatchExpiry(t) \/ ApplyDelta(t) \/ WriteAuditRow(t)
  <2>1. pc'[t] \in PostingPC
    BY <1>6, DraftGrows, CarriesOn, AuditGoesOn
       DEF LockRebuildKeyShared, LockLocation, CheckLimits, LockBatchExpiry, LockBalanceRow,
           Goto, AfterLimits, TypeOK
  <2> SUFFICES ASSUME ~CountsLines(t)'
               PROVE  /\ pc'[t] = "rebuild" => shares'[t] = {}
                      /\ \A r \in shares'[t] : \E s : r = RebuildLock(s)
                      /\ \A r \in holds'[t] : TakenInOrder(t, r)'
    BY <1>6, <2>1
  <2>2. ~CountsLines(t)
    BY <2>1, CountsOn
  <2>3. pc[t] \in PostingPC =>
          /\ pc[t] = "rebuild" => shares[t] = {}
          /\ \A r \in shares[t] : \E s : r = RebuildLock(s)
          /\ \A r \in holds[t] : TakenInOrder(t, r)
    BY <1>0, <2>2
  <2> HIDE DEF Ordered
  <2>4. CASE LockRebuildKeyShared(t)
    <3>1. /\ pc[t] = "rebuild" /\ pc'[t] # "rebuild" /\ holds' = holds
          /\ shares'[t] = shares[t] \cup {RebuildLock(job[t].sku)}
      BY <2>4 DEF LockRebuildKeyShared, Share, Goto, AfterLimits, TypeOK
    <3>2. holds[t] = {}
      BY <2>3, <3>1 DEF TakenInOrder, PastLocation, PastBatch, AtRows
    <3> QED  BY <2>3, <3>1, <3>2
  <2>5. CASE LockLocation(t)
    <3>1. /\ pc[t] = "location" /\ pc'[t] = "limits" /\ shares' = shares
          /\ holds'[t] = holds[t] \cup {LocationLock(job[t].to)}
      BY <2>5 DEF LockLocation, Grab, Goto, TypeOK
    <3>2. holds[t] = {}
      BY <2>3, <3>1 DEF TakenInOrder, PastLocation, PastBatch, AtRows
    <3> QED  BY <2>3, <3>1, <3>2 DEF TakenInOrder, PastLocation
  <2>6. CASE CheckLimits(t)
    <3>1. pc[t] = "limits" /\ pc'[t] \in {"batch", "row"} /\ shares' = shares /\ holds' = holds
      BY <2>6 DEF CheckLimits, Goto, AfterLimits, TypeOK, locks
    <3>2. \A r \in holds[t] : \E l : r = LocationLock(l)
      BY <2>3, <3>1 DEF TakenInOrder, PastBatch, AtRows
    <3> QED  BY <2>3, <3>1, <3>2 DEF TakenInOrder, PastLocation
  <2>7. CASE LockBatchExpiry(t)
    <3>1. /\ pc[t] = "batch" /\ pc'[t] = "expiry" /\ shares' = shares
          /\ holds'[t] = holds[t] \cup {BatchLock(job[t].sku, job[t].batch)}
      BY <2>7 DEF LockBatchExpiry, Grab, Goto, TypeOK
    <3>2. \A r \in holds[t] : \E l : r = LocationLock(l)
      BY <2>3, <3>1 DEF TakenInOrder, PastBatch, AtRows
    <3> QED  BY <2>3, <3>1, <3>2 DEF TakenInOrder, PastLocation, PastBatch
  <2>8. CASE AssertBatchExpiry(t)
    <3>1. pc[t] = "expiry" /\ pc'[t] = "row" /\ shares' = shares /\ holds' = holds
      BY <2>8, CarriesOn
    <3>2. \A r \in holds[t] : (\E l : r = LocationLock(l)) \/ (\E s, b : r = BatchLock(s, b))
      BY <2>3, <3>1 DEF TakenInOrder, AtRows
    <3> QED  BY <2>3, <3>1, <3>2 DEF TakenInOrder, PastLocation, PastBatch
  <2>9. CASE LockBalanceRow(t)
    <3>1. PICK k \in Key : NextRow(t, k) /\ Grab(t, RowLock(k))
      BY <2>9 DEF LockBalanceRow
    <3>2. /\ pc[t] = "row" /\ pc'[t] \in {"row", "apply"} /\ shares' = shares /\ job' = job
          /\ holds'[t] = holds[t] \cup {RowLock(k)}
      BY <2>9, <3>1 DEF LockBalanceRow, Goto, Grab, TypeOK
    <3>3. KeysOf(job[t])' = KeysOf(job[t])
      BY <3>2 DEF KeysOf, FromKey, ToKey
    <3>4. \A j \in Unlocked(t)' : j \in Unlocked(t) /\ j # k
      BY <3>2, <3>3 DEF Unlocked
    <3>5. k \in KeysOf(job[t]) /\ \A j \in Unlocked(t)' : KeyRank[k] < KeyRank[j]
      <4>1. k \in KeysOf(job[t]) /\ \A j \in Unlocked(t) : KeyRank[k] <= KeyRank[j]
        BY <3>1 DEF NextRow, Unlocked
      <4>2. \A j \in Unlocked(t) : j \in Key
        <5>1. job[t] \in Posting
          BY <3>2 DEF TypeOK, JobFitsStatement
        <5> QED  BY <5>1, KeysOfPosting DEF Unlocked
      <4>3. ASSUME NEW j \in Unlocked(t)' PROVE KeyRank[k] < KeyRank[j]
        <5>1. j \in Key /\ KeyRank[k] <= KeyRank[j] /\ j # k
          BY <3>4, <4>1, <4>2
        <5>2. KeyRank[k] \in Nat /\ KeyRank[j] \in Nat /\ KeyRank[k] # KeyRank[j]
          BY <5>1, StockConstants
        <5> QED  BY <5>1, <5>2
      <4> QED  BY <4>1, <4>3
    <3>6. LowerRow(t, RowLock(k))'
      BY <3>2, <3>3, <3>5 DEF LowerRow
    <3>7. \A r : LowerRow(t, r) => LowerRow(t, r)'
      BY <3>2, <3>3, <3>4 DEF LowerRow
    <3>8. \A r \in holds[t] : TakenInOrder(t, r)'
      BY <2>3, <3>2, <3>7 DEF TakenInOrder, PastLocation, PastBatch, AtRows
    <3>9. TakenInOrder(t, RowLock(k))'
      BY <3>2, <3>6 DEF TakenInOrder, AtRows
    <3> QED  BY <2>3, <3>2, <3>8, <3>9
  <2>10. CASE ApplyDelta(t)
    <3>1. pc[t] = "apply" /\ pc'[t] = "audit" /\ shares' = shares /\ holds' = holds /\ job' = job
      BY <2>10, DraftGrows
    <3>2. \A r : LowerRow(t, r) => LowerRow(t, r)'
      BY <3>1 DEF LowerRow, Unlocked, KeysOf, FromKey, ToKey
    <3>3. \A r \in holds[t] : TakenInOrder(t, r)'
      BY <2>3, <3>1, <3>2 DEF TakenInOrder, PastLocation, PastBatch, AtRows
    <3> QED  BY <2>3, <3>1, <3>3
  <2>11. CASE WriteAuditRow(t)
    <3>1. /\ pc[t] = "audit" /\ shares' = shares /\ holds'[t] = holds[t] \cup {AuditLock}
      BY <2>11, AuditGoesOn DEF WriteAuditRow, Grab, TypeOK
    <3>2. pc'[t] = "commit" /\ job' = job
      <4>1. CASE \E p \in rest[t] : pc'[t] = "rebuild"
        <5>1. rest[t] # {} /\ job[t].kind = "adjust"
          BY <3>1, <4>1 DEF DraftCarriesJobExpiry
        <5> QED  BY <2>2, <3>1, <5>1 DEF CountsLines
      <4> QED  BY <2>11, <4>1, AuditGoesOn
    <3>3. \A r : LowerRow(t, r) => LowerRow(t, r)'
      BY <3>1, <3>2 DEF LowerRow, Unlocked, KeysOf, FromKey, ToKey
    <3>4. \A r \in holds[t] : TakenInOrder(t, r)'
      BY <2>3, <3>1, <3>2, <3>3 DEF TakenInOrder, PastLocation, PastBatch, AtRows
    <3>5. TakenInOrder(t, AuditLock)'
      BY <3>2 DEF TakenInOrder
    <3> QED  BY <2>3, <3>1, <3>2, <3>4, <3>5
  <2> QED  BY <1>6, <2>4, <2>5, <2>6, <2>7, <2>8, <2>9, <2>10, <2>11
<1> QED  BY <1>1, <1>2, <1>3, <1>4, <1>5, <1>6, StepKinds DEF Quiet
(* Some key of every set of keys has the greatest rank. *)
LEMMA GreatestRank ==
  ASSUME NEW K \in SUBSET Key, K # {}
  PROVE  \E k \in K : \A j \in K : KeyRank[j] <= KeyRank[k]
<1> DEFINE Total == SumFunctionOnSet(KeyRank, K)
           zero == [k \in K |-> 0]
           Below == {Total - KeyRank[k] : k \in K}
<1>1. IsFiniteSet(K) /\ \A k \in K : KeyRank[k] \in Nat /\ KeyRank[k] \in Int
  BY StockConstants, FS_Subset
<1>2. Total \in Int
  BY <1>1, SumIsInt
<1>3. ASSUME NEW k \in K PROVE KeyRank[k] <= Total
  <2> DEFINE rest1 == SumFunctionOnSet(KeyRank, K \ {k})
  <2>1. IsFiniteSet(K \ {k}) /\ \A j \in K \ {k} : zero[j] = 0
    BY <1>1, FS_RemoveElement
  <2>2. SumFunctionOnSet(zero, K \ {k}) = 0
    <3> HIDE DEF zero
    <3> QED  BY <2>1, SumOfZeroes
  <2>3. \A j \in K \ {k} : zero[j] \in Int /\ KeyRank[j] \in Int /\ zero[j] <= KeyRank[j]
    BY <1>1
  <2>4. SumFunctionOnSet(zero, K \ {k}) <= rest1
    <3> HIDE DEF zero
    <3> QED  BY <2>1, <2>3, SumIsMonotone
  <2>5. Total = KeyRank[k] + rest1
    BY <1>1, SumTakesOne
  <2>6. rest1 \in Int /\ KeyRank[k] \in Int
    BY <1>1, <2>1, SumIsInt
  <2> HIDE DEF rest1, Total
  <2> QED  BY <2>2, <2>4, <2>5, <2>6
<1> HIDE DEF Total
<1>4. Below \in SUBSET Nat /\ Below # {}
  BY <1>1, <1>2, <1>3
<1>5. PICK n \in Below : \A m \in Below : n <= m
  <2> HIDE DEF Below
  <2> QED  BY <1>4, LeastNumber
<1>6. PICK k \in K : n = Total - KeyRank[k]
  BY <1>5
<1>7. ASSUME NEW j \in K PROVE KeyRank[j] <= KeyRank[k]
  <2>1. Total - KeyRank[k] <= Total - KeyRank[j]
    BY <1>5, <1>6
  <2>2. Total \in Int /\ KeyRank[k] \in Int /\ KeyRank[j] \in Int
    BY <1>1, <1>2
  <2> QED  BY <2>1, <2>2
<1> QED  BY <1>7

LEMMA NoCircleOfSingles ==
  ASSUME TypeOK, LocksInOrder, NEW S \in SUBSET Txn, CircularWait(S),
         \A t \in S : ~CountsLines(t)
  PROVE  FALSE
<1> DEFINE Waiting == {"rebuild", "exclusive", "location", "batch", "row", "audit"}
<1>1. \A t \in S : pc[t] \in Waiting /\ \E u \in S : WaitsFor(t, u)
  BY DEF CircularWait, WaitsFor, Wants
<1>2. ASSUME NEW u \in S
      PROVE  /\ \A r \in shares[u] : pc[u] # "rebuild" /\ \E s : r = RebuildLock(s)
             /\ \A r \in holds[u] : TakenInOrder(u, r)
             /\ pc[u] = "exclusive" => holds[u] = {} /\ shares[u] = {}
  <2>1. pc[u] \in PostingPC \/ pc[u] = "exclusive"
    BY <1>1 DEF PostingPC
  <2> QED  BY <2>1 DEF LocksInOrder, PostingPC
<1>3. ASSUME NEW t \in S PROVE pc[t] # "audit"
  <2> SUFFICES ASSUME pc[t] = "audit" PROVE FALSE
    OBVIOUS
  <2>1. PICK u \in S : AuditLock \in holds[u] \/ AuditLock \in shares[u]
    BY <1>1 DEF WaitsFor, Wants
  <2>2. AuditLock \in holds[u] /\ TakenInOrder(u, AuditLock)
    BY <1>2, <2>1, LocksAreApart
  <2>3. pc[u] = "commit"
    BY <2>2, LocksAreApart DEF TakenInOrder, LowerRow
  <2> QED  BY <1>1, <2>3
<1>4. ASSUME NEW t \in S PROVE pc[t] # "row"
  <2> SUFFICES ASSUME pc[t] = "row" PROVE FALSE
    OBVIOUS
  <2> DEFINE Next1(u) == {k \in Key : NextRow(u, k)}
             K == {k \in Key : \E u \in S : pc[u] = "row" /\ NextRow(u, k)}
  <2>1. \A u \in S : pc[u] = "row" => \E k \in Key, v \in S : NextRow(u, k) /\ (RowLock(k) \in holds[v] \/ RowLock(k) \in shares[v])
    BY <1>1 DEF WaitsFor, Wants
  <2>2. K \in SUBSET Key /\ K # {}
    BY <2>1
  <2>3. PICK k \in K : \A j \in K : KeyRank[j] <= KeyRank[k]
    <3> HIDE DEF K
    <3> QED  BY <2>2, GreatestRank
  <2>4. PICK u \in S : pc[u] = "row" /\ NextRow(u, k)
    OBVIOUS
  <2>5. PICK j \in Key, v \in S : NextRow(u, j) /\ (RowLock(j) \in holds[v] \/ RowLock(j) \in shares[v])
    BY <2>1, <2>4
  <2>6. KeyRank[k] <= KeyRank[j]
    BY <2>4, <2>5 DEF NextRow
  <2>7. TakenInOrder(v, RowLock(j))
    BY <1>2, <2>5, LocksAreApart
  <2>8. pc[v] \in AtRows /\ LowerRow(v, RowLock(j))
    BY <1>1, <2>7, LocksAreApart DEF TakenInOrder
  <2>9. pc[v] = "row"
    BY <1>1, <1>3, <2>8 DEF AtRows
  <2>10. \A i \in Unlocked(v) : KeyRank[j] < KeyRank[i]
    BY <2>8, LocksAreApart DEF LowerRow
  <2>11. PICK i \in Key : NextRow(v, i)
    BY <2>1, <2>9
  <2>12. i \in K /\ KeyRank[j] < KeyRank[i]
    BY <2>9, <2>10, <2>11 DEF NextRow
  <2>13. KeyRank[i] <= KeyRank[k]
    BY <2>3, <2>12
  <2>14. KeyRank[i] \in Nat /\ KeyRank[k] \in Nat /\ KeyRank[j] \in Nat
    BY <2>2, <2>5, <2>11, StockConstants
  <2> HIDE DEF K
  <2> QED  BY <2>6, <2>12, <2>13, <2>14
<1>5. ASSUME NEW t \in S PROVE pc[t] # "batch"
  <2> SUFFICES ASSUME pc[t] = "batch" PROVE FALSE
    OBVIOUS
  <2> DEFINE r == BatchLock(job[t].sku, job[t].batch)
  <2>1. PICK u \in S : r \in holds[u] \/ r \in shares[u]
    BY <1>1 DEF WaitsFor, Wants
  <2>2. TakenInOrder(u, r)
    BY <1>2, <2>1, LocksAreApart
  <2>3. pc[u] \in PastBatch
    BY <2>2, LocksAreApart DEF TakenInOrder, LowerRow
  <2> QED  BY <1>1, <1>3, <1>4, <2>3 DEF PastBatch
<1>6. ASSUME NEW t \in S PROVE pc[t] # "location"
  <2> SUFFICES ASSUME pc[t] = "location" PROVE FALSE
    OBVIOUS
  <2> DEFINE r == LocationLock(job[t].to)
  <2>1. PICK u \in S : r \in holds[u] \/ r \in shares[u]
    BY <1>1 DEF WaitsFor, Wants
  <2>2. TakenInOrder(u, r)
    BY <1>2, <2>1, LocksAreApart
  <2>3. pc[u] \in PastLocation
    BY <2>2, LocksAreApart DEF TakenInOrder, LowerRow
  <2> QED  BY <1>1, <1>3, <1>4, <1>5, <2>3 DEF PastLocation
<1>7. ASSUME NEW t \in S PROVE FALSE
  <2> DEFINE r == RebuildLock(job[t].sku)
  <2>1. pc[t] \in {"rebuild", "exclusive"}
    BY <1>1, <1>3, <1>4, <1>5, <1>6
  <2>2. PICK u \in S : r \in holds[u] \/ r \in shares[u]
    BY <1>1, <2>1 DEF WaitsFor, Wants
  <2>3. pc[u] \in {"rebuild", "exclusive"}
    BY <1>1, <1>3, <1>4, <1>5, <1>6
  <2>4. r \in holds[u] /\ TakenInOrder(u, r)
    BY <1>2, <2>2, <2>3
  <2> QED  BY <2>3, <2>4 DEF TakenInOrder, PastLocation, PastBatch, AtRows
<1> QED  BY <1>7 DEF CircularWait

LEMMA LocksInOrderInvariant == Spec => []LocksInOrder
<1>1. Init => LocksInOrder
  BY DEF Init, LocksInOrder, PostingPC
<1>2. IInv /\ BookInv /\ LocksInOrder /\ [Next]_vars => LocksInOrder'
  <2> SUFFICES ASSUME IInv, BookInv, LocksInOrder, [Next]_vars PROVE LocksInOrder'
    OBVIOUS
  <2>1. CASE UNCHANGED vars
    BY <2>1 DEF vars, LocksInOrder, CountsLines, TakenInOrder, LowerRow, Unlocked, KeysOf, FromKey, ToKey
  <2>2. ASSUME NEW t \in Txn, Acts(t) PROVE LocksInOrder'
    BY <2>2, LocksInOrderStep DEF IInv, BookInv
  <2> QED  BY <2>1, <2>2 DEF Next, Acts
<1> QED  BY <1>1, <1>2, StockInvariant, StockBookInvariant, PTL DEF Spec

(* The lock order excludes a circular wait among transactions of one       *)
(* posting each, rebuilds included: in every circle one counts several     *)
(* lines.                                                                  *)
THEOREM CirclesAreOfCounts == Spec => []CirclesNeedSeveralLines
<1>1. TypeOK /\ LocksInOrder => CirclesNeedSeveralLines
  BY NoCircleOfSingles DEF CirclesNeedSeveralLines, CountsLines
<1> QED  BY <1>1, StockTypeCorrect, LocksInOrderInvariant, PTL

=============================================================================
