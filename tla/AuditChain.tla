----------------------------- MODULE AuditChain ------------------------------
(***************************************************************************)
(* The audit chain of platform.audit_log: the trigger                      *)
(* platform.audit_hash_chain of migration 0004 (ADR-0002), run by every    *)
(* audit insert of every transaction, and platform.verify_audit_chain.     *)
(*                                                                         *)
(* A hash is modelled by what it commits to: the row_hash of a row is the  *)
(* list of contents hashed from the first row of the chain to this one, so *)
(* equal hashes mean equal histories and nothing else is assumed of sha256.*)
(***************************************************************************)
EXTENDS Integers, Sequences

CONSTANTS
  Txn,        \* database sessions, one transaction at a time
  Content,    \* what a row hashes besides prev_hash (user, table, record, operation, time)
  MaxRows,    \* bound: audit rows of one transaction
  MaxLog      \* bound: a transaction starts only while the log is shorter

ASSUME ChainConstants == MaxRows \in Nat /\ MaxLog \in Nat

VARIABLES
  log,        \* committed audit_log rows, in the order they became visible
  stage,         \* "idle", "open" (between statements), "lock" or "append" (inside the trigger)
  isolation,  \* the isolation level of the running transaction
  snapshot,   \* what a REPEATABLE READ transaction sees of the log
  appended,      \* the rows the transaction inserted and has not committed
  holder      \* sessions that hold pg_advisory_xact_lock(hashtext('platform.audit_log'))

chainVars == <<log, stage, isolation, snapshot, appended, holder>>

(* Mutant: the hashed text leaves the content of the row out. *)
HashOfLink(prev, c) == Append(prev, "row")

Hash(prev, c) == Append(prev, c)          \* sha256(coalesce(prev, '') || ...)
NoHash == <<>>                            \* SQL null in prev_hash

AuditRow == [by : Txn, seq : Int, prev : Seq(Content), content : Content, hash : Seq(Content)]

(* order by chain_seq desc limit 1 *)
HeadAt(rows) == CHOOSE i \in 1..Len(rows) : \A j \in 1..Len(rows) : rows[j].seq <= rows[i].seq
HeadSeq(rows)  == IF rows = <<>> THEN 0 ELSE rows[HeadAt(rows)].seq
HeadHash(rows) == IF rows = <<>> THEN NoHash ELSE rows[HeadAt(rows)].hash

(* What the trigger's select reads: the transaction's own rows, after the  *)
(* log as committed now (READ COMMITTED) or when the transaction began.    *)
Visible(t) ==
  (IF isolation[t] = "read committed" THEN log ELSE snapshot[t]) \o appended[t]

-----------------------------------------------------------------------------
InitChain ==
  /\ log = <<>>
  /\ stage = [t \in Txn |-> "idle"]
  /\ isolation = [t \in Txn |-> "read committed"]
  /\ snapshot = [t \in Txn |-> <<>>]
  /\ appended = [t \in Txn |-> <<>>]
  /\ holder = {}

BeginTxn(t) ==
  /\ stage[t] = "idle" /\ Len(log) < MaxLog
  /\ stage' = [stage EXCEPT ![t] = "open"]
  /\ \E level \in {"read committed", "repeatable read"} :
       isolation' = [isolation EXCEPT ![t] = level]
  /\ snapshot' = [snapshot EXCEPT ![t] = log]
  /\ UNCHANGED <<log, appended, holder>>

(* Mutant: no isolation check. *)
InsertAtAnyIsolation(t) ==
  /\ stage[t] = "open" /\ Len(appended[t]) < MaxRows
  /\ stage' = [stage EXCEPT ![t] = "lock"]
  /\ UNCHANGED <<log, isolation, snapshot, appended, holder>>

(* An audit insert fires the trigger, which refuses any other isolation. *)
InsertAuditRow(t) ==
  /\ stage[t] = "open" /\ Len(appended[t]) < MaxRows
  /\ isolation[t] = "read committed"
  /\ stage' = [stage EXCEPT ![t] = "lock"]
  /\ UNCHANGED <<log, isolation, snapshot, appended, holder>>

(* perform pg_advisory_xact_lock: blocks until the holder's transaction ends. *)
LockChain(t) ==
  /\ stage[t] = "lock"
  /\ holder \subseteq {t}
  /\ holder' = {t}
  /\ stage' = [stage EXCEPT ![t] = "append"]
  /\ UNCHANGED <<log, isolation, snapshot, appended>>

(* Mutant: the head is looked up among the committed rows only. *)
NewRowOnCommitted(t, c) ==
  [by |-> t, seq |-> HeadSeq(Visible(t)) + 1, prev |-> HeadHash(log), content |-> c,
   hash |-> Hash(HeadHash(log), c)]

(* select the head, then number, link and hash the new row. *)
NewRow(t, c) ==
  LET rows == Visible(t)
  IN  [by |-> t, seq |-> HeadSeq(rows) + 1, prev |-> HeadHash(rows), content |-> c,
       hash |-> Hash(HeadHash(rows), c)]

AppendRow(t) ==
  /\ stage[t] = "append"
  /\ \E c \in Content : appended' = [appended EXCEPT ![t] = Append(@, NewRow(t, c))]
  /\ stage' = [stage EXCEPT ![t] = "open"]
  /\ UNCHANGED <<log, isolation, snapshot, holder>>

Release(t) ==
  /\ stage' = [stage EXCEPT ![t] = "idle"]
  /\ isolation' = [isolation EXCEPT ![t] = "read committed"]
  /\ snapshot' = [snapshot EXCEPT ![t] = <<>>]
  /\ appended' = [appended EXCEPT ![t] = <<>>]
  /\ holder' = holder \ {t}

CommitTxn(t) ==
  /\ stage[t] = "open"
  /\ log' = log \o appended[t]
  /\ Release(t)

(* An error (the refused isolation among them), a cancelled statement or a *)
(* lost connection; allowed at every statement.                            *)
RollbackTxn(t) ==
  /\ stage[t] # "idle"
  /\ Release(t)
  /\ UNCHANGED log

NextChain == \E t \in Txn :
  BeginTxn(t) \/ InsertAuditRow(t) \/ LockChain(t) \/ AppendRow(t) \/ CommitTxn(t) \/ RollbackTxn(t)

SpecChain == InitChain /\ [][NextChain]_chainVars

-----------------------------------------------------------------------------
(* platform.verify_audit_chain(anchor, anchor_prev_hash) on given rows.    *)

Before(rows, i, j) == rows[i].seq < rows[j].seq \/ (rows[i].seq = rows[j].seq /\ i < j)

Retained(rows, anchor) == {i \in 1..Len(rows) : rows[i].seq >= anchor}

Problems(rows, anchor, anchorHash) ==
  LET kept == Retained(rows, anchor)
      Earlier(i) == {j \in kept : Before(rows, j, i)}
      Lag(i) == CHOOSE j \in Earlier(i) : \A h \in Earlier(i) : h = j \/ Before(rows, h, j)
      ExpectedPrev(i) == IF Earlier(i) = {} THEN anchorHash ELSE rows[Lag(i)].hash
      ExpectedSeq(i) == IF Earlier(i) = {} THEN anchor ELSE rows[Lag(i)].seq + 1
      Duplicate(i) == Earlier(i) # {} /\ rows[i].seq = rows[Lag(i)].seq
  IN  {<<"duplicate_chain_seq", i>> : i \in {j \in kept : Duplicate(j)}} \cup
      {<<"chain_seq_gap", i>> : i \in {j \in kept : rows[j].seq # ExpectedSeq(j) /\ ~Duplicate(j)}} \cup
      {<<"prev_hash_mismatch", i>> : i \in {j \in kept : rows[j].prev # ExpectedPrev(j)}} \cup
      {<<"hash_mismatch", i>> : i \in {j \in kept : rows[j].hash # Hash(ExpectedPrev(j), rows[j].content)}} \cup
      (IF rows # <<>> /\ kept = {} THEN {<<"anchor_not_found", 0>>} ELSE {})

-----------------------------------------------------------------------------
(* Properties.                                                             *)

ChainTypesOK ==
  /\ log \in Seq(AuditRow)
  /\ stage \in [Txn -> {"idle", "open", "lock", "append"}]
  /\ isolation \in [Txn -> {"read committed", "repeatable read"}]
  /\ snapshot \in [Txn -> Seq(AuditRow)]
  /\ appended \in [Txn -> Seq(AuditRow)]
  /\ holder \subseteq Txn

(* rows[i] continues rows[i-1]: number, link and hash. *)
LinkedAt(rows, i) ==
  /\ rows[i].seq = i
  /\ rows[i].prev = IF i = 1 THEN NoHash ELSE rows[i - 1].hash
  /\ rows[i].hash = Hash(rows[i].prev, rows[i].content)

(* ADR-0002: whatever transactions overlap, block, roll back or run under  *)
(* another isolation level, the committed chain is numbered 1, 2, 3, ...   *)
(* without gap or repetition and every row is linked to the one before.    *)
ChainIntact == \A i \in 1..Len(log) : LinkedAt(log, i)

(* The rows a running transaction drafted already continue the committed   *)
(* chain: its lock keeps every other writer out until it ends.             *)
DraftExtendsChain ==
  \A t \in Txn : appended[t] # <<>> =>
    /\ t \in holder
    /\ \A i \in 1..Len(appended[t]) : LinkedAt(log \o appended[t], Len(log) + i)

(* Inductive invariant of EventProofs. *)
WriterOwnsChain ==
  /\ \A t, u \in holder : t = u
  /\ \A t \in Txn : stage[t] = "append" => t \in holder
  /\ \A t \in Txn : stage[t] \in {"lock", "append"} => isolation[t] = "read committed"
  /\ \A t \in Txn : appended[t] # <<>> => stage[t] # "idle" /\ isolation[t] = "read committed"

ChainIInv == ChainTypesOK /\ WriterOwnsChain /\ ChainIntact /\ DraftExtendsChain

(* The verifier reports nothing on the chain, from the first row or from   *)
(* any anchor left by a detached partition ...                             *)
VerifierAccepts ==
  /\ Problems(log, 1, NoHash) = {}
  /\ \A a \in 1..Len(log) : Problems(log, a, IF a = 1 THEN NoHash ELSE log[a - 1].hash) = {}

(* ... and it does report a row whose content was edited, a row removed    *)
(* from inside the chain and a row inserted twice.                         *)
Edited(i, c) == [log EXCEPT ![i].content = c]
Removed(i)   == SubSeq(log, 1, i - 1) \o SubSeq(log, i + 1, Len(log))
Doubled(i)   == SubSeq(log, 1, i) \o SubSeq(log, i, Len(log))

VerifierDetects ==
  \A i \in 1..Len(log) :
    /\ \A c \in Content \ {log[i].content} : Problems(Edited(i, c), 1, NoHash) # {}
    /\ i < Len(log) => Problems(Removed(i), 1, NoHash) # {}
    /\ Problems(Doubled(i), 1, NoHash) # {}

(* G8: on whatever chain the overlapping transactions leave, the verifier  *)
(* reports nothing, and it reports each of those changes to it.            *)
VerifierIsExact == VerifierAccepts /\ VerifierDetects

=============================================================================
