------------------------------ MODULE Accounting ------------------------------
(***************************************************************************)
(* Fiscal years, accounting periods and the journal of one entity          *)
(* (modules/billing: accounting-periods, post-journal; migrations 0040 and *)
(* 0041). Entities share none of these rows: a command that names a row of *)
(* another one is refused before it writes.                                *)
(*                                                                         *)
(* A posting first reads its period (and the entry it reverses) without a  *)
(* lock, then locks the entity's document counter, then inserts the entry; *)
(* the insert's trigger locks the period FOR SHARE and reads it again.     *)
(* The commands on a period lock it FOR UPDATE. Locks end with the         *)
(* transaction. What a transaction writes becomes visible at its commit,   *)
(* which is one step: it holds the locks of all it writes by then.         *)
(***************************************************************************)
EXTENDS Integers, Sequences, Functions

CONSTANTS
  Session,      \* database sessions, one command at a time
  User, NoUser,
  Approver,     \* users with the role platform.approval_chains names for a reopening
  Date,
  Year, Period, \* ids of billing.fiscal_years and billing.accounting_periods
  DatesOf,      \* [Year \cup Period -> SUBSET Date]: start_date .. end_date
  YearOf,       \* [Period -> Year]
  Account,      \* postable accounts of the entity
  Postings,     \* SUBSET [Account -> Int]: the lines callers send, debit minus credit per account
  MaxEntries,   \* bound on the numbers the counter gives out
  MaxDecisions, \* bound on reopen requests
  MaxVersion    \* bound on the version a period is closed or locked at

ASSUME AccountingConstants ==
  /\ NoUser \notin User /\ Approver \subseteq User
  /\ DatesOf \in [Year \cup Period -> SUBSET Date] /\ YearOf \in [Period -> Year]
  /\ Postings \subseteq [Account -> Int]
  /\ MaxEntries \in Nat /\ MaxDecisions \in Nat /\ MaxVersion \in Nat

VARIABLES
  years,       \* fiscal years created
  period,      \* [Period -> accounting_periods.status], "none": not created
  version,     \* [Period -> accounting_periods.version], 1 before a row is inserted too
  entries,     \* committed journal entries, by number (doc_no)
  counter,     \* platform.counters: the last number a commit has used
  decisions,   \* platform.decisions of kind accounting_period_reopen, in the order filed
  pc,          \* where the command of a session stands
  job,         \* the command
  number       \* the number it has drawn, 0: none

books == <<years, period, version, entries, counter, decisions>>
vars  == <<books, pc, job, number>>

-----------------------------------------------------------------------------
(* periodMachine, and what guard_accounting_period lets an update do.      *)

Status == {"none", "open", "closed", "locked"}
From == [close |-> "open", lock |-> "closed", request |-> "closed", reopen |-> "closed"]
To   == [close |-> "closed", lock |-> "locked", reopen |-> "open"]

(* Mutant: the version is left alone. *)
SameVersion(v) == v

NextVersion(v) == v + 1

NoJob == [op |-> "none"]
Job ==
  {NoJob}
    \cup [op : {"post"}, period : Period, date : Date, lines : [Account -> Int],
          reverses : Nat, seen : Nat]   \* the entry it reverses and its version, 0: none
    \cup [op : {"close", "lock"}, period : Period, seen : Nat]
    \cup [op : {"request"}, period : Period, seen : Nat, user : User]
    \cup [op : {"reopen"}, period : Period, seen : Nat, user : User, decision : Nat]

Entry ==
  [type : {"posted", "reversing"}, period : Period, date : Date, lines : [Account -> Int],
   reversedBy : Nat,   \* 0: null
   version : Nat]

Decision ==
  [period : Period, version : Nat, requestedBy : User, status : {"open", "approved", "rejected"},
   decidedBy : User \cup {NoUser},
   applied : Nat]      \* history: how many times it reopened its period

Posted == DOMAIN entries

Balanced(lines) == SumFunction(lines) = 0
Mirror(lines)   == [a \in Account |-> -lines[a]]

HoldsCounter(s)   == pc[s] \in {"insert", "mark", "commit"}
HoldsShare(s, p)  == pc[s] \in {"mark", "commit"} /\ job[s].period = p   \* FOR SHARE
HoldsPeriod(s, p) == pc[s] = "write" /\ job[s].period = p                \* FOR UPDATE

Goto(s, label) == pc' = [pc EXCEPT ![s] = label]
Start(s, j, label) ==
  /\ pc[s] = "idle"
  /\ Goto(s, label)
  /\ job' = [job EXCEPT ![s] = j]
  /\ UNCHANGED <<books, number>>
Finish(s) ==
  /\ Goto(s, "idle")
  /\ job' = [job EXCEPT ![s] = NoJob]
  /\ number' = [number EXCEPT ![s] = 0]

-----------------------------------------------------------------------------
Init ==
  /\ years = {}
  /\ period = [p \in Period |-> "none"]
  /\ version = [p \in Period |-> 1]
  /\ entries = [n \in {} |-> 0]
  /\ counter = 0
  /\ decisions = <<>>
  /\ pc = [s \in Session |-> "idle"]
  /\ job = [s \in Session |-> NoJob]
  /\ number = [s \in Session |-> 0]

(* Two inserts that exclude each other wait for one another, so creating a *)
(* year or a period is one step.                                           *)
CreateFiscalYear(y) ==
  /\ y \notin years
  /\ \A z \in years : DatesOf[z] \cap DatesOf[y] = {}
  /\ years' = years \cup {y}
  /\ UNCHANGED <<period, version, entries, counter, decisions, pc, job, number>>

OpenPeriod(p) ==
  /\ period[p] = "none"
  /\ YearOf[p] \in years /\ DatesOf[p] \subseteq DatesOf[YearOf[p]]
  /\ \A q \in Period : period[q] # "none" => DatesOf[q] \cap DatesOf[p] = {}
  /\ period' = [period EXCEPT ![p] = "open"]
  /\ UNCHANGED <<years, version, entries, counter, decisions, pc, job, number>>

-----------------------------------------------------------------------------
(* Postings. *)

Covers(p, d) == period[p] # "none" /\ d \in DatesOf[p]

(* assertOpenPeriod, on what the command reads without a lock. *)
AssertOpenPeriod(p, d) == Covers(p, d) /\ period[p] = "open"

(* Mutant: the trigger trusts the first reading of the status. *)
AssertCovered(p, d) == Covers(p, d)

(* assert_posting_period, with the covering period locked FOR SHARE. *)
AssertPostingPeriod(p, d) == Covers(p, d) /\ period[p] = "open"

(* PostJournal and AdjustJournal. What the first checks refuse leaves no   *)
(* trace and is not sent, here and below.                                  *)
PostJournal(s, p, d, lines) ==
  /\ AssertOpenPeriod(p, d) /\ Balanced(lines)
  /\ Start(s, [op |-> "post", period |-> p, date |-> d, lines |-> lines, reverses |-> 0, seen |-> 0],
           "number")

ReverseJournal(s, n, p, d) ==
  /\ entries[n].reversedBy = 0
  /\ AssertOpenPeriod(p, d)
  /\ Start(s, [op |-> "post", period |-> p, date |-> d, lines |-> Mirror(entries[n].lines),
               reverses |-> n, seen |-> entries[n].version], "number")

(* next_doc_no updates the counter's row. *)
CounterIsFree(s) == \A t \in Session \ {s} : ~HoldsCounter(t)

(* Mutant: the number is drawn as from a sequence, outside the transaction. *)
TakeNumberAtOnce(s) ==
  /\ pc[s] = "number" /\ CounterIsFree(s)
  /\ counter < MaxEntries
  /\ counter' = counter + 1
  /\ number' = [number EXCEPT ![s] = counter']
  /\ Goto(s, "insert")
  /\ UNCHANGED <<years, period, version, entries, decisions, job>>

TakeNumber(s) ==
  /\ pc[s] = "number" /\ CounterIsFree(s)
  /\ counter < MaxEntries
  /\ number' = [number EXCEPT ![s] = counter + 1]
  /\ Goto(s, "insert")
  /\ UNCHANGED <<books, job>>

(* insertEntry and appendLines; the triggers of all rows ask for the same  *)
(* lock.                                                                   *)
InsertEntry(s) ==
  LET j == job[s] IN
  /\ pc[s] = "insert"
  /\ \A t \in Session \ {s} : ~HoldsPeriod(t, j.period)
  /\ AssertPostingPeriod(j.period, j.date)
  /\ Goto(s, IF j.reverses = 0 THEN "commit" ELSE "mark")
  /\ UNCHANGED <<books, job, number>>

(* Mutant: the mark does not look at what it replaces. *)
MirrorsOriginal(n, seen, lines) == lines = Mirror(entries[n].lines)

(* mark_journal_reversed, on the original's locked row. Who else could     *)
(* hold it, holds the counter.                                             *)
MayMark(n, seen, lines) ==
  /\ entries[n].reversedBy = 0
  /\ entries[n].version = seen
  /\ lines = Mirror(entries[n].lines)

MarkReversed(s) ==
  /\ pc[s] = "mark"
  /\ MayMark(job[s].reverses, job[s].seen, job[s].lines)
  /\ Goto(s, "commit")
  /\ UNCHANGED <<books, job, number>>

NewEntry(j) ==
  [type |-> IF j.reverses = 0 THEN "posted" ELSE "reversing", period |-> j.period, date |-> j.date,
   lines |-> j.lines, reversedBy |-> 0, version |-> 1]

(* assert_journal_entry_balanced runs at the commit. *)
CommitPosting(s) ==
  LET j == job[s] IN
  /\ pc[s] = "commit"
  /\ Balanced(j.lines)
  /\ entries' = [n \in Posted \cup {number[s]} |->
                   IF n = number[s] THEN NewEntry(j)
                   ELSE IF n = j.reverses
                     THEN [entries[n] EXCEPT !.reversedBy = number[s], !.version = @ + 1]
                   ELSE entries[n]]
  /\ counter' = number[s]
  /\ Finish(s)
  /\ UNCHANGED <<years, period, version, decisions>>

-----------------------------------------------------------------------------
(* Commands on a period. *)

(* The caller of a command sends the version it has read. *)
ClosePeriod(s, p) ==
  /\ period[p] = From["close"] /\ version[p] < MaxVersion
  /\ Start(s, [op |-> "close", period |-> p, seen |-> version[p]], "period")

LockPeriod(s, p) ==
  /\ period[p] = From["lock"] /\ version[p] < MaxVersion
  /\ Start(s, [op |-> "lock", period |-> p, seen |-> version[p]], "period")

RequestReopenPeriod(s, p, u) ==
  /\ period[p] = From["request"]
  /\ Start(s, [op |-> "request", period |-> p, seen |-> version[p], user |-> u], "period")

(* A decision that lets u reopen: decided by u, approved, not u's own. *)
DecidedFor(d, u) ==
  /\ d.status = "approved"
  /\ d.decidedBy = u /\ d.requestedBy # u
  /\ u \in Approver

(* ApplyPeriodReopenDecision reads the decision before it locks the period. *)
ApplyPeriodReopenDecision(s, n, u) ==
  /\ DecidedFor(decisions[n], u)
  /\ Start(s, [op |-> "reopen", period |-> decisions[n].period,
               seen |-> decisions[n].version, user |-> u, decision |-> n], "period")

(* Mutant: the postings that share the row are not waited for. *)
LockRowBesidePostings(s) ==
  LET j == job[s] IN
  /\ pc[s] = "period"
  /\ \A t \in Session \ {s} : ~HoldsPeriod(t, j.period)
  /\ version[j.period] = j.seen
  /\ period[j.period] = From[j.op]
  /\ Goto(s, "write")
  /\ UNCHANGED <<books, job, number>>

(* getPeriodForUpdate and the checks after it. *)
LockRow(s) ==
  LET j == job[s] IN
  /\ pc[s] = "period"
  /\ \A t \in Session \ {s} : ~HoldsPeriod(t, j.period) /\ ~HoldsShare(t, j.period)
  /\ version[j.period] = j.seen
  /\ period[j.period] = From[j.op]
  /\ Goto(s, "write")
  /\ UNCHANGED <<books, job, number>>

(* updatePeriodStatus *)
SetStatus(p, op) ==
  /\ period' = [period EXCEPT ![p] = To[op]]
  /\ version' = [version EXCEPT ![p] = NextVersion(@)]
  /\ UNCHANGED <<years, entries, counter>>

CommitStatus(s) ==
  /\ pc[s] = "write" /\ job[s].op \in {"close", "lock"}
  /\ SetStatus(job[s].period, job[s].op)
  /\ Finish(s)
  /\ UNCHANGED decisions

(* insertReopenDecision *)
CommitRequest(s) ==
  LET j == job[s] IN
  /\ pc[s] = "write" /\ j.op = "request"
  /\ Len(decisions) < MaxDecisions
  /\ decisions' = Append(decisions,
       [period |-> j.period, version |-> version[j.period], requestedBy |-> j.user,
        status |-> "open", decidedBy |-> NoUser, applied |-> 0])
  /\ Finish(s)
  /\ UNCHANGED <<years, period, version, entries, counter>>

(* guard_accounting_period: closed -> open *)
GuardReopen(p, u) ==
  \E n \in DOMAIN decisions :
    /\ decisions[n].period = p /\ decisions[n].version = version[p]
    /\ DecidedFor(decisions[n], u)

CommitReopen(s) ==
  LET j == job[s] IN
  /\ pc[s] = "write" /\ j.op = "reopen"
  /\ GuardReopen(j.period, j.user)
  /\ SetStatus(j.period, j.op)
  /\ decisions' = [decisions EXCEPT ![j.decision].applied = @ + 1]
  /\ Finish(s)

(* The decision inbox is not in the repository yet. Somebody decides an    *)
(* open decision, once.                                                    *)
Decide(n, u, verdict) ==
  /\ decisions[n].status = "open"
  /\ decisions' = [decisions EXCEPT ![n].status = verdict, ![n].decidedBy = u]
  /\ UNCHANGED <<years, period, version, entries, counter, pc, job, number>>

(* A refusal, an error or a lost connection at any point. *)
Rollback(s) ==
  /\ pc[s] # "idle"
  /\ Finish(s)
  /\ UNCHANGED books

-----------------------------------------------------------------------------
Posting(s) ==
  \/ \E p \in Period, d \in Date, lines \in Postings : PostJournal(s, p, d, lines)
  \/ \E n \in Posted, p \in Period, d \in Date : ReverseJournal(s, n, p, d)
  \/ TakeNumber(s) \/ InsertEntry(s) \/ MarkReversed(s) \/ CommitPosting(s)

PeriodCommand(s) ==
  \/ \E p \in Period : ClosePeriod(s, p) \/ LockPeriod(s, p)
  \/ \E p \in Period, u \in User : RequestReopenPeriod(s, p, u)
  \/ \E n \in DOMAIN decisions, u \in User : ApplyPeriodReopenDecision(s, n, u)
  \/ LockRow(s) \/ CommitStatus(s) \/ CommitRequest(s) \/ CommitReopen(s)

Next ==
  \/ \E y \in Year : CreateFiscalYear(y)
  \/ \E p \in Period : OpenPeriod(p)
  \/ \E s \in Session : Posting(s) \/ PeriodCommand(s) \/ Rollback(s)
  \/ \E n \in DOMAIN decisions, u \in User, verdict \in {"approved", "rejected"} : Decide(n, u, verdict)

Spec == Init /\ [][Next]_vars

-----------------------------------------------------------------------------
TypeOK ==
  /\ years \subseteq Year
  /\ period \in [Period -> Status] /\ version \in [Period -> Nat]
  /\ counter \in Nat /\ Posted \subseteq Nat /\ entries \in [Posted -> Entry]
  /\ decisions \in Seq(Decision)
  /\ pc \in [Session -> {"idle", "number", "insert", "mark", "commit", "period", "write"}]
  /\ job \in [Session -> Job]
  /\ number \in [Session -> Nat]

(* The books of a period that is closed or locked do not change: a posting *)
(* that was on its way when the period closed is in the books before that  *)
(* or never, and a reversal of one of its entries changes another period's *)
(* books (ADR-0004 D1 5; the trigger's lock, migration 0040).              *)
Books(p) == [n \in {m \in Posted : entries[m].period = p} |->
               [date |-> entries[n].date, lines |-> entries[n].lines]]
CutOff == [][\A p \in Period : period[p] \in {"closed", "locked"} => Books(p)' = Books(p)]_vars

(* Every reversing entry mirrors exactly one entry, which names it, and an *)
(* entry is reversed by no other entry than the one it names: two callers  *)
(* who reverse one entry leave one mirror image (mark_journal_reversed).   *)
ReversalsPair ==
  /\ \A n \in Posted : entries[n].reversedBy # 0 =>
       /\ entries[n].reversedBy \in Posted
       /\ entries[entries[n].reversedBy].type = "reversing"
       /\ entries[entries[n].reversedBy].lines = Mirror(entries[n].lines)
  /\ \A m \in Posted : entries[m].type = "reversing" =>
       \E n \in Posted : \A k \in Posted : entries[k].reversedBy = m <=> k = n

(* The journal is numbered without a gap and without a repetition, also    *)
(* when a command that has drawn a number fails (next_doc_no).             *)
NumbersAreGapless == Posted = 1..counter

(* The journal as a whole: numbers without a gap, and reversals in pairs. *)
JournalSound == NumbersAreGapless /\ ReversalsPair

(* A decision reopens its period at most once, for the closing it was      *)
(* filed for, and only one that an approver other than the requester has   *)
(* approved (guard_accounting_period).                                     *)
ReopenedByDecision ==
  \A n \in DOMAIN decisions :
    LET d == decisions[n] IN
    d.applied > 0 =>
      /\ d.applied = 1
      /\ d.version < version[d.period]
      /\ d.status = "approved" /\ d.decidedBy \in Approver \ {d.requestedBy}

(* To a reader of the committed tables, every command is one step of       *)
(* AccountBook, which meets every rule at that moment: what a posting or a *)
(* command on a period has read without a lock, and who waits for whom, is *)
(* invisible (post-journal and accounting-periods; 0040, 0041).            *)
Atomic == INSTANCE AccountBook
ImplementsBooks == Atomic!Spec

-----------------------------------------------------------------------------
(* The inductive invariant. *)

JobOK ==
  \A s \in Session :
    /\ pc[s] = "idle" <=> job[s] = NoJob
    /\ pc[s] \in {"number", "insert", "mark", "commit"} <=> job[s].op = "post"
    /\ pc[s] = "mark" => job[s].reverses # 0

(* A posting is dated in its period and mirrors the entry it reverses; the *)
(* one that holds the counter has drawn the next number, and at its commit *)
(* the entry it reverses is still unreversed.                              *)
PostingOK(s) ==
  LET j == job[s] IN
  /\ j.date \in DatesOf[j.period]
  /\ j.reverses # 0 => j.reverses \in Posted /\ j.lines = Mirror(entries[j.reverses].lines)
  /\ HoldsCounter(s) => number[s] = counter + 1 /\ CounterIsFree(s)
  /\ pc[s] = "commit" /\ j.reverses # 0 => entries[j.reverses].reversedBy = 0

(* Who holds a period in either mode keeps its status, and the modes       *)
(* exclude each other.                                                     *)
PeriodLocks ==
  \A s \in Session, p \in Period :
    /\ HoldsShare(s, p) => period[p] = "open"
    /\ HoldsPeriod(s, p) =>
         /\ period[p] = From[job[s].op] /\ version[p] = job[s].seen
         /\ \A t \in Session \ {s} : ~HoldsPeriod(t, p) /\ ~HoldsShare(t, p)

(* The decision a reopening acts on is the one it was sent with. *)
ReopeningOK(s) ==
  LET j == job[s] IN
  /\ j.decision \in DOMAIN decisions
  /\ decisions[j.decision].period = j.period /\ decisions[j.decision].version = j.seen
  /\ DecidedFor(decisions[j.decision], j.user)

IInv ==
  /\ TypeOK /\ JobOK /\ PeriodLocks
  /\ \A s \in Session :
       /\ job[s].op = "post" => PostingOK(s)
       /\ job[s].op = "reopen" => ReopeningOK(s)
  /\ \A n \in DOMAIN decisions : decisions[n].version <= version[decisions[n].period]
  /\ NumbersAreGapless /\ ReversalsPair /\ ReopenedByDecision
=============================================================================
