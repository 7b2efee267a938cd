--------------------------- MODULE AccountingProofs ---------------------------
(***************************************************************************)
(* What the counter's lock, the two modes of the period lock and the       *)
(* version of a period guarantee for any number of sessions, periods,      *)
(* entries and decisions; and that what a price list charges adds up, for  *)
(* any lines and any quantity.                                             *)
(***************************************************************************)
EXTENDS Accounting, PriceLists, SumLemmas, TLAPS

PostJob == [op : {"post"}, period : Period, date : Date, lines : [Account -> Int],
            reverses : Nat, seen : Nat]
StatusJob == [op : {"close", "lock"}, period : Period, seen : Nat]
RequestJob == [op : {"request"}, period : Period, seen : Nat, user : User]
ReopenJob == [op : {"reopen"}, period : Period, seen : Nat, user : User, decision : Nat]

LEMMA JobKinds ==
  ASSUME NEW j \in Job
  PROVE  /\ j.op = "none" => j = NoJob
         /\ j.op = "post" => j \in PostJob
         /\ j.op \in {"close", "lock"} => j \in StatusJob
         /\ j.op = "request" => j \in RequestJob
         /\ j.op = "reopen" => j \in ReopenJob
         /\ j.op \in {"none", "post", "close", "lock", "request", "reopen"}
<1>1. \/ j = NoJob \/ j \in PostJob \/ j \in StatusJob \/ j \in RequestJob \/ j \in ReopenJob
  BY DEF Job, PostJob, StatusJob, RequestJob, ReopenJob
<1>2. /\ NoJob.op = "none"
      /\ j \in PostJob => j.op = "post"
      /\ j \in StatusJob => j.op \in {"close", "lock"}
      /\ j \in RequestJob => j.op = "request"
      /\ j \in ReopenJob => j.op = "reopen"
  BY DEF NoJob, PostJob, StatusJob, RequestJob, ReopenJob
<1> QED BY <1>1, <1>2

LEMMA PostFields ==
  ASSUME TypeOK, NEW s \in Session, job[s].op = "post"
  PROVE  /\ job[s].period \in Period /\ job[s].date \in Date /\ job[s].lines \in [Account -> Int]
         /\ job[s].reverses \in Nat /\ job[s].seen \in Nat
<1>1. job[s] \in PostJob
  BY JobKinds DEF TypeOK
<1> QED BY <1>1 DEF PostJob

LEMMA PeriodFields ==
  ASSUME TypeOK, JobOK, NEW s \in Session, pc[s] \in {"period", "write"}
  PROVE  /\ job[s].op \in {"close", "lock", "request", "reopen"}
         /\ job[s].period \in Period /\ job[s].seen \in Nat
         /\ job[s].op \in {"request", "reopen"} => job[s].user \in User
         /\ job[s].op = "reopen" => job[s].decision \in Nat
<1>1. job[s] \in Job /\ job[s] # NoJob /\ job[s].op # "post"
  BY DEF TypeOK, JobOK
<1>2. job[s] \in StatusJob \/ job[s] \in RequestJob \/ job[s] \in ReopenJob
  BY <1>1, JobKinds
<1> QED BY <1>2 DEF StatusJob, RequestJob, ReopenJob

LEMMA NoJobOp == NoJob \in Job /\ NoJob.op = "none"
  BY DEF NoJob, Job

LEMMA MirrorLines ==
  ASSUME NEW l \in [Account -> Int]
  PROVE  Mirror(l) \in [Account -> Int]
  BY DEF Mirror

LEMMA InitInv == Init => IInv
<1> SUFFICES ASSUME Init PROVE IInv
  OBVIOUS
<1> USE DEF Init
<1>1. Posted = {} /\ DOMAIN decisions = {}
  BY DEF Posted
<1>2. TypeOK
  <2>1. job \in [Session -> Job]
    BY NoJobOp
  <2>2. period \in [Period -> Status] /\ version \in [Period -> Nat]
    BY DEF Status
  <2>3. entries \in [Posted -> Entry]
    BY <1>1
  <2>4. decisions \in Seq(Decision)
    OBVIOUS
  <2> QED BY <1>1, <2>1, <2>2, <2>3, <2>4 DEF TypeOK
<1>3. JobOK /\ PeriodLocks
  BY NoJobOp DEF JobOK, PeriodLocks, HoldsShare, HoldsPeriod
<1>4. NumbersAreGapless
  BY <1>1 DEF NumbersAreGapless
<1>5. ReversalsPair /\ ReopenedByDecision
  BY <1>1 DEF ReversalsPair, ReopenedByDecision
<1> QED BY <1>1, <1>2, <1>3, <1>4, <1>5, NoJobOp DEF IInv

(* The tables stay: what speaks of them alone stays too. *)
LEMMA BooksStay ==
  ASSUME IInv, UNCHANGED books
  PROVE  /\ NumbersAreGapless' /\ ReversalsPair' /\ ReopenedByDecision'
         /\ \A n \in DOMAIN decisions' : decisions'[n].version <= version'[decisions'[n].period]
         /\ Posted' = Posted
  BY DEF IInv, books, NumbersAreGapless, ReversalsPair, ReopenedByDecision, Posted

LEMMA StartKeeps ==
  ASSUME IInv, NEW s \in Session, NEW j \in Job, NEW label, Start(s, j, label), j.op # "none",
         \/ /\ label = "number" /\ j.op = "post" /\ j.date \in DatesOf[j.period]
            /\ j.reverses # 0 => j.reverses \in Posted /\ j.lines = Mirror(entries[j.reverses].lines)
         \/ /\ label = "period" /\ j.op # "post"
            /\ j.op = "reopen" =>
                 /\ j.decision \in DOMAIN decisions
                 /\ decisions[j.decision].period = j.period /\ decisions[j.decision].version = j.seen
                 /\ DecidedFor(decisions[j.decision], j.user)
  PROVE  IInv'
<1> USE DEF Start, Goto
<1>1. /\ UNCHANGED books /\ number' = number
      /\ pc' = [pc EXCEPT ![s] = label] /\ job' = [job EXCEPT ![s] = j]
      /\ pc[s] = "idle" /\ label \in {"number", "period"}
  OBVIOUS
<1>2. /\ pc'[s] = label /\ job'[s] = j
      /\ \A t \in Session \ {s} : pc'[t] = pc[t] /\ job'[t] = job[t]
  BY <1>1 DEF IInv, TypeOK
<1>3. TypeOK'
  BY <1>1, BooksStay DEF IInv, TypeOK, books
<1>4. JobOK'
  BY <1>1, <1>2, NoJobOp DEF IInv, JobOK
<1>5. /\ \A t \in Session : HoldsCounter(t)' <=> HoldsCounter(t)
      /\ \A t \in Session, p \in Period : /\ HoldsShare(t, p)' <=> HoldsShare(t, p)
                                          /\ HoldsPeriod(t, p)' <=> HoldsPeriod(t, p)
  BY <1>1, <1>2 DEF HoldsCounter, HoldsShare, HoldsPeriod
<1>6. PeriodLocks'
  BY <1>1, <1>2, <1>5 DEF IInv, PeriodLocks, books, HoldsPeriod
<1>7. ASSUME NEW t \in Session, job'[t].op = "post"
      PROVE  PostingOK(t)'
  <2>1. CASE t = s
    BY <1>1, <1>2, <1>5, <1>7, <2>1, BooksStay DEF PostingOK, HoldsCounter, books
  <2>2. CASE t # s
    BY <1>1, <1>2, <1>5, <1>7, <2>2, BooksStay DEF IInv, PostingOK, CounterIsFree, books
  <2> QED BY <2>1, <2>2
<1>8. ASSUME NEW t \in Session, job'[t].op = "reopen"
      PROVE  ReopeningOK(t)'
  <2>1. CASE t = s
    BY <1>1, <1>2, <1>8, <2>1 DEF ReopeningOK, books
  <2>2. CASE t # s
    BY <1>1, <1>2, <1>8, <2>2 DEF IInv, ReopeningOK, books
  <2> QED BY <2>1, <2>2
<1> QED BY <1>1, <1>3, <1>4, <1>6, <1>7, <1>8, BooksStay DEF IInv

LEMMA PostJournalKeeps ==
  ASSUME IInv, NEW s \in Session, NEW p \in Period, NEW d \in Date, NEW lines \in Postings,
         PostJournal(s, p, d, lines)
  PROVE  IInv'
<1> DEFINE j == [op |-> "post", period |-> p, date |-> d, lines |-> lines, reverses |-> 0, seen |-> 0]
<1>1. j \in Job
  BY AccountingConstants DEF Job
<1>2. Start(s, j, "number")
  BY DEF PostJournal
<1>3. j.op = "post" /\ j.reverses = 0 /\ j.date \in DatesOf[j.period]
  BY DEF PostJournal, AssertOpenPeriod, Covers
<1> HIDE DEF j
<1> QED BY <1>1, <1>2, <1>3, StartKeeps

LEMMA ReverseJournalKeeps ==
  ASSUME IInv, NEW s \in Session, NEW n \in Posted, NEW p \in Period, NEW d \in Date,
         ReverseJournal(s, n, p, d)
  PROVE  IInv'
<1> DEFINE j == [op |-> "post", period |-> p, date |-> d, lines |-> Mirror(entries[n].lines),
                 reverses |-> n, seen |-> entries[n].version]
<1>1. /\ n \in Nat /\ entries[n] \in Entry
      /\ entries[n].lines \in [Account -> Int] /\ entries[n].version \in Nat
  BY DEF IInv, TypeOK, Entry
<1>2. j \in Job
  BY <1>1, MirrorLines DEF Job
<1>3. Start(s, j, "number")
  BY DEF ReverseJournal
<1>4. j.op = "post" /\ j.reverses = n /\ j.lines = Mirror(entries[n].lines)
      /\ j.date \in DatesOf[j.period]
  BY DEF ReverseJournal, AssertOpenPeriod, Covers
<1> HIDE DEF j
<1> QED BY <1>2, <1>3, <1>4, StartKeeps

LEMMA StatusSendKeeps ==
  ASSUME IInv, NEW s \in Session, NEW p \in Period, ClosePeriod(s, p) \/ LockPeriod(s, p)
  PROVE  IInv'
<1>1. version[p] \in Nat
  BY DEF IInv, TypeOK
<1>2. PICK op \in {"close", "lock"} : Start(s, [op |-> op, period |-> p, seen |-> version[p]], "period")
  BY DEF ClosePeriod, LockPeriod
<1> DEFINE j == [op |-> op, period |-> p, seen |-> version[p]]
<1>3. j \in Job /\ j.op = op
  BY <1>1 DEF Job
<1>4. Start(s, j, "period")
  BY <1>2
<1> HIDE DEF j
<1> QED BY <1>3, <1>4, StartKeeps

LEMMA RequestSendKeeps ==
  ASSUME IInv, NEW s \in Session, NEW p \in Period, NEW u \in User, RequestReopenPeriod(s, p, u)
  PROVE  IInv'
<1> DEFINE j == [op |-> "request", period |-> p, seen |-> version[p], user |-> u]
<1>1. version[p] \in Nat
  BY DEF IInv, TypeOK
<1>2. j \in Job /\ j.op = "request"
  BY <1>1 DEF Job
<1>3. Start(s, j, "period")
  BY DEF RequestReopenPeriod
<1> HIDE DEF j
<1> QED BY <1>2, <1>3, StartKeeps

LEMMA DecisionFields ==
  ASSUME TypeOK, NEW n \in DOMAIN decisions
  PROVE  /\ decisions[n] \in Decision
         /\ n \in Nat \ {0}
  BY DEF TypeOK

LEMMA ApplyReopenKeeps ==
  ASSUME IInv, NEW s \in Session, NEW n \in DOMAIN decisions, NEW u \in User,
         ApplyPeriodReopenDecision(s, n, u)
  PROVE  IInv'
<1> DEFINE j == [op |-> "reopen", period |-> decisions[n].period, seen |-> decisions[n].version,
                 user |-> u, decision |-> n]
<1>1. /\ decisions[n].period \in Period /\ decisions[n].version \in Nat /\ n \in Nat
  BY DecisionFields DEF IInv, Decision
<1>2. j \in Job
  BY <1>1 DEF Job
<1>3. Start(s, j, "period") /\ DecidedFor(decisions[n], u)
  BY DEF ApplyPeriodReopenDecision
<1>4. /\ j.op = "reopen" /\ j.decision = n /\ j.period = decisions[n].period
      /\ j.seen = decisions[n].version /\ j.user = u
  OBVIOUS
<1> HIDE DEF j
<1> QED BY <1>2, <1>3, <1>4, StartKeeps

(* A step of one session that leaves the tables alone: it suffices to look *)
(* at what the session itself holds afterwards.                            *)
LEMMA OwnStep ==
  ASSUME IInv, UNCHANGED books, NEW s \in Session, NEW label, NEW j \in Job, NEW m \in Nat,
         pc' = [pc EXCEPT ![s] = label], job' = [job EXCEPT ![s] = j],
         number' = [number EXCEPT ![s] = m],
         label \in {"idle", "number", "insert", "mark", "commit", "period", "write"},
         label = "idle" <=> j = NoJob,
         label \in {"number", "insert", "mark", "commit"} <=> j.op = "post",
         label = "mark" => j.reverses # 0,
         j.op = "post" =>
           /\ j.date \in DatesOf[j.period]
           /\ j.reverses # 0 => j.reverses \in Posted /\ j.lines = Mirror(entries[j.reverses].lines)
           /\ label \in {"insert", "mark", "commit"} => m = counter + 1 /\ CounterIsFree(s)
           /\ label = "commit" /\ j.reverses # 0 => entries[j.reverses].reversedBy = 0,
         j.op = "reopen" => j = job[s],
         label \in {"mark", "commit"} =>
           /\ period[j.period] = "open"
           /\ \A t \in Session \ {s} : ~HoldsPeriod(t, j.period),
         label = "write" =>
           /\ period[j.period] = From[j.op] /\ version[j.period] = j.seen
           /\ \A t \in Session \ {s} : ~HoldsPeriod(t, j.period) /\ ~HoldsShare(t, j.period)
  PROVE  IInv'
<1>1. /\ pc'[s] = label /\ job'[s] = j /\ number'[s] = m
      /\ \A t \in Session \ {s} : pc'[t] = pc[t] /\ job'[t] = job[t] /\ number'[t] = number[t]
  BY DEF IInv, TypeOK
<1>2. TypeOK'
  BY BooksStay DEF IInv, TypeOK, books
<1>3. JobOK'
  BY <1>1 DEF IInv, JobOK
<1>4. \A t \in Session \ {s} :
        /\ HoldsCounter(t)' <=> HoldsCounter(t)
        /\ \A p \in Period : /\ HoldsShare(t, p)' <=> HoldsShare(t, p)
                             /\ HoldsPeriod(t, p)' <=> HoldsPeriod(t, p)
  BY <1>1 DEF HoldsCounter, HoldsShare, HoldsPeriod
<1>5. /\ HoldsCounter(s)' => label \in {"insert", "mark", "commit"}
      /\ \A p \in Period : /\ HoldsShare(s, p)' => label \in {"mark", "commit"} /\ j.period = p
                           /\ HoldsPeriod(s, p)' => label = "write" /\ j.period = p
  BY <1>1 DEF HoldsCounter, HoldsShare, HoldsPeriod
<1>6. PeriodLocks'
  <2> SUFFICES ASSUME NEW t \in Session, NEW p \in Period
               PROVE  /\ HoldsShare(t, p)' => period[p] = "open"
                      /\ HoldsPeriod(t, p)' =>
                           /\ period[p] = From[job'[t].op] /\ version[p] = job'[t].seen
                           /\ \A u \in Session \ {t} : ~HoldsPeriod(u, p)' /\ ~HoldsShare(u, p)'
    BY DEF PeriodLocks, books
  <2>1. CASE t = s
    BY <1>1, <1>4, <1>5, <2>1
  <2>2. CASE t # s
    BY <1>1, <1>4, <1>5, <2>2 DEF IInv, PeriodLocks
  <2> QED BY <2>1, <2>2
<1>7. ASSUME NEW t \in Session, job'[t].op = "post"
      PROVE  PostingOK(t)'
  <2>1. CASE t = s
    BY <1>1, <1>4, <1>5, <1>7, <2>1, BooksStay DEF PostingOK, CounterIsFree, books
  <2>2. CASE t # s
    <3>1. PostingOK(t)
      BY <1>1, <1>7, <2>2 DEF IInv
    <3>2. HoldsCounter(s)' => ~HoldsCounter(t)
      BY <1>1, <1>3, <1>5, <2>2 DEF JobOK, CounterIsFree
    <3> QED BY <1>1, <1>4, <3>1, <3>2, <2>2, BooksStay DEF PostingOK, CounterIsFree, books
  <2> QED BY <2>1, <2>2
<1>8. ASSUME NEW t \in Session, job'[t].op = "reopen"
      PROVE  ReopeningOK(t)'
  BY <1>1, <1>8 DEF IInv, ReopeningOK, books
<1> QED BY <1>2, <1>3, <1>6, <1>7, <1>8, BooksStay DEF IInv

LEMMA TakeNumberKeeps ==
  ASSUME IInv, NEW s \in Session, TakeNumber(s)
  PROVE  IInv'
<1> USE DEF TakeNumber, Goto
<1>1. UNCHANGED books /\ job' = [job EXCEPT ![s] = job[s]] /\ job[s] \in Job /\ counter + 1 \in Nat
  BY DEF IInv, TypeOK
<1>2. job[s].op = "post" /\ job[s] # NoJob /\ PostingOK(s)
  BY NoJobOp DEF IInv, JobOK
<1> QED BY <1>1, <1>2, OwnStep DEF PostingOK

LEMMA InsertEntryKeeps ==
  ASSUME IInv, NEW s \in Session, InsertEntry(s)
  PROVE  IInv'
<1> USE DEF InsertEntry, Goto
<1> DEFINE label == IF job[s].reverses = 0 THEN "commit" ELSE "mark"
<1>1. /\ UNCHANGED books /\ job' = [job EXCEPT ![s] = job[s]] /\ job[s] \in Job
      /\ number' = [number EXCEPT ![s] = number[s]] /\ number[s] \in Nat
      /\ pc' = [pc EXCEPT ![s] = label] /\ label \in {"commit", "mark"}
      /\ label = "mark" => job[s].reverses # 0
      /\ label = "commit" => job[s].reverses = 0
  BY DEF IInv, TypeOK
<1>2. job[s].op = "post" /\ job[s] # NoJob /\ PostingOK(s) /\ HoldsCounter(s)
  BY NoJobOp DEF IInv, JobOK, HoldsCounter
<1>3. /\ period[job[s].period] = "open"
      /\ \A t \in Session \ {s} : ~HoldsPeriod(t, job[s].period)
  BY DEF AssertPostingPeriod
<1>4. /\ job[s].reverses # 0 =>
           job[s].reverses \in Posted /\ job[s].lines = Mirror(entries[job[s].reverses].lines)
      /\ job[s].date \in DatesOf[job[s].period]
      /\ number[s] = counter + 1 /\ CounterIsFree(s)
  BY <1>2 DEF PostingOK
<1> HIDE DEF label, InsertEntry, Goto
<1> QED BY <1>1, <1>2, <1>3, <1>4, OwnStep

LEMMA MarkReversedKeeps ==
  ASSUME IInv, NEW s \in Session, MarkReversed(s)
  PROVE  IInv'
<1> USE DEF MarkReversed, Goto
<1>1. /\ UNCHANGED books /\ job' = [job EXCEPT ![s] = job[s]] /\ job[s] \in Job
      /\ number' = [number EXCEPT ![s] = number[s]] /\ number[s] \in Nat
  BY DEF IInv, TypeOK
<1>2. job[s].op = "post" /\ job[s] # NoJob /\ PostingOK(s) /\ HoldsCounter(s)
  BY NoJobOp DEF IInv, JobOK, HoldsCounter
<1>3. job[s].period \in Period
  BY <1>2, PostFields DEF IInv
<1>4. HoldsShare(s, job[s].period)
  BY DEF HoldsShare
<1>5. /\ period[job[s].period] = "open"
      /\ \A t \in Session \ {s} : ~HoldsPeriod(t, job[s].period)
  BY <1>3, <1>4 DEF IInv, PeriodLocks
<1>6. pc' = [pc EXCEPT ![s] = "commit"] /\ entries[job[s].reverses].reversedBy = 0
  BY DEF MayMark
<1>7. /\ job[s].reverses # 0 =>
           job[s].reverses \in Posted /\ job[s].lines = Mirror(entries[job[s].reverses].lines)
      /\ job[s].date \in DatesOf[job[s].period]
      /\ number[s] = counter + 1 /\ CounterIsFree(s)
  BY <1>2 DEF PostingOK
<1> HIDE DEF MarkReversed, Goto
<1> QED BY <1>1, <1>2, <1>5, <1>6, <1>7, OwnStep, ZenonT(30)

LEMMA LockRowKeeps ==
  ASSUME IInv, NEW s \in Session, LockRow(s)
  PROVE  IInv'
<1> USE DEF LockRow, Goto
<1>1. /\ UNCHANGED books /\ job' = [job EXCEPT ![s] = job[s]] /\ job[s] \in Job
      /\ number' = [number EXCEPT ![s] = number[s]] /\ number[s] \in Nat
  BY DEF IInv, TypeOK
<1>2. job[s].op # "post" /\ job[s] # NoJob
  BY DEF IInv, JobOK
<1> QED BY <1>1, <1>2, OwnStep

LEMMA RollbackKeeps ==
  ASSUME IInv, NEW s \in Session, Rollback(s)
  PROVE  IInv'
  BY NoJobOp, OwnStep DEF Rollback, Finish, Goto

(* The end of a session's transaction: its locks are gone, the others keep *)
(* theirs.                                                                 *)
LEMMA Leave ==
  ASSUME IInv, NEW s \in Session, Finish(s)
  PROVE  /\ pc' \in [Session -> {"idle", "number", "insert", "mark", "commit", "period", "write"}]
         /\ job' \in [Session -> Job] /\ number' \in [Session -> Nat] /\ JobOK'
         /\ pc'[s] = "idle" /\ job'[s].op = "none"
         /\ \A t \in Session \ {s} : pc'[t] = pc[t] /\ job'[t] = job[t] /\ number'[t] = number[t]
         /\ ~HoldsCounter(s)' /\ \A p \in Period : ~HoldsShare(s, p)' /\ ~HoldsPeriod(s, p)'
         /\ \A t \in Session \ {s} :
              /\ HoldsCounter(t)' <=> HoldsCounter(t)
              /\ \A p \in Period : /\ HoldsShare(t, p)' <=> HoldsShare(t, p)
                                   /\ HoldsPeriod(t, p)' <=> HoldsPeriod(t, p)
<1> USE DEF Finish, Goto
<1>1. /\ pc'[s] = "idle" /\ job'[s] = NoJob
      /\ \A t \in Session \ {s} : pc'[t] = pc[t] /\ job'[t] = job[t] /\ number'[t] = number[t]
  BY DEF IInv, TypeOK
<1>2. /\ pc' \in [Session -> {"idle", "number", "insert", "mark", "commit", "period", "write"}]
      /\ job' \in [Session -> Job] /\ number' \in [Session -> Nat]
  BY NoJobOp DEF IInv, TypeOK
<1>3. JobOK'
  BY <1>1, NoJobOp DEF IInv, JobOK
<1> QED BY <1>1, <1>2, <1>3, NoJobOp DEF HoldsCounter, HoldsShare, HoldsPeriod

(* A session in its last step holds what it writes: no other one holds the *)
(* counter beside a posting, or the period beside a command on it.         *)
LEMMA Exclusive ==
  ASSUME IInv, NEW s \in Session
  PROVE  /\ pc[s] = "commit" =>
              /\ job[s].op = "post" /\ PostingOK(s) /\ number[s] = counter + 1 /\ CounterIsFree(s)
         /\ pc[s] = "write" =>
              /\ job[s].period \in Period
              /\ period[job[s].period] = From[job[s].op] /\ version[job[s].period] = job[s].seen
              /\ \A t \in Session \ {s} :
                   ~HoldsPeriod(t, job[s].period) /\ ~HoldsShare(t, job[s].period)
<1>1. pc[s] = "commit" => job[s].op = "post" /\ PostingOK(s) /\ HoldsCounter(s)
  BY DEF IInv, JobOK, HoldsCounter
<1>2. pc[s] = "write" => job[s].period \in Period /\ HoldsPeriod(s, job[s].period)
  BY PeriodFields DEF IInv, HoldsPeriod
<1> QED BY <1>1, <1>2 DEF IInv, PostingOK, PeriodLocks

(* The journal after a posting's commit. *)
LEMMA Posting1 ==
  ASSUME IInv, NEW s \in Session, CommitPosting(s)
  PROVE  /\ number[s] = counter + 1 /\ counter' = number[s] /\ number[s] \notin Posted
         /\ Posted' = Posted \cup {number[s]} /\ Posted = 1..counter /\ counter \in Nat
         /\ entries'[number[s]] = NewEntry(job[s])
         /\ \A n \in Posted :
              /\ entries[n] \in Entry
              /\ n # job[s].reverses => entries'[n] = entries[n]
              /\ n = job[s].reverses =>
                   entries'[n] = [entries[n] EXCEPT !.reversedBy = number[s], !.version = @ + 1]
         /\ job[s].reverses # 0 =>
              /\ job[s].reverses \in Posted
              /\ job[s].lines = Mirror(entries[job[s].reverses].lines)
              /\ entries[job[s].reverses].reversedBy = 0
<1>1. /\ pc[s] = "commit" /\ counter' = number[s]
      /\ entries' = [n \in Posted \cup {number[s]} |->
                       IF n = number[s] THEN NewEntry(job[s])
                       ELSE IF n = job[s].reverses
                         THEN [entries[n] EXCEPT !.reversedBy = number[s], !.version = @ + 1]
                       ELSE entries[n]]
  BY DEF CommitPosting
<1>2. /\ Posted = 1..counter /\ counter \in Nat /\ \A n \in Posted : entries[n] \in Entry
  BY DEF IInv, TypeOK, NumbersAreGapless
<1>3. number[s] = counter + 1 /\ PostingOK(s) /\ job[s].op = "post"
  BY <1>1, Exclusive
<1>4. number[s] \notin Posted
  BY <1>2, <1>3
<1>5. Posted' = Posted \cup {number[s]}
  BY <1>1 DEF Posted
<1>6. /\ entries'[number[s]] = NewEntry(job[s])
      /\ \A n \in Posted :
           /\ n # job[s].reverses => entries'[n] = entries[n]
           /\ n = job[s].reverses =>
                entries'[n] = [entries[n] EXCEPT !.reversedBy = number[s], !.version = @ + 1]
  BY <1>1, <1>4
<1> QED BY <1>1, <1>2, <1>3, <1>4, <1>5, <1>6 DEF PostingOK

LEMMA PostingKeepsPairs ==
  ASSUME IInv, NEW s \in Session, CommitPosting(s)
  PROVE  ReversalsPair'
<1> DEFINE m0 == number[s]
           r  == job[s].reverses
<1>1. /\ m0 \notin Posted /\ Posted' = Posted \cup {m0} /\ 0 \notin Posted /\ m0 # 0
      /\ \A n \in Posted :
           /\ entries[n] \in Entry
           /\ n # r => entries'[n] = entries[n]
           /\ n = r => entries'[n] = [entries[n] EXCEPT !.reversedBy = m0, !.version = @ + 1]
      /\ r # 0 => r \in Posted /\ job[s].lines = Mirror(entries[r].lines) /\ entries[r].reversedBy = 0
  <2>1. /\ m0 = counter + 1 /\ counter \in Nat /\ Posted = 1..counter
    BY Posting1
  <2>2. 0 \notin Posted /\ m0 # 0
    BY <2>1
  <2> HIDE DEF m0, r
  <2> QED BY <2>2, Posting1 DEF m0, r
<1>2. /\ entries'[m0].reversedBy = 0 /\ entries'[m0].lines = job[s].lines
      /\ entries'[m0].type = "reversing" <=> r # 0
  <2>1. entries'[m0] = NewEntry(job[s])
    BY Posting1
  <2> QED BY <2>1 DEF NewEntry
<1>3. \A n \in Posted :
        /\ entries'[n].type = entries[n].type /\ entries'[n].lines = entries[n].lines
        /\ n # r => entries'[n].reversedBy = entries[n].reversedBy
        /\ n = r => entries'[n].reversedBy = m0
  <2> SUFFICES ASSUME NEW n \in Posted
               PROVE  /\ entries'[n].type = entries[n].type /\ entries'[n].lines = entries[n].lines
                      /\ n # r => entries'[n].reversedBy = entries[n].reversedBy
                      /\ n = r => entries'[n].reversedBy = m0
    OBVIOUS
  <2> HIDE DEF m0, r
  <2>1. CASE n # r
    BY <1>1, <2>1
  <2>2. CASE n = r
    <3>1. /\ entries[n] \in Entry
          /\ entries'[n] = [entries[n] EXCEPT !.reversedBy = m0, !.version = @ + 1]
      BY <1>1, <2>2
    <3> QED BY <2>2, <3>1 DEF Entry
  <2> QED BY <2>1, <2>2
<1>4. ReversalsPair
  BY DEF IInv
<1> HIDE DEF m0, r
<1>5. ASSUME NEW n \in Posted', entries'[n].reversedBy # 0
      PROVE  /\ entries'[n].reversedBy \in Posted'
             /\ entries'[entries'[n].reversedBy].type = "reversing"
             /\ entries'[entries'[n].reversedBy].lines = Mirror(entries'[n].lines)
  <2>1. n \in Posted
    BY <1>1, <1>2, <1>5
  <2>2. CASE n = r
    BY <1>1, <1>2, <1>3, <2>1, <2>2 DEF r
  <2>3. CASE n # r
    <3>1. /\ entries[n].reversedBy \in Posted
          /\ entries[entries[n].reversedBy].type = "reversing"
          /\ entries[entries[n].reversedBy].lines = Mirror(entries[n].lines)
      BY <1>3, <1>4, <1>5, <2>1, <2>3 DEF ReversalsPair
    <3> QED BY <1>1, <1>3, <2>1, <2>3, <3>1
  <2> QED BY <2>2, <2>3
<1>6. ASSUME NEW m \in Posted', entries'[m].type = "reversing"
      PROVE  \E n \in Posted' : \A k \in Posted' : entries'[k].reversedBy = m <=> k = n
  <2>1. \A k \in Posted : entries[k].reversedBy # m0
    BY <1>1, <1>4 DEF ReversalsPair
  <2>2. CASE m = m0
    <3>1. r \in Posted'
      BY <1>1, <1>2, <1>6, <2>2
    <3>2. ASSUME NEW k \in Posted'
          PROVE  entries'[k].reversedBy = m <=> k = r
      BY <1>1, <1>2, <1>3, <1>6, <2>1, <2>2
    <3> QED BY <3>1, <3>2
  <2>3. CASE m # m0
    <3>1. m \in Posted /\ entries[m].type = "reversing"
      BY <1>1, <1>3, <1>6, <2>3
    <3>2. PICK n \in Posted : \A k \in Posted : entries[k].reversedBy = m <=> k = n
      BY <1>4, <3>1 DEF ReversalsPair
    <3>3. n # r /\ n # m0
      BY <1>1, <3>1, <3>2
    <3>4. ASSUME NEW k \in Posted'
          PROVE  entries'[k].reversedBy = m <=> k = n
      BY <1>1, <1>2, <1>3, <2>3, <3>1, <3>2, <3>3
    <3>5. n \in Posted'
      BY <1>1
    <3> QED BY <3>4, <3>5
  <2> QED BY <2>2, <2>3
<1>7. ReversalsPair' <=>
        /\ \A n \in Posted' : entries'[n].reversedBy # 0 =>
             /\ entries'[n].reversedBy \in Posted'
             /\ entries'[entries'[n].reversedBy].type = "reversing"
             /\ entries'[entries'[n].reversedBy].lines = Mirror(entries'[n].lines)
        /\ \A m \in Posted' : entries'[m].type = "reversing" =>
             \E n \in Posted' : \A k \in Posted' : entries'[k].reversedBy = m <=> k = n
  BY DEF ReversalsPair, Mirror
<1> QED BY <1>5, <1>6, <1>7

LEMMA EntryUpdate ==
  ASSUME NEW e \in Entry, NEW m \in Nat
  PROVE  [e EXCEPT !.reversedBy = m, !.version = @ + 1] \in Entry
<1> DEFINE f == [e EXCEPT !.reversedBy = m]
<1>1. f \in Entry
  BY DEF Entry
<1> HIDE DEF f
<1>2. [f EXCEPT !.version = @ + 1] \in Entry
  BY <1>1 DEF Entry
<1>3. [e EXCEPT !.reversedBy = m, !.version = @ + 1] = [f EXCEPT !.version = @ + 1]
  BY Zenon DEF f
<1> QED BY <1>2, <1>3

LEMMA CommitPostingKeeps ==
  ASSUME IInv, NEW s \in Session, CommitPosting(s)
  PROVE  IInv'
<1> DEFINE m0 == number[s]
           r  == job[s].reverses
<1>1. Finish(s) /\ UNCHANGED <<years, period, version, decisions>> /\ pc[s] = "commit"
  BY DEF CommitPosting
<1>0. /\ m0 = counter + 1 /\ counter' = m0 /\ counter \in Nat /\ Posted = 1..counter
      /\ Posted' = Posted \cup {m0}
  BY Posting1
<1>2. /\ \A n \in Posted :
           /\ entries[n] \in Entry
           /\ n # r => entries'[n] = entries[n]
           /\ n = r => entries'[n] = [entries[n] EXCEPT !.reversedBy = m0, !.version = @ + 1]
  BY Posting1
<1>3. entries'[m0] = NewEntry(job[s])
  BY Posting1
<1>4. job[s].op = "post" /\ CounterIsFree(s)
  BY <1>1, Exclusive
<1>5. NewEntry(job[s]) \in Entry
  BY <1>4, PostFields DEF IInv, NewEntry, Entry
<1> HIDE DEF m0, r
<1>6. NumbersAreGapless' /\ counter' \in Nat /\ m0 \in Nat /\ Posted' \subseteq Nat
  <2>1. 1..(counter + 1) = (1..counter) \cup {counter + 1}
    BY <1>0
  <2> QED BY <1>0, <2>1 DEF NumbersAreGapless
<1>7. \A n \in Posted' : entries'[n] \in Entry
  <2> SUFFICES ASSUME NEW n \in Posted' PROVE entries'[n] \in Entry
    OBVIOUS
  <2>1. CASE n = m0
    BY <1>3, <1>5, <2>1
  <2>2. CASE n \in Posted /\ n # r
    BY <1>2, <2>2
  <2>3. CASE n \in Posted /\ n = r
    <3>1. /\ entries[n] \in Entry
          /\ entries'[n] = [entries[n] EXCEPT !.reversedBy = m0, !.version = @ + 1]
      BY <1>2, <2>3
    <3>2. m0 \in Nat
      BY <1>6
    <3> QED BY <3>1, <3>2, EntryUpdate
  <2> QED BY <1>0, <2>1, <2>2, <2>3
<1>8. entries' \in [Posted' -> Entry]
  <2>1. entries' = [n \in Posted' |-> entries'[n]]
    BY <1>1 DEF CommitPosting, Posted
  <2> QED BY <1>7, <2>1
<1>9. TypeOK'
  BY <1>1, <1>6, <1>8, Leave DEF IInv, TypeOK
<1>10. PeriodLocks'
  BY <1>1, Leave DEF IInv, PeriodLocks, HoldsPeriod
<1>11. ASSUME NEW t \in Session, job'[t].op = "post"
       PROVE  PostingOK(t)'
  <2>1. t # s /\ job'[t] = job[t] /\ pc'[t] = pc[t]
    BY <1>1, <1>11, Leave
  <2>2. ~HoldsCounter(t) /\ ~HoldsCounter(t)'
    BY <1>1, <1>4, <2>1, Leave DEF CounterIsFree
  <2>3. PostingOK(t)
    BY <1>11, <2>1 DEF IInv
  <2>4. job[t].reverses # 0 =>
          /\ job[t].reverses \in Posted'
          /\ entries'[job[t].reverses].lines = entries[job[t].reverses].lines
    <3>1. \A n \in Posted : entries'[n].lines = entries[n].lines
      <4> SUFFICES ASSUME NEW n \in Posted PROVE entries'[n].lines = entries[n].lines
        OBVIOUS
      <4>1. CASE n = r
        <5>1. /\ entries[n] \in Entry
              /\ entries'[n] = [entries[n] EXCEPT !.reversedBy = m0, !.version = @ + 1]
          BY <1>2, <4>1
        <5> QED BY <5>1 DEF Entry
      <4> QED BY <1>2, <4>1
    <3> QED BY <1>0, <2>3, <3>1 DEF PostingOK
  <2>5. pc[t] # "commit"
    BY <2>2 DEF HoldsCounter
  <2> QED BY <2>1, <2>2, <2>3, <2>4, <2>5 DEF PostingOK, Mirror
<1>12. ASSUME NEW t \in Session, job'[t].op = "reopen"
       PROVE  ReopeningOK(t)'
  BY <1>1, <1>12, Leave DEF IInv, ReopeningOK
<1>13. /\ ReopenedByDecision'
       /\ \A n \in DOMAIN decisions' : decisions'[n].version <= version'[decisions'[n].period]
  BY <1>1 DEF IInv, ReopenedByDecision
<1>14. JobOK'
  BY <1>1, Leave
<1> QED BY <1>6, <1>9, <1>10, <1>11, <1>12, <1>13, <1>14, PostingKeepsPairs DEF IInv

(* A command that writes its period: the postings and the other commands   *)
(* on the way hold another period, and no decision was filed for a version *)
(* that is still to come.                                                  *)
LEMMA PeriodWriteFrame ==
  ASSUME IInv, NEW s \in Session, pc[s] = "write", Finish(s),
         UNCHANGED <<years, entries, counter>>,
         period' \in [Period -> Status], version' \in [Period -> Nat],
         \A p \in Period \ {job[s].period} : period'[p] = period[p] /\ version'[p] = version[p],
         decisions' \in Seq(Decision),
         \A n \in DOMAIN decisions :
           /\ n \in DOMAIN decisions'
           /\ decisions'[n].period = decisions[n].period
           /\ decisions'[n].version = decisions[n].version
           /\ decisions'[n].requestedBy = decisions[n].requestedBy
           /\ decisions'[n].status = decisions[n].status
           /\ decisions'[n].decidedBy = decisions[n].decidedBy,
         \A n \in DOMAIN decisions' : decisions'[n].version <= version'[decisions'[n].period],
         ReopenedByDecision'
  PROVE  IInv'
<1>1. Posted' = Posted
  BY DEF Posted
<1>2. TypeOK'
  BY Leave, <1>1 DEF IInv, TypeOK
<1>3. PeriodLocks'
  <2> SUFFICES ASSUME NEW t \in Session, NEW p \in Period
               PROVE  /\ HoldsShare(t, p)' => period'[p] = "open"
                      /\ HoldsPeriod(t, p)' =>
                           /\ period'[p] = From[job'[t].op] /\ version'[p] = job'[t].seen
                           /\ \A u \in Session \ {t} : ~HoldsPeriod(u, p)' /\ ~HoldsShare(u, p)'
    BY DEF PeriodLocks
  <2>1. CASE t = s
    BY <2>1, Leave
  <2>2. CASE t # s /\ p = job[s].period
    BY <2>2, Leave, Exclusive
  <2>3. CASE t # s /\ p # job[s].period
    <3>1. /\ HoldsShare(t, p) => period[p] = "open"
          /\ HoldsPeriod(t, p) =>
               /\ period[p] = From[job[t].op] /\ version[p] = job[t].seen
               /\ \A u \in Session \ {t} : ~HoldsPeriod(u, p) /\ ~HoldsShare(u, p)
      BY DEF IInv, PeriodLocks
    <3>2. /\ HoldsShare(t, p)' <=> HoldsShare(t, p)
          /\ HoldsPeriod(t, p)' <=> HoldsPeriod(t, p)
          /\ job'[t] = job[t] /\ period'[p] = period[p] /\ version'[p] = version[p]
      BY <2>3, Leave
    <3>3. \A u \in Session : /\ HoldsShare(u, p)' => HoldsShare(u, p)
                             /\ HoldsPeriod(u, p)' => HoldsPeriod(u, p)
      BY Leave
    <3> QED BY <3>1, <3>2, <3>3
  <2> QED BY <2>1, <2>2, <2>3
<1>4. ASSUME NEW t \in Session, job'[t].op = "post"
      PROVE  PostingOK(t)'
  <2>1. t # s /\ job'[t] = job[t] /\ pc'[t] = pc[t] /\ number'[t] = number[t]
    BY <1>4, Leave
  <2>2. PostingOK(t)
    BY <1>4, <2>1 DEF IInv
  <2>3. \A u \in Session : HoldsCounter(u)' => HoldsCounter(u)
    BY Leave
  <2> QED BY <1>1, <2>1, <2>2, <2>3 DEF PostingOK, CounterIsFree
<1>5. ASSUME NEW t \in Session, job'[t].op = "reopen"
      PROVE  ReopeningOK(t)'
  <2>1. t # s /\ job'[t] = job[t]
    BY <1>5, Leave
  <2>2. ReopeningOK(t)
    BY <1>5, <2>1 DEF IInv
  <2> QED BY <2>1, <2>2 DEF ReopeningOK, DecidedFor
<1>6. NumbersAreGapless' /\ ReversalsPair'
  BY <1>1 DEF IInv, NumbersAreGapless, ReversalsPair
<1> QED BY <1>2, <1>3, <1>4, <1>5, <1>6, Leave DEF IInv

LEMMA SetStatusFrame ==
  ASSUME IInv, NEW p \in Period, NEW op \in {"close", "lock", "reopen"}, SetStatus(p, op)
  PROVE  /\ period' \in [Period -> Status] /\ version' \in [Period -> Nat]
         /\ version'[p] = version[p] + 1
         /\ \A q \in Period \ {p} : period'[q] = period[q] /\ version'[q] = version[q]
         /\ \A q \in Period : version[q] \in Nat /\ version[q] <= version'[q]
  BY DEF IInv, TypeOK, SetStatus, To, Status, NextVersion

LEMMA CommitStatusKeeps ==
  ASSUME IInv, NEW s \in Session, CommitStatus(s)
  PROVE  IInv'
<1> DEFINE p == job[s].period
<1>1. /\ pc[s] = "write" /\ Finish(s) /\ SetStatus(p, job[s].op) /\ decisions' = decisions
      /\ job[s].op \in {"close", "lock"} /\ UNCHANGED <<years, entries, counter>>
  BY DEF CommitStatus, SetStatus
<1>2. p \in Period
  BY <1>1, Exclusive
<1> HIDE DEF p
<1>3. /\ period' \in [Period -> Status] /\ version' \in [Period -> Nat]
      /\ \A q \in Period \ {p} : period'[q] = period[q] /\ version'[q] = version[q]
      /\ \A q \in Period : version[q] \in Nat /\ version[q] <= version'[q]
  BY <1>1, <1>2, SetStatusFrame
<1>4. \A n \in DOMAIN decisions :
        /\ decisions[n].period \in Period /\ decisions[n].version \in Nat
        /\ decisions[n].version <= version[decisions[n].period]
  BY DecisionFields DEF IInv, Decision
<1>5. /\ \A n \in DOMAIN decisions' : decisions'[n].version <= version'[decisions'[n].period]
      /\ decisions' \in Seq(Decision)
  BY <1>1, <1>3, <1>4 DEF IInv, TypeOK
<1>6. ReopenedByDecision'
  BY <1>1, <1>3, <1>4 DEF IInv, ReopenedByDecision
<1> QED BY <1>1, <1>3, <1>5, <1>6, PeriodWriteFrame DEF p
LEMMA CommitRequestKeeps ==
  ASSUME IInv, NEW s \in Session, CommitRequest(s)
  PROVE  IInv'
<1> DEFINE p == job[s].period
           d == [period |-> p, version |-> version[p], requestedBy |-> job[s].user,
                 status |-> "open", decidedBy |-> NoUser, applied |-> 0]
<1>1. /\ pc[s] = "write" /\ Finish(s) /\ job[s].op = "request"
      /\ decisions' = Append(decisions, d)
      /\ UNCHANGED <<years, period, version, entries, counter>>
  BY DEF CommitRequest
<1>2. p \in Period /\ job[s].user \in User /\ version[p] \in Nat /\ version \in [Period -> Nat]
      /\ period \in [Period -> Status] /\ decisions \in Seq(Decision)
  BY <1>1, PeriodFields DEF IInv, TypeOK
<1>3. d \in Decision
  BY <1>2 DEF Decision
<1>4. d.period = p /\ d.version = version[p] /\ d.applied = 0
  OBVIOUS
<1> HIDE DEF d, p
<1>5. /\ decisions' \in Seq(Decision)
      /\ DOMAIN decisions \subseteq DOMAIN decisions'
      /\ \A n \in DOMAIN decisions' : \/ n \in DOMAIN decisions /\ decisions'[n] = decisions[n]
                                     \/ decisions'[n] = d
      /\ \A n \in DOMAIN decisions : decisions'[n] = decisions[n]
  BY <1>1, <1>2, <1>3
<1>6. \A n \in DOMAIN decisions' : decisions'[n].version <= version'[decisions'[n].period]
  BY <1>1, <1>2, <1>4, <1>5 DEF IInv
<1>7. ReopenedByDecision'
  BY <1>1, <1>4, <1>5 DEF IInv, ReopenedByDecision
<1> QED BY <1>1, <1>2, <1>5, <1>6, <1>7, PeriodWriteFrame

LEMMA CommitReopenKeeps ==
  ASSUME IInv, NEW s \in Session, CommitReopen(s)
  PROVE  IInv'
<1> DEFINE p == job[s].period
           m == job[s].decision
<1>1. /\ pc[s] = "write" /\ Finish(s) /\ SetStatus(p, "reopen") /\ job[s].op = "reopen"
      /\ decisions' = [decisions EXCEPT ![m].applied = @ + 1]
      /\ UNCHANGED <<years, entries, counter>>
  BY DEF CommitReopen, SetStatus
<1>2. p \in Period /\ version[p] = job[s].seen
  BY <1>1, Exclusive
<1>3. ReopeningOK(s)
  BY <1>1 DEF IInv
<1>4. /\ m \in DOMAIN decisions /\ decisions[m].period = p /\ decisions[m].version = version[p]
      /\ decisions[m].status = "approved" /\ decisions[m].decidedBy = job[s].user
      /\ decisions[m].requestedBy # job[s].user /\ job[s].user \in Approver
  BY <1>2, <1>3 DEF ReopeningOK, DecidedFor
<1> HIDE DEF p, m
<1>5. /\ period' \in [Period -> Status] /\ version' \in [Period -> Nat]
      /\ version'[p] = version[p] + 1
      /\ \A q \in Period \ {p} : period'[q] = period[q] /\ version'[q] = version[q]
      /\ \A q \in Period : version[q] \in Nat /\ version[q] <= version'[q]
  BY <1>1, <1>2, SetStatusFrame
<1>6. \A n \in DOMAIN decisions :
        /\ decisions[n] \in Decision /\ decisions[n].period \in Period
        /\ decisions[n].version \in Nat /\ decisions[n].applied \in Nat
        /\ decisions[n].version <= version[decisions[n].period]
  BY DecisionFields DEF IInv, Decision
<1>7. decisions[m].applied = 0
  BY <1>4, <1>6 DEF IInv, ReopenedByDecision
<1>8. [decisions[m] EXCEPT !.applied = @ + 1] \in Decision
  BY <1>4, <1>6 DEF Decision
<1>9. decisions' \in Seq(Decision) /\ DOMAIN decisions' = DOMAIN decisions
  BY <1>1, <1>4, <1>8 DEF IInv, TypeOK
<1>10. /\ \A n \in DOMAIN decisions \ {m} : decisions'[n] = decisions[n]
       /\ decisions'[m] = [decisions[m] EXCEPT !.applied = @ + 1]
  BY <1>1, <1>4
<1>11. /\ decisions'[m].period = p /\ decisions'[m].version = decisions[m].version
       /\ decisions'[m].requestedBy = decisions[m].requestedBy
       /\ decisions'[m].status = decisions[m].status
       /\ decisions'[m].decidedBy = decisions[m].decidedBy
       /\ decisions'[m].applied = 1
  BY <1>4, <1>6, <1>7, <1>10 DEF Decision
<1>12. \A n \in DOMAIN decisions' : decisions'[n].version <= version'[decisions'[n].period]
  <2> SUFFICES ASSUME NEW n \in DOMAIN decisions
               PROVE  decisions'[n].version <= version'[decisions'[n].period]
    BY <1>9
  <2>1. /\ decisions[n].period \in Period /\ decisions[n].version \in Nat
        /\ decisions'[n].period = decisions[n].period /\ decisions'[n].version = decisions[n].version
    BY <1>4, <1>6, <1>10, <1>11
  <2>2. /\ decisions[n].version <= version[decisions[n].period]
        /\ version[decisions[n].period] \in Nat /\ version'[decisions[n].period] \in Nat
        /\ version[decisions[n].period] <= version'[decisions[n].period]
    BY <1>5, <1>6, <2>1
  <2> QED BY <2>1, <2>2
<1>13. ReopenedByDecision'
  <2> SUFFICES ASSUME NEW n \in DOMAIN decisions, decisions'[n].applied > 0
               PROVE  /\ decisions'[n].applied = 1
                      /\ decisions'[n].version < version'[decisions'[n].period]
                      /\ decisions'[n].status = "approved"
                      /\ decisions'[n].decidedBy \in Approver \ {decisions'[n].requestedBy}
    BY <1>9 DEF ReopenedByDecision
  <2>1. CASE n = m
    BY <1>2, <1>4, <1>5, <1>6, <1>11, <2>1
  <2>2. CASE n # m
    <3>1. decisions'[n] = decisions[n]
      BY <1>10, <2>2
    <3>2. /\ decisions[n].applied = 1 /\ decisions[n].version < version[decisions[n].period]
          /\ decisions[n].status = "approved"
          /\ decisions[n].decidedBy \in Approver \ {decisions[n].requestedBy}
      BY <3>1 DEF IInv, ReopenedByDecision
    <3>3. /\ version[decisions[n].period] \in Nat /\ version'[decisions[n].period] \in Nat
          /\ version[decisions[n].period] <= version'[decisions[n].period]
          /\ decisions[n].version \in Nat
      BY <1>5, <1>6
    <3> QED BY <3>1, <3>2, <3>3
  <2> QED BY <2>1, <2>2
<1>14. \A n \in DOMAIN decisions :
         /\ n \in DOMAIN decisions'
         /\ decisions'[n].period = decisions[n].period
         /\ decisions'[n].version = decisions[n].version
         /\ decisions'[n].requestedBy = decisions[n].requestedBy
         /\ decisions'[n].status = decisions[n].status
         /\ decisions'[n].decidedBy = decisions[n].decidedBy
  BY <1>4, <1>9, <1>10, <1>11
<1> QED BY <1>1, <1>5, <1>9, <1>12, <1>13, <1>14, PeriodWriteFrame DEF p
LEMMA DecideKeeps ==
  ASSUME IInv, NEW n \in DOMAIN decisions, NEW u \in User,
         NEW verdict \in {"approved", "rejected"}, Decide(n, u, verdict)
  PROVE  IInv'
<1>1. /\ decisions[n].status = "open"
      /\ decisions' = [decisions EXCEPT ![n].status = verdict, ![n].decidedBy = u]
      /\ UNCHANGED <<years, period, version, entries, counter, pc, job, number>>
  BY DEF Decide
<1>2. \A k \in DOMAIN decisions : decisions[k] \in Decision
  BY DecisionFields DEF IInv
<1>3. /\ \A k \in DOMAIN decisions \ {n} : decisions'[k] = decisions[k]
      /\ decisions'[n] = [decisions[n] EXCEPT !.status = verdict, !.decidedBy = u]
  BY <1>1
<1>4. /\ decisions'[n].period = decisions[n].period /\ decisions'[n].version = decisions[n].version
      /\ decisions'[n].applied = decisions[n].applied /\ decisions'[n] \in Decision
  BY <1>2, <1>3 DEF Decision
<1>5. decisions' \in Seq(Decision) /\ DOMAIN decisions' = DOMAIN decisions
  <2> DEFINE d == [decisions[n] EXCEPT !.status = verdict, !.decidedBy = u]
  <2>1. decisions' = [decisions EXCEPT ![n] = d]
    BY <1>1
  <2>2. d \in Decision
    BY <1>3, <1>4
  <2> HIDE DEF d
  <2> QED BY <2>1, <2>2 DEF IInv, TypeOK
<1>6. TypeOK'
  BY <1>1, <1>5 DEF IInv, TypeOK, Posted
<1>7. \A k \in DOMAIN decisions' : decisions'[k].version <= version'[decisions'[k].period]
  BY <1>1, <1>3, <1>4, <1>5 DEF IInv
<1>8. ReopenedByDecision'
  <2>1. ~(decisions[n].applied > 0)
    BY <1>1 DEF IInv, ReopenedByDecision
  <2> QED BY <1>1, <1>3, <1>4, <1>5, <2>1 DEF IInv, ReopenedByDecision
<1>9. ASSUME NEW t \in Session, job'[t].op = "reopen"
      PROVE  ReopeningOK(t)'
  <2>1. ReopeningOK(t) /\ job[t].decision # n
    BY <1>1, <1>9 DEF IInv, ReopeningOK, DecidedFor
  <2> QED BY <1>1, <1>3, <1>5, <2>1 DEF ReopeningOK
<1>10. ASSUME NEW t \in Session, job'[t].op = "post"
       PROVE  PostingOK(t)'
  BY <1>1, <1>10 DEF IInv, PostingOK, HoldsCounter, CounterIsFree, Posted
<1>11. JobOK' /\ PeriodLocks'
  BY <1>1 DEF IInv, JobOK, PeriodLocks, HoldsShare, HoldsPeriod
<1>12. NumbersAreGapless' /\ ReversalsPair'
  BY <1>1 DEF IInv, NumbersAreGapless, ReversalsPair, Posted
<1> QED BY <1>6, <1>7, <1>8, <1>9, <1>10, <1>11, <1>12 DEF IInv

LEMMA CreateFiscalYearKeeps ==
  ASSUME IInv, NEW y \in Year, CreateFiscalYear(y)
  PROVE  IInv'
<1>1. /\ years' = years \cup {y}
      /\ UNCHANGED <<period, version, entries, counter, decisions, pc, job, number>>
  BY DEF CreateFiscalYear
<1>2. TypeOK' /\ JobOK' /\ PeriodLocks'
  BY <1>1 DEF IInv, TypeOK, JobOK, PeriodLocks, HoldsShare, HoldsPeriod, Posted
<1>3. \A t \in Session : /\ PostingOK(t)' <=> PostingOK(t)
                         /\ ReopeningOK(t)' <=> ReopeningOK(t)
  BY <1>1 DEF PostingOK, ReopeningOK, DecidedFor, HoldsCounter, CounterIsFree, Posted
<1>4. NumbersAreGapless' /\ ReversalsPair' /\ ReopenedByDecision'
  BY <1>1 DEF IInv, NumbersAreGapless, ReversalsPair, ReopenedByDecision, Posted
<1> QED BY <1>1, <1>2, <1>3, <1>4 DEF IInv

LEMMA OpenPeriodKeeps ==
  ASSUME IInv, NEW p \in Period, OpenPeriod(p)
  PROVE  IInv'
<1>1. /\ period[p] = "none" /\ period' = [period EXCEPT ![p] = "open"]
      /\ UNCHANGED <<years, version, entries, counter, decisions, pc, job, number>>
  BY DEF OpenPeriod
<1>2. \A q \in Period \ {p} : period'[q] = period[q]
  BY <1>1 DEF IInv, TypeOK
<1>3. TypeOK'
  BY <1>1 DEF IInv, TypeOK, Status, Posted
<1>4. \A t \in Session : ~HoldsShare(t, p) /\ ~HoldsPeriod(t, p)
  <2> SUFFICES ASSUME NEW t \in Session PROVE ~HoldsShare(t, p) /\ ~HoldsPeriod(t, p)
    OBVIOUS
  <2>1. ~HoldsShare(t, p)
    BY <1>1 DEF IInv, PeriodLocks
  <2>2. ASSUME HoldsPeriod(t, p) PROVE FALSE
    <3>1. pc[t] = "write" /\ period[p] = From[job[t].op]
      BY <2>2 DEF IInv, PeriodLocks, HoldsPeriod
    <3> QED BY <1>1, <3>1, PeriodFields DEF IInv, From
  <2> QED BY <2>1, <2>2
<1>5. PeriodLocks'
  <2>1. ASSUME NEW t \in Session, NEW q \in Period, HoldsShare(t, q)
        PROVE  period'[q] = "open"
    BY <1>2, <1>4, <2>1 DEF IInv, PeriodLocks
  <2>2. ASSUME NEW t \in Session, NEW q \in Period, HoldsPeriod(t, q)
        PROVE  /\ period'[q] = From[job[t].op] /\ version[q] = job[t].seen
               /\ \A u \in Session \ {t} : ~HoldsPeriod(u, q) /\ ~HoldsShare(u, q)
    BY <1>2, <1>4, <2>2 DEF IInv, PeriodLocks
  <2> QED BY <1>1, <2>1, <2>2 DEF PeriodLocks, HoldsShare, HoldsPeriod
<1>6. JobOK'
  BY <1>1 DEF IInv, JobOK
<1>7. \A t \in Session : /\ PostingOK(t)' <=> PostingOK(t)
                         /\ ReopeningOK(t)' <=> ReopeningOK(t)
  BY <1>1 DEF PostingOK, ReopeningOK, DecidedFor, HoldsCounter, CounterIsFree, Posted
<1>8. NumbersAreGapless' /\ ReversalsPair' /\ ReopenedByDecision'
  BY <1>1 DEF IInv, NumbersAreGapless, ReversalsPair, ReopenedByDecision, Posted
<1> QED BY <1>1, <1>3, <1>5, <1>6, <1>7, <1>8 DEF IInv

LEMMA NextKeeps == IInv /\ [Next]_vars => IInv'
<1> SUFFICES ASSUME IInv, [Next]_vars PROVE IInv'
  OBVIOUS
<1>1. ASSUME NEW y \in Year, CreateFiscalYear(y) PROVE IInv'
  BY <1>1, CreateFiscalYearKeeps
<1>2. ASSUME NEW p \in Period, OpenPeriod(p) PROVE IInv'
  BY <1>2, OpenPeriodKeeps
<1>3. ASSUME NEW s \in Session, Posting(s) PROVE IInv'
  <2>1. ASSUME NEW p \in Period, NEW d \in Date, NEW lines \in Postings, PostJournal(s, p, d, lines)
        PROVE  IInv'
    BY <2>1, PostJournalKeeps
  <2>2. ASSUME NEW n \in Posted, NEW p \in Period, NEW d \in Date, ReverseJournal(s, n, p, d)
        PROVE  IInv'
    BY <2>2, ReverseJournalKeeps
  <2> QED
    BY <1>3, <2>1, <2>2, TakeNumberKeeps, InsertEntryKeeps, MarkReversedKeeps, CommitPostingKeeps
       DEF Posting
<1>4. ASSUME NEW s \in Session, PeriodCommand(s) PROVE IInv'
  <2>1. ASSUME NEW p \in Period, NEW u \in User, RequestReopenPeriod(s, p, u) PROVE IInv'
    BY <2>1, RequestSendKeeps
  <2>2. ASSUME NEW p \in Period, ClosePeriod(s, p) \/ LockPeriod(s, p) PROVE IInv'
    BY <2>2, StatusSendKeeps
  <2>3. ASSUME NEW n \in DOMAIN decisions, NEW u \in User, ApplyPeriodReopenDecision(s, n, u)
        PROVE  IInv'
    BY <2>3, ApplyReopenKeeps
  <2> QED
    BY <1>4, <2>1, <2>2, <2>3, LockRowKeeps, CommitStatusKeeps, CommitRequestKeeps, CommitReopenKeeps
       DEF PeriodCommand
<1>5. ASSUME NEW s \in Session, Rollback(s) PROVE IInv'
  BY <1>5, RollbackKeeps
<1>6. ASSUME NEW n \in DOMAIN decisions, NEW u \in User, NEW verdict \in {"approved", "rejected"},
             Decide(n, u, verdict)
      PROVE  IInv'
  BY <1>6, DecideKeeps
<1>7. CASE UNCHANGED vars
  BY <1>7, BooksStay
     DEF vars, books, IInv, TypeOK, JobOK, PeriodLocks, PostingOK, ReopeningOK, DecidedFor,
         HoldsShare, HoldsPeriod, HoldsCounter, CounterIsFree, Posted
<1> QED BY <1>1, <1>2, <1>3, <1>4, <1>5, <1>6, <1>7 DEF Next

(* The inductive invariant: who holds which lock, and what the tables say. *)
THEOREM AccountingInvariant == Spec => []IInv
<1>1. IInv /\ [Next]_vars => IInv'
  BY NextKeeps
<1> QED BY <1>1, InitInv, PTL DEF Spec

(* Reversals: for any number of callers who reverse the same entry, one    *)
(* mirror image of it is posted.                                           *)
THEOREM ReversalsArePaired == Spec => []ReversalsPair
<1>1. IInv => ReversalsPair
  BY DEF IInv
<1> QED BY <1>1, AccountingInvariant, PTL

(* The journal of an entity has no gap, whatever fails on the way. *)
THEOREM NoGaps == Spec => []NumbersAreGapless
<1>1. IInv => NumbersAreGapless
  BY DEF IInv
<1> QED BY <1>1, AccountingInvariant, PTL

(* A decision reopens the period it was filed for, once. *)
THEOREM ReopenedOnce == Spec => []ReopenedByDecision
<1>1. IInv => ReopenedByDecision
  BY DEF IInv
<1> QED BY <1>1, AccountingInvariant, PTL

LEMMA OnlyCommitPosts ==
  ASSUME IInv, Next, \A s \in Session : ~CommitPosting(s)
  PROVE  entries' = entries
  BY ZenonT(30) DEF Next, Posting, PeriodCommand, CreateFiscalYear, OpenPeriod, PostJournal, ReverseJournal,
         TakeNumber, InsertEntry, MarkReversed, ClosePeriod, LockPeriod, RequestReopenPeriod,
         ApplyPeriodReopenDecision, Start, LockRow, CommitStatus, CommitRequest, CommitReopen,
         SetStatus, Rollback, Decide, books

(* Nothing that was on its way when a period closed, and no reversal of    *)
(* one of its entries, changes the books of a closed or locked period.     *)
THEOREM ClosedBooksStay == Spec => CutOff
<1> DEFINE Step == \A p \in Period : period[p] \in {"closed", "locked"} => Books(p)' = Books(p)
<1>1. ASSUME IInv, [Next]_vars PROVE [Step]_vars
  <2>1. CASE UNCHANGED vars
    BY <2>1
  <2>2. CASE Next /\ \A s \in Session : ~CommitPosting(s)
    BY <1>1, <2>2, OnlyCommitPosts DEF Books, Posted
  <2>3. ASSUME NEW s \in Session, CommitPosting(s) PROVE Step
    <3> SUFFICES ASSUME NEW p \in Period, period[p] \in {"closed", "locked"}
                 PROVE  Books(p)' = Books(p)
      OBVIOUS
    <3> DEFINE m0 == number[s]
               r  == job[s].reverses
    <3>1. pc[s] = "commit"
      BY <2>3 DEF CommitPosting
    <3>2. job[s].op = "post" /\ job[s].period \in Period
      BY <1>1, <3>1, Exclusive, PostFields DEF IInv
    <3>3. HoldsShare(s, job[s].period)
      BY <3>1 DEF HoldsShare
    <3>4. period[job[s].period] = "open"
      BY <1>1, <3>2, <3>3 DEF IInv, PeriodLocks
    <3>5. entries'[m0] = NewEntry(job[s])
      BY <1>1, <2>3, Posting1
    <3>6. entries'[m0].period # p
      BY <3>4, <3>5 DEF NewEntry
    <3>7. /\ Posted' = Posted \cup {m0}
          /\ \A n \in Posted :
               /\ entries[n] \in Entry
               /\ n # r => entries'[n] = entries[n]
               /\ n = r => entries'[n] = [entries[n] EXCEPT !.reversedBy = m0, !.version = @ + 1]
      BY <1>1, <2>3, Posting1
    <3> HIDE DEF m0, r
    <3>8. \A n \in Posted : /\ entries'[n].period = entries[n].period
                            /\ entries'[n].date = entries[n].date
                            /\ entries'[n].lines = entries[n].lines
      <4> SUFFICES ASSUME NEW n \in Posted
                   PROVE  /\ entries'[n].period = entries[n].period
                          /\ entries'[n].date = entries[n].date
                          /\ entries'[n].lines = entries[n].lines
        OBVIOUS
      <4>1. CASE n = r
        <5>1. /\ entries[n] \in Entry
              /\ entries'[n] = [entries[n] EXCEPT !.reversedBy = m0, !.version = @ + 1]
          BY <3>7, <4>1
        <5> QED BY <5>1 DEF Entry
      <4> QED BY <3>7, <4>1
    <3>9. {m \in Posted' : entries'[m].period = p} = {m \in Posted : entries[m].period = p}
      BY <3>6, <3>7, <3>8
    <3>10. Books(p)' = [n \in {m \in Posted' : entries'[m].period = p} |->
                          [date |-> entries'[n].date, lines |-> entries'[n].lines]]
      BY DEF Books
    <3> QED BY <3>8, <3>9, <3>10 DEF Books
  <2> QED BY <1>1, <2>1, <2>2, <2>3
<1>2. CutOff <=> [][Step]_vars
  BY DEF CutOff
<1> QED BY <1>1, <1>2, AccountingInvariant, PTL DEF Spec

-----------------------------------------------------------------------------
(* Accounting implements AccountBook: a commit is one step that meets      *)
(* every rule, and every other step leaves the tables alone.               *)

LEMMA SameSums == \A lines : SumFunction(lines) = Atomic!SumFunction(lines)
<1>1. \A f, S : Atomic!SumFunctionOnSet(f, S) = SumFunctionOnSet(f, S)
  BY DEF Atomic!SumFunctionOnSet, SumFunctionOnSet, Atomic!FoldFunctionOnSet, FoldFunctionOnSet,
         Atomic!MapThenFoldSet, MapThenFoldSet
<1> QED BY <1>1 DEF Atomic!SumFunction, SumFunction

(* What the commit of a posting finds: its period is open, since the lock  *)
(* it took at the insert is held until now, and so are its day and number. *)
LEMMA PostsInTime ==
  ASSUME IInv, NEW s \in Session, CommitPosting(s)
  PROVE  /\ job[s].op = "post" /\ job[s].period \in Period /\ job[s].date \in Date
         /\ period[job[s].period] = "open" /\ job[s].date \in DatesOf[job[s].period]
         /\ Atomic!SumFunction(job[s].lines) = 0
<1>1. pc[s] = "commit" /\ Balanced(job[s].lines)
  BY DEF CommitPosting
<1>2. job[s].op = "post" /\ job[s].period \in Period /\ job[s].date \in Date
  BY <1>1, Exclusive, PostFields DEF IInv
<1>3. period[job[s].period] = "open"
  BY <1>1, <1>2 DEF IInv, PeriodLocks, HoldsShare
<1>4. job[s].date \in DatesOf[job[s].period]
  BY <1>2 DEF IInv, PostingOK
<1> QED BY <1>1, <1>2, <1>3, <1>4, SameSums DEF Balanced

LEMMA PostingIsAtomic ==
  ASSUME IInv, NEW s \in Session, CommitPosting(s)
  PROVE  Atomic!Next
<1> DEFINE j  == job[s]
           m0 == number[s]
           r  == job[s].reverses
           p  == job[s].period
           d  == job[s].date
<1>1. /\ j.op = "post" /\ p \in Period /\ d \in Date
      /\ period[p] = "open" /\ d \in DatesOf[p] /\ Atomic!SumFunction(j.lines) = 0
  BY PostsInTime
<1>2. /\ m0 = counter + 1 /\ counter' = m0 /\ m0 \notin Posted /\ Posted' = Posted \cup {m0}
      /\ Posted = 1..counter /\ counter \in Nat /\ entries'[m0] = NewEntry(j)
      /\ r # 0 => r \in Posted /\ j.lines = Mirror(entries[r].lines) /\ entries[r].reversedBy = 0
  BY Posting1
<1>3. /\ UNCHANGED <<years, period, version, decisions>>
      /\ entries' = [n \in Posted \cup {m0} |->
                       IF n = m0 THEN NewEntry(j)
                       ELSE IF n = r THEN [entries[n] EXCEPT !.reversedBy = m0, !.version = @ + 1]
                       ELSE entries[n]]
  BY DEF CommitPosting
<1>4. Atomic!Posted = Posted
  BY DEF Atomic!Posted, Posted
<1>5. 0 \notin Posted
  BY <1>2
<1>6. NewEntry(j) = [type |-> IF r = 0 THEN "posted" ELSE "reversing", period |-> p, date |-> d,
                     lines |-> j.lines, reversedBy |-> 0, version |-> 1]
  BY DEF NewEntry
<1> HIDE DEF j, m0, r, p, d
<1>7. CASE r = 0
  <2>1. entries' = [n \in Posted \cup {counter + 1} |->
                      IF n = counter + 1
                        THEN [type |-> "posted", period |-> p, date |-> d, lines |-> j.lines,
                              reversedBy |-> 0, version |-> 1]
                        ELSE entries[n]]
    BY <1>2, <1>3, <1>5, <1>6, <1>7
  <2>2. Atomic!Post(p, d, j.lines)
    BY <1>1, <1>2, <1>3, <1>4, <2>1 DEF Atomic!Post, Atomic!Book
  <2>3. entries'[m0] \in Range(entries') /\ entries'[m0].lines = j.lines
    <3>1. m0 \in DOMAIN entries'
      BY <1>2 DEF Posted
    <3> QED BY <1>2, <1>6, <3>1 DEF Range
  <2>4. Range(entries') = Atomic!Range(entries')
    BY DEF Range, Atomic!Range
  <2> QED BY <1>1, <2>2, <2>3, <2>4 DEF Atomic!Next
<1>8. CASE r # 0
  <2> DEFINE of == [entries EXCEPT ![r].reversedBy = counter + 1, ![r].version = @ + 1]
  <2>1. \A n \in Posted :
          of[n] = IF n = r THEN [entries[n] EXCEPT !.reversedBy = m0, !.version = @ + 1]
                  ELSE entries[n]
    BY <1>2, <1>8 DEF Posted
  <2> HIDE DEF of
  <2>2. entries' = [n \in Posted \cup {counter + 1} |->
                      IF n = counter + 1
                        THEN [type |-> "reversing", period |-> p, date |-> d, lines |-> j.lines,
                              reversedBy |-> 0, version |-> 1]
                        ELSE of[n]]
    BY <1>2, <1>3, <1>6, <1>8, <2>1
  <2>3. j.lines = [a \in Account |-> -entries[r].lines[a]]
    BY <1>2, <1>8 DEF Mirror
  <2>4. Atomic!Book("reversing", p, d, j.lines, of)
    BY <1>1, <1>2, <1>3, <1>4, <2>2 DEF Atomic!Book
  <2>5. Atomic!Reverse(r, p, d)
    BY <1>2, <1>8, <2>3, <2>4 DEF Atomic!Reverse, of
  <2> QED BY <1>1, <1>2, <1>4, <1>8, <2>5 DEF Atomic!Next
<1> QED BY <1>7, <1>8

LEMMA StatusIsAtomic ==
  ASSUME IInv, NEW s \in Session, CommitStatus(s)
  PROVE  Atomic!Next
<1> DEFINE p == job[s].period
<1>1. /\ pc[s] = "write" /\ SetStatus(p, job[s].op) /\ decisions' = decisions
      /\ job[s].op \in {"close", "lock"}
  BY DEF CommitStatus
<1>2. p \in Period /\ period[p] = From[job[s].op]
  BY <1>1, Exclusive
<1> HIDE DEF p
<1>3. CASE job[s].op = "close"
  <2>1. Atomic!Close(p)
    BY <1>1, <1>2, <1>3 DEF Atomic!Close, Atomic!Turn, SetStatus, From, To, NextVersion
  <2> QED BY <1>2, <2>1 DEF Atomic!Next
<1>4. CASE job[s].op = "lock"
  <2>1. Atomic!Lock(p)
    BY <1>1, <1>2, <1>4 DEF Atomic!Lock, Atomic!Turn, SetStatus, From, To, NextVersion
  <2> QED BY <1>2, <2>1 DEF Atomic!Next
<1> QED BY <1>1, <1>3, <1>4

LEMMA RequestIsAtomic ==
  ASSUME IInv, NEW s \in Session, CommitRequest(s)
  PROVE  Atomic!Next
<1>1. pc[s] = "write" /\ job[s].op = "request"
  BY DEF CommitRequest
<1>2. job[s].period \in Period /\ job[s].user \in User /\ period[job[s].period] = "closed"
  BY <1>1, Exclusive, PeriodFields DEF IInv, From
<1>3. Atomic!Request(job[s].period, job[s].user)
  BY <1>2 DEF Atomic!Request, CommitRequest
<1> QED BY <1>2, <1>3 DEF Atomic!Next

(* The decision a reopening was sent with is still the right one, and has  *)
(* not been applied: the period's version is the one it was filed for.     *)
LEMMA ReopeningIsAtomic ==
  ASSUME IInv, NEW s \in Session, CommitReopen(s)
  PROVE  Atomic!Next
<1> DEFINE p == job[s].period
           m == job[s].decision
<1>1. /\ pc[s] = "write" /\ job[s].op = "reopen" /\ SetStatus(p, "reopen")
      /\ decisions' = [decisions EXCEPT ![m].applied = @ + 1]
  BY DEF CommitReopen
<1>2. p \in Period /\ version[p] = job[s].seen /\ period[p] = "closed"
  BY <1>1, Exclusive DEF From
<1>3. /\ m \in DOMAIN decisions /\ decisions[m].period = p /\ decisions[m].version = version[p]
      /\ decisions[m].status = "approved"
      /\ decisions[m].decidedBy \in Approver \ {decisions[m].requestedBy}
  BY <1>1, <1>2 DEF IInv, ReopeningOK, DecidedFor
<1> HIDE DEF p, m
<1>4. decisions[m].applied = 0
  <2>1. decisions[m].applied \in Nat /\ version[p] \in Nat
    BY <1>2, <1>3, DecisionFields DEF IInv, TypeOK, Decision
  <2>2. ~(decisions[m].applied > 0)
    BY <1>3, <2>1 DEF IInv, ReopenedByDecision
  <2> QED BY <2>1, <2>2
<1>5. decisions' = [decisions EXCEPT ![m].applied = 1]
  BY <1>1, <1>4
<1>6. Atomic!Turn(p, "closed", "open")
  BY <1>1, <1>2 DEF Atomic!Turn, SetStatus, To, NextVersion
<1>7. Atomic!Reopen(m)
  BY <1>3, <1>4, <1>5, <1>6 DEF Atomic!Reopen
<1> QED BY <1>3, <1>7 DEF Atomic!Next

LEMMA OwnStepsAreAtomic ==
  /\ \A y \in Year : CreateFiscalYear(y) => Atomic!Next
  /\ \A p \in Period : OpenPeriod(p) => Atomic!Next
  /\ \A n \in DOMAIN decisions, u \in User, verdict \in {"approved", "rejected"} :
       Decide(n, u, verdict) => Atomic!Next
<1>1. ASSUME NEW y \in Year, CreateFiscalYear(y) PROVE Atomic!Next
  <2>1. Atomic!CreateYear(y)
    BY <1>1 DEF CreateFiscalYear, Atomic!CreateYear
  <2> QED BY <2>1 DEF Atomic!Next
<1>2. ASSUME NEW p \in Period, OpenPeriod(p) PROVE Atomic!Next
  <2>1. Atomic!OpenPeriod(p)
    BY <1>2 DEF OpenPeriod, Atomic!OpenPeriod
  <2> QED BY <2>1 DEF Atomic!Next
<1>3. ASSUME NEW n \in DOMAIN decisions, NEW u \in User, NEW verdict \in {"approved", "rejected"},
             Decide(n, u, verdict)
      PROVE  Atomic!Next
  <2>1. Atomic!Decide(n, u, verdict)
    BY <1>3 DEF Decide, Atomic!Decide
  <2> QED BY <2>1 DEF Atomic!Next
<1> QED BY <1>1, <1>2, <1>3

LEMMA StepIsAtomic ==
  ASSUME IInv, [Next]_vars
  PROVE  [Atomic!Next]_(Atomic!tables)
<1> USE DEF Atomic!tables
<1>1. ASSUME NEW s \in Session, Posting(s) PROVE Atomic!Next \/ UNCHANGED books
  <2>1. CASE CommitPosting(s)
    BY <2>1, PostingIsAtomic
  <2>2. CASE ~CommitPosting(s)
    BY <1>1, <2>2
       DEF Posting, PostJournal, ReverseJournal, Start, TakeNumber, InsertEntry, MarkReversed
  <2> QED BY <2>1, <2>2
<1>2. ASSUME NEW s \in Session, PeriodCommand(s) PROVE Atomic!Next \/ UNCHANGED books
  <2>1. CASE CommitStatus(s) \/ CommitRequest(s) \/ CommitReopen(s)
    BY <2>1, StatusIsAtomic, RequestIsAtomic, ReopeningIsAtomic
  <2>2. CASE ~(CommitStatus(s) \/ CommitRequest(s) \/ CommitReopen(s))
    BY <1>2, <2>2
       DEF PeriodCommand, ClosePeriod, LockPeriod, RequestReopenPeriod, ApplyPeriodReopenDecision,
           Start, LockRow
  <2> QED BY <2>1, <2>2
<1>3. ASSUME NEW s \in Session, Rollback(s) PROVE UNCHANGED books
  BY <1>3 DEF Rollback
<1>4. CASE UNCHANGED vars
  BY <1>4 DEF vars, books
<1> QED BY <1>1, <1>2, <1>3, <1>4, OwnStepsAreAtomic DEF Next, books

(* The committed tables behave as AccountBook: for any number of sessions, *)
(* a commit posts, reverses, closes, locks, asks or reopens in one step by *)
(* the rules as they are at that moment, and nothing else changes them.    *)
THEOREM AccountingImplementsBooks == Spec => ImplementsBooks
<1>1. Init => Atomic!Init
  BY DEF Init, Atomic!Init
<1>2. IInv /\ [Next]_vars => [Atomic!Next]_(Atomic!tables)
  BY StepIsAtomic
<1> QED BY <1>1, <1>2, AccountingInvariant, PTL DEF Spec, ImplementsBooks, Atomic!Spec

(* The journal as a whole: NoGaps and ReversalsArePaired. *)
THEOREM JournalStaysSound == Spec => []JournalSound
<1>1. IInv => JournalSound
  BY DEF IInv, JournalSound
<1> QED BY <1>1, AccountingInvariant, PTL

-----------------------------------------------------------------------------
(* Price lists (PriceLists).                                               *)

(* A finite set, each element with a number, can be listed by the numbers. *)
Sorted(f, S, key) ==
  /\ f \in [1..Cardinality(S) -> S]
  /\ \A i, j \in 1..Cardinality(S) : i # j => f[i] # f[j]
  /\ \A i, j \in 1..Cardinality(S) : i < j => key[f[i]] <= key[f[j]]

LEMMA SmallestFirst ==
  ASSUME NEW S, IsFiniteSet(S), NEW key, NEW x \in S,
         \A y \in S : key[y] \in Nat /\ key[x] <= key[y],
         NEW g, Sorted(g, S \ {x}, key)
  PROVE  \E f : Sorted(f, S, key)
<1> DEFINE n == Cardinality(S)
           f == [i \in 1..n |-> IF i = 1 THEN x ELSE g[i - 1]]
<1>1. n \in Nat /\ Cardinality(S \ {x}) = n - 1 /\ n - 1 \in Nat
  BY OneLess
<1> HIDE DEF n
<1>2. ASSUME NEW i \in 1..n, i # 1
      PROVE  i - 1 \in 1..(n - 1) /\ f[i] = g[i - 1] /\ f[i] \in S \ {x}
  <2>1. i - 1 \in 1..(n - 1)
    BY <1>1, <1>2
  <2>2. f[i] = g[i - 1]
    BY <1>2
  <2> QED  BY <1>1, <2>1, <2>2 DEF Sorted
<1>3. \A i \in 1..n : i = 1 => f[i] = x
  BY <1>1
<1>4. f \in [1..n -> S]
  BY <1>1, <1>2, <1>3
<1> HIDE DEF f
<1>5. ASSUME NEW i \in 1..n, NEW j \in 1..n, i # j
      PROVE  f[i] # f[j]
  <2>1. CASE i = 1
    BY <1>2, <1>3, <1>5, <2>1
  <2>2. CASE j = 1
    BY <1>2, <1>3, <1>5, <2>2
  <2>3. CASE i # 1 /\ j # 1
    <3>1. i - 1 # j - 1
      BY <1>1, <1>5
    <3> QED  BY <1>1, <1>2, <2>3, <3>1 DEF Sorted
  <2> QED  BY <2>1, <2>2, <2>3
<1>6. ASSUME NEW i \in 1..n, NEW j \in 1..n, i < j
      PROVE  key[f[i]] <= key[f[j]]
  <2>1. j # 1
    BY <1>1, <1>6
  <2>2. CASE i = 1
    BY <1>2, <1>3, <2>1, <2>2
  <2>3. CASE i # 1
    <3>1. i - 1 < j - 1
      BY <1>1, <1>6
    <3> QED  BY <1>1, <1>2, <2>1, <2>3, <3>1 DEF Sorted
  <2> QED  BY <2>2, <2>3
<1> QED  BY <1>4, <1>5, <1>6 DEF Sorted, n

LEMMA SortedExists ==
  ASSUME NEW S, IsFiniteSet(S), NEW key, \A y \in S : key[y] \in Nat
  PROVE  \E f : Sorted(f, S, key)
<1> DEFINE Bad == {k \in Nat : \E T \in SUBSET S : Cardinality(T) = k /\ ~ \E f : Sorted(f, T, key)}
<1> SUFFICES ASSUME Bad # {} PROVE FALSE
  <2>1. S \in SUBSET S /\ Cardinality(S) \in Nat
    BY FS_CardinalityType
  <2> QED  BY <2>1
<1>1. PICK m \in Bad : \A k \in Bad : m <= k
  BY LeastNumber
<1>2. PICK T \in SUBSET S : Cardinality(T) = m /\ ~ \E f : Sorted(f, T, key)
  BY <1>1
<1>3. IsFiniteSet(T) /\ m \in Nat
  BY <1>1, FS_Subset
<1>4. CASE T = {}
  <2>1. Cardinality(T) = 0
    BY <1>4, FS_EmptySet
  <2>2. Sorted([i \in 1..0 |-> 0], T, key)
    BY <2>1 DEF Sorted
  <2> QED  BY <1>2, <2>2
<1>5. CASE T # {}
  <2> DEFINE keys == {key[y] : y \in T}
  <2>1. keys \in SUBSET Nat /\ keys # {}
    BY <1>5
  <2>2. PICK least \in keys : \A k \in keys : least <= k
    BY <2>1, LeastNumber
  <2>3. PICK x \in T : \A y \in T : key[x] <= key[y]
    BY <2>2
  <2>4. /\ Cardinality(T \ {x}) = m - 1 /\ m - 1 \in Nat
    BY <1>2, <1>3, OneLess
  <2>5. m - 1 \notin Bad
    BY <1>1, <1>3, <2>4
  <2>6. \E g : Sorted(g, T \ {x}, key)
    BY <2>4, <2>5
  <2>7. \A y \in T : key[y] \in Nat /\ key[x] <= key[y]
    BY <2>3
  <2> QED  BY <1>2, <1>3, <2>6, <2>7, SmallestFirst
<1> QED  BY <1>4, <1>5

-----------------------------------------------------------------------------
LEMMA NoBoundIsNone == NoBound \notin Nat
BY DEF NoBound

(* The ladder of a service whose lines are valid: their order in the       *)
(* answer is that of their tiers, and every tier ends where the next one   *)
(* of the answer begins.                                                   *)
Tiered(group) ==
  /\ IsFiniteSet(group) /\ group \subseteq Line /\ group # {} /\ ValidateGroup(group)
  /\ \A l \in group : l.free >= 0

FlatGroup(group) == Cardinality(group) = 1 /\ \A l \in group : IsFlatLine(l)

LEMMA Rungs ==
  ASSUME NEW group, Tiered(group), ~FlatGroup(group), NEW l \in group
  PROVE  /\ l.from \in Nat /\ l.to \in Nat \cup {NoBound} /\ l.free \in Nat /\ l.price \in Nat
         /\ ~IsFlatLine(l)
         /\ \A o \in group : o.from = l.from => o = l
         /\ l.to # NoBound => l.to > l.from
         /\ \A o \in group : o.from > l.from => (l.to # NoBound /\ l.to <= o.from)
<1>1. /\ HasTierFrom(l)
      /\ \A o \in group : o.from = l.from => o = l
      /\ l.to # NoBound => l.to > l.from
      /\ (\E o \in group : o.from > l.from) => \A next \in NextTier(group, l) : l.to = next.from
  BY DEF Tiered, FlatGroup, ValidateGroup, SameTier
<1>2. \A k \in group : /\ k.from \in Nat \cup {NoBound} /\ k.to \in Nat \cup {NoBound}
                       /\ k.free \in Int /\ k.price \in Nat /\ k.free >= 0
  BY DEF Tiered, Line
<1>3. \A k \in group : k.from \in Nat
  BY <1>2 DEF Tiered, FlatGroup, ValidateGroup, HasTierFrom
<1>4. ~IsFlatLine(l)
  BY <1>1 DEF IsFlatLine, HasTierFrom
<1>5. ASSUME NEW o \in group, o.from > l.from
      PROVE  l.to # NoBound /\ l.to <= o.from
  <2> DEFINE froms == {m.from : m \in {k \in group : k.from > l.from}}
  <2>1. froms \in SUBSET Nat /\ froms # {} /\ o.from \in froms
    BY <1>3, <1>5
  <2>2. \E m \in froms : \A k \in froms : m <= k
    BY <2>1, LeastNumber
  <2>3. Min(froms) \in froms /\ \A k \in froms : Min(froms) <= k
    BY <2>2 DEF Min
  <2>4. PICK n \in group : n.from = Min(froms)
    BY <2>3
  <2>5. n \in NextTier(group, l)
    BY <2>4 DEF NextTier
  <2>6. l.to = n.from
    BY <1>1, <1>5, <2>5
  <2>7. l.to \in Nat /\ l.to <= o.from
    BY <1>3, <2>1, <2>3, <2>4, <2>6
  <2>8. NoBound \notin Nat
    BY NoBoundIsNone
  <2> QED  BY <2>7, <2>8
<1> QED  BY <1>1, <1>2, <1>3, <1>4, <1>5

(* The answer of the query: the lines, each once, by where their tiers begin. *)
InOrder(ladder, group) ==
  /\ ladder \in Seq(group) /\ Len(ladder) = Cardinality(group) /\ DOMAIN ladder = 1..Len(ladder)
  /\ \A i, j \in DOMAIN ladder : i # j => ladder[i] # ladder[j]
  /\ \A l \in group : \E i \in DOMAIN ladder : ladder[i] = l
  /\ \A i, j \in DOMAIN ladder : i < j => ladder[i].from <= ladder[j].from

LEMMA OrderExists ==
  ASSUME NEW group, Tiered(group)
  PROVE  \E f \in [1..Cardinality(group) -> group] :
           /\ \A i, j \in 1..Cardinality(group) : i # j => f[i] # f[j]
           /\ \A i, j \in 1..Cardinality(group) : i < j => f[i].from <= f[j].from
<1>1. CASE FlatGroup(group)
  <2>1. Cardinality(group) = 1 /\ \E x : x \in group
    BY <1>1 DEF FlatGroup, Tiered
  <2>2. PICK x \in group : TRUE
    BY <2>1
  <2>3. \A i, j \in 1..1 : i = j /\ ~(i < j)
    OBVIOUS
  <2>4. PICK f \in [1..1 -> group] : TRUE
    <3>1. [i \in 1..1 |-> x] \in [1..1 -> group]
      BY <2>2
    <3> QED  BY <3>1
  <2>5. /\ \A i, j \in 1..1 : i # j => f[i] # f[j]
        /\ \A i, j \in 1..1 : i < j => f[i].from <= f[j].from
    BY <2>3
  <2> QED  BY <2>1, <2>4, <2>5
<1>2. CASE ~FlatGroup(group)
  <2> DEFINE key == [l \in group |-> l.from]
  <2>1. \A l \in group : key[l] = l.from /\ key[l] \in Nat
    BY <1>2, Rungs
  <2> HIDE DEF key
  <2>2. PICK f : Sorted(f, group, key)
    BY <2>1, SortedExists DEF Tiered
  <2>3. /\ f \in [1..Cardinality(group) -> group]
        /\ \A i, j \in 1..Cardinality(group) : i # j => f[i] # f[j]
        /\ \A i, j \in 1..Cardinality(group) : i < j => key[f[i]] <= key[f[j]]
    BY <2>2 DEF Sorted
  <2> QED  BY <2>1, <2>3
<1> QED  BY <1>1, <1>2

LEMMA AnswerInOrder ==
  ASSUME NEW service, Tiered(PricedLines(service))
  PROVE  InOrder(GetPriceListLines(service), PricedLines(service))
<1> DEFINE group == PricedLines(service)
           n == Cardinality(group)
           ladder == GetPriceListLines(service)
<1>1. n \in Nat /\ IsFiniteSet(group)
  BY FS_CardinalityType DEF Tiered
<1>2. \E f \in SetToSeqs(group) : \A i, j \in DOMAIN f : i < j => f[i].from <= f[j].from
  <2>1. PICK f \in [1..n -> group] : /\ \A i, j \in 1..n : i # j => f[i] # f[j]
                                    /\ \A i, j \in 1..n : i < j => f[i].from <= f[j].from
    BY OrderExists
  <2>2. f \in SetToSeqs(group) /\ DOMAIN f = 1..n
    BY <2>1 DEF SetToSeqs
  <2> QED  BY <2>1, <2>2
<1>3. /\ ladder \in SetToSeqs(group)
      /\ \A i, j \in DOMAIN ladder : i < j => ladder[i].from <= ladder[j].from
  BY <1>2 DEF GetPriceListLines
<1>4. ladder \in [1..n -> group] /\ \A i, j \in 1..n : i # j => ladder[i] # ladder[j]
  BY <1>3 DEF SetToSeqs
<1> HIDE DEF ladder, group, n
<1>5. ladder \in Seq(group) /\ Len(ladder) = n /\ DOMAIN ladder = 1..n
  BY <1>1, <1>4
<1>6. \A l \in group : \E i \in 1..n : ladder[i] = l
  <2>1. ladder \in Injection(1..n, group)
    BY <1>4 DEF Injection, IsInjective
  <2>2. Cardinality(1..n) = n
    BY <1>1, FS_Interval
  <2>3. ladder \in Surjection(1..n, group)
    BY <1>1, <2>1, <2>2, FS_Injection DEF n
  <2> QED  BY <2>3 DEF Surjection
<1> QED  BY <1>3, <1>4, <1>5, <1>6 DEF InOrder, n, ladder, group

(* What the query answers of valid lines is a ladder. *)
LEMMA AnswerIsLadder ==
  ASSUME NEW group, Tiered(group), NEW ladder, InOrder(ladder, group)
  PROVE  ValidLadder(ladder)
<1>1. Cardinality(group) \in Nat /\ ladder # <<>>
  <2>1. PICK l \in group : TRUE
    BY DEF Tiered
  <2>2. PICK i \in DOMAIN ladder : ladder[i] = l
    BY <2>1 DEF InOrder
  <2> QED  BY <2>2, FS_CardinalityType DEF InOrder, Tiered
<1>2. CASE FlatGroup(group)
  <2>1. Len(ladder) = 1 /\ ladder[1] \in group
    BY <1>2 DEF FlatGroup, InOrder
  <2> QED  BY <1>1, <1>2, <2>1 DEF ValidLadder, FlatGroup
<1>3. CASE ~FlatGroup(group)
  <2>1. /\ Len(ladder) \in Nat /\ DOMAIN ladder = 1..Len(ladder)
        /\ \A i \in DOMAIN ladder : ladder[i] \in group
        /\ \A l \in group : \E i \in DOMAIN ladder : ladder[i] = l
    BY <1>1 DEF InOrder
  <2>2. ASSUME NEW i \in DOMAIN ladder, NEW j \in DOMAIN ladder, i < j
        PROVE  ladder[i].from < ladder[j].from
    <3>1. ladder[i].from <= ladder[j].from /\ ladder[i] # ladder[j]
      BY <2>1, <2>2 DEF InOrder
    <3>2. ladder[i].from # ladder[j].from /\ ladder[i].from \in Nat /\ ladder[j].from \in Nat
      BY <1>3, <2>1, <3>1, Rungs
    <3> QED  BY <3>1, <3>2
  <2> SUFFICES ASSUME NEW i \in DOMAIN ladder
               PROVE  /\ HasTierFrom(ladder[i])
                      /\ ladder[i].to = NoBound => i = Len(ladder)
                      /\ ladder[i].to # NoBound => ladder[i].to > ladder[i].from
                      /\ i > 1 => ladder[i - 1].to = ladder[i].from
    BY <1>1 DEF ValidLadder
  <2>3. ladder[i].from \in Nat /\ (ladder[i].to # NoBound => ladder[i].to > ladder[i].from)
    BY <1>3, <2>1, Rungs
  <2>4. HasTierFrom(ladder[i])
    BY <2>3, NoBoundIsNone DEF HasTierFrom
  <2>5. ASSUME i # Len(ladder)
        PROVE  ladder[i].to # NoBound
    <3>1. Len(ladder) \in DOMAIN ladder /\ i < Len(ladder)
      BY <2>1, <2>5
    <3>2. ladder[Len(ladder)].from > ladder[i].from /\ ladder[Len(ladder)] \in group
      <4>1. ladder[Len(ladder)].from \in Nat
        BY <1>3, <2>1, <3>1, Rungs
      <4> QED  BY <2>1, <2>2, <2>3, <3>1, <4>1
    <3> QED  BY <1>3, <2>1, <3>2, Rungs
  <2>6. ASSUME i > 1
        PROVE  ladder[i - 1].to = ladder[i].from
    <3> DEFINE before == ladder[i - 1]
    <3>1. i - 1 \in DOMAIN ladder /\ i - 1 < i /\ i \in Nat
      BY <2>1, <2>6
    <3>2. before \in group /\ ladder[i] \in group /\ before.from < ladder[i].from
      BY <2>1, <2>2, <3>1
    <3> HIDE DEF before
    <3>3. before.from \in Nat /\ \A o \in group : o.from \in Nat
      BY <1>3, <3>2, Rungs
    <3>4. \A o \in group : o.from > before.from => o.from >= ladder[i].from
      <4> SUFFICES ASSUME NEW o \in group, o.from > before.from
                   PROVE  o.from >= ladder[i].from
        OBVIOUS
      <4>1. PICK k \in DOMAIN ladder : ladder[k] = o
        BY <2>1
      <4>2. ~(k < i - 1) /\ k # i - 1
        <5>1. k < i - 1 => ladder[k].from < before.from
          BY <2>2, <3>1 DEF before
        <5> QED  BY <3>3, <4>1, <5>1 DEF before
      <4>3. k = i \/ i < k
        BY <2>1, <3>1, <4>2
      <4>4. i < k => ladder[i].from < ladder[k].from
        BY <2>2
      <4> QED  BY <2>3, <3>3, <4>1, <4>3, <4>4
    <3>5. ladder[i] \in NextTier(group, before)
      <4> DEFINE froms == {m.from : m \in {o \in group : o.from > before.from}}
      <4>1. ladder[i].from \in froms /\ \A k \in froms : k \in Nat /\ ladder[i].from <= k
        BY <2>3, <3>2, <3>3, <3>4
      <4> HIDE DEF froms
      <4>2. Min(froms) \in froms /\ \A k \in froms : Min(froms) <= k
        BY <4>1 DEF Min
      <4>3. Min(froms) = ladder[i].from
        BY <4>1, <4>2
      <4> QED  BY <3>2, <4>3 DEF NextTier, froms
    <3>6. ladder[i].from > before.from
      BY <2>3, <3>2, <3>3
    <3>7. (\E o \in group : o.from > before.from) => \A next \in NextTier(group, before) : before.to = next.from
      BY <1>3, <3>2 DEF Tiered, FlatGroup, ValidateGroup
    <3> QED  BY <3>2, <3>5, <3>6, <3>7 DEF before
  <2> QED  BY <2>3, <2>4, <2>5, <2>6
<1> QED  BY <1>2, <1>3

-----------------------------------------------------------------------------
(* One unit more: a tier that has it charges for it, unless it is free, and *)
(* no other tier does.                                                      *)
Charges(l, u) == l.from < u /\ (l.to = NoBound \/ u <= l.to) /\ l.from + l.free < u

LEMMA NothingForNothing ==
  ASSUME NEW l, l.from \in Nat, l.to \in Nat \cup {NoBound}, l.free \in Nat
  PROVE  BillableInTier(l, 0) = 0
BY DEF BillableInTier, QuantityMax, QuantityMin

LEMMA OneUnitMore ==
  ASSUME NEW l, l.from \in Nat, l.to \in Nat \cup {NoBound}, l.free \in Nat,
         l.to # NoBound => l.to > l.from, NEW q \in Nat
  PROVE  /\ BillableInTier(l, q) \in Nat
         /\ Charges(l, q + 1) => BillableInTier(l, q + 1) = BillableInTier(l, q) + 1
         /\ ~Charges(l, q + 1) => BillableInTier(l, q + 1) = BillableInTier(l, q)
<1>1. CASE l.to = NoBound
  BY <1>1 DEF BillableInTier, QuantityMax, QuantityMin, Charges
<1>2. CASE l.to # NoBound
  BY <1>2 DEF BillableInTier, QuantityMax, QuantityMin, Charges
<1> QED  BY <1>1, <1>2

(* No unit is in two tiers. *)
LEMMA OneTier ==
  ASSUME NEW group, Tiered(group), ~FlatGroup(group), NEW a \in group, NEW b \in group,
         NEW u \in Nat, a.from < u, a.to = NoBound \/ u <= a.to,
         b.from < u, b.to = NoBound \/ u <= b.to
  PROVE  a = b
<1>1. /\ a.from \in Nat /\ b.from \in Nat /\ a.to \in Nat \cup {NoBound} /\ b.to \in Nat \cup {NoBound}
      /\ b.from = a.from => b = a
      /\ b.from > a.from => (a.to # NoBound /\ a.to <= b.from)
      /\ a.from > b.from => (b.to # NoBound /\ b.to <= a.from)
  BY Rungs
<1> QED  BY <1>1, NoBoundIsNone

(* What the tiers charge for q units, by the places of the answer. *)
Charged(ladder, q) == [i \in DOMAIN ladder |-> ladder[i].price * BillableInTier(ladder[i], q)]

LEMMA ChargedIsNat ==
  ASSUME NEW group, Tiered(group), ~FlatGroup(group), NEW ladder, InOrder(ladder, group),
         NEW q \in Nat, NEW i \in DOMAIN ladder
  PROVE  /\ ladder[i] \in group /\ ladder[i].price \in Nat /\ BillableInTier(ladder[i], q) \in Nat
         /\ Charged(ladder, q)[i] = ladder[i].price * BillableInTier(ladder[i], q)
         /\ Charged(ladder, q)[i] \in Int
<1>1. ladder[i] \in group
  BY DEF InOrder
<1>2. ladder[i].price \in Nat /\ BillableInTier(ladder[i], q) \in Nat
  BY <1>1, Rungs, OneUnitMore
<1>3. Charged(ladder, q)[i] = ladder[i].price * BillableInTier(ladder[i], q)
  BY DEF Charged
<1>4. \A a, b \in Nat : a * b \in Int
  OBVIOUS
<1> QED  BY <1>1, <1>2, <1>3, <1>4

LEMMA PlacesAreFinite ==
  ASSUME NEW group, Tiered(group), NEW ladder, InOrder(ladder, group)
  PROVE  IsFiniteSet(DOMAIN ladder) /\ Len(ladder) \in Nat
<1>1. Len(ladder) \in Nat /\ DOMAIN ladder = 1..Len(ladder)
  BY FS_CardinalityType DEF InOrder, Tiered
<1> QED  BY <1>1, FS_Interval

LEMMA ChargedOneMore ==
  ASSUME NEW group, Tiered(group), ~FlatGroup(group), NEW ladder, InOrder(ladder, group),
         NEW q \in Nat, NEW i \in DOMAIN ladder
  PROVE  /\ Charges(ladder[i], q + 1) => Charged(ladder, q + 1)[i] = Charged(ladder, q)[i] + ladder[i].price
         /\ ~Charges(ladder[i], q + 1) => Charged(ladder, q + 1)[i] = Charged(ladder, q)[i]
<1>1. /\ ladder[i] \in group /\ ladder[i].price \in Nat /\ BillableInTier(ladder[i], q) \in Nat
      /\ Charged(ladder, q)[i] = ladder[i].price * BillableInTier(ladder[i], q)
  BY ChargedIsNat
<1>2. Charged(ladder, q + 1)[i] = ladder[i].price * BillableInTier(ladder[i], q + 1)
  BY DEF Charged
<1>3. /\ Charges(ladder[i], q + 1) => BillableInTier(ladder[i], q + 1) = BillableInTier(ladder[i], q) + 1
      /\ ~Charges(ladder[i], q + 1) => BillableInTier(ladder[i], q + 1) = BillableInTier(ladder[i], q)
  BY <1>1, Rungs, OneUnitMore
<1>4. \A a, b \in Nat : a * (b + 1) = a * b + a
  OBVIOUS
<1>5. ladder[i].price * (BillableInTier(ladder[i], q) + 1)
        = ladder[i].price * BillableInTier(ladder[i], q) + ladder[i].price
  BY <1>1, <1>4
<1> QED  BY <1>1, <1>2, <1>3, <1>5

LEMMA SumOfOne ==
  ASSUME NEW f, NEW x, f[x] \in Int
  PROVE  SumFunctionOnSet(f, {x}) = f[x]
<1>1. IsFiniteSet({x}) /\ {x} \ {x} = {} /\ \A y \in {x} : f[y] \in Int
  BY FS_Singleton
<1>2. SumFunctionOnSet(f, {x}) = f[x] + SumFunctionOnSet(f, {x} \ {x})
  BY <1>1, SumTakesOne
<1>3. SumFunctionOnSet(f, {}) = 0
  BY SumOfNone
<1> QED  BY <1>1, <1>2, <1>3

LEMMA PriceOfUnit ==
  ASSUME NEW service, Tiered(OfService(priceLines, service)),
         ~FlatGroup(OfService(priceLines, service)), NEW u \in Nat
  PROVE  /\ TierOf(service, u) = {} => UnitPrice(service, u) = 0
         /\ \A l \in TierOf(service, u) :
              /\ TierOf(service, u) = {l} /\ l \in OfService(priceLines, service)
              /\ Charges(l, u) => UnitPrice(service, u) = l.price
              /\ ~Charges(l, u) => UnitPrice(service, u) = 0
<1> DEFINE group == OfService(priceLines, service)
           tier == TierOf(service, u)
           costs == [l \in tier |-> IF ~ IsFlatLine(l) /\ u <= l.from + l.free THEN 0 ELSE l.price]
<1>1. \A l \in group : l.from \in Nat /\ l.free \in Nat /\ l.price \in Nat /\ ~IsFlatLine(l)
  BY Rungs
<1>2. \A l \in tier : l \in group /\ l.from < u /\ (l.to = NoBound \/ u <= l.to)
  BY <1>1 DEF TierOf
<1>3. UnitPrice(service, u) = SumFunctionOnSet(costs, tier)
  BY DEF UnitPrice, SumFunction
<1>4. ASSUME tier = {}
      PROVE  UnitPrice(service, u) = 0
  BY <1>3, <1>4, SumOfNone
<1>5. ASSUME NEW l \in tier
      PROVE  /\ tier = {l} /\ l \in group
             /\ Charges(l, u) => UnitPrice(service, u) = l.price
             /\ ~Charges(l, u) => UnitPrice(service, u) = 0
  <2>1. tier = {l}
    BY <1>2, OneTier
  <2>2. costs[l] = IF u <= l.from + l.free THEN 0 ELSE l.price
    BY <1>1, <1>2
  <2>3. costs[l] \in Int
    BY <1>1, <1>2, <2>2
  <2> HIDE DEF costs
  <2>4. SumFunctionOnSet(costs, {l}) = costs[l]
    BY <2>3, SumOfOne
  <2>5. UnitPrice(service, u) = costs[l]
    BY <1>3, <2>1, <2>4
  <2>6. Charges(l, u) <=> ~(u <= l.from + l.free)
    BY <1>1, <1>2 DEF Charges
  <2> QED  BY <1>2, <2>1, <2>2, <2>5, <2>6
<1> QED  BY <1>4, <1>5

LEMMA TotalOneMore ==
  ASSUME NEW service, NEW group, group = OfService(priceLines, service), Tiered(group),
         ~FlatGroup(group), NEW ladder, InOrder(ladder, group), NEW q \in Nat
  PROVE  /\ UnitPrice(service, q + 1) \in Int
         /\ SumFunction(Charged(ladder, q + 1))
              = SumFunction(Charged(ladder, q)) + UnitPrice(service, q + 1)
<1> DEFINE places == DOMAIN ladder
           now == Charged(ladder, q)
           next == Charged(ladder, q + 1)
           u == q + 1
<1>1. /\ SumFunction(now) = SumFunctionOnSet(now, places)
      /\ SumFunction(next) = SumFunctionOnSet(next, places)
  BY DEF SumFunction, Charged
<1>2. IsFiniteSet(places) /\ u \in Nat
  BY PlacesAreFinite
<1>3. \A i \in places : now[i] \in Int /\ next[i] \in Int
  BY <1>2, ChargedIsNat
<1>4. SumFunctionOnSet(now, places) \in Int
  BY <1>2, <1>3, SumIsInt
<1>5. \A i \in places :
        /\ ladder[i] \in group
        /\ Charges(ladder[i], u) => (ladder[i] \in TierOf(service, u) /\ next[i] = now[i] + ladder[i].price)
        /\ ~Charges(ladder[i], u) => next[i] = now[i]
  <2> SUFFICES ASSUME NEW i \in places
               PROVE  /\ ladder[i] \in group
                      /\ Charges(ladder[i], u) =>
                           (ladder[i] \in TierOf(service, u) /\ next[i] = now[i] + ladder[i].price)
                      /\ ~Charges(ladder[i], u) => next[i] = now[i]
    OBVIOUS
  <2>1. ladder[i] \in group
    BY ChargedIsNat
  <2>2. Charges(ladder[i], u) => ladder[i] \in TierOf(service, u)
    BY <2>1 DEF Charges, TierOf
  <2> QED  BY <2>1, <2>2, ChargedOneMore
<1>6. CASE TierOf(service, u) = {}
  <2>1. UnitPrice(service, u) = 0
    BY <1>2, <1>6, PriceOfUnit
  <2>2. \A i \in places : now[i] = next[i]
    BY <1>5, <1>6
  <2>3. SumFunctionOnSet(now, places) = SumFunctionOnSet(next, places)
    BY <1>2, <2>2, SumOfEquals
  <2> QED  BY <1>1, <1>4, <2>1, <2>3
<1>7. CASE TierOf(service, u) # {}
  <2>1. PICK l \in TierOf(service, u) : TRUE
    BY <1>7
  <2>2. /\ TierOf(service, u) = {l} /\ l \in group
        /\ Charges(l, u) => UnitPrice(service, u) = l.price
        /\ ~Charges(l, u) => UnitPrice(service, u) = 0
    BY <1>2, <2>1, PriceOfUnit
  <2>3. PICK y \in places : ladder[y] = l
    BY <2>2 DEF InOrder
  <2>4. \A i \in places \ {y} : next[i] = now[i]
    <3>1. \A i \in places \ {y} : ladder[i] # l
      BY <2>3 DEF InOrder
    <3> QED  BY <1>5, <2>2, <3>1
  <2>5. next[y] - now[y] = UnitPrice(service, u) /\ UnitPrice(service, u) \in Int
    <3>1. l.price \in Nat
      BY <2>2, Rungs
    <3>2. /\ Charges(l, u) => next[y] = now[y] + l.price
          /\ ~Charges(l, u) => next[y] = now[y]
      BY <1>5, <2>3
    <3>3. now[y] \in Int
      BY <1>3
    <3> HIDE DEF now, next, u
    <3> QED  BY <2>2, <3>1, <3>2, <3>3
  <2> HIDE DEF now, next, u
  <2>6. SumFunctionOnSet(next, places) = SumFunctionOnSet(now, places) + (next[y] - now[y])
    BY <1>2, <1>3, <2>4, SumChanges
  <2> QED  BY <1>1, <2>5, <2>6 DEF u, now, next
<1> QED  BY <1>6, <1>7

(* One more unit is one more term of the sum. *)
LEMMA OneTermMore ==
  ASSUME NEW cost, NEW q \in Nat, \A u \in 1..(q + 1) : cost[u] \in Int
  PROVE  SumFunction([u \in 1..(q + 1) |-> cost[u]]) = SumFunction([u \in 1..q |-> cost[u]]) + cost[q + 1]
<1>1. PICK m \in Nat : m = q + 1
  OBVIOUS
<1>2. PICK few : few = [u \in 1..q |-> cost[u]]
  OBVIOUS
<1>3. PICK more : more = [u \in 1..m |-> cost[u]]
  OBVIOUS
<1>4. PICK S : S = 1..q /\ IsFiniteSet(S)
  BY FS_Interval
<1>5. 1..m = S \cup {m} /\ m \notin S /\ m \in 1..m
  BY <1>1, <1>4
<1>6. \A u \in S : few[u] \in Int /\ more[u] = few[u]
  BY <1>1, <1>2, <1>3, <1>4, <1>5
<1>7. more[m] = cost[m] /\ more[m] \in Int
  BY <1>1, <1>3, <1>5
<1>8. SumFunctionOnSet(more, S \cup {m}) = SumFunctionOnSet(few, S) + more[m]
  <2>1. IsFiniteSet(S)
    BY <1>4
  <2>2. m \notin S
    BY <1>5
  <2>3. more[m] \in Int
    BY <1>7
  <2> QED  BY <2>1, <2>2, <2>3, <1>6, SumJoins
<1>9. DOMAIN more = S \cup {m} /\ DOMAIN few = S
  BY <1>2, <1>3, <1>4, <1>5
<1>10. SumFunction(more) = SumFunction(few) + cost[m]
  BY <1>7, <1>8, <1>9 DEF SumFunction
<1> QED  BY <1>1, <1>2, <1>3, <1>10

(* A total that grows by the price of each unit is the sum of them. *)
LEMMA UnitsAddUp ==
  ASSUME NEW service, NEW total, total[0] = 0,
         \A q \in Nat : /\ UnitPrice(service, q + 1) \in Int /\ total[q] \in Int
                       /\ total[q + 1] = total[q] + UnitPrice(service, q + 1),
         NEW qty \in Nat
  PROVE  total[qty] = SumFunction([u \in 1..qty |-> UnitPrice(service, u)])
<1> DEFINE cost == [u \in Nat |-> UnitPrice(service, u)]
           sum == [q \in Nat |-> SumFunction([u \in 1..q |-> cost[u]])]
           Bad == {q \in Nat : total[q] # sum[q]}
<1>0. [u \in 1..qty |-> cost[u]] = [u \in 1..qty |-> UnitPrice(service, u)]
  OBVIOUS
<1>s. sum[qty] = SumFunction([u \in 1..qty |-> UnitPrice(service, u)])
  BY <1>0
<1> SUFFICES ASSUME Bad # {} PROVE FALSE
  BY <1>s
<1>1. PICK m \in Bad : \A k \in Bad : m <= k
  <2> HIDE DEF Bad
  <2>1. Bad \in SUBSET Nat
    BY DEF Bad
  <2> QED  BY <2>1, LeastNumber
<1>2. CASE m = 0
  <2>1. [u \in 1..0 |-> cost[u]] = [u \in {} |-> cost[u]]
    OBVIOUS
  <2>2. DOMAIN [u \in {} |-> cost[u]] = {}
    OBVIOUS
  <2>3. sum[0] = 0
    BY <2>1, <2>2, SumOfNone DEF SumFunction
  <2> QED  BY <1>1, <1>2, <2>3
<1>3. CASE m # 0
  <2>1. PICK q \in Nat : q + 1 = m
    <3>1. m \in Nat /\ m - 1 \in Nat /\ (m - 1) + 1 = m
      BY <1>1, <1>3
    <3> QED  BY <3>1
  <2>2. total[q] = sum[q]
    <3>1. ~(m <= q)
      BY <2>1
    <3>2. q \notin Bad
      BY <1>1, <3>1
    <3> QED  BY <3>2
  <2>3. \A u \in 1..(q + 1) : cost[u] \in Int
    <3>1. \A u \in 1..(q + 1) : u \in Nat /\ u - 1 \in Nat /\ (u - 1) + 1 = u
      OBVIOUS
    <3> QED  BY <3>1
  <2>4. sum[q + 1] = sum[q] + cost[q + 1]
    <3>1. /\ sum[q + 1] = SumFunction([u \in 1..(q + 1) |-> cost[u]])
          /\ sum[q] = SumFunction([u \in 1..q |-> cost[u]])
      OBVIOUS
    <3> HIDE DEF sum, cost
    <3>2. SumFunction([u \in 1..(q + 1) |-> cost[u]]) = SumFunction([u \in 1..q |-> cost[u]]) + cost[q + 1]
      BY <2>3, OneTermMore
    <3> QED  BY <3>1, <3>2
  <2>5. total[q + 1] = total[q] + cost[q + 1]
    OBVIOUS
  <2> HIDE DEF sum, cost
  <2>6. total[q + 1] = sum[q + 1]
    BY <2>2, <2>4, <2>5
  <2> QED  BY <1>1, <2>1, <2>6
<1> QED  BY <1>2, <1>3

(* A flat line charges the same for every unit. *)
LEMMA FlatAddsUp ==
  ASSUME NEW service, NEW group, group = OfService(priceLines, service), Tiered(group),
         FlatGroup(group), NEW ladder, InOrder(ladder, group), NEW q \in Nat
  PROVE  /\ UnitPrice(service, q + 1) \in Int /\ ComputeTieredPrice(ladder, q) \in Int
         /\ ComputeTieredPrice(ladder, 0) = 0
         /\ ComputeTieredPrice(ladder, q + 1) = ComputeTieredPrice(ladder, q) + UnitPrice(service, q + 1)
<1>1. PICK l : group = {l}
  <2>1. IsFiniteSet(group) /\ Cardinality(group) = 1
    BY DEF Tiered, FlatGroup
  <2> QED  BY <2>1, FS_Singleton
<1>2. l \in group /\ IsFlatLine(l) /\ l.price \in Nat
  BY <1>1 DEF FlatGroup, Tiered, Line
<1>3. Len(ladder) = 1 /\ ladder[1] = l
  <2>1. Len(ladder) = 1 /\ 1 \in DOMAIN ladder
    BY DEF FlatGroup, InOrder
  <2>2. ladder[1] \in group
    BY <2>1 DEF InOrder
  <2> QED  BY <1>1, <2>1, <2>2
<1>4. \A n \in Nat : ComputeTieredPrice(ladder, n) = l.price * n
  BY <1>2, <1>3 DEF ComputeTieredPrice
<1>5. UnitPrice(service, q + 1) = l.price
  <2> DEFINE tier == TierOf(service, q + 1)
             costs == [k \in tier |-> IF ~ IsFlatLine(k) /\ q + 1 <= k.from + k.free THEN 0 ELSE k.price]
  <2>1. tier = {l}
    BY <1>1, <1>2 DEF TierOf
  <2>2. costs[l] = l.price
    BY <1>2, <2>1
  <2>3. UnitPrice(service, q + 1) = SumFunctionOnSet(costs, tier)
    BY DEF UnitPrice, SumFunction
  <2> HIDE DEF costs
  <2>4. costs[l] \in Int
    BY <1>2, <2>2
  <2>5. SumFunctionOnSet(costs, {l}) = costs[l]
    BY <2>4, SumOfOne
  <2> QED  BY <2>1, <2>2, <2>3, <2>5
<1>6. \A a, b \in Nat : a * (b + 1) = a * b + a /\ a * b \in Int /\ a * 0 = 0
  OBVIOUS
<1>7. /\ l.price * (q + 1) = l.price * q + l.price
      /\ l.price * q \in Int /\ l.price * 0 = 0
  BY <1>2, <1>6
<1>8. l.price \in Int
  BY <1>2
<1> QED  BY <1>4, <1>5, <1>7, <1>8

(* The tiers charge nothing for nothing, and for a unit more what it costs. *)
LEMMA TiersAddUp ==
  ASSUME NEW service, NEW group, group = OfService(priceLines, service), Tiered(group),
         ~FlatGroup(group), NEW ladder, InOrder(ladder, group), NEW q \in Nat
  PROVE  /\ UnitPrice(service, q + 1) \in Int /\ ComputeTieredPrice(ladder, q) \in Int
         /\ ComputeTieredPrice(ladder, 0) = 0
         /\ ComputeTieredPrice(ladder, q + 1) = ComputeTieredPrice(ladder, q) + UnitPrice(service, q + 1)
<1>1. ~(Len(ladder) = 1 /\ IsFlatLine(ladder[1]))
  <2> SUFFICES ASSUME Len(ladder) = 1 PROVE ~IsFlatLine(ladder[1])
    OBVIOUS
  <2>1. ladder[1] \in group
    BY DEF InOrder
  <2> QED  BY <2>1, Rungs
<1>2. \A n \in Nat : ComputeTieredPrice(ladder, n) = SumFunction(Charged(ladder, n))
  BY <1>1 DEF ComputeTieredPrice, Charged
<1>3. /\ UnitPrice(service, q + 1) \in Int
      /\ SumFunction(Charged(ladder, q + 1)) = SumFunction(Charged(ladder, q)) + UnitPrice(service, q + 1)
  BY TotalOneMore
<1>4. SumFunction(Charged(ladder, q)) \in Int
  <2>1. IsFiniteSet(DOMAIN ladder)
    BY PlacesAreFinite
  <2>2. \A i \in DOMAIN ladder : Charged(ladder, q)[i] \in Int
    BY ChargedIsNat
  <2>3. SumFunctionOnSet(Charged(ladder, q), DOMAIN ladder) \in Int
    BY <2>1, <2>2, SumIsInt
  <2>4. DOMAIN Charged(ladder, q) = DOMAIN ladder
    BY DEF Charged
  <2> QED  BY <2>3, <2>4 DEF SumFunction
<1>5. SumFunction(Charged(ladder, 0)) = 0
  <2>1. IsFiniteSet(DOMAIN ladder)
    BY PlacesAreFinite
  <2>2. \A i \in DOMAIN ladder : Charged(ladder, 0)[i] = 0
    <3> SUFFICES ASSUME NEW i \in DOMAIN ladder PROVE Charged(ladder, 0)[i] = 0
      OBVIOUS
    <3>1. ladder[i] \in group /\ ladder[i].price \in Nat
      BY ChargedIsNat
    <3>2. BillableInTier(ladder[i], 0) = 0
      BY <3>1, Rungs, NothingForNothing
    <3>3. Charged(ladder, 0)[i] = ladder[i].price * 0
      BY <3>2 DEF Charged
    <3> QED  BY <3>1, <3>3
  <2>3. SumFunctionOnSet(Charged(ladder, 0), DOMAIN ladder) = 0
    BY <2>1, <2>2, SumOfZeroes
  <2>4. DOMAIN Charged(ladder, 0) = DOMAIN ladder
    BY DEF Charged
  <2> QED  BY <2>3, <2>4 DEF SumFunction
<1>6. q + 1 \in Nat /\ 0 \in Nat
  OBVIOUS
<1> QED  BY <1>2, <1>3, <1>4, <1>5, <1>6

(* A total is the sum of what its units cost, each in its own tier. *)
LEMMA EveryQuantityAddsUp ==
  ASSUME NEW service, NEW group, group = OfService(priceLines, service), Tiered(group),
         NEW ladder, InOrder(ladder, group), NEW qty \in Nat
  PROVE  ComputeTieredPrice(ladder, qty) = SumFunction([u \in 1..qty |-> UnitPrice(service, u)])
<1>1. \A q \in Nat : /\ UnitPrice(service, q + 1) \in Int /\ ComputeTieredPrice(ladder, q) \in Int
                     /\ ComputeTieredPrice(ladder, 0) = 0
                     /\ ComputeTieredPrice(ladder, q + 1)
                          = ComputeTieredPrice(ladder, q) + UnitPrice(service, q + 1)
  BY FlatAddsUp, TiersAddUp
<1>2. PICK total : total = [q \in Nat |-> ComputeTieredPrice(ladder, q)]
  OBVIOUS
<1>3. \A q \in Nat : total[q] = ComputeTieredPrice(ladder, q) /\ q + 1 \in Nat
  BY <1>2
<1>4. \A q \in Nat : /\ UnitPrice(service, q + 1) \in Int /\ total[q] \in Int
                     /\ total[q + 1] = total[q] + UnitPrice(service, q + 1)
  BY <1>1, <1>3
<1>5. total[0] = 0
  BY <1>1, <1>3
<1>6. total[qty] = SumFunction([u \in 1..qty |-> UnitPrice(service, u)])
  BY <1>4, <1>5, UnitsAddUp
<1> QED  BY <1>3, <1>6

-----------------------------------------------------------------------------
(* What the commands keep: the lines are of one currency from the first, and *)
(* a list that left the draft has ladders the validator accepted.            *)
PriceInv ==
  /\ PricesTypeOK
  /\ IsFiniteSet(priceLines)
  /\ \A a, b \in priceLines : a.currency = b.currency
  /\ list.status \in {"active", "expired"} => ValidateTierLadder(priceLines)

LEMMA PriceInvInit == InitPrices => PriceInv
<1> SUFFICES ASSUME InitPrices PROVE PriceInv
  OBVIOUS
<1>1. list.status = "none" /\ IsFiniteSet(priceLines)
  BY FS_EmptySet DEF InitPrices, NoList
<1>2. 1 \in ListDay
  BY PriceConstants DEF ListDay
<1> QED  BY <1>1, <1>2 DEF InitPrices, PriceInv, PricesTypeOK

LEMMA WriteLinesKeepsPriceInv ==
  ASSUME PriceInv, NEW rows \in SUBSET LineRows, IsFiniteSet(rows), NEW left, WriteLines(rows, left)
  PROVE  PriceInv'
<1>1. /\ priceLines' = UpsertLine(priceLines, rows)
      /\ list' = list /\ today' = today /\ list.status = "draft"
      /\ OneCurrency(priceLines, rows)
  BY DEF WriteLines, ListEditable
<1>2. priceLines' \subseteq priceLines \cup rows
  BY <1>1 DEF UpsertLine
<1>3. PricesTypeOK'
  BY <1>1, <1>2 DEF PriceInv, PricesTypeOK
<1>4. IsFiniteSet(priceLines')
  <2>1. IsFiniteSet(priceLines \cup rows)
    BY FS_Union DEF PriceInv
  <2> QED  BY <1>2, <2>1, FS_Subset
<1>5. \A a, b \in priceLines' : a.currency = b.currency
  BY <1>1, <1>2 DEF PriceInv, OneCurrency
<1> QED  BY <1>1, <1>3, <1>4, <1>5 DEF PriceInv

LEMMA PriceInvStep ==
  ASSUME PriceInv, [NextPrices]_priceVars
  PROVE  PriceInv'
<1>1. CASE UNCHANGED priceVars
  BY <1>1 DEF priceVars, PriceInv, PricesTypeOK, ValidateTierLadder, OfService
<1>2. CASE CreatePriceList
  <2>1. PICK from \in ListDay, to \in ListDay \cup {NoEnd} :
          list' = [status |-> "draft", validFrom |-> from, validTo |-> to]
    BY <1>2 DEF CreatePriceList
  <2>2. priceLines' = priceLines /\ today' = today
    BY <1>2 DEF CreatePriceList
  <2>3. list'.status = "draft" /\ list' \in [status : ListStatus, validFrom : ListDay, validTo : ListDay \cup {NoEnd}]
    BY <2>1 DEF ListStatus
  <2> QED  BY <2>2, <2>3 DEF PriceInv, PricesTypeOK
<1>3. CASE UpsertPriceListLine
  <2>1. PICK row \in LineRows :
          WriteLines({row}, OfService(priceLines \ Replaced(priceLines, {row}), row.service) \cup {row})
    BY <1>3 DEF UpsertPriceListLine
  <2>2. IsFiniteSet({row}) /\ {row} \in SUBSET LineRows
    BY FS_Singleton
  <2> QED  BY <2>1, <2>2, WriteLinesKeepsPriceInv
<1>4. CASE ImportPriceListLines
  <2>1. PICK a \in LineRows, b \in LineRows :
          WriteLines({a, b}, (priceLines \ Replaced(priceLines, {a, b})) \cup {a, b})
    BY <1>4 DEF ImportPriceListLines
  <2>2. IsFiniteSet({a} \cup {b})
    BY FS_Singleton, FS_Union
  <2>3. {a, b} = {a} \cup {b} /\ {a, b} \in SUBSET LineRows
    OBVIOUS
  <2>4. IsFiniteSet({a, b})
    BY <2>2, <2>3
  <2> QED  BY <2>1, <2>3, <2>4, WriteLinesKeepsPriceInv
<1>5. CASE ActivatePriceList
  <2>1. /\ list.status \in DOMAIN AfterPriceListEvent["ACTIVATE"]
        /\ ValidateTierLadder(priceLines)
        /\ list' = [list EXCEPT !.status = AfterPriceListEvent["ACTIVATE"][list.status]]
        /\ priceLines' = priceLines /\ today' = today
    BY <1>5 DEF ActivatePriceList, CanAdvancePriceList, AdvancePriceList
  <2>2. AfterPriceListEvent["ACTIVATE"] = [draft |-> "active"]
    BY DEF AfterPriceListEvent
  <2>3. list.status = "draft" /\ list' = [list EXCEPT !.status = "active"]
    BY <2>1, <2>2
  <2>4. list \in [status : ListStatus, validFrom : ListDay, validTo : ListDay \cup {NoEnd}]
    BY <2>3 DEF PriceInv, PricesTypeOK, NoList
  <2>5. list' \in [status : ListStatus, validFrom : ListDay, validTo : ListDay \cup {NoEnd}]
    BY <2>3, <2>4 DEF ListStatus
  <2>6. ValidateTierLadder(priceLines')
    BY <2>1
  <2> QED  BY <2>1, <2>5, <2>6 DEF PriceInv, PricesTypeOK, ValidateTierLadder, OfService
<1>6. CASE ExpirePriceList
  <2> DEFINE endsLater == list.validTo = NoEnd \/ list.validTo > today
             validTo == IF endsLater THEN today ELSE list.validTo
  <2>1. /\ list.status \in DOMAIN AfterPriceListEvent["EXPIRE"]
        /\ list' = [list EXCEPT !.status = AfterPriceListEvent["EXPIRE"][list.status], !.validTo = validTo]
        /\ priceLines' = priceLines /\ today' = today
    BY <1>6 DEF ExpirePriceList, CanAdvancePriceList, AdvancePriceList
  <2>2. AfterPriceListEvent["EXPIRE"] = [active |-> "expired"]
    BY DEF AfterPriceListEvent
  <2>3. list.status = "active" /\ list' = [list EXCEPT !.status = "expired", !.validTo = validTo]
    <3>1. list.status = "active"
      BY <2>1, <2>2
    <3>2. AfterPriceListEvent["EXPIRE"][list.status] = "expired"
      BY <2>2, <3>1
    <3> HIDE DEF validTo
    <3> QED  BY <2>1, <3>1, <3>2
  <2>4. list \in [status : ListStatus, validFrom : ListDay, validTo : ListDay \cup {NoEnd}]
    BY <2>3 DEF PriceInv, PricesTypeOK, NoList
  <2>5. validTo \in ListDay \cup {NoEnd}
    BY <2>4 DEF PriceInv, PricesTypeOK
  <2> HIDE DEF validTo
  <2>6. list' \in [status : ListStatus, validFrom : ListDay, validTo : ListDay \cup {NoEnd}]
    BY <2>3, <2>4, <2>5 DEF ListStatus
  <2>7. ValidateTierLadder(priceLines)
    BY <2>3 DEF PriceInv
  <2> QED  BY <2>1, <2>6, <2>7 DEF PriceInv, PricesTypeOK, ValidateTierLadder, OfService
<1>7. CASE PriceDay
  <2>1. today' \in ListDay
    BY <1>7, PriceConstants DEF PriceDay, PriceInv, PricesTypeOK, ListDay
  <2> QED  BY <1>7, <2>1 DEF PriceDay, PriceInv, PricesTypeOK, ValidateTierLadder, OfService
<1> QED  BY <1>1, <1>2, <1>3, <1>4, <1>5, <1>6, <1>7 DEF NextPrices

LEMMA PriceInvAddsUp == PriceInv => PricesAddUp
<1> SUFFICES ASSUME PriceInv, list.status \in {"active", "expired"}, NEW service \in Service,
                    PricedLines(service) # {}
             PROVE  /\ ValidLadder(GetPriceListLines(service))
                    /\ \A qty \in 0..MaxPricedQty :
                         ComputeTieredPrice(GetPriceListLines(service), qty) =
                           SumFunction([u \in 1..qty |-> UnitPrice(service, u)])
  BY DEF PricesAddUp, PriceInv
<1> DEFINE group == OfService(priceLines, service)
           ladder == GetPriceListLines(service)
<1>1. PricedLines(service) = group
  BY DEF PricedLines, OfService, PriceInv
<1>2. Tiered(group)
  <2>1. IsFiniteSet(group)
    BY FS_Subset DEF PriceInv, OfService
  <2>2. group \subseteq Line
    BY PriceConstants DEF PriceInv, PricesTypeOK, OfService
  <2>3. ValidateGroup(group) /\ \A l \in group : l.free >= 0
    BY <1>1 DEF PriceInv, ValidateTierLadder, OfService
  <2> QED  BY <1>1, <2>1, <2>2, <2>3 DEF Tiered
<1>3. InOrder(ladder, group)
  BY <1>1, <1>2, AnswerInOrder
<1>4. ValidLadder(ladder)
  BY <1>2, <1>3, AnswerIsLadder
<1>5. \A qty \in 0..MaxPricedQty : qty \in Nat
  BY PriceConstants
<1> HIDE DEF ladder
<1>6. ASSUME NEW qty \in Nat
      PROVE  ComputeTieredPrice(ladder, qty) = SumFunction([u \in 1..qty |-> UnitPrice(service, u)])
  BY <1>2, <1>3, EveryQuantityAddsUp
<1> QED  BY <1>4, <1>5, <1>6 DEF ladder

(* Whatever the lines and the order the commands came in, a list that was   *)
(* ever active prices every quantity: its ladders are well formed, and a    *)
(* total is the sum of what its units cost, each in its own tier.           *)
THEOREM PricesAlwaysAddUp == SpecPrices => []PricesAddUp
<1>1. InitPrices => PriceInv
  BY PriceInvInit
<1>2. PriceInv /\ [NextPrices]_priceVars => PriceInv'
  BY PriceInvStep
<1>3. PriceInv => PricesAddUp
  BY PriceInvAddsUp
<1> QED  BY <1>1, <1>2, <1>3, PTL DEF SpecPrices
=============================================================================
