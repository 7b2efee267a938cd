----------------------------- MODULE AccountBook ------------------------------
(***************************************************************************)
(* What fiscal years, periods and the journal promise to a reader of their *)
(* committed tables: every command is one step that meets every rule at    *)
(* the moment it becomes visible, whatever it read before, and nothing     *)
(* else ever changes the tables.  Accounting implements it.                *)
(***************************************************************************)
EXTENDS Integers, Sequences, Functions

CONSTANTS User, NoUser, Approver, Date, Year, Period, DatesOf, YearOf, Account

VARIABLES years, period, version, entries, counter, decisions

tables == <<years, period, version, entries, counter, decisions>>

Posted == DOMAIN entries

Init ==
  /\ years = {}
  /\ period = [p \in Period |-> "none"]
  /\ version = [p \in Period |-> 1]
  /\ entries = [n \in {} |-> 0]
  /\ counter = 0
  /\ decisions = <<>>

(* Two years, or two periods, have no day in common. *)
CreateYear(y) ==
  /\ \A z \in years : z # y /\ DatesOf[z] \cap DatesOf[y] = {}
  /\ years' = years \cup {y}
  /\ UNCHANGED <<period, version, entries, counter, decisions>>

OpenPeriod(p) ==
  /\ period[p] = "none" /\ YearOf[p] \in years /\ DatesOf[p] \subseteq DatesOf[YearOf[p]]
  /\ \A q \in Period : period[q] # "none" => DatesOf[q] \cap DatesOf[p] = {}
  /\ period' = [period EXCEPT ![p] = "open"]
  /\ UNCHANGED <<years, version, entries, counter, decisions>>

(* The next number, a day of a period that is open, and lines that add up  *)
(* to nothing.  of is what becomes of the entries there are.               *)
Book(type, p, d, lines, of) ==
  /\ period[p] = "open" /\ d \in DatesOf[p]
  /\ SumFunction(lines) = 0
  /\ counter' = counter + 1
  /\ entries' = [n \in Posted \cup {counter + 1} |->
                   IF n = counter + 1
                     THEN [type |-> type, period |-> p, date |-> d, lines |-> lines,
                           reversedBy |-> 0, version |-> 1]
                     ELSE of[n]]
  /\ UNCHANGED <<years, period, version, decisions>>

Post(p, d, lines) == Book("posted", p, d, lines, entries)

(* An entry that nobody has reversed gets its mirror image, and its name. *)
Reverse(r, p, d) ==
  /\ entries[r].reversedBy = 0
  /\ Book("reversing", p, d, [a \in Account |-> -entries[r].lines[a]],
          [entries EXCEPT ![r].reversedBy = counter + 1, ![r].version = @ + 1])

Turn(p, from, to) ==
  /\ period[p] = from
  /\ period' = [period EXCEPT ![p] = to]
  /\ version' = [version EXCEPT ![p] = @ + 1]
  /\ UNCHANGED <<years, entries, counter>>

Close(p) == Turn(p, "open", "closed") /\ UNCHANGED decisions
Lock(p)  == Turn(p, "closed", "locked") /\ UNCHANGED decisions

(* A reopening is asked for, decided and applied: once, on the closing it  *)
(* was asked for, and decided by an approver who did not ask.              *)
Request(p, u) ==
  /\ period[p] = "closed"
  /\ decisions' = Append(decisions,
       [period |-> p, version |-> version[p], requestedBy |-> u,
        status |-> "open", decidedBy |-> NoUser, applied |-> 0])
  /\ UNCHANGED <<years, period, version, entries, counter>>

Decide(n, u, verdict) ==
  /\ decisions[n].status = "open"
  /\ decisions' = [decisions EXCEPT ![n].status = verdict, ![n].decidedBy = u]
  /\ UNCHANGED <<years, period, version, entries, counter>>

Reopen(n) ==
  LET d == decisions[n] IN
  /\ d.applied = 0 /\ d.version = version[d.period]
  /\ d.status = "approved" /\ d.decidedBy \in Approver \ {d.requestedBy}
  /\ Turn(d.period, "closed", "open")
  /\ decisions' = [decisions EXCEPT ![n].applied = 1]

(* The lines of a posting are those of an entry there is afterwards. *)
Next ==
  \/ \E y \in Year : CreateYear(y)
  \/ \E p \in Period : OpenPeriod(p) \/ Close(p) \/ Lock(p)
  \/ \E p \in Period, d \in Date :
       \/ \E e \in Range(entries') : Post(p, d, e.lines)
       \/ \E r \in Posted : Reverse(r, p, d)
  \/ \E p \in Period, u \in User : Request(p, u)
  \/ \E n \in DOMAIN decisions :
       \/ \E u \in User, verdict \in {"approved", "rejected"} : Decide(n, u, verdict)
       \/ Reopen(n)

Spec == Init /\ [][Next]_tables

=============================================================================
