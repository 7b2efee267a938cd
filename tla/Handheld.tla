------------------------------- MODULE Handheld -------------------------------
(***************************************************************************)
(* The warehouse handheld (apps/pda): five screens with a state machine    *)
(* each, the queue of commands in IndexedDB, and the shell's badge that    *)
(* shows how many commands wait.                                           *)
(*                                                                         *)
(* A submission asks the server for a verdict and then saves a command.    *)
(* It outlives the screen that started it, which just is not told any      *)
(* more; a reload ends it and leaves what is committed.  Nothing in the    *)
(* code takes a command from the queue yet.                                *)
(*                                                                         *)
(* Abstracted: what is typed is the number of the scan, 0 for nothing,     *)
(* which the contract's schemas refuse; the fields a command is made of    *)
(* besides; a database that never answers.                                 *)
(***************************************************************************)
EXTENDS Integers, Sequences, FiniteSets, SequencesExt

CONSTANTS Goods,         \* what a put-away screen may be asked to place
          Shelf,
          SuggestedShelf,    \* [Goods -> SUBSET Shelf]: what the server may suggest
          MaxScans, MaxSubmissions, MaxVisits, MaxReads  \* bounds, MaxReads at once

ASSUME HandheldAssumption ==
  /\ SuggestedShelf \in [Goods -> SUBSET Shelf]
  /\ {MaxScans, MaxSubmissions, MaxVisits, MaxReads} \subseteq Nat

Screen  == {"receive", "pick", "check", "load", "putaway"}
ScanNo  == 0..MaxScans
NoShelf == "none"

VARIABLES page,         \* the screen that is mounted, or "home"
          machine,      \* its state machine: [state, typed, sub: the submission it waits for]
          placing,      \* the put-away context: [goods, suggestFor, suggestion, scanned, missed],
                        \* goods the screen's props, missed a ghost: they changed unnoticed
          subs,         \* submissions: Seq of [screen, scan, stage, goods, shelf, missed]
          queued,       \* IndexedDB: the submissions whose command is there, in order
          told,         \* what the worker was last told of each scan
          badge,        \* [shown: a count or -1 for an error, reads: counts under way,
                        \*  overtaken: one came in before an earlier one]
          scanNo, visits
pdaVars == <<page, machine, placing, subs, queued, told, badge, scanNo, visits>>

Reading == -2    \* a count that the database has not taken yet

HandheldTypeOK ==
  /\ page \in Screen \cup {"home"}
  /\ machine \in [state : {"idle", "ready", "suggesting", "unavailable", "submitting", "rejected",
                           "accepted", "done"},
                  typed : ScanNo, sub : 0..MaxSubmissions]
  /\ placing \in [goods : Goods, suggestFor : Goods, suggestion : Shelf \cup {NoShelf},
                  scanned : Shelf \cup {NoShelf}, missed : BOOLEAN]
  /\ \A i \in DOMAIN subs : subs[i].stage \in {"checking", "saving", "committed", "over"}
  /\ told \in [1..MaxScans -> {"nothing", "ok", "error"}]
  /\ badge.shown \in -1..MaxSubmissions /\ Len(badge.reads) <= MaxReads
  /\ scanNo \in ScanNo /\ visits \in 0..MaxVisits

-----------------------------------------------------------------------------
(* The machines: where each starts, what a success and a failure lead to.  *)
(* Only receive goes on after a success, the others end.                   *)
ReceiveMachine == [start |-> "idle", accepted |-> "accepted", again |-> "rejected"]
PickMachine    == [start |-> "ready", accepted |-> "done", again |-> "ready"]
CheckMachine   == [start |-> "ready", accepted |-> "done", again |-> "ready"]
LoadMachine    == [start |-> "ready", accepted |-> "done", again |-> "ready"]
PutawayMachine == [start |-> "suggesting", accepted |-> "done", again |-> "ready"]

MachineOf == [receive |-> ReceiveMachine, pick |-> PickMachine, check |-> CheckMachine,
              load |-> LoadMachine, putaway |-> PutawayMachine]

(* The states that take FIELD, SCAN and SUBMIT; all others ignore them.    *)
Listening == machine.state \in {"idle", "ready", "rejected", "accepted"}

Unmounted == [state |-> "idle", typed |-> 0, sub |-> 0]
Asked(g)  == [goods |-> g, suggestFor |-> g, suggestion |-> NoShelf, scanned |-> NoShelf,
              missed |-> FALSE]

InitHandheld ==
  /\ page = "home" /\ machine = Unmounted
  /\ \E g \in Goods : placing = Asked(g)
  /\ subs = <<>> /\ queued = <<>> /\ told = [n \in 1..MaxScans |-> "nothing"]
  /\ badge = [shown |-> 0, reads |-> <<Reading>>, overtaken |-> FALSE]
  /\ scanNo = 0 /\ visits = 0

Tell(scan, word) == IF scan = 0 THEN told ELSE [told EXCEPT ![scan] = word]

-----------------------------------------------------------------------------
(* Moving between screens stops the machine of the one that is left.       *)
OpenPage(p) ==
  /\ page # p /\ page' = p
  /\ machine' = IF p = "home" THEN Unmounted ELSE [Unmounted EXCEPT !.state = MachineOf[p].start]
  /\ \E g \in Goods : placing' = Asked(g)
  /\ visits < MaxVisits /\ visits' = visits + 1
  /\ UNCHANGED <<subs, queued, told, badge, scanNo>>

(* One scan, with its shelf on the put-away screen.                        *)
EnterFields ==
  /\ page # "home" /\ Listening /\ scanNo < MaxScans
  /\ scanNo' = scanNo + 1 /\ machine' = [machine EXCEPT !.typed = scanNo + 1]
  /\ IF page = "putaway" THEN \E s \in Shelf : placing' = [placing EXCEPT !.scanned = s]
                         ELSE UNCHANGED placing
  /\ UNCHANGED <<page, subs, queued, told, badge, visits>>

(* What the machine waits for: a new submission of what is typed.  The     *)
(* error on the screen is taken down first.                                *)
StartSubmission(stage, goods, shelf) ==
  /\ Len(subs) < MaxSubmissions
  /\ subs' = Append(subs, [screen |-> page, scan |-> machine.typed, stage |-> stage,
                           goods |-> goods, shelf |-> shelf, missed |-> placing.missed])
  /\ machine' = [machine EXCEPT !.state = "submitting", !.sub = Len(subs) + 1]
  /\ told' = Tell(machine.typed, "nothing")
  /\ UNCHANGED <<page, placing, queued, badge, scanNo, visits>>

(* SUBMIT on the four scan screens; nothing typed never gets to a call.    *)
Invalid ==
  /\ machine.typed = 0
  /\ machine' = [machine EXCEPT !.state = MachineOf[page].again]
  /\ UNCHANGED <<page, placing, subs, queued, told, badge, scanNo, visits>>
SubmitScan(screen) ==
  /\ page = screen /\ Listening
  /\ Invalid \/ (machine.typed # 0 /\ StartSubmission("checking", placing.goods, NoShelf))
SubmitReceiveScan == SubmitScan("receive")
SubmitPickScan    == SubmitScan("pick")
SubmitCheckScan   == SubmitScan("check")
SubmitLoadScan    == SubmitScan("load")

(* CONFIRM on the put-away screen needs the suggested shelf to be scanned; *)
(* the command is made of the props of now and the suggestion of then.     *)
ConfirmPutaway ==
  /\ page = "putaway" /\ Listening
  /\ IF placing.suggestion # NoShelf /\ placing.scanned = placing.suggestion
     THEN StartSubmission("saving", placing.goods, placing.suggestion)
     ELSE /\ told' = Tell(machine.typed, "error")
          /\ UNCHANGED <<page, machine, placing, subs, queued, badge, scanNo, visits>>

(* onDone and onError of the submission, when its screen still waits.      *)
Hears(i) == page # "home" /\ machine.state = "submitting" /\ machine.sub = i
(* A mutant of AcceptedForm: the scan stays in the fields.                 *)
KeptForm == [machine EXCEPT !.state = MachineOf[page].accepted, !.sub = 0]
(* A success clears the fields, so that another tap has nothing to send.   *)
AcceptedForm == [state |-> MachineOf[page].accepted, typed |-> 0, sub |-> 0]
ToldAccepted(i) ==
  IF Hears(i) THEN machine' = AcceptedForm /\ told' = Tell(subs[i].scan, "ok")
              ELSE UNCHANGED <<machine, told>>
ToldFailed(i) ==
  IF Hears(i) THEN /\ machine' = [machine EXCEPT !.state = MachineOf[page].again, !.sub = 0]
                   /\ told' = Tell(subs[i].scan, "error")
              ELSE UNCHANGED <<machine, told>>
MoveOn(i, from, to) == subs[i].stage = from /\ subs' = [subs EXCEPT ![i].stage = to]

(* The server's verdict: the command is made and enqueued, or the scan is  *)
(* refused, or there was no answer (offline, failed).                      *)
VerdictAccepted(i) ==
  MoveOn(i, "checking", "saving") /\ UNCHANGED <<page, machine, placing, queued, told, badge, scanNo, visits>>
VerdictRefused(i) ==
  MoveOn(i, "checking", "over") /\ ToldFailed(i) /\ UNCHANGED <<page, placing, queued, badge, scanNo, visits>>

(* enqueue: the transaction commits, and then its caller hears; or it      *)
(* fails or aborts, or the database does not open.                         *)
EnqueueCommits(i) ==
  /\ MoveOn(i, "saving", "committed")
  /\ queued' = Append(queued, i)
  /\ UNCHANGED <<page, machine, placing, told, badge, scanNo, visits>>
EnqueueFails(i) ==
  MoveOn(i, "saving", "over") /\ ToldFailed(i) /\ UNCHANGED <<page, placing, queued, badge, scanNo, visits>>

(* The shell hears of the change and counts again.                         *)
RefreshCount ==
  [badge EXCEPT !.reads = Append(@, Reading), !.overtaken = FALSE]
EnqueueReturns(i) ==
  /\ Len(badge.reads) < MaxReads
  /\ MoveOn(i, "committed", "over") /\ badge' = RefreshCount /\ ToldAccepted(i)
  /\ UNCHANGED <<page, placing, queued, scanNo, visits>>

(* Counts are transactions of connections of their own: the second may     *)
(* come in first.                                                          *)
CountTaken(k) ==
  /\ badge.reads[k] = Reading /\ badge' = [badge EXCEPT !.reads[k] = Len(queued)]
  /\ UNCHANGED <<page, machine, placing, subs, queued, told, scanNo, visits>>
CountShown(k) ==
  /\ \E shown \in {badge.reads[k], -1} \ {Reading} :
       badge' = [shown |-> shown, reads |-> RemoveAt(badge.reads, k),
                 overtaken |-> badge.overtaken \/ k > 1]
  /\ UNCHANGED <<page, machine, placing, subs, queued, told, scanNo, visits>>

(* Put-away: the suggestion comes or not, RETRY, and other goods to place, *)
(* which a machine that saves does not take.                               *)
SuggestLocation ==
  /\ page = "putaway" /\ machine.state = "suggesting"
  /\ \/ \E s \in SuggestedShelf[placing.suggestFor] :
          /\ placing' = [placing EXCEPT !.suggestion = s] /\ machine' = [machine EXCEPT !.state = "ready"]
     \/ machine' = [machine EXCEPT !.state = "unavailable"] /\ UNCHANGED placing
  /\ UNCHANGED <<page, subs, queued, told, badge, scanNo, visits>>
RetrySuggestion ==
  /\ page = "putaway" /\ machine.state = "unavailable"
  /\ machine' = [machine EXCEPT !.state = "suggesting"] /\ placing' = [placing EXCEPT !.suggestion = NoShelf]
  /\ UNCHANGED <<page, subs, queued, told, badge, scanNo, visits>>
(* The scanned shelf stays in its field, the suggestion does not.          *)
ApplySuggest(g) == [Asked(g) EXCEPT !.scanned = placing.scanned]
SuggestChanged(g) ==
  /\ page = "putaway" /\ g # placing.goods
  /\ IF machine.state \in {"suggesting", "unavailable", "ready"}
     THEN IF g = placing.suggestFor     \* back to the goods the suggestion is for
          THEN placing' = [placing EXCEPT !.goods = g, !.missed = FALSE] /\ UNCHANGED machine
          ELSE placing' = ApplySuggest(g) /\ machine' = [machine EXCEPT !.state = "suggesting"]
     ELSE /\ placing' = [placing EXCEPT !.goods = g, !.missed = g # placing.suggestFor]
          /\ UNCHANGED machine
  /\ UNCHANGED <<page, subs, queued, told, badge, scanNo, visits>>

(* The browser reloads the page or restarts.                               *)
Reload ==
  /\ page' = "home" /\ machine' = Unmounted /\ \E g \in Goods : placing' = Asked(g)
  /\ subs' = [i \in DOMAIN subs |-> [subs[i] EXCEPT !.stage = "over"]]
  /\ badge' = [shown |-> 0, reads |-> <<Reading>>, overtaken |-> FALSE]
  /\ visits < MaxVisits /\ visits' = visits + 1
  /\ UNCHANGED <<queued, told, scanNo>>

NextHandheld ==
  \/ \E p \in Screen \cup {"home"} : OpenPage(p)
  \/ EnterFields \/ SubmitReceiveScan \/ SubmitPickScan \/ SubmitCheckScan \/ SubmitLoadScan
  \/ ConfirmPutaway \/ SuggestLocation \/ RetrySuggestion \/ (\E g \in Goods : SuggestChanged(g))
  \/ \E i \in DOMAIN subs : \/ VerdictAccepted(i) \/ VerdictRefused(i)
                            \/ EnqueueCommits(i) \/ EnqueueFails(i) \/ EnqueueReturns(i)
  \/ \E k \in DOMAIN badge.reads : CountTaken(k) \/ CountShown(k)
  \/ Reload

SpecHandheld == InitHandheld /\ [][NextHandheld]_pdaVars

-----------------------------------------------------------------------------
(* A scan the worker heard accepted is in the queue, one heard refused or  *)
(* failed is not, and no scan is there twice, through every leaving of a   *)
(* screen, reload and second tap.                                          *)
CommandsOf(n) == Cardinality({q \in DOMAIN queued : subs[queued[q]].scan = n})
ToldMatchesQueue ==
  \A n \in 1..scanNo : /\ CommandsOf(n) <= 1
                       /\ told[n] = "ok" => CommandsOf(n) = 1
                       /\ told[n] = "error" => CommandsOf(n) = 0

(* At rest the badge shows the size of the queue or its error, unless two  *)
(* counts overtook each other.                                             *)
BadgeCounts ==
  (badge.reads = <<>> /\ ~badge.overtaken /\ \A i \in DOMAIN subs : subs[i].stage # "committed")
    => badge.shown \in {Len(queued), -1}

(* A queued put-away goes to a shelf that was suggested for its goods,     *)
(* unless the goods changed while an earlier attempt was being saved and   *)
(* that attempt failed.                                                    *)
PlacedAsSuggested ==
  \A q \in DOMAIN queued :
    LET s == subs[queued[q]] IN
    (s.screen = "putaway" /\ ~s.missed) => s.shelf \in SuggestedShelf[s.goods]

(* What the worker hears, the badge and the queue agree, and the queue     *)
(* sends goods where the server wanted them (apps/pda, pick-machine.ts and *)
(* its siblings, offline-queue.ts, AppShell).                              *)
QueueHoldsWhatWasTold == ToldMatchesQueue /\ BadgeCounts /\ PlacedAsSuggested
==============================================================================
