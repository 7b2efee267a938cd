----------------------------- MODULE OutboxRelay -----------------------------
(***************************************************************************)
(* The transactional outbox of packages/events and the worker that drains  *)
(* it: writeOutboxEvent inside a command's transaction, relayOnce, and the *)
(* tick loop of apps/worker with its stop signal. An event is its id, the  *)
(* bigserial the insert drew; transactions commit in any order. attempts   *)
(* and last_error, which nothing reads, are left out.                      *)
(***************************************************************************)
EXTENDS Integers, FiniteSets

CONSTANTS
  Worker,       \* relay processes; the deployment runs one
  MaxEvents,    \* bound: ids drawn from the sequence
  Subscribers,  \* number of registered subscribers, called in order 1, 2, ...
  Limit,        \* opts.limit: rows of one tick
  Poison,       \* ids of events the last subscriber rejects every time
  MaxFaults     \* bound on lost queries, passing handler errors, crashes and stops

Event == 1..MaxEvents

ASSUME RelayConstants ==
  /\ MaxEvents \in Nat /\ Subscribers \in Nat /\ Limit \in Nat \ {0} /\ MaxFaults \in Nat
  /\ Poison \subseteq Event

VARIABLES
  outbox,     \* [Event -> "unused", "open" (inserted, not committed), "aborted", "pending", "published"]
  handled,    \* [Event -> subscribers that handled it at least once]
  pc,         \* "off", "select", "deliver", "publish", "fail" or "pause"
  batch,      \* rows of the tick not yet done with
  next,       \* the subscriber to call next for the lowest of them
  stopping,   \* signal.aborted
  faults

vars == <<outbox, handled, pc, batch, next, stopping, faults>>
worker == <<pc, batch, next, stopping, faults>>

-----------------------------------------------------------------------------
Init ==
  /\ outbox = [e \in Event |-> "unused"]
  /\ handled = [e \in Event |-> {}]
  /\ pc = [w \in Worker |-> "select"]
  /\ batch = [w \in Worker |-> {}]
  /\ next = [w \in Worker |-> 1]
  /\ stopping = [w \in Worker |-> FALSE]
  /\ faults = 0

Goto(w, label) == pc' = [pc EXCEPT ![w] = label]
Fault == faults < MaxFaults /\ faults' = faults + 1

(* writeOutboxEvent: the insert draws the next id, whatever becomes of it. *)
Write(e) ==
  /\ outbox[e] = "unused" /\ \A f \in Event : f < e => outbox[f] # "unused"
  /\ outbox' = [outbox EXCEPT ![e] = "open"]
  /\ UNCHANGED <<handled, worker>>

(* The command's transaction ends; the event stays or goes with it. *)
EndTransaction(e) ==
  /\ outbox[e] = "open"
  /\ \E end \in {"pending", "aborted"} : outbox' = [outbox EXCEPT ![e] = end]
  /\ UNCHANGED <<handled, worker>>

(* Mutant: events are handed out before their transaction commits. *)
PendingOrOpen == {e \in Event : outbox[e] \in {"open", "pending"}}

(* where published_at is null order by id limit $1 *)
Pending == {e \in Event : outbox[e] = "pending"}
(* Mutant: published_at is not looked at. *)
FirstCommitted(n) ==
  LET rows == {e \in Event : outbox[e] \in {"pending", "published"}}
  IN  {e \in rows : Cardinality({f \in rows : f < e}) < n}

(* Mutant: the relay goes on after the last row it published. *)
AfterPublished(n) ==
  LET rows == {e \in Pending : \A f \in Event : f > e => outbox[f] # "published"}
  IN  {e \in rows : Cardinality({f \in rows : f < e}) < n}

FirstPending(n) == {e \in Pending : Cardinality({f \in Pending : f < e}) < n}

SelectBatch(w) ==
  /\ pc[w] = "select" /\ ~stopping[w]
  /\ IF Subscribers = 0 \/ Pending = {}
       THEN Goto(w, "pause") /\ UNCHANGED <<batch, next>>
       ELSE /\ Goto(w, "deliver")
            /\ batch' = [batch EXCEPT ![w] = FirstPending(Limit)]
            /\ next' = [next EXCEPT ![w] = 1]
  /\ UNCHANGED <<outbox, handled, stopping, faults>>

IsCurrent(w, e) == e \in batch[w] /\ \A f \in batch[w] : e <= f

(* subscriber.handler(event) resolves: the next one, or the row is done. *)
Deliver(w, e) ==
  /\ pc[w] = "deliver" /\ IsCurrent(w, e)
  /\ ~(e \in Poison /\ next[w] = Subscribers)
  /\ handled' = [handled EXCEPT ![e] = @ \cup {next[w]}]
  /\ next' = [next EXCEPT ![w] = @ + 1]
  /\ IF next[w] = Subscribers THEN Goto(w, "publish") ELSE UNCHANGED pc
  /\ UNCHANGED <<outbox, batch, stopping, faults>>

(* Mutant: the error is swallowed and the row counts as delivered. *)
ErrorSwallowed(w, e) ==
  /\ pc[w] = "deliver" /\ IsCurrent(w, e) /\ Fault
  /\ Goto(w, "publish")
  /\ UNCHANGED <<outbox, handled, batch, next, stopping>>

(* Mutant: the next subscriber is called all the same. *)
SubscriberSkipped(w, e) ==
  /\ pc[w] = "deliver" /\ IsCurrent(w, e) /\ next[w] < Subscribers /\ Fault
  /\ next' = [next EXCEPT ![w] = @ + 1]
  /\ UNCHANGED <<outbox, handled, pc, batch, stopping>>

(* It throws: the later subscribers are not called for this row. *)
HandlerThrows(w, e) ==
  /\ pc[w] = "deliver" /\ IsCurrent(w, e)
  /\ IF e \in Poison /\ next[w] = Subscribers THEN UNCHANGED faults ELSE Fault
  /\ Goto(w, "fail")
  /\ UNCHANGED <<outbox, handled, batch, next, stopping>>

(* On to the next row of the batch, or the end of the tick. *)
NextRow(w, e) ==
  /\ batch' = [batch EXCEPT ![w] = @ \ {e}]
  /\ next' = [next EXCEPT ![w] = 1]
  /\ Goto(w, IF batch[w] = {e} THEN "pause" ELSE "deliver")
  /\ UNCHANGED <<handled, stopping, faults>>

MarkPublished(w, e) ==
  /\ pc[w] = "publish" /\ IsCurrent(w, e)
  /\ outbox' = [outbox EXCEPT ![e] = "published"]
  /\ NextRow(w, e)

(* Mutant: a failed row ends the tick. *)
TickEndsWithFailure(w, e) ==
  /\ pc[w] = "fail" /\ IsCurrent(w, e)
  /\ batch' = [batch EXCEPT ![w] = {}]
  /\ Goto(w, "pause")
  /\ UNCHANGED <<outbox, handled, next, stopping, faults>>

RecordFailure(w, e) ==
  /\ pc[w] = "fail" /\ IsCurrent(w, e)
  /\ NextRow(w, e)
  /\ UNCHANGED outbox

(* The timer of the pause fires, or the signal cuts it short. *)
Wake(w) ==
  /\ pc[w] = "pause"
  /\ Goto(w, "select")
  /\ UNCHANGED <<outbox, handled, batch, next, stopping, faults>>

(* A query of the tick rejects: the loop logs it and schedules the next. *)
QueryFails(w) ==
  /\ pc[w] \in {"select", "publish", "fail"} /\ Fault
  /\ pc[w] = "select" => ~stopping[w] /\ Subscribers > 0
  /\ Goto(w, "pause")
  /\ batch' = [batch EXCEPT ![w] = {}]
  /\ UNCHANGED <<outbox, handled, next, stopping>>

(* SIGTERM or SIGINT: noticed between ticks only. *)
Stop(w) ==
  /\ pc[w] # "off" /\ ~stopping[w] /\ Fault
  /\ stopping' = [stopping EXCEPT ![w] = TRUE]
  /\ UNCHANGED <<outbox, handled, pc, batch, next>>

Shut(w) ==
  /\ Goto(w, "off")
  /\ batch' = [batch EXCEPT ![w] = {}]
  /\ stopping' = [stopping EXCEPT ![w] = FALSE]
  /\ UNCHANGED <<outbox, handled, next>>

(* Mutant: the signal is looked at after the pause only. *)
ExitFromPause(w) == pc[w] = "pause" /\ stopping[w] /\ Shut(w) /\ UNCHANGED faults

Exit(w)  == pc[w] \in {"select", "pause"} /\ stopping[w] /\ Shut(w) /\ UNCHANGED faults
Crash(w) == pc[w] # "off" /\ Fault /\ Shut(w)

(* The supervisor of the process starts it again. *)
Restart(w) ==
  /\ pc[w] = "off"
  /\ Goto(w, "select")
  /\ UNCHANGED <<outbox, handled, batch, next, stopping, faults>>

Tick(w) ==
  \/ SelectBatch(w) \/ Wake(w) \/ Exit(w)
  \/ \E e \in Event : Deliver(w, e) \/ HandlerThrows(w, e) \/ MarkPublished(w, e) \/ RecordFailure(w, e)

Next ==
  \/ \E e \in Event : Write(e) \/ EndTransaction(e)
  \/ \E w \in Worker : Tick(w) \/ QueryFails(w) \/ Stop(w) \/ Crash(w) \/ Restart(w)

Spec == Init /\ [][Next]_vars

(* The event loop of a live process runs its continuations, handlers       *)
(* settle, and a process that went away is started again.                  *)
Fairness == \A w \in Worker : WF_vars(Tick(w)) /\ WF_vars(Restart(w))
FairSpec == Spec /\ Fairness

-----------------------------------------------------------------------------
(* Properties.                                                             *)

TypeOK ==
  /\ outbox \in [Event -> {"unused", "open", "aborted", "pending", "published"}]
  /\ handled \in [Event -> SUBSET (1..Subscribers)]
  /\ pc \in [Worker -> {"off", "select", "deliver", "publish", "fail", "pause"}]
  /\ batch \in [Worker -> SUBSET Event]
  /\ next \in [Worker -> 1..(Subscribers + 1)]
  /\ stopping \in [Worker -> BOOLEAN]
  /\ faults \in Nat

(* doc 40 B3: no event is lost. Whatever crashed, was retried, or was      *)
(* selected by two relays at once, a row marked published has been handled *)
(* by every subscriber.                                                    *)
PublishedWasHandled ==
  \A e \in Event : outbox[e] = "published" => handled[e] = 1..Subscribers

(* "Written or not written with the state": no subscriber ever hears of an *)
(* event whose transaction rolled back or is still running.                *)
HandledWasCommitted ==
  \A e \in Event : handled[e] # {} => outbox[e] \in {"pending", "published"}

(* Subscribers of one row come in registration order: none hears of an     *)
(* event that an earlier one has not handled, on any attempt.              *)
HandledInOrder ==
  \A e \in Event : \A s \in handled[e] : 1..s \subseteq handled[e]

(* The inductive invariant: what a relay has in hand is committed, and the *)
(* subscribers before next have handled the row it is at. Without any      *)
(* subscriber it has nothing in hand.                                      *)
BatchIsCommitted ==
  \A w \in Worker : \A e \in batch[w] :
    Subscribers > 0 /\ outbox[e] \in {"pending", "published"}

RowInHand ==
  \A w \in Worker : \A e \in Event :
    IsCurrent(w, e) /\ pc[w] \in {"deliver", "publish"} =>
      /\ 1..(next[w] - 1) \subseteq handled[e]
      /\ pc[w] = "deliver" => next[w] \in 1..Subscribers
      /\ pc[w] = "publish" => next[w] = Subscribers + 1

IInv == TypeOK /\ PublishedWasHandled /\ HandledWasCommitted /\ HandledInOrder
          /\ BatchIsCommitted /\ RowInHand

(* With one relay, as deployed, a row still to be delivered is unpublished *)
(* although it was read earlier in the tick: nothing published is ever     *)
(* delivered again.                                                        *)
BatchIsPending == \A w \in Worker : batch[w] \subseteq Pending

(* What is delivered: committed events only, each to its subscribers in    *)
(* their order, and a published one to nobody again.                       *)
DeliveredOnceInOrder == HandledWasCommitted /\ HandledInOrder /\ BatchIsPending

(* At least once: every committed event, in whatever order the commits     *)
(* came, is published in the end, as long as fewer events than one batch   *)
(* are rejected for good.                                                  *)
EventsGetPublished ==
  \A e \in Event \ Poison : outbox[e] = "pending" ~> outbox[e] = "published"

(* A stop signal takes effect once the running tick is done. *)
StopEnds == \A w \in Worker : stopping[w] ~> pc[w] = "off"

(* The worker gets through: to every event, and to its end when told to. *)
RelayGetsThrough == EventsGetPublished /\ StopEnds

=============================================================================
