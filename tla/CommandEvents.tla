---------------------------- MODULE CommandEvents ----------------------------
(***************************************************************************)
(* A write command from the idempotency key to the subscribers:            *)
(* Idempotency (packages/db) and OutboxRelay (packages/events, the worker) *)
(* put together as the commands of the modules do it. The command calls    *)
(* writeOutboxEvent with the transaction withIdempotentContext opened, so  *)
(* its row is inserted between the claim and the stored response and ends  *)
(* with them. What the two share is the transaction and nothing else: the  *)
(* relay reads committed rows through a connection of its own. A command   *)
(* writes one event here.                                                  *)
(***************************************************************************)
EXTENDS Idempotency, FiniteSets

CONSTANTS
  RelayProcess,   \* Worker of OutboxRelay
  MaxEvents, Subscribers, Limit, Poison, MaxFaults,           \* those of OutboxRelay
  NoPayload

ASSUME EventConstants == MaxEvents \in Nat /\ NoPayload \notin Call

VARIABLES
  outbox, handled, relayPc, batch, next, stopping, faults,    \* those of OutboxRelay
  written,    \* [Session -> the row its open transaction inserted, or 0]
  payload     \* [id -> the key and the request the row speaks of]

Relay == INSTANCE OutboxRelay WITH Worker <- RelayProcess, pc <- relayPc

relayVars == <<outbox, handled, relayPc, batch, next, stopping, faults>>
eventVars == <<keyVars, relayVars, written, payload>>

Id == 1..MaxEvents

-----------------------------------------------------------------------------
InitEvents ==
  /\ InitKeys
  /\ Relay!Init
  /\ written = [s \in Session |-> 0]
  /\ payload = [e \in Id |-> NoPayload]

(* What a call does before and after its own statements. *)
Around(s) ==
  /\ BeginCall(s) \/ TryLock(s) \/ RefuseInFlight(s) \/ Claim(s) \/ ReadExisting(s) \/ StoreResponse(s)
  /\ UNCHANGED <<relayVars, written, payload>>

(* The command's statements, writeOutboxEvent(tx, ...) the last of them. *)
CommandWrites(s) ==
  /\ RunCommand(s)
  /\ \E e \in Id :
       /\ Relay!Write(e)
       /\ written' = [written EXCEPT ![s] = e]
       /\ payload' = [payload EXCEPT ![e] = call[s]]

(* The row stays or goes with the transaction that inserted it. *)
RowEnds(s, end) ==
  /\ Relay!EndTransaction(written[s])
  /\ outbox'[written[s]] = end
  /\ written' = [written EXCEPT ![s] = 0]
  /\ UNCHANGED payload

EffectCommits(s) == CommitCall(s) /\ RowEnds(s, "pending")

(* Mutant: the row was written on a connection of its own. *)
RowSurvives(s) ==
  /\ Fail(s)
  /\ IF written[s] = 0
       THEN UNCHANGED <<relayVars, written, payload>>
       ELSE RowEnds(s, "pending")

CallFails(s) ==
  /\ Fail(s)
  /\ IF written[s] = 0
       THEN UNCHANGED <<relayVars, written, payload>>
       ELSE RowEnds(s, "aborted")

(* Time passes or the purge deletes a row. *)
KeysAge ==
  /\ Tick \/ \E k \in Key : Purge(k)
  /\ UNCHANGED <<relayVars, written, payload>>

RelayTick(w) == Relay!Tick(w) /\ UNCHANGED <<keyVars, written, payload>>
RelayRestart(w) == Relay!Restart(w) /\ UNCHANGED <<keyVars, written, payload>>
RelayFault(w) ==
  /\ Relay!QueryFails(w) \/ Relay!Stop(w) \/ Relay!Crash(w)
  /\ UNCHANGED <<keyVars, written, payload>>

NextEvents ==
  \/ \E s \in Session : Around(s) \/ CommandWrites(s) \/ EffectCommits(s) \/ CallFails(s)
  \/ KeysAge
  \/ \E w \in RelayProcess : RelayTick(w) \/ RelayRestart(w) \/ RelayFault(w)

SpecEvents == InitEvents /\ [][NextEvents]_eventVars

-----------------------------------------------------------------------------
(* Properties.                                                             *)

Committed(e) == outbox[e] \in {"pending", "published"}
HasEffect(e) == \E i \in 1..Len(effects[payload[e].key]) :
                  effects[payload[e].key][i].request = payload[e].request

(* The rows of a key, and the place of one among them.                     *)
CommittedOf(k) == {e \in Id : /\ Committed(e)
                              /\ payload[e] # NoPayload /\ payload[e].key = k}

NumberOf(e, k) == Cardinality({f \in CommittedOf(k) : f <= e})

(* doc 40 A4 and B3 together: whatever the callers repeat, and wherever a  *)
(* call breaks off, is refused or replayed, the committed rows of a key    *)
(* are its effects one to one, in the order of the effects. A retry makes  *)
(* no second event, a rollback leaves none, and a key that was purged and  *)
(* used again announces its second effect after its first.                 *)
EventsFollowEffects ==
  \A k \in Key :
    /\ Cardinality(CommittedOf(k)) = Len(effects[k])
    /\ \A e \in CommittedOf(k) : payload[e].request = effects[k][NumberOf(e, k)].request

(* Nobody hears of what did not happen: an event that reached a subscriber *)
(* announces an effect of its key and request that is committed already,   *)
(* although the relay sees none of the keys and holds none of the locks.   *)
HeardIsEffect == \A e \in Id : handled[e] # {} => HasEffect(e)

(* Both: effects, rows of the outbox and what the subscribers hear agree. *)
EventsMatchEffects == EventsFollowEffects /\ HeardIsEffect

(* The inductive invariant: the open rows are those of the transactions    *)
(* past their command, each of one call and with its key and request; a    *)
(* committed row has its effect; and what the relay has in hand or handed  *)
(* out is committed.                                                       *)
EventsTypeOK ==
  /\ outbox \in [Id -> {"unused", "open", "aborted", "pending", "published"}]
  /\ handled \in [Id -> SUBSET Nat]
  /\ batch \in [RelayProcess -> SUBSET Id]
  /\ next \in [RelayProcess -> Nat]
  /\ written \in [Session -> Id \cup {0}]
  /\ payload \in [Id -> Call \cup {NoPayload}]

RowsOfCalls ==
  /\ \A s \in Session : written[s] # 0 <=> pc[s] \in {"store", "commit"}
  /\ \A s \in Session : written[s] # 0 =>
       outbox[written[s]] = "open" /\ payload[written[s]] = call[s]
  /\ \A s, t \in Session : written[s] # 0 /\ written[s] = written[t] => s = t

RowsAreEffects == \A e \in Id : Committed(e) => payload[e] \in Call /\ HasEffect(e)

RowsHeard ==
  /\ \A e \in Id : handled[e] # {} => Committed(e)
  /\ \A w \in RelayProcess : \A e \in batch[w] : Committed(e)

EventsIInv == EventsTypeOK /\ RowsOfCalls /\ RowsAreEffects /\ RowsHeard

=============================================================================
