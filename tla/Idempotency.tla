----------------------------- MODULE Idempotency -----------------------------
(***************************************************************************)
(* withIdempotentContext of packages/db: the transaction every write       *)
(* command of the API runs in. The advisory lock of the key, the claim of  *)
(* its platform.idempotency_keys row (inserted, or reclaimed once          *)
(* expired), the command itself and the stored response share one          *)
(* transaction. A key stands for the pair (user_id, key), a request for    *)
(* the pair (endpoint, request_hash).                                      *)
(***************************************************************************)
EXTENDS Integers, Sequences

CONSTANTS
  Session,    \* pooled connections, one call at a time each
  Key, Request, Result,
  LockId,     \* hashtextextended(user || '|' || key): two keys may share one
  NoRow, NoResponse,
  TTL,        \* platform.idempotency_ttl()
  MaxClock    \* bound on time

ASSUME IdempotencyConstants ==
  /\ TTL \in Nat \ {0} /\ MaxClock \in Nat
  /\ LockId \in [Key -> Nat]
  /\ NoResponse \notin Result
  /\ NoRow \notin [request : Request, response : Result \cup {NoResponse}, expires : Nat]

VARIABLES
  clock,
  stored,     \* committed platform.idempotency_keys rows
  effects,    \* [Key -> committed effects of the commands, oldest first]
  pc,         \* where the call of a session stands
  call,       \* its key and request, kept until the session begins another call
  began,      \* now(): the time its transaction began
  locked,     \* sessions that hold the advisory lock of their key
  draft,      \* its uncommitted row
  answer      \* the last answer a session gave

keyVars == <<clock, stored, effects, pc, call, began, locked, draft, answer>>
database == <<clock, stored, effects>>

Call == [key : Key, request : Request]
KeyRow  == [request : Request, response : Result \cup {NoResponse}, expires : Nat]
Answer == [status : {"none", "mismatch", "in_flight", "error"}]
            \cup [status : {"done"}, result : Result]

Silent(s) == answer' = [answer EXCEPT ![s] = [status |-> "none"]]
Goto(s, label) == pc' = [pc EXCEPT ![s] = label]

(* The row lock of INSERT ... ON CONFLICT DO UPDATE: taken on the inserted *)
(* or conflicting row, whether or not its WHERE lets the update happen.    *)
HoldsRow(s, k) == pc[s] \in {"read", "command", "store", "commit"} /\ call[s].key = k

-----------------------------------------------------------------------------
InitKeys ==
  /\ clock = 0
  /\ stored = [k \in Key |-> NoRow]
  /\ effects = [k \in Key |-> <<>>]
  /\ pc = [s \in Session |-> "idle"]
  /\ call \in [Session -> Call]
  /\ began = [s \in Session |-> 0]
  /\ locked = {}
  /\ draft = [s \in Session |-> NoRow]
  /\ answer = [s \in Session |-> [status |-> "none"]]

(* withContext: begin. now() stays this instant for the whole transaction. *)
BeginCall(s) ==
  /\ pc[s] = "idle"
  /\ \E c \in Call : call' = [call EXCEPT ![s] = c]
  /\ began' = [began EXCEPT ![s] = clock]
  /\ Goto(s, "lock") /\ Silent(s)
  /\ UNCHANGED <<database, locked, draft>>

(* commit or rollback, and the connection goes back to the pool. *)
Close(s, a) ==
  /\ Goto(s, "idle")
  /\ locked' = locked \ {s}
  /\ draft' = [draft EXCEPT ![s] = NoRow]
  /\ began' = [began EXCEPT ![s] = 0]
  /\ answer' = [answer EXCEPT ![s] = a]
  /\ UNCHANGED <<clock, call>>

Throw(s, status) == Close(s, [status |-> status]) /\ UNCHANGED <<stored, effects>>
Return(s, r)     == Close(s, [status |-> "done", result |-> r])

(* Step 0a, pg_try_advisory_xact_lock. *)
LockTaken(s) == \E t \in locked \ {s} : LockId[call[t].key] = LockId[call[s].key]

TryLock(s) ==
  /\ pc[s] = "lock" /\ ~LockTaken(s)
  /\ locked' = locked \cup {s}
  /\ Goto(s, "claim")
  /\ UNCHANGED <<database, call, began, draft, answer>>

RefuseInFlight(s) ==
  /\ pc[s] = "lock" /\ LockTaken(s)
  /\ Throw(s, "in_flight")

(* Mutant: a key is given up before its time. *)
ExpiredSoon(row, at) == row.expires <= at + 1

(* Step 0b: insert, or reclaim an expired row; a live row is left alone.   *)
(* The statement would wait for another transaction's lock on the row.     *)
Expired(row, at) == row.expires <= at
(* Mutant: ON CONFLICT DO UPDATE without its WHERE. *)
ClaimableAlways(s) == call[s].key \in Key

Claimable(s) == stored[call[s].key] = NoRow \/ Expired(stored[call[s].key], began[s])

Claim(s) ==
  /\ pc[s] = "claim"
  /\ \A t \in Session \ {s} : ~HoldsRow(t, call[s].key)
  /\ IF Claimable(s)
       THEN /\ draft' = [draft EXCEPT ![s] = [request |-> call[s].request,
                           response |-> NoResponse, expires |-> began[s] + TTL]]
            /\ Goto(s, "command")
       ELSE Goto(s, "read") /\ UNCHANGED draft
  /\ UNCHANGED <<database, call, began, locked, answer>>

(* Mutant: endpoint and hash are not compared. *)
AnyRequest(row, s) == row # NoRow

(* The key is live: refuse another request, replay the same one. *)
SameRequest(row, s) == row.request = call[s].request

ReadExisting(s) ==
  /\ pc[s] = "read"
  /\ LET row == stored[call[s].key] IN
     \/ (row = NoRow \/ ~SameRequest(row, s)) /\ Throw(s, "mismatch")
     \/ row # NoRow /\ SameRequest(row, s) /\ row.response = NoResponse /\ Throw(s, "in_flight")
     \/ /\ row # NoRow /\ SameRequest(row, s) /\ row.response # NoResponse
        /\ Return(s, row.response) /\ UNCHANGED <<stored, effects>>

(* Mutant: the transaction commits without storing the response. *)
RunWithoutStoring(s) ==
  /\ pc[s] = "command"
  /\ Goto(s, "commit")
  /\ UNCHANGED <<database, call, began, locked, draft, answer>>

(* The command: its own statements, in the same transaction. *)
RunCommand(s) ==
  /\ pc[s] = "command"
  /\ Goto(s, "store")
  /\ UNCHANGED <<database, call, began, locked, draft, answer>>

StoreResponse(s) ==
  /\ pc[s] = "store"
  /\ \E r \in Result : draft' = [draft EXCEPT ![s].response = r]
  /\ Goto(s, "commit")
  /\ UNCHANGED <<database, call, began, locked, answer>>

CommitCall(s) ==
  /\ pc[s] = "commit"
  /\ stored' = [stored EXCEPT ![call[s].key] = draft[s]]
  /\ effects' = [effects EXCEPT ![call[s].key] = Append(@, draft[s])]
  /\ Return(s, draft[s].response)

(* The command throws, a statement fails or the connection breaks. *)
Fail(s) ==
  /\ pc[s] # "idle"
  /\ Throw(s, "error")

(* platform.purge_idempotency_keys(), one row of its delete: it waits for  *)
(* a row another transaction locked and looks at it again afterwards.      *)
Purge(k) ==
  /\ stored[k] # NoRow /\ Expired(stored[k], clock)
  /\ \A s \in Session : ~HoldsRow(s, k)
  /\ stored' = [stored EXCEPT ![k] = NoRow]
  /\ UNCHANGED <<clock, effects, pc, call, began, locked, draft, answer>>

Tick ==
  /\ clock < MaxClock
  /\ clock' = clock + 1
  /\ UNCHANGED <<stored, effects, pc, call, began, locked, draft, answer>>

Handle(s) ==
  \/ BeginCall(s) \/ TryLock(s) \/ RefuseInFlight(s) \/ Claim(s) \/ ReadExisting(s)
  \/ RunCommand(s) \/ StoreResponse(s) \/ CommitCall(s) \/ Fail(s)

NextKeys == Tick \/ (\E k \in Key : Purge(k)) \/ (\E s \in Session : Handle(s))

SpecKeys == InitKeys /\ [][NextKeys]_keyVars

-----------------------------------------------------------------------------
(* Properties.                                                             *)

LastEffect(k) == effects[k][Len(effects[k])]

KeysTypeOK ==
  /\ clock \in Nat
  /\ stored \in [Key -> KeyRow \cup {NoRow}]
  /\ effects \in [Key -> Seq(KeyRow)]
  /\ pc \in [Session -> {"idle", "lock", "claim", "read", "command", "store", "commit"}]
  /\ call \in [Session -> Call]
  /\ began \in [Session -> Nat]
  /\ locked \subseteq Session
  /\ draft \in [Session -> KeyRow \cup {NoRow}]
  /\ answer \in [Session -> Answer]

(* doc 40 A4: however calls with one key overlap, are retried, fail half   *)
(* way or outlive a purge, the command takes effect a second time only     *)
(* once the lifetime of its previous effect is over.                       *)
OneEffectPerLifetime ==
  [][\A k \in Key : effects'[k] # effects[k] =>
       effects[k] = <<>> \/ LastEffect(k).expires <= clock]_keyVars

(* A stored row is the answer of the last effect its key had, never a      *)
(* claim without a response: no crash leaves a key refused as in flight.   *)
StoredAnswersLastEffect ==
  \A k \in Key : stored[k] # NoRow =>
    /\ effects[k] # <<>>
    /\ stored[k] = LastEffect(k)
    /\ stored[k].response # NoResponse

(* A call answered with success, first call or replay, is answered with    *)
(* the result of a committed effect of this very key and request.          *)
AnswersAreEffects ==
  \A s \in Session : answer[s].status = "done" =>
    \E i \in 1..Len(effects[call[s].key]) :
      /\ effects[call[s].key][i].request = call[s].request
      /\ effects[call[s].key][i].response = answer[s].result

(* A call that found its key live still finds the row when it reads it:    *)
(* the upsert locked it against the purge, so a retry of the same request  *)
(* is not refused as a mismatch because the row went away in between.      *)
LiveRowStays == \A s \in Session : pc[s] = "read" => stored[call[s].key] # NoRow

(* The inductive invariant: what the lock excludes, and that a claimed key *)
(* has no live row and no live effect until the claimant commits.          *)
LocksExclude ==
  /\ \A s \in Session : pc[s] \in {"claim", "read", "command", "store", "commit"} <=> s \in locked
  /\ \A s, t \in locked : LockId[call[s].key] = LockId[call[t].key] => s = t

DraftsAreClaims ==
  \A s \in Session :
    /\ began[s] <= clock
    /\ pc[s] \in {"command", "store", "commit"} =>
         /\ draft[s] # NoRow
         /\ draft[s].request = call[s].request /\ draft[s].expires = began[s] + TTL
         /\ stored[call[s].key] # NoRow => stored[call[s].key].expires <= clock
         /\ effects[call[s].key] # <<>> =>
              LastEffect(call[s].key).expires <= clock
    /\ pc[s] = "commit" => draft[s].response # NoResponse

(* A key without a row was never used, or its last effect has expired. *)
ForgottenIsExpired ==
  \A k \in Key : stored[k] = NoRow /\ effects[k] # <<>> =>
    LastEffect(k).expires <= clock

KeysIInv ==
  /\ KeysTypeOK /\ LocksExclude /\ DraftsAreClaims /\ ForgottenIsExpired
  /\ StoredAnswersLastEffect /\ AnswersAreEffects /\ LiveRowStays

(* No answer without its effect and no effect without its answer: the two  *)
(* above, so a crash at any statement leaves neither half.                 *)
AnswersMatchEffects == StoredAnswersLastEffect /\ AnswersAreEffects

(* The concurrent handler implements the atomic promise: its keys, its     *)
(* clock and its effects are those of OnceOnly, sessions, locks and        *)
(* uncommitted rows are invisible.                                         *)
Once == INSTANCE OnceOnly WITH clock <- clock, stored <- stored, effects <- effects
ImplementsOnce == Once!Spec

=============================================================================
