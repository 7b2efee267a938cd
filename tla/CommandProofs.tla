---------------------------- MODULE CommandProofs -----------------------------
(***************************************************************************)
(* The commands of the modular monolith: each has its effect once and is   *)
(* answered with it (Idempotency), the rows it writes to the outbox follow *)
(* its effect (CommandEvents), and the audit chain its transactions share  *)
(* has no gap (AuditChain). Then the run of every service beside them      *)
(* (MCServices): a behaviour of the run is one of each of its parts, so    *)
(* what is proved of a part is true of the run, and every state of the run *)
(* has its types.                                                          *)
(***************************************************************************)
EXTENDS MCServices, ServicesProofs, SequenceTheorems, FiniteSetTheorems, WellFoundedInduction,
        TLAPS

-----------------------------------------------------------------------------
(* The idempotency of commands (Idempotency).                              *)

Inside == {"claim", "read", "command", "store", "commit"}

LEMMA InitKeeps == InitKeys => KeysIInv
<1> SUFFICES ASSUME InitKeys PROVE KeysIInv
  OBVIOUS
<1>1. KeysTypeOK
  BY EmptySeq DEF InitKeys, KeysTypeOK, Answer
<1>2. LocksExclude /\ DraftsAreClaims /\ LiveRowStays
  BY DEF InitKeys, LocksExclude, DraftsAreClaims, LiveRowStays
<1>3. ForgottenIsExpired /\ StoredAnswersLastEffect /\ AnswersAreEffects
  BY DEF InitKeys, ForgottenIsExpired, StoredAnswersLastEffect, AnswersAreEffects
<1> QED  BY <1>1, <1>2, <1>3 DEF KeysIInv

(* A step that leaves clock, stored and effects alone keeps the parts of   *)
(* the invariant that speak of them only.                                  *)
LEMMA DatabaseKept ==
  ASSUME KeysIInv, UNCHANGED database
  PROVE  ForgottenIsExpired' /\ StoredAnswersLastEffect'
BY DEF KeysIInv, database, ForgottenIsExpired, StoredAnswersLastEffect, LastEffect

LEMMA BeginCallKeeps ==
  ASSUME KeysIInv, NEW s \in Session, BeginCall(s)
  PROVE  KeysIInv'
<1>1. PICK c \in Call : call' = [call EXCEPT ![s] = c]
  BY DEF BeginCall
<1>2. KeysTypeOK'
  BY <1>1 DEF BeginCall, KeysIInv, KeysTypeOK, Goto, Silent, Answer, database
<1>3. LocksExclude'
  BY <1>1 DEF BeginCall, KeysIInv, KeysTypeOK, LocksExclude, Goto
<1>4. DraftsAreClaims'
  BY <1>1 DEF BeginCall, KeysIInv, KeysTypeOK, DraftsAreClaims, Goto, database, LastEffect
<1>5. AnswersAreEffects'
  BY <1>1 DEF BeginCall, KeysIInv, KeysTypeOK, AnswersAreEffects, Silent, database
<1>6. LiveRowStays'
  BY <1>1 DEF BeginCall, KeysIInv, KeysTypeOK, LiveRowStays, Goto, database
<1>7. ForgottenIsExpired' /\ StoredAnswersLastEffect'
  BY DatabaseKept DEF BeginCall
<1> QED  BY <1>2, <1>3, <1>4, <1>5, <1>6, <1>7 DEF KeysIInv

LEMMA TryLockKeeps ==
  ASSUME KeysIInv, NEW s \in Session, TryLock(s)
  PROVE  KeysIInv'
<1>1. KeysTypeOK'
  BY DEF TryLock, KeysIInv, KeysTypeOK, Goto, database
<1>2. LocksExclude'
  BY DEF TryLock, KeysIInv, KeysTypeOK, LocksExclude, LockTaken, Goto
<1>3. DraftsAreClaims'
  BY DEF TryLock, KeysIInv, KeysTypeOK, DraftsAreClaims, Goto, database, LastEffect
<1>4. AnswersAreEffects'
  BY DEF TryLock, KeysIInv, KeysTypeOK, AnswersAreEffects, database
<1>5. LiveRowStays'
  BY DEF TryLock, KeysIInv, KeysTypeOK, LiveRowStays, Goto, database
<1>6. ForgottenIsExpired' /\ StoredAnswersLastEffect'
  BY DatabaseKept DEF TryLock
<1> QED  BY <1>1, <1>2, <1>3, <1>4, <1>5, <1>6 DEF KeysIInv

LEMMA ClaimKeeps ==
  ASSUME KeysIInv, NEW s \in Session, Claim(s)
  PROVE  KeysIInv'
<1> DEFINE k == call[s].key
           row == [request |-> call[s].request, response |-> NoResponse,
                   expires |-> began[s] + TTL]
<1>1. k \in Key /\ call[s] \in Call /\ began[s] \in Nat /\ clock \in Nat /\ row \in KeyRow
  BY IdempotencyConstants DEF KeysIInv, KeysTypeOK, Call, KeyRow
<1>2. row # NoRow
  BY <1>1, IdempotencyConstants DEF KeyRow
<1>3. UNCHANGED database /\ UNCHANGED <<call, began, locked, answer>> /\ pc[s] = "claim"
  BY DEF Claim
<1>4. \/ Claimable(s) /\ draft' = [draft EXCEPT ![s] = row] /\ pc' = [pc EXCEPT ![s] = "command"]
      \/ ~Claimable(s) /\ draft' = draft /\ pc' = [pc EXCEPT ![s] = "read"]
  BY DEF Claim, Goto
<1>5. KeysTypeOK'
  BY <1>1, <1>3, <1>4 DEF KeysIInv, KeysTypeOK, database
<1>6. LocksExclude'
  BY <1>3, <1>4 DEF KeysIInv, KeysTypeOK, LocksExclude
<1>7. Claimable(s) => /\ stored[k] # NoRow => stored[k].expires <= clock
                      /\ effects[k] # <<>> => LastEffect(k).expires <= clock
  <2> SUFFICES ASSUME Claimable(s)
               PROVE  /\ stored[k] # NoRow => stored[k].expires <= clock
                      /\ effects[k] # <<>> => LastEffect(k).expires <= clock
    OBVIOUS
  <2>1. CASE stored[k] = NoRow
    BY <1>1, <2>1 DEF KeysIInv, ForgottenIsExpired
  <2>2. CASE stored[k] # NoRow
    <3>1. stored[k] \in KeyRow /\ stored[k].expires \in Nat
      BY <1>1, <2>2 DEF KeysIInv, KeysTypeOK, KeyRow
    <3>2. stored[k].expires <= began[s] /\ began[s] <= clock
      BY <2>2 DEF Claimable, Expired, KeysIInv, DraftsAreClaims
    <3>3. stored[k] = LastEffect(k)
      BY <1>1, <2>2 DEF KeysIInv, StoredAnswersLastEffect
    <3> QED  BY <1>1, <3>1, <3>2, <3>3
  <2> QED  BY <2>1, <2>2
<1>8. DraftsAreClaims'
  <2> SUFFICES ASSUME NEW u \in Session
      PROVE /\ began'[u] <= clock'
            /\ pc'[u] \in {"command", "store", "commit"} =>
                 /\ draft'[u] # NoRow
                 /\ draft'[u].request = call'[u].request /\ draft'[u].expires = began'[u] + TTL
                 /\ stored'[call'[u].key] # NoRow => stored'[call'[u].key].expires <= clock'
                 /\ effects'[call'[u].key] # <<>> => LastEffect(call[u].key)'.expires <= clock'
            /\ pc'[u] = "commit" => draft'[u].response # NoResponse
    BY <1>3 DEF DraftsAreClaims, LastEffect
  <2>1. CASE u # s
    BY <1>3, <1>4, <2>1 DEF KeysIInv, KeysTypeOK, DraftsAreClaims, database, LastEffect
  <2>2. CASE u = s /\ pc'[s] = "read"
    BY <1>3, <2>2 DEF KeysIInv, KeysTypeOK, DraftsAreClaims, database
  <2>3. CASE u = s /\ pc'[s] = "command"
    <3>1. draft'[s] = row /\ Claimable(s)
      BY <1>4, <2>3 DEF KeysIInv, KeysTypeOK
    <3>2. row.request = call[s].request /\ row.expires = began[s] + TTL
      OBVIOUS
    <3>3. began'[s] <= clock'
      BY <1>3 DEF KeysIInv, DraftsAreClaims, database
    <3> HIDE DEF row
    <3> QED  BY <1>2, <1>3, <1>7, <2>3, <3>1, <3>2, <3>3 DEF database, LastEffect
  <2> QED  BY <1>4, <2>1, <2>2, <2>3 DEF KeysIInv, KeysTypeOK
<1>9. AnswersAreEffects'
  BY <1>3 DEF KeysIInv, AnswersAreEffects, database
<1>10. LiveRowStays'
  BY <1>3, <1>4 DEF KeysIInv, KeysTypeOK, LiveRowStays, Claimable, database
<1>11. ForgottenIsExpired' /\ StoredAnswersLastEffect'
  BY <1>3, DatabaseKept
<1> QED  BY <1>5, <1>6, <1>8, <1>9, <1>10, <1>11 DEF KeysIInv

LEMMA CommandKeeps ==
  ASSUME KeysIInv, NEW s \in Session, RunCommand(s) \/ StoreResponse(s)
  PROVE  KeysIInv'
<1>1. UNCHANGED database /\ UNCHANGED <<call, began, locked, answer>>
  BY DEF RunCommand, StoreResponse
<1>2. \/ pc[s] = "command" /\ pc' = [pc EXCEPT ![s] = "store"] /\ draft' = draft
      \/ /\ pc[s] = "store" /\ pc' = [pc EXCEPT ![s] = "commit"]
         /\ \E r \in Result : draft' = [draft EXCEPT ![s].response = r]
  BY DEF RunCommand, StoreResponse, Goto
<1>3. \A u \in Session :
        /\ draft'[u] \in KeyRow \cup {NoRow}
        /\ u # s => draft'[u] = draft[u] /\ pc'[u] = pc[u]
        /\ u = s => /\ draft'[u] # NoRow /\ draft'[u].request = draft[u].request
                    /\ draft'[u].expires = draft[u].expires
        /\ u = s /\ pc'[u] = "commit" => draft'[u].response # NoResponse
  <2>1. draft[s] \in KeyRow
    BY <1>2 DEF KeysIInv, KeysTypeOK, DraftsAreClaims
  <2>2. CASE pc[s] = "command"
    BY <1>2, <2>1, <2>2, IdempotencyConstants DEF KeysIInv, KeysTypeOK, KeyRow
  <2>3. CASE pc[s] = "store"
    <3>1. PICK r \in Result : draft' = [draft EXCEPT ![s].response = r]
      BY <1>2, <2>3
    <3>2. draft'[s] = [draft[s] EXCEPT !.response = r] /\ \A u \in Session \ {s} : draft'[u] = draft[u]
      BY <3>1 DEF KeysIInv, KeysTypeOK
    <3>3. /\ draft'[s] \in KeyRow /\ draft'[s].response = r
          /\ draft'[s].request = draft[s].request /\ draft'[s].expires = draft[s].expires
      BY <2>1, <3>2 DEF KeyRow
    <3>4. draft'[s] # NoRow /\ r # NoResponse
      BY <3>3, IdempotencyConstants DEF KeyRow
    <3> QED  BY <1>2, <2>3, <3>2, <3>3, <3>4 DEF KeysIInv, KeysTypeOK
  <2> QED  BY <1>2, <2>2, <2>3
<1>4. KeysTypeOK'
  <2>1. draft' \in [Session -> KeyRow \cup {NoRow}]
    <3>1. draft' = [u \in Session |-> draft'[u]]
      BY <1>2 DEF KeysIInv, KeysTypeOK
    <3> QED  BY <1>3, <3>1
  <2> QED  BY <1>1, <1>2, <2>1 DEF KeysIInv, KeysTypeOK, database
<1>5. LocksExclude'
  <2>1. \A u \in Session : pc'[u] \in Inside <=> pc[u] \in Inside
    <3>1. pc' = [pc EXCEPT ![s] = "store"] \/ pc' = [pc EXCEPT ![s] = "commit"]
      BY <1>2
    <3>2. pc[s] \in Inside
      BY <1>2 DEF Inside
    <3> QED  BY <3>1, <3>2 DEF KeysIInv, KeysTypeOK, Inside
  <2> QED  BY <1>1, <2>1 DEF KeysIInv, KeysTypeOK, LocksExclude, Inside
<1>6. DraftsAreClaims'
  <2>1. pc[s] \in {"command", "store", "commit"} /\ pc'[s] \in {"store", "commit"}
    BY <1>2 DEF KeysIInv, KeysTypeOK
  <2> QED  BY <1>1, <1>3, <2>1 DEF KeysIInv, DraftsAreClaims, database, LastEffect
<1>7. AnswersAreEffects'
  BY <1>1 DEF KeysIInv, AnswersAreEffects, database
<1>8. LiveRowStays'
  BY <1>1, <1>2 DEF KeysIInv, KeysTypeOK, LiveRowStays, database
<1>9. ForgottenIsExpired' /\ StoredAnswersLastEffect'
  BY <1>1, DatabaseKept
<1> QED  BY <1>4, <1>5, <1>6, <1>7, <1>8, <1>9 DEF KeysIInv

(* A transaction ends: with an error, a refusal, or the stored answer. *)
LEMMA EndKeeps ==
  ASSUME KeysIInv, NEW s \in Session, NEW a \in Answer, Close(s, a), UNCHANGED <<stored, effects>>,
         a.status = "done" => \E i \in 1..Len(effects[call[s].key]) :
           /\ effects[call[s].key][i].request = call[s].request
           /\ effects[call[s].key][i].response = a.result
  PROVE  KeysIInv'
<1>1. /\ UNCHANGED <<clock, stored, effects, call>> /\ locked' = locked \ {s}
      /\ pc' = [pc EXCEPT ![s] = "idle"] /\ draft' = [draft EXCEPT ![s] = NoRow]
      /\ began' = [began EXCEPT ![s] = 0] /\ answer' = [answer EXCEPT ![s] = a]
  BY DEF Close, Goto
<1>2. KeysTypeOK'
  BY <1>1 DEF KeysIInv, KeysTypeOK
<1>3. LocksExclude'
  BY <1>1 DEF KeysIInv, KeysTypeOK, LocksExclude
<1>4. DraftsAreClaims'
  BY <1>1 DEF KeysIInv, KeysTypeOK, DraftsAreClaims, LastEffect
<1>5. AnswersAreEffects'
  BY <1>1, ZenonT(30) DEF KeysIInv, KeysTypeOK, AnswersAreEffects
<1>6. LiveRowStays'
  BY <1>1 DEF KeysIInv, KeysTypeOK, LiveRowStays
<1>7. ForgottenIsExpired' /\ StoredAnswersLastEffect'
  BY <1>1, DatabaseKept DEF database
<1> QED  BY <1>2, <1>3, <1>4, <1>5, <1>6, <1>7 DEF KeysIInv

LEMMA ThrowKeeps ==
  ASSUME KeysIInv, NEW s \in Session, NEW status \in {"mismatch", "in_flight", "error"},
         Throw(s, status)
  PROVE  KeysIInv'
<1>1. [status |-> status] \in Answer /\ [status |-> status].status # "done"
  BY DEF Answer
<1> QED  BY <1>1, EndKeeps DEF Throw

LEMMA ReadExistingKeeps ==
  ASSUME KeysIInv, NEW s \in Session, ReadExisting(s)
  PROVE  KeysIInv'
<1> DEFINE row == stored[call[s].key]
<1>1. CASE Throw(s, "mismatch") \/ Throw(s, "in_flight")
  BY <1>1, ThrowKeeps
<1>2. CASE /\ row # NoRow /\ SameRequest(row, s) /\ row.response # NoResponse
           /\ Return(s, row.response) /\ UNCHANGED <<stored, effects>>
  <2> DEFINE a == [status |-> "done", result |-> row.response]
             k == call[s].key
  <2>1. k \in Key /\ effects[k] \in Seq(KeyRow) /\ row \in KeyRow
    BY <1>2 DEF KeysIInv, KeysTypeOK, Call
  <2>2. a \in Answer /\ a.status = "done" /\ a.result = row.response
    BY <1>2, <2>1 DEF Answer, KeyRow
  <2>3. effects[k] # <<>> /\ row = effects[k][Len(effects[k])]
    BY <1>2, <2>1 DEF KeysIInv, StoredAnswersLastEffect, LastEffect
  <2>4. Len(effects[k]) \in 1..Len(effects[k])
    BY <2>1, <2>3, EmptySeq
  <2>5. row.request = call[s].request
    BY <1>2 DEF SameRequest
  <2>6. Close(s, a)
    BY <1>2 DEF Return
  <2>7. \E i \in 1..Len(effects[k]) : /\ effects[k][i].request = call[s].request
                                      /\ effects[k][i].response = a.result
    BY <2>2, <2>3, <2>4, <2>5
  <2> HIDE DEF a
  <2> QED  BY <1>2, <2>2, <2>6, <2>7, EndKeeps
<1> QED  BY <1>1, <1>2 DEF ReadExisting

(* The commit puts the drafted row in the table and in the history. *)
LEMMA CommitKeeps ==
  ASSUME KeysIInv, NEW s \in Session, CommitCall(s)
  PROVE  KeysIInv'
<1> DEFINE k == call[s].key
           longer == Append(effects[k], draft[s])
           a == [status |-> "done", result |-> draft[s].response]
<1>1. /\ pc[s] = "commit" /\ stored' = [stored EXCEPT ![k] = draft[s]]
      /\ effects' = [effects EXCEPT ![k] = longer]
      /\ UNCHANGED <<clock, call>> /\ locked' = locked \ {s}
      /\ pc' = [pc EXCEPT ![s] = "idle"] /\ draft' = [draft EXCEPT ![s] = NoRow]
      /\ began' = [began EXCEPT ![s] = 0] /\ answer' = [answer EXCEPT ![s] = a]
  BY DEF CommitCall, Return, Close, Goto
<1>2. /\ k \in Key /\ effects[k] \in Seq(KeyRow) /\ draft[s] \in KeyRow /\ draft[s] # NoRow
      /\ draft[s].response # NoResponse /\ draft[s].request = call[s].request
  BY <1>1 DEF KeysIInv, KeysTypeOK, DraftsAreClaims, Call
<1>3. /\ longer \in Seq(KeyRow) /\ longer # <<>> /\ Len(longer) = Len(effects[k]) + 1
      /\ longer[Len(longer)] = draft[s] /\ Len(effects[k]) \in Nat
      /\ \A i \in 1..Len(effects[k]) : longer[i] = effects[k][i]
  BY <1>2, LenProperties, EmptySeq
<1>4. /\ stored'[k] = draft[s] /\ effects'[k] = longer
      /\ \A j \in Key \ {k} : stored'[j] = stored[j] /\ effects'[j] = effects[j]
  BY <1>1, <1>2 DEF KeysIInv, KeysTypeOK
<1> HIDE DEF longer
<1>5. KeysTypeOK'
  <2>1. a \in Answer
    BY <1>2 DEF Answer, KeyRow
  <2> HIDE DEF a
  <2> QED  BY <1>1, <1>2, <1>3, <2>1 DEF KeysIInv, KeysTypeOK
<1>6. LocksExclude'
  BY <1>1 DEF KeysIInv, KeysTypeOK, LocksExclude
<1>7. ASSUME NEW u \in Session, u # s, pc[u] \in Inside
      PROVE  call[u].key # k
  BY <1>1, <1>7 DEF KeysIInv, LocksExclude, Inside
<1>8. DraftsAreClaims'
  <2> SUFFICES ASSUME NEW u \in Session
      PROVE /\ began'[u] <= clock'
            /\ pc'[u] \in {"command", "store", "commit"} =>
                 /\ draft'[u] # NoRow
                 /\ draft'[u].request = call'[u].request /\ draft'[u].expires = began'[u] + TTL
                 /\ stored'[call'[u].key] # NoRow => stored'[call'[u].key].expires <= clock'
                 /\ effects'[call'[u].key] # <<>> => LastEffect(call[u].key)'.expires <= clock'
            /\ pc'[u] = "commit" => draft'[u].response # NoResponse
    BY <1>1 DEF DraftsAreClaims, LastEffect
  <2>1. CASE u = s
    BY <1>1, <2>1 DEF KeysIInv, KeysTypeOK
  <2>2. CASE u # s /\ pc[u] \in {"command", "store", "commit"}
    <3>1. call[u].key \in Key \ {k}
      BY <1>7, <2>2 DEF Inside, KeysIInv, KeysTypeOK, Call
    <3> QED  BY <1>1, <1>4, <2>2, <3>1 DEF KeysIInv, KeysTypeOK, DraftsAreClaims, LastEffect
  <2>3. CASE u # s /\ pc[u] \notin {"command", "store", "commit"}
    BY <1>1, <2>3 DEF KeysIInv, KeysTypeOK, DraftsAreClaims
  <2> QED  BY <2>1, <2>2, <2>3
<1>9. AnswersAreEffects'
  <2> SUFFICES ASSUME NEW u \in Session, answer'[u].status = "done"
      PROVE \E i \in 1..Len(effects'[call[u].key]) :
              /\ effects'[call[u].key][i].request = call[u].request
              /\ effects'[call[u].key][i].response = answer'[u].result
    BY <1>1 DEF AnswersAreEffects
  <2>1. call[u].key \in Key
    BY DEF KeysIInv, KeysTypeOK, Call
  <2>2. CASE u = s
    <3>1. answer'[u].result = draft[s].response
      BY <1>1, <2>2 DEF KeysIInv, KeysTypeOK
    <3>2. Len(longer) \in 1..Len(longer)
      BY <1>3
    <3> QED  BY <1>2, <1>3, <1>4, <2>2, <3>1, <3>2
  <2>3. CASE u # s
    <3>1. answer'[u] = answer[u]
      BY <1>1, <2>3 DEF KeysIInv, KeysTypeOK
    <3>2. PICK i \in 1..Len(effects[call[u].key]) :
              /\ effects[call[u].key][i].request = call[u].request
              /\ effects[call[u].key][i].response = answer[u].result
      BY <3>1 DEF KeysIInv, AnswersAreEffects
    <3>3. CASE call[u].key = k
      <4>1. i \in 1..Len(longer) /\ longer[i] = effects[k][i]
        BY <1>3, <3>2, <3>3
      <4> QED  BY <1>4, <3>1, <3>2, <3>3, <4>1
    <3>4. CASE call[u].key # k
      BY <1>4, <2>1, <3>1, <3>2, <3>4
    <3> QED  BY <3>3, <3>4
  <2> QED  BY <2>2, <2>3
<1>10. LiveRowStays'
  BY <1>1, <1>2, <1>4 DEF KeysIInv, KeysTypeOK, LiveRowStays, Call
<1>11. ForgottenIsExpired'
  BY <1>1, <1>2, <1>4 DEF KeysIInv, ForgottenIsExpired, LastEffect
<1>12. StoredAnswersLastEffect'
  BY <1>1, <1>2, <1>3, <1>4 DEF KeysIInv, StoredAnswersLastEffect, LastEffect
<1> QED  BY <1>5, <1>6, <1>8, <1>9, <1>10, <1>11, <1>12 DEF KeysIInv

LEMMA PurgeKeeps ==
  ASSUME KeysIInv, NEW k \in Key, Purge(k)
  PROVE  KeysIInv'
<1>1. /\ stored[k] # NoRow /\ stored[k].expires <= clock
      /\ stored' = [stored EXCEPT ![k] = NoRow]
      /\ UNCHANGED <<clock, effects, pc, call, began, locked, draft, answer>>
  BY DEF Purge, Expired
<1>2. stored'[k] = NoRow /\ \A j \in Key \ {k} : stored'[j] = stored[j]
  BY <1>1 DEF KeysIInv, KeysTypeOK
<1>3. KeysTypeOK' /\ LocksExclude'
  BY <1>1 DEF KeysIInv, KeysTypeOK, LocksExclude
<1>4. DraftsAreClaims'
  <2>1. \A u \in Session : call[u].key \in Key
    BY DEF KeysIInv, KeysTypeOK, Call
  <2> QED  BY <1>1, <1>2, <2>1 DEF KeysIInv, DraftsAreClaims, LastEffect
<1>5. ForgottenIsExpired' /\ StoredAnswersLastEffect'
  BY <1>1, <1>2 DEF KeysIInv, ForgottenIsExpired, StoredAnswersLastEffect, LastEffect
<1>6. AnswersAreEffects'
  BY <1>1 DEF KeysIInv, AnswersAreEffects
<1>7. LiveRowStays'
  BY <1>1, <1>2 DEF Purge, HoldsRow, KeysIInv, KeysTypeOK, Call, LiveRowStays
<1> QED  BY <1>3, <1>4, <1>5, <1>6, <1>7 DEF KeysIInv

LEMMA TickKeeps ==
  ASSUME KeysIInv, Tick
  PROVE  KeysIInv'
<1>1. /\ clock' = clock + 1 /\ clock \in Nat
      /\ UNCHANGED <<stored, effects, pc, call, began, locked, draft, answer>>
  BY DEF Tick, KeysIInv, KeysTypeOK
<1>2. \A k \in Key : /\ stored[k] # NoRow => stored[k].expires \in Nat
                     /\ effects[k] # <<>> => LastEffect(k).expires \in Nat
  <2> TAKE k \in Key
  <2>1. stored[k] \in KeyRow \cup {NoRow} /\ effects[k] \in Seq(KeyRow)
    BY DEF KeysIInv, KeysTypeOK
  <2>2. CASE effects[k] # <<>>
    <3>1. Len(effects[k]) \in 1..Len(effects[k])
      BY <2>1, <2>2, EmptySeq
    <3>2. LastEffect(k) \in KeyRow
      BY <2>1, <3>1, ElementOfSeq DEF LastEffect
    <3> QED  BY <2>1, <3>2 DEF KeyRow
  <2> QED  BY <2>1, <2>2 DEF KeyRow
<1>3. KeysTypeOK' /\ LocksExclude' /\ AnswersAreEffects' /\ LiveRowStays' /\ StoredAnswersLastEffect'
  BY <1>1 DEF KeysIInv, KeysTypeOK, LocksExclude, AnswersAreEffects, LiveRowStays,
              StoredAnswersLastEffect, LastEffect
<1>4. ForgottenIsExpired'
  BY <1>1, <1>2 DEF KeysIInv, ForgottenIsExpired, LastEffect
<1>5. DraftsAreClaims'
  <2>1. \A u \in Session : began[u] \in Nat /\ call[u].key \in Key
    BY DEF KeysIInv, KeysTypeOK, Call
  <2> QED  BY <1>1, <1>2, <2>1 DEF KeysIInv, DraftsAreClaims, LastEffect
<1> QED  BY <1>3, <1>4, <1>5 DEF KeysIInv

LEMMA NextKeeps == KeysIInv /\ [NextKeys]_keyVars => KeysIInv'
<1> SUFFICES ASSUME KeysIInv, [NextKeys]_keyVars PROVE KeysIInv'
  OBVIOUS
<1>1. CASE UNCHANGED keyVars
  <2>1. /\ UNCHANGED <<clock, stored, effects, pc, call, began, locked, draft, answer>>
    BY <1>1 DEF keyVars
  <2>2. KeysTypeOK' /\ LocksExclude' /\ DraftsAreClaims' /\ LiveRowStays' /\ AnswersAreEffects'
    BY <2>1 DEF KeysIInv, KeysTypeOK, LocksExclude, DraftsAreClaims, LiveRowStays,
                AnswersAreEffects, LastEffect
  <2> QED  BY <2>1, <2>2, DatabaseKept DEF KeysIInv, database
<1>2. ASSUME NEW s \in Session, Handle(s) PROVE KeysIInv'
  <2>1. CASE RefuseInFlight(s) \/ Fail(s)
    BY <2>1, ThrowKeeps DEF RefuseInFlight, Fail
  <2> QED  BY <1>2, <2>1, BeginCallKeeps, TryLockKeeps, ClaimKeeps, CommandKeeps,
              ReadExistingKeeps, CommitKeeps DEF Handle
<1> QED  BY <1>1, <1>2, PurgeKeeps, TickKeeps DEF NextKeys

(* Every reachable state satisfies the inductive invariant. *)
THEOREM IdempotencyInvariant == SpecKeys => []KeysIInv
  BY InitKeeps, NextKeeps, PTL DEF SpecKeys

(* Only a commit adds an effect, and only where none is still alive. *)
LEMMA EffectStep ==
  ASSUME KeysIInv, [NextKeys]_keyVars, NEW k \in Key, effects'[k] # effects[k]
  PROVE  effects[k] = <<>> \/ LastEffect(k).expires <= clock
<1>1. PICK s \in Session : CommitCall(s)
  BY DEF NextKeys, Handle, keyVars, database, BeginCall, TryLock, RefuseInFlight, Claim, ReadExisting,
         RunCommand, StoreResponse, Fail, Throw, Tick, Purge
<1>2. k = call[s].key
  BY <1>1 DEF CommitCall, KeysIInv, KeysTypeOK
<1>3. pc[s] = "commit"
  BY <1>1 DEF CommitCall
<1> QED  BY <1>2, <1>3 DEF KeysIInv, DraftsAreClaims

(* doc 40 A4 for any number of concurrent calls, retries, crashes and      *)
(* purges: a key has one effect in each of its lifetimes.                  *)
THEOREM OneEffect == SpecKeys => OneEffectPerLifetime
<1>1. KeysIInv /\ [NextKeys]_keyVars =>
        [\A k \in Key : effects'[k] # effects[k] =>
           effects[k] = <<>> \/ LastEffect(k).expires <= clock]_keyVars
  BY EffectStep
<1> QED  BY <1>1, IdempotencyInvariant, PTL DEF SpecKeys, OneEffectPerLifetime

-----------------------------------------------------------------------------
LEMMA StepImplements ==
  ASSUME KeysIInv, [NextKeys]_keyVars
  PROVE  [Once!Next]_<<clock, stored, effects>>
<1>1. ASSUME NEW s \in Session, CommitCall(s)
      PROVE  Once!Next
  <2> DEFINE k == call[s].key
             row == draft[s]
  <2>1. /\ pc[s] = "commit" /\ stored' = [stored EXCEPT ![k] = row]
        /\ effects' = [effects EXCEPT ![k] = Append(@, row)] /\ clock' = clock
    BY <1>1 DEF CommitCall, Return, Close
  <2>2. /\ k \in Key /\ row \in KeyRow /\ row.expires = began[s] + TTL /\ row.response # NoResponse
        /\ stored[k] # NoRow => stored[k].expires <= clock
        /\ began[s] \in 0..clock
    BY <2>1 DEF KeysIInv, KeysTypeOK, DraftsAreClaims, Call
  <2>3. /\ row.request \in Request /\ row.response \in Result
        /\ row = [request |-> row.request, response |-> row.response, expires |-> began[s] + TTL]
    BY <2>2 DEF KeyRow
  <2>4. ~Once!Live(k)
    <3>1. stored[k] # NoRow => stored[k].expires \in Nat
      BY <2>2 DEF KeysIInv, KeysTypeOK, KeyRow
    <3> QED  BY <2>2, <3>1 DEF Once!Live, KeysIInv, KeysTypeOK
  <2> HIDE DEF row, k
  <2>5. Once!Apply(k)
    BY <2>1, <2>2, <2>3, <2>4 DEF Once!Apply
  <2> QED  BY <2>2, <2>5 DEF Once!Next
<1>2. ASSUME NEW k \in Key, Purge(k)
      PROVE  Once!Next
  <2>1. stored[k].expires \in Nat /\ clock \in Nat
    BY <1>2 DEF Purge, KeysIInv, KeysTypeOK, KeyRow
  <2>2. Once!Forget(k)
    BY <1>2, <2>1 DEF Purge, Expired, Once!Forget, Once!Live
  <2> QED  BY <2>2 DEF Once!Next
<1>3. CASE Tick
  BY <1>3 DEF Tick, Once!Next, Once!Pass
<1>4. ASSUME NEW s \in Session, Handle(s), ~CommitCall(s)
      PROVE  UNCHANGED <<clock, stored, effects>>
  BY <1>4 DEF Handle, BeginCall, TryLock, RefuseInFlight, Claim, ReadExisting, RunCommand,
              StoreResponse, Fail, Throw, Return, Close, database
<1>5. CASE UNCHANGED keyVars
  BY <1>5 DEF keyVars
<1> QED  BY <1>1, <1>2, <1>3, <1>4, <1>5 DEF NextKeys

(* A stored or given answer is that of a committed effect, and the last    *)
(* effect of a key with a row is the stored one.                           *)
THEOREM AnswersAndEffectsAgree == SpecKeys => []AnswersMatchEffects
<1>1. KeysIInv => AnswersMatchEffects
  BY DEF KeysIInv, AnswersMatchEffects
<1> QED  BY <1>1, IdempotencyInvariant, PTL

(* withIdempotentContext, with its concurrent steps, implements the atomic *)
(* promise of OnceOnly.                                                    *)
THEOREM Implementation == SpecKeys => ImplementsOnce
<1>1. InitKeys => Once!Init
  BY DEF InitKeys, Once!Init
<1>2. KeysIInv /\ [NextKeys]_keyVars => [Once!Next]_<<clock, stored, effects>>
  BY StepImplements
<1> QED  BY <1>1, <1>2, IdempotencyInvariant, PTL DEF SpecKeys, ImplementsOnce, Once!Spec

-----------------------------------------------------------------------------
(* The composition CommandEvents: each of its parts still does what it     *)
(* does alone, and the rows of the outbox are bound to the effects.        *)

USE DEF Id, relayVars

LEMMA EventsInitKeep == InitEvents => EventsIInv
BY DEF InitEvents, InitKeys, Relay!Init, Relay!Event, EventsIInv, EventsTypeOK, RowsOfCalls, RowsAreEffects,
       RowsHeard, Committed

(* A step that leaves the rows and the effects alone. *)
LEMMA RowsKept ==
  ASSUME EventsIInv, UNCHANGED <<outbox, handled, batch, next, payload, effects>>
  PROVE  RowsAreEffects' /\ RowsHeard'
BY DEF EventsIInv, RowsAreEffects, RowsHeard, Committed, HasEffect

(* A call is not past its command until CommandWrites, and keeps its key. *)
LEMMA AroundKeep ==
  ASSUME KeysIInv, EventsIInv, NEW s \in Session, Around(s)
  PROVE  EventsIInv'
<1>1. UNCHANGED <<relayVars, written, payload, effects>>
  BY DEF Around, BeginCall, TryLock, RefuseInFlight, Claim, ReadExisting, StoreResponse, Throw, Return, database
<1>2. \A t \in Session : pc'[t] \in {"store", "commit"} <=> pc[t] \in {"store", "commit"}
  BY DEF Around, BeginCall, TryLock, RefuseInFlight, Claim, ReadExisting, StoreResponse, Throw, Return, Close,
         Goto, KeysIInv, KeysTypeOK
<1>3. \A t \in Session : pc[t] \in {"store", "commit"} => call'[t] = call[t]
  BY DEF Around, BeginCall, TryLock, RefuseInFlight, Claim, ReadExisting, StoreResponse, Throw, Return, Close,
         KeysIInv, KeysTypeOK
<1>4. EventsTypeOK'
  BY <1>1 DEF EventsIInv, EventsTypeOK
<1>5. RowsOfCalls'
  BY <1>1, <1>2, <1>3 DEF EventsIInv, RowsOfCalls
<1>6. RowsAreEffects' /\ RowsHeard'
  BY <1>1, RowsKept
<1> QED  BY <1>4, <1>5, <1>6 DEF EventsIInv

LEMMA CommandWritesKeep ==
  ASSUME KeysIInv, EventsIInv, NEW s \in Session, CommandWrites(s)
  PROVE  EventsIInv'
<1>1. PICK e \in Id : /\ Relay!Write(e)
                      /\ written' = [written EXCEPT ![s] = e]
                      /\ payload' = [payload EXCEPT ![e] = call[s]]
  BY DEF CommandWrites
<1>2. /\ outbox[e] = "unused" /\ outbox' = [outbox EXCEPT ![e] = "open"]
      /\ UNCHANGED <<handled, batch, next>>
  BY <1>1 DEF Relay!Write, Relay!worker
<1>3. /\ pc[s] = "command" /\ pc' = [pc EXCEPT ![s] = "store"]
      /\ UNCHANGED <<call, effects>>
  BY DEF CommandWrites, RunCommand, Goto, database
<1>4. call[s] \in Call /\ e # 0 /\ written[s] = 0
  <2>1. written[s] = 0
    BY <1>3 DEF EventsIInv, RowsOfCalls
  <2>2. call[s] \in Call
    BY DEF KeysIInv, KeysTypeOK
  <2> QED  BY <2>1, <2>2
<1>5. EventsTypeOK'
  BY <1>1, <1>2, <1>4 DEF EventsIInv, EventsTypeOK
<1>6. RowsOfCalls'
  BY <1>1, <1>2, <1>3, <1>4 DEF EventsIInv, EventsTypeOK, RowsOfCalls, KeysIInv, KeysTypeOK
<1>7. \A f \in Id : /\ Committed(f)' => f # e /\ payload'[f] = payload[f]
                    /\ Committed(f) <=> Committed(f)'
  BY <1>1, <1>2 DEF EventsIInv, EventsTypeOK, Committed
<1>8. RowsAreEffects'
  BY <1>3, <1>7 DEF EventsIInv, RowsAreEffects, HasEffect
<1>9. RowsHeard'
  BY <1>2, <1>7 DEF EventsIInv, EventsTypeOK, RowsHeard
<1> QED  BY <1>5, <1>6, <1>8, <1>9 DEF EventsIInv

(* The row of a call that ends: nobody else's, and open until now. *)
LEMMA RowEndsFacts ==
  ASSUME EventsIInv, NEW s \in Session, NEW end \in {"pending", "aborted"}, written[s] # 0, RowEnds(s, end)
  PROVE  /\ written[s] \in Id /\ outbox[written[s]] = "open"
         /\ outbox' = [outbox EXCEPT ![written[s]] = end]
         /\ written' = [written EXCEPT ![s] = 0]
         /\ UNCHANGED <<handled, batch, next, payload>>
         /\ \A f \in Id : Committed(f) => Committed(f)' /\ f # written[s]
         /\ \A f \in Id : f # written[s] /\ Committed(f)' => Committed(f)
<1>1. written[s] \in Id /\ outbox[written[s]] = "open"
  BY DEF EventsIInv, EventsTypeOK, RowsOfCalls
<1>2. outbox' = [outbox EXCEPT ![written[s]] = end]
  <2>1. PICK last \in {"pending", "aborted"} : outbox' = [outbox EXCEPT ![written[s]] = last]
    BY DEF RowEnds, Relay!EndTransaction
  <2>2. outbox'[written[s]] = last /\ outbox'[written[s]] = end
    BY <1>1, <2>1 DEF RowEnds, EventsIInv, EventsTypeOK
  <2> QED  BY <2>1, <2>2
<1>3. UNCHANGED <<handled, batch, next, payload>> /\ written' = [written EXCEPT ![s] = 0]
  BY DEF RowEnds, Relay!EndTransaction, Relay!worker
<1>4. \A f \in Id : f # written[s] => outbox'[f] = outbox[f]
  BY <1>1, <1>2 DEF EventsIInv, EventsTypeOK
<1> QED  BY <1>1, <1>2, <1>3, <1>4 DEF Committed

(* What the ending leaves of the calls' rows. *)
LEMMA RowsOfCallsKept ==
  ASSUME KeysIInv, EventsIInv, NEW s \in Session, NEW end \in {"pending", "aborted"},
         written[s] # 0, RowEnds(s, end), pc' = [pc EXCEPT ![s] = "idle"], UNCHANGED call
  PROVE  EventsTypeOK' /\ RowsOfCalls'
<1>0. /\ outbox' = [outbox EXCEPT ![written[s]] = end]
      /\ written' = [written EXCEPT ![s] = 0]
      /\ UNCHANGED <<handled, batch, next, payload>>
  BY RowEndsFacts
<1>1. EventsTypeOK'
  BY <1>0 DEF EventsIInv, EventsTypeOK
<1>2. \A t \in Session : t # s /\ written[t] # 0 => outbox'[written[t]] = outbox[written[t]]
  <2>1. \A t \in Session : t # s /\ written[t] # 0 => written[t] # written[s]
    BY DEF EventsIInv, RowsOfCalls
  <2>2. \A t \in Session : written[t] # 0 => written[t] \in Id
    BY DEF EventsIInv, EventsTypeOK
  <2> QED  BY <1>0, <2>1, <2>2 DEF EventsIInv, EventsTypeOK
<1>3. \A t \in Session : written'[t] = IF t = s THEN 0 ELSE written[t]
  BY <1>0 DEF EventsIInv, EventsTypeOK
<1>4. \A t \in Session : pc'[t] = IF t = s THEN "idle" ELSE pc[t]
  BY DEF KeysIInv, KeysTypeOK
<1>5. payload' = payload /\ call' = call
  BY RowEndsFacts
<1>6. RowsOfCalls'
  BY <1>2, <1>3, <1>4, <1>5 DEF EventsIInv, RowsOfCalls
<1> QED  BY <1>1, <1>6

LEMMA EffectCommitsKeep ==
  ASSUME KeysIInv, EventsIInv, NEW s \in Session, EffectCommits(s)
  PROVE  EventsIInv'
<1> DEFINE k == call[s].key
<1>1. /\ pc[s] = "commit" /\ pc' = [pc EXCEPT ![s] = "idle"] /\ UNCHANGED call
      /\ effects' = [effects EXCEPT ![k] = Append(@, draft[s])]
      /\ RowEnds(s, "pending")
  BY DEF EffectCommits, CommitCall, Return, Close, Goto
<1>2. written[s] # 0
  BY <1>1 DEF EventsIInv, RowsOfCalls
<1>3. EventsTypeOK' /\ RowsOfCalls'
  BY <1>1, <1>2, RowsOfCallsKept
<1>4. /\ k \in Key /\ effects \in [Key -> Seq(KeyRow)] /\ draft[s] \in KeyRow
      /\ draft[s].request = call[s].request /\ call[s] \in Call
  BY <1>1 DEF KeysIInv, KeysTypeOK, DraftsAreClaims, Call
<1>5. /\ effects'[k] = Append(effects[k], draft[s])
      /\ \A j \in Key : j # k => effects'[j] = effects[j]
  BY <1>1, <1>4
<1>6. /\ Len(effects'[k]) = Len(effects[k]) + 1 /\ Len(effects[k]) \in Nat
      /\ effects'[k][Len(effects[k]) + 1] = draft[s]
      /\ \A i \in 1..Len(effects[k]) : effects'[k][i] = effects[k][i]
  BY <1>4, <1>5, AppendProperties, LenProperties
<1> HIDE DEF k
<1>7. ASSUME NEW f \in Id, Committed(f)'
      PROVE  payload'[f] \in Call /\ HasEffect(f)'
  <2>1. CASE f = written[s]
    <3>1. payload'[f] = call[s]
      BY <1>1, <1>2, <2>1, RowEndsFacts DEF EventsIInv, RowsOfCalls
    <3>2. Len(effects[k]) + 1 \in 1..Len(effects'[k])
      BY <1>6
    <3>3. effects'[payload'[f].key][Len(effects[k]) + 1].request = payload'[f].request
      BY <1>4, <1>6, <3>1 DEF k
    <3>4. Len(effects[k]) + 1 \in 1..Len(effects'[payload'[f].key])
      BY <3>1, <3>2 DEF k
    <3> QED  BY <1>4, <3>1, <3>3, <3>4 DEF HasEffect
  <2>2. CASE f # written[s]
    <3>1. Committed(f) /\ payload'[f] = payload[f]
      BY <1>1, <1>2, <1>7, <2>2, RowEndsFacts
    <3>2. payload[f] \in Call /\ HasEffect(f)
      BY <3>1 DEF EventsIInv, RowsAreEffects
    <3>3. payload[f].key \in Key
      BY <3>2 DEF Call
    <3>4. PICK i \in 1..Len(effects[payload[f].key]) : effects[payload[f].key][i].request = payload[f].request
      BY <3>2 DEF HasEffect
    <3>5. /\ i \in 1..Len(effects'[payload[f].key])
          /\ effects'[payload[f].key][i] = effects[payload[f].key][i]
      <4>1. CASE payload[f].key = k
        BY <4>1, <3>4, <1>6
      <4>2. CASE payload[f].key # k
        BY <4>2, <3>3, <3>4, <1>5
      <4> QED  BY <4>1, <4>2
    <3> QED  BY <3>1, <3>2, <3>4, <3>5 DEF HasEffect
  <2> QED  BY <2>1, <2>2
<1>8. RowsAreEffects'
  BY <1>7 DEF RowsAreEffects
<1>9. RowsHeard'
  BY <1>1, <1>2, RowEndsFacts DEF EventsIInv, EventsTypeOK, RowsHeard
<1> QED  BY <1>3, <1>8, <1>9 DEF EventsIInv

LEMMA CallFailsKeep ==
  ASSUME KeysIInv, EventsIInv, NEW s \in Session, CallFails(s)
  PROVE  EventsIInv'
<1>1. pc' = [pc EXCEPT ![s] = "idle"] /\ UNCHANGED <<call, effects>>
  BY DEF CallFails, Fail, Throw, Close, Goto
<1>2. CASE written[s] = 0
  <2>1. UNCHANGED <<relayVars, written, payload>>
    BY <1>2 DEF CallFails
  <2>2. EventsTypeOK' /\ RowsAreEffects' /\ RowsHeard'
    BY <1>1, <2>1, RowsKept DEF EventsIInv, EventsTypeOK
  <2>3. RowsOfCalls'
    BY <1>1, <1>2, <2>1 DEF EventsIInv, RowsOfCalls, KeysIInv, KeysTypeOK
  <2> QED  BY <2>2, <2>3 DEF EventsIInv
<1>3. CASE written[s] # 0
  <2>1. RowEnds(s, "aborted")
    BY <1>3 DEF CallFails
  <2>2. EventsTypeOK' /\ RowsOfCalls'
    BY <1>1, <1>3, <2>1, RowsOfCallsKept
  <2>3. \A f \in Id : Committed(f)' <=> Committed(f)
    <3>1. outbox' = [outbox EXCEPT ![written[s]] = "aborted"] /\ outbox[written[s]] = "open"
      BY <1>3, <2>1, RowEndsFacts
    <3> QED  BY <3>1 DEF Committed, EventsIInv, EventsTypeOK
  <2>4. UNCHANGED <<handled, batch, payload>>
    BY <1>3, <2>1, RowEndsFacts
  <2>5. RowsAreEffects'
    BY <1>1, <2>3, <2>4 DEF EventsIInv, RowsAreEffects, HasEffect
  <2>6. RowsHeard'
    BY <2>3, <2>4 DEF EventsIInv, EventsTypeOK, RowsHeard
  <2> QED  BY <2>2, <2>5, <2>6 DEF EventsIInv
<1> QED  BY <1>2, <1>3

LEMMA KeysAgeKeep ==
  ASSUME KeysIInv, EventsIInv, KeysAge
  PROVE  EventsIInv'
<1>1. UNCHANGED <<relayVars, written, payload, effects, pc, call>>
  BY DEF KeysAge, Tick, Purge
<1>2. EventsTypeOK' /\ RowsOfCalls'
  BY <1>1 DEF EventsIInv, EventsTypeOK, RowsOfCalls
<1> QED  BY <1>1, <1>2, RowsKept DEF EventsIInv

(* The relay takes and hands out committed rows, and only it publishes. *)
LEMMA RelayKeeps ==
  ASSUME KeysIInv, EventsIInv, NEW w \in RelayProcess, RelayTick(w) \/ RelayRestart(w) \/ RelayFault(w)
  PROVE  EventsIInv'
<1> USE DEF Relay!Event
<1>1. UNCHANGED <<keyVars, written, payload>>
  BY DEF RelayTick, RelayRestart, RelayFault
<1>2. /\ outbox' \in [Id -> {"unused", "open", "aborted", "pending", "published"}]
      /\ \A f \in Id : Committed(f)' <=> Committed(f)
      /\ \A f \in Id : ~Committed(f) => outbox'[f] = outbox[f]
      /\ handled' \in [Id -> SUBSET Nat]
      /\ batch' \in [RelayProcess -> SUBSET Id]
      /\ next' \in [RelayProcess -> Nat]
      /\ \A f \in Id : handled'[f] # {} => Committed(f)
      /\ \A v \in RelayProcess : \A f \in batch'[v] : Committed(f)
  <2> USE DEF EventsIInv, EventsTypeOK, RowsHeard, Committed
  <2>1. CASE Relay!SelectBatch(w)
    <3>1. \A f \in Relay!FirstPending(Limit) : f \in Id /\ Committed(f)
      BY DEF Relay!FirstPending, Relay!Pending
    <3>2. UNCHANGED <<outbox, handled>>
      BY <2>1 DEF Relay!SelectBatch
    <3>3. /\ batch' = batch \/ batch' = [batch EXCEPT ![w] = Relay!FirstPending(Limit)]
          /\ next' = next \/ next' = [next EXCEPT ![w] = 1]
      BY <2>1 DEF Relay!SelectBatch
    <3>4. batch' \in [RelayProcess -> SUBSET Id]
      BY <3>1, <3>3
    <3>5. next' \in [RelayProcess -> Nat]
      BY <3>3
    <3>6. ASSUME NEW v \in RelayProcess, NEW f \in batch'[v]
          PROVE  Committed(f)
      <4>1. f \in batch[v] \/ f \in Relay!FirstPending(Limit)
        BY <3>3
      <4> QED  BY <3>1, <4>1
    <3>7. \A f \in Id : handled[f] # {} => Committed(f)
      OBVIOUS
    <3> QED  BY <3>2, <3>4, <3>5, <3>6, <3>7
  <2>2. CASE Relay!Wake(w) \/ Relay!Restart(w) \/ Relay!Stop(w)
    BY <2>2 DEF Relay!Wake, Relay!Restart, Relay!Stop, Relay!Goto
  <2>3. CASE Relay!Exit(w) \/ Relay!Crash(w) \/ Relay!QueryFails(w)
    BY <2>3 DEF Relay!Exit, Relay!Crash, Relay!Shut, Relay!QueryFails, Relay!Goto
  <2>4. ASSUME NEW e \in Id, Relay!Deliver(w, e)
        PROVE  <1>2!:
    <3>1. /\ e \in batch[w] /\ UNCHANGED <<outbox, batch>>
          /\ handled' = [handled EXCEPT ![e] = @ \cup {next[w]}]
          /\ next' = [next EXCEPT ![w] = @ + 1]
      BY <2>4 DEF Relay!Deliver, Relay!IsCurrent
    <3> QED  BY <3>1
  <2>5. ASSUME NEW e \in Id, Relay!HandlerThrows(w, e)
        PROVE  <1>2!:
    BY <2>5 DEF Relay!HandlerThrows, Relay!Goto
  <2>6. ASSUME NEW e \in Id, Relay!MarkPublished(w, e)
        PROVE  <1>2!:
    <3>1. /\ e \in batch[w] /\ outbox' = [outbox EXCEPT ![e] = "published"]
          /\ batch' = [batch EXCEPT ![w] = @ \ {e}]
          /\ next' = [next EXCEPT ![w] = 1] /\ UNCHANGED handled
      BY <2>6 DEF Relay!MarkPublished, Relay!IsCurrent, Relay!NextRow
    <3> QED  BY <3>1
  <2>7. ASSUME NEW e \in Id, Relay!RecordFailure(w, e)
        PROVE  <1>2!:
    BY <2>7 DEF Relay!RecordFailure, Relay!NextRow, Relay!Goto
  <2> QED  BY <2>1, <2>2, <2>3, <2>4, <2>5, <2>6, <2>7 DEF RelayTick, RelayRestart, RelayFault, Relay!Tick
<1>3. UNCHANGED <<pc, call, effects, payload, written>>
  BY <1>1 DEF keyVars
<1>4. EventsTypeOK'
  BY <1>2, <1>3 DEF EventsIInv, EventsTypeOK
<1>5. RowsOfCalls'
  <2>1. \A s \in Session : written[s] # 0 => outbox'[written[s]] = "open"
    <3>1. \A s \in Session : written[s] # 0 => written[s] \in Id /\ outbox[written[s]] = "open"
      BY DEF EventsIInv, EventsTypeOK, RowsOfCalls
    <3>2. \A f \in Id : outbox[f] = "open" => outbox'[f] = "open"
      BY <1>2 DEF Committed
    <3> QED  BY <3>1, <3>2
  <2> QED  BY <1>3, <2>1 DEF EventsIInv, RowsOfCalls
<1>6. RowsAreEffects'
  BY <1>2, <1>3 DEF EventsIInv, RowsAreEffects, HasEffect
<1>7. RowsHeard'
  BY <1>2 DEF RowsHeard
<1> QED  BY <1>4, <1>5, <1>6, <1>7 DEF EventsIInv

(* A step of the composition is a step of the keys alone, or none. *)
LEMMA EventsStepKeys ==
  ASSUME [NextEvents]_eventVars
  PROVE  [NextKeys]_keyVars
BY DEF NextEvents, eventVars, Around, CommandWrites, EffectCommits, CallFails, KeysAge, RelayTick, RelayRestart,
       RelayFault, NextKeys, Handle

LEMMA EventsStepKeeps ==
  ASSUME KeysIInv, EventsIInv, [NextEvents]_eventVars
  PROVE  EventsIInv'
<1>1. CASE UNCHANGED eventVars
  <2>1. UNCHANGED <<relayVars, written, payload, effects, pc, call>>
    BY <1>1 DEF eventVars, keyVars
  <2>2. EventsTypeOK' /\ RowsOfCalls'
    BY <2>1 DEF EventsIInv, EventsTypeOK, RowsOfCalls
  <2> QED  BY <2>1, <2>2, RowsKept DEF EventsIInv
<1> QED  BY <1>1, AroundKeep, CommandWritesKeep, EffectCommitsKeep, CallFailsKeep, KeysAgeKeep, RelayKeeps
         DEF NextEvents

(* A step of the composition is a step of the relay alone, or none: the    *)
(* commands are the transactions it knows nothing of.                      *)
LEMMA EventsStepRelay ==
  ASSUME EventsIInv, [NextEvents]_eventVars
  PROVE  [Relay!Next]_relayVars
<1> USE DEF Relay!Event
<1>1. CASE UNCHANGED relayVars
  BY <1>1
<1>2. ASSUME NEW s \in Session, CommandWrites(s)
      PROVE  Relay!Next
  BY <1>2 DEF CommandWrites, Relay!Next
<1>3. ASSUME NEW s \in Session, EffectCommits(s)
      PROVE  Relay!Next
  <2>1. written[s] \in Id
    BY <1>3 DEF EffectCommits, CommitCall, EventsIInv, EventsTypeOK, RowsOfCalls
  <2> QED  BY <1>3, <2>1 DEF EffectCommits, RowEnds, Relay!Next
<1>4. ASSUME NEW s \in Session, CallFails(s), written[s] # 0
      PROVE  Relay!Next
  <2>1. written[s] \in Id
    BY <1>4 DEF EventsIInv, EventsTypeOK
  <2> QED  BY <1>4, <2>1 DEF CallFails, RowEnds, Relay!Next
<1>5. ASSUME NEW w \in RelayProcess, RelayTick(w) \/ RelayRestart(w) \/ RelayFault(w)
      PROVE  Relay!Next
  BY <1>5 DEF RelayTick, RelayRestart, RelayFault, Relay!Next
<1> QED  BY <1>1, <1>2, <1>3, <1>4, <1>5 DEF NextEvents, eventVars, Around, CallFails, KeysAge

(* The handler keeps its promises next to the relay: every theorem about   *)
(* SpecKeys holds of the composition.                                      *)
THEOREM CommandsAreKeys == SpecEvents => SpecKeys
<1>1. InitEvents => InitKeys
  BY DEF InitEvents
<1>2. [NextEvents]_eventVars => [NextKeys]_keyVars
  BY EventsStepKeys
<1> QED  BY <1>1, <1>2, PTL DEF SpecEvents, SpecKeys

(* Every reachable state of the composition satisfies its invariant. *)
THEOREM EventsInvariant == SpecEvents => []EventsIInv
<1>1. SpecEvents => []KeysIInv
  BY CommandsAreKeys, IdempotencyInvariant, PTL
<1>2. InitEvents => EventsIInv
  BY EventsInitKeep
<1>3. KeysIInv /\ EventsIInv /\ [NextEvents]_eventVars => EventsIInv'
  BY EventsStepKeeps
<1> QED  BY <1>1, <1>2, <1>3, PTL DEF SpecEvents

(* To the relay the commands are the transactions OutboxRelay assumes: the *)
(* rows appear, commit and go as it says, whatever the keys do.            *)
THEOREM CommandsDriveRelay == SpecEvents => Relay!Spec
<1>1. InitEvents => Relay!Init
  BY DEF InitEvents
<1>2. EventsIInv /\ [NextEvents]_eventVars => [Relay!Next]_Relay!vars
  BY EventsStepRelay DEF Relay!vars
<1> QED  BY <1>1, <1>2, EventsInvariant, PTL DEF SpecEvents, Relay!Spec

(* For any number of callers, keys, relays and faults: what a subscriber   *)
(* hears of has happened, with the key and the request it speaks of.       *)
THEOREM HeardHasHappened == SpecEvents => []HeardIsEffect
<1>1. EventsIInv => HeardIsEffect
  BY DEF EventsIInv, RowsHeard, RowsAreEffects, HeardIsEffect
<1> QED  BY <1>1, EventsInvariant, PTL

-----------------------------------------------------------------------------
(* The rows of a key follow its effects.                                  *)

HIDE DEF Id

(* Ids are drawn in their order, so the row of an open transaction is      *)
(* later than all that its key has committed, and nobody commits another   *)
(* row of the key before it: with this the rows follow the effects.        *)
DrawnInOrder == \A e, f \in Id : outbox[e] # "unused" /\ f < e => outbox[f] # "unused"
OpenIsLast ==
  \A s \in Session : written[s] # 0 => \A e \in CommittedOf(call[s].key) : e < written[s]
OrderInv == DrawnInOrder /\ OpenIsLast /\ EventsFollowEffects

LEMMA RowsAreFinite ==
  ASSUME NEW k
  PROVE  /\ IsFiniteSet(CommittedOf(k)) /\ Cardinality(CommittedOf(k)) \in Nat
         /\ \A e \in Id : IsFiniteSet({f \in CommittedOf(k) : f <= e})
<1>1. IsFiniteSet(1..MaxEvents)
  BY EventConstants, FS_Interval
<1>2. CommittedOf(k) \subseteq 1..MaxEvents
  BY DEF CommittedOf, Id
<1>3. IsFiniteSet(CommittedOf(k)) /\ Cardinality(CommittedOf(k)) \in Nat
  BY <1>1, <1>2, FS_Subset, FS_CardinalityType
<1>4. \A e \in Id : {f \in CommittedOf(k) : f <= e} \subseteq CommittedOf(k)
  OBVIOUS
<1> QED  BY <1>3, <1>4, FS_Subset

LEMMA InitOrder == InitEvents => OrderInv
<1> SUFFICES ASSUME InitEvents PROVE OrderInv
  OBVIOUS
<1>1. \A k : CommittedOf(k) = {}
  BY DEF InitEvents, Relay!Init, Relay!Event, CommittedOf, Committed, Id
<1>2. DrawnInOrder /\ OpenIsLast
  BY DEF InitEvents, Relay!Init, Relay!Event, DrawnInOrder, OpenIsLast, Id
<1>3. \A k \in Key : Len(effects[k]) = 0
  BY DEF InitEvents, InitKeys
<1>4. EventsFollowEffects
  BY <1>1, <1>3, FS_EmptySet DEF EventsFollowEffects
<1> QED  BY <1>2, <1>4 DEF OrderInv

(* A step that commits no row.                                             *)
LEMMA OrderKept ==
  ASSUME OrderInv, UNCHANGED effects, \A k \in Key : CommittedOf(k)' = CommittedOf(k),
         \A e \in Id : Committed(e) => payload'[e] = payload[e]
  PROVE  EventsFollowEffects'
<1>1. ASSUME NEW k \in Key
      PROVE  /\ Cardinality(CommittedOf(k)') = Len(effects'[k])
             /\ \A e \in CommittedOf(k)' : payload'[e].request = effects'[k][NumberOf(e, k)'].request
  <2>1. \A e : NumberOf(e, k)' = NumberOf(e, k)
    BY DEF NumberOf
  <2>2. \A e \in CommittedOf(k) : payload'[e] = payload[e]
    BY DEF CommittedOf
  <2> QED  BY <2>1, <2>2 DEF OrderInv, EventsFollowEffects
<1> QED  BY <1>1 DEF EventsFollowEffects

(* Two transactions past their commands have different keys.               *)
LEMMA OneRowOfAKey ==
  ASSUME KeysIInv, EventsIInv, NEW s \in Session, NEW t \in Session, written[s] # 0, written[t] # 0,
         call[s].key = call[t].key
  PROVE  s = t
<1>1. pc[s] \in {"store", "commit"} /\ pc[t] \in {"store", "commit"}
  BY DEF EventsIInv, RowsOfCalls
<1>2. s \in locked /\ t \in locked
  BY <1>1 DEF KeysIInv, LocksExclude
<1> QED  BY <1>2 DEF KeysIInv, LocksExclude

LEMMA CommandWritesOrder ==
  ASSUME KeysIInv, EventsIInv, OrderInv, NEW s \in Session, CommandWrites(s)
  PROVE  OrderInv'
<1>1. PICK e \in Id : /\ Relay!Write(e)
                      /\ written' = [written EXCEPT ![s] = e]
                      /\ payload' = [payload EXCEPT ![e] = call[s]]
  BY DEF CommandWrites
<1>2. /\ outbox[e] = "unused" /\ outbox' = [outbox EXCEPT ![e] = "open"]
      /\ \A f \in Id : f < e => outbox[f] # "unused"
  BY <1>1 DEF Relay!Write, Relay!Event, Id
<1>3. UNCHANGED <<call, effects>>
  BY DEF CommandWrites, RunCommand, Goto, database
<1>4. \A f \in Id : f # e => outbox'[f] = outbox[f] /\ payload'[f] = payload[f]
  BY <1>1, <1>2 DEF EventsIInv, EventsTypeOK
<1>5. outbox'[e] = "open"
  BY <1>2 DEF EventsIInv, EventsTypeOK
<1>6. \A k : CommittedOf(k)' = CommittedOf(k)
  BY <1>2, <1>4, <1>5 DEF CommittedOf, Committed
<1>7. DrawnInOrder'
  BY <1>2, <1>4, <1>5 DEF OrderInv, DrawnInOrder
<1>8. ASSUME NEW f \in Id, outbox[f] # "unused"
      PROVE  f < e
  BY <1>2, <1>8, EventConstants DEF OrderInv, DrawnInOrder, Id
<1>9. OpenIsLast'
  <2>1. \A k : \A f \in CommittedOf(k) : f < e
    BY <1>8 DEF CommittedOf, Committed
  <2>2. \A t \in Session : written'[t] = IF t = s THEN e ELSE written[t]
    BY <1>1 DEF EventsIInv, EventsTypeOK
  <2>3. SUFFICES ASSUME NEW t \in Session, written'[t] # 0, NEW f \in CommittedOf(call[t].key)
                 PROVE  f < written'[t]
    BY <1>3, <1>6 DEF OpenIsLast
  <2>4. CASE t = s
    BY <2>1, <2>2, <2>4
  <2>5. CASE t # s
    BY <2>2, <2>3, <2>5 DEF OrderInv, OpenIsLast
  <2> QED  BY <2>4, <2>5
<1>10. EventsFollowEffects'
  <2>1. \A f \in Id : Committed(f) => payload'[f] = payload[f]
    BY <1>2, <1>4 DEF Committed
  <2> QED  BY <1>3, <1>6, <2>1, OrderKept
<1> QED  BY <1>7, <1>9, <1>10 DEF OrderInv

(* The commit makes the row of the call the last of its key.               *)
LEMMA EffectCommitsOrder ==
  ASSUME KeysIInv, EventsIInv, OrderInv, NEW s \in Session, EffectCommits(s)
  PROVE  OrderInv'
<1>0. PICK k \in {call[s].key}, e \in {written[s]} : k = call[s].key /\ e = written[s]
  OBVIOUS
<1>1. /\ pc[s] = "commit" /\ UNCHANGED call
      /\ effects' = [effects EXCEPT ![k] = Append(@, draft[s])]
      /\ RowEnds(s, "pending")
  BY <1>0 DEF EffectCommits, CommitCall, Return, Close, Goto
<1>2. e # 0
  BY <1>0, <1>1 DEF EventsIInv, RowsOfCalls
<1>3. /\ e \in Id /\ outbox[e] = "open" /\ outbox' = [outbox EXCEPT ![e] = "pending"]
      /\ written' = [written EXCEPT ![s] = 0] /\ UNCHANGED payload
  BY <1>0, <1>1, <1>2, RowEndsFacts
<1>4. payload[e] = call[s] /\ call[s] \in Call /\ k \in Key
  BY <1>0, <1>2 DEF EventsIInv, RowsOfCalls, KeysIInv, KeysTypeOK, Call
<1>5. outbox'[e] = "pending" /\ \A f \in Id : f # e => outbox'[f] = outbox[f]
  BY <1>3 DEF EventsIInv, EventsTypeOK
<1>6. CommittedOf(k)' = CommittedOf(k) \cup {e}
  BY <1>0, <1>3, <1>4, <1>5, EventConstants DEF CommittedOf, Committed
<1>7. \A j \in Key \ {k} : CommittedOf(j)' = CommittedOf(j)
  BY <1>0, <1>3, <1>4, <1>5 DEF CommittedOf, Committed
<1>8. \A f \in CommittedOf(k) : f < e /\ f \in Int
  BY <1>0, <1>2, EventConstants DEF OrderInv, OpenIsLast, CommittedOf, Id
<1>9. DrawnInOrder'
  BY <1>3, <1>5 DEF OrderInv, DrawnInOrder
<1>10. OpenIsLast'
  <2>1. \A t \in Session : written'[t] = IF t = s THEN 0 ELSE written[t]
    BY <1>3 DEF EventsIInv, EventsTypeOK
  <2>2. ASSUME NEW t \in Session \ {s}, written[t] # 0, NEW j, j = call[t].key
        PROVE  \A f \in CommittedOf(j)' : f < written[t]
    <3>1. j \in Key \ {k}
      BY <1>0, <1>2, <2>2, OneRowOfAKey DEF KeysIInv, KeysTypeOK, Call
    <3> QED  BY <1>7, <2>2, <3>1 DEF OrderInv, OpenIsLast
  <2> QED  BY <1>1, <2>1, <2>2 DEF OpenIsLast
<1>11. /\ effects[k] \in Seq(KeyRow) /\ draft[s] \in KeyRow /\ draft[s].request = call[s].request
       /\ effects'[k] = Append(effects[k], draft[s])
       /\ \A j \in Key \ {k} : effects'[j] = effects[j]
  BY <1>1, <1>4 DEF KeysIInv, KeysTypeOK, DraftsAreClaims
<1>12. /\ Len(effects'[k]) = Len(effects[k]) + 1 /\ Len(effects[k]) \in Nat
       /\ effects'[k][Len(effects[k]) + 1] = draft[s]
       /\ \A i \in 1..Len(effects[k]) : effects'[k][i] = effects[k][i]
  BY <1>11, AppendProperties, LenProperties
<1>13. /\ Cardinality(CommittedOf(k)) = Len(effects[k]) /\ IsFiniteSet(CommittedOf(k))
       /\ \A f \in CommittedOf(k) : payload[f].request = effects[k][NumberOf(f, k)].request
  BY <1>4, RowsAreFinite DEF OrderInv, EventsFollowEffects
<1>14. e \notin CommittedOf(k) /\ e \in Int
  BY <1>3, <1>8, EventConstants DEF Id
<1>15. Cardinality(CommittedOf(k)') = Len(effects'[k])
  <2>1. Cardinality(CommittedOf(k) \cup {e}) = Cardinality(CommittedOf(k)) + 1
    BY <1>13, <1>14, FS_AddElement
  <2> QED  BY <1>6, <1>12, <1>13, <2>1
<1>16. ASSUME NEW f \in CommittedOf(k)
       PROVE  payload'[f].request = effects'[k][NumberOf(f, k)'].request
  <2>1. {g \in CommittedOf(k)' : g <= f} = {g \in CommittedOf(k) : g <= f}
    BY <1>6, <1>8, <1>14
  <2>2. NumberOf(f, k)' = NumberOf(f, k)
    BY <2>1 DEF NumberOf
  <2>3. NumberOf(f, k) \in 1..Len(effects[k])
    <3> DEFINE upTo == {g \in CommittedOf(k) : g <= f}
    <3>1. upTo \subseteq CommittedOf(k) /\ f \in upTo
      BY <1>8
    <3>2. IsFiniteSet(upTo) /\ Cardinality(upTo) <= Cardinality(CommittedOf(k)) /\ Cardinality(upTo) \in Nat
      BY <1>13, <3>1, FS_Subset, FS_CardinalityType
    <3>3. Cardinality(upTo) # 0
      BY <3>1, <3>2, FS_EmptySet
    <3> QED  BY <1>12, <1>13, <3>2, <3>3 DEF NumberOf
  <2> QED  BY <1>3, <1>12, <1>13, <2>2, <2>3
<1>17. payload'[e].request = effects'[k][NumberOf(e, k)'].request
  <2>1. {g \in CommittedOf(k)' : g <= e} = CommittedOf(k)'
    BY <1>3, <1>6, <1>8, <1>14
  <2>2. NumberOf(e, k)' = Len(effects[k]) + 1
    <3>1. NumberOf(e, k)' = Cardinality(CommittedOf(k)')
      BY <2>1 DEF NumberOf
    <3> QED  BY <1>12, <1>15, <3>1
  <2> QED  BY <1>3, <1>4, <1>11, <1>12, <2>2
<1>18. ASSUME NEW j \in Key
       PROVE  /\ Cardinality(CommittedOf(j)') = Len(effects'[j])
              /\ \A f \in CommittedOf(j)' : payload'[f].request = effects'[j][NumberOf(f, j)'].request
  <2>1. CASE j = k
    <3>1. \A f \in CommittedOf(k)' : payload'[f].request = effects'[k][NumberOf(f, k)'].request
      BY <1>6, <1>16, <1>17
    <3> QED  BY <1>15, <2>1, <3>1
  <2>2. CASE j # k
    <3>1. CommittedOf(j)' = CommittedOf(j) /\ effects'[j] = effects[j]
      BY <1>7, <1>11, <2>2
    <3>2. \A f : NumberOf(f, j)' = NumberOf(f, j)
      BY <3>1 DEF NumberOf
    <3> QED  BY <1>3, <3>1, <3>2 DEF OrderInv, EventsFollowEffects
  <2> QED  BY <2>1, <2>2
<1>19. EventsFollowEffects'
  BY <1>18 DEF EventsFollowEffects
<1> QED  BY <1>9, <1>10, <1>19 DEF OrderInv

(* The rows stay what they are, or go from open to aborted, or from        *)
(* pending to published.                                                   *)
LEMMA OthersOrder ==
  ASSUME KeysIInv, EventsIInv, OrderInv, UNCHANGED <<effects, payload>>,
         \A f \in Id : /\ Committed(f)' <=> Committed(f)
                       /\ outbox[f] = "unused" <=> outbox'[f] = "unused",
         \A t \in Session : written'[t] # 0 => written'[t] = written[t] /\ call'[t] = call[t]
  PROVE  OrderInv'
<1>1. \A k : CommittedOf(k)' = CommittedOf(k)
  BY DEF CommittedOf
<1>2. DrawnInOrder'
  BY DEF OrderInv, DrawnInOrder
<1>3. OpenIsLast'
  BY <1>1 DEF OrderInv, OpenIsLast
<1>4. EventsFollowEffects'
  BY <1>1, OrderKept
<1> QED  BY <1>2, <1>3, <1>4 DEF OrderInv

LEMMA AroundOrder ==
  ASSUME KeysIInv, EventsIInv, OrderInv, NEW s \in Session, Around(s)
  PROVE  OrderInv'
<1>1. UNCHANGED <<relayVars, written, payload, effects>>
  BY DEF Around, BeginCall, TryLock, RefuseInFlight, Claim, ReadExisting, StoreResponse, Throw, Return, database
<1>2. \A t \in Session : pc[t] \in {"store", "commit"} => call'[t] = call[t]
  BY DEF Around, BeginCall, TryLock, RefuseInFlight, Claim, ReadExisting, StoreResponse, Throw, Return, Close,
         KeysIInv, KeysTypeOK
<1>3. \A t \in Session : written[t] # 0 => call'[t] = call[t]
  BY <1>2 DEF EventsIInv, RowsOfCalls
<1>4. \A f \in Id : Committed(f)' <=> Committed(f)
  BY <1>1 DEF Committed
<1> QED  BY <1>1, <1>3, <1>4, OthersOrder

LEMMA CallFailsOrder ==
  ASSUME KeysIInv, EventsIInv, OrderInv, NEW s \in Session, CallFails(s)
  PROVE  OrderInv'
<1>1. UNCHANGED <<call, effects>>
  BY DEF CallFails, Fail, Throw, Close, Goto
<1>2. CASE written[s] = 0
  <2>1. UNCHANGED <<relayVars, written, payload>>
    BY <1>2 DEF CallFails
  <2>2. \A f \in Id : Committed(f)' <=> Committed(f)
    BY <2>1 DEF Committed
  <2> QED  BY <1>1, <2>1, <2>2, OthersOrder
<1>3. CASE written[s] # 0
  <2>1. RowEnds(s, "aborted")
    BY <1>3 DEF CallFails
  <2>2. /\ outbox' = [outbox EXCEPT ![written[s]] = "aborted"] /\ outbox[written[s]] = "open"
        /\ written' = [written EXCEPT ![s] = 0] /\ UNCHANGED payload
    BY <1>3, <2>1, RowEndsFacts
  <2>3. \A f \in Id : /\ Committed(f)' <=> Committed(f)
                      /\ outbox[f] = "unused" <=> outbox'[f] = "unused"
    BY <2>2 DEF Committed, EventsIInv, EventsTypeOK
  <2>4. \A t \in Session : written'[t] # 0 => written'[t] = written[t]
    BY <2>2 DEF EventsIInv, EventsTypeOK
  <2> QED  BY <1>1, <2>2, <2>3, <2>4, OthersOrder
<1> QED  BY <1>2, <1>3

LEMMA RelayOrder ==
  ASSUME KeysIInv, EventsIInv, OrderInv, NEW w \in RelayProcess, RelayTick(w) \/ RelayRestart(w) \/ RelayFault(w)
  PROVE  OrderInv'
<1> USE DEF Relay!Event
<1>1. UNCHANGED <<keyVars, written, payload>>
  BY DEF RelayTick, RelayRestart, RelayFault
<1>2. \/ UNCHANGED outbox
      \/ \E e \in Id : e \in batch[w] /\ outbox' = [outbox EXCEPT ![e] = "published"]
  <2>1. CASE Relay!SelectBatch(w) \/ Relay!Wake(w) \/ Relay!Restart(w) \/ Relay!Stop(w)
    BY <2>1 DEF Relay!SelectBatch, Relay!Wake, Relay!Restart, Relay!Stop
  <2>2. CASE Relay!Exit(w) \/ Relay!Crash(w) \/ Relay!QueryFails(w)
    BY <2>2 DEF Relay!Exit, Relay!Crash, Relay!QueryFails, Relay!Shut
  <2>3. ASSUME NEW e \in Id, Relay!Deliver(w, e) \/ Relay!HandlerThrows(w, e) \/ Relay!RecordFailure(w, e)
        PROVE  UNCHANGED outbox
    BY <2>3 DEF Relay!Deliver, Relay!HandlerThrows, Relay!RecordFailure
  <2>4. ASSUME NEW e \in Id, Relay!MarkPublished(w, e)
        PROVE  e \in batch[w] /\ outbox' = [outbox EXCEPT ![e] = "published"]
    BY <2>4 DEF Relay!MarkPublished, Relay!IsCurrent
  <2> QED  BY <2>1, <2>2, <2>3, <2>4 DEF RelayTick, RelayRestart, RelayFault, Relay!Tick, Id
<1>3. \A f \in Id : /\ Committed(f)' <=> Committed(f)
                    /\ outbox[f] = "unused" <=> outbox'[f] = "unused"
  <2>1. CASE UNCHANGED outbox
    BY <2>1 DEF Committed
  <2>2. ASSUME NEW e \in Id, e \in batch[w], outbox' = [outbox EXCEPT ![e] = "published"]
        PROVE  <1>3!:
    <3>1. Committed(e)
      BY <2>2 DEF EventsIInv, RowsHeard
    <3>2. outbox'[e] = "published" /\ \A f \in Id : f # e => outbox'[f] = outbox[f]
      BY <2>2 DEF EventsIInv, EventsTypeOK
    <3> QED  BY <3>1, <3>2 DEF Committed
  <2> QED  BY <1>2, <2>1, <2>2
<1> QED  BY <1>1, <1>3, OthersOrder DEF keyVars

HIDE DEF relayVars

LEMMA NextOrder == KeysIInv /\ EventsIInv /\ OrderInv /\ [NextEvents]_eventVars => OrderInv'
<1> SUFFICES ASSUME KeysIInv, EventsIInv, OrderInv, [NextEvents]_eventVars PROVE OrderInv'
  OBVIOUS
<1>1. ASSUME UNCHANGED <<relayVars, written, payload, effects, call>> PROVE OrderInv'
  <2>1. \A f \in Id : Committed(f)' <=> Committed(f)
    BY <1>1 DEF Committed, relayVars
  <2> QED  BY <1>1, <2>1, OthersOrder DEF relayVars
<1>2. CASE UNCHANGED eventVars
  <2>1. UNCHANGED <<relayVars, written, payload, effects, call>>
    BY <1>2 DEF eventVars, keyVars
  <2> QED  BY <1>1, <2>1
<1>3. CASE KeysAge
  BY <1>1, <1>3 DEF KeysAge, Tick, Purge
<1> QED
  BY <1>2, <1>3, AroundOrder, CommandWritesOrder, EffectCommitsOrder, CallFailsOrder, RelayOrder DEF NextEvents

(* The committed rows of a key are its effects, one to one and in their    *)
(* order, and no subscriber hears of anything else: for any number of      *)
(* callers, keys, retries, purges, relays and faults.                      *)
THEOREM RowsFollowEffects == SpecEvents => []EventsMatchEffects
<1>1. SpecEvents => []KeysIInv
  BY CommandsAreKeys, IdempotencyInvariant, PTL
<1>2. EventsIInv /\ OrderInv => EventsMatchEffects
  BY DEF EventsIInv, RowsAreEffects, RowsHeard, OrderInv, HeardIsEffect, EventsMatchEffects
<1> QED  BY <1>1, <1>2, EventsInvariant, InitOrder, NextOrder, PTL DEF SpecEvents

-----------------------------------------------------------------------------
(* The audit chain (AuditChain).                                           *)

Chained(rows) == \A i \in 1..Len(rows) : LinkedAt(rows, i)

(* In a chained list the row with the highest number is the last one. *)
LEMMA HeadOfChain ==
  ASSUME NEW rows \in Seq(AuditRow), Chained(rows)
  PROVE  /\ HeadSeq(rows) = Len(rows)
         /\ HeadHash(rows) = IF rows = <<>> THEN NoHash ELSE rows[Len(rows)].hash
<1>1. CASE rows = <<>>
  BY <1>1 DEF HeadSeq, HeadHash
<1>2. CASE rows # <<>>
  <2>1. Len(rows) \in Nat \ {0}
    BY <1>2, EmptySeq
  <2>2. \A i \in 1..Len(rows) : rows[i].seq = i
    BY DEF Chained, LinkedAt
  <2>3. \A i \in 1..Len(rows) :
          (\A j \in 1..Len(rows) : rows[j].seq <= rows[i].seq) <=> i = Len(rows)
    BY <2>1, <2>2
  <2>4. HeadAt(rows) = Len(rows)
    BY <2>1, <2>3 DEF HeadAt
  <2> QED  BY <1>2, <2>1, <2>2, <2>4 DEF HeadSeq, HeadHash
<1> QED  BY <1>1, <1>2

(* A chained list followed by a row numbered and linked from its head. *)
LEMMA ChainGrows ==
  ASSUME NEW rows \in Seq(AuditRow), Chained(rows), NEW r \in AuditRow,
         r.seq = HeadSeq(rows) + 1, r.prev = HeadHash(rows), r.hash = Hash(r.prev, r.content)
  PROVE  Append(rows, r) \in Seq(AuditRow) /\ Chained(Append(rows, r))
<1> DEFINE longer == Append(rows, r)
<1>1. /\ Len(rows) \in Nat /\ longer \in Seq(AuditRow) /\ Len(longer) = Len(rows) + 1
      /\ longer[Len(rows) + 1] = r /\ \A i \in 1..Len(rows) : longer[i] = rows[i]
  BY LenProperties
<1>2. \A i \in 1..Len(rows) : LinkedAt(rows, i) => LinkedAt(longer, i)
  <2> TAKE i \in 1..Len(rows)
  <2>1. longer[i] = rows[i] /\ (i # 1 => longer[i - 1] = rows[i - 1])
    BY <1>1
  <2> HIDE DEF longer
  <2> QED  BY <2>1 DEF LinkedAt
<1>3. LinkedAt(longer, Len(rows) + 1)
  <2>1. r.seq = Len(rows) + 1
    BY HeadOfChain
  <2>2. r.prev = IF Len(rows) + 1 = 1 THEN NoHash ELSE longer[Len(rows)].hash
    <3>1. rows = <<>> <=> Len(rows) = 0
      BY EmptySeq
    <3> QED  BY <1>1, <3>1, HeadOfChain
  <2> HIDE DEF longer
  <2> QED  BY <1>1, <2>1, <2>2 DEF LinkedAt
<1> HIDE DEF longer
<1>4. Chained(longer)
  BY <1>1, <1>2, <1>3 DEF Chained
<1> QED  BY <1>1, <1>4 DEF longer

LEMMA ChainPlusDraft ==
  ASSUME NEW rows \in Seq(AuditRow), NEW more \in Seq(AuditRow)
  PROVE  /\ Chained(rows \o more) => Chained(rows)
         /\ (Chained(rows) /\ \A i \in 1..Len(more) : LinkedAt(rows \o more, Len(rows) + i))
              <=> Chained(rows \o more)
<1> DEFINE all == rows \o more
<1>1. /\ Len(rows) \in Nat /\ Len(more) \in Nat /\ Len(all) = Len(rows) + Len(more)
      /\ \A i \in 1..Len(rows) : all[i] = rows[i]
  BY ConcatProperties, LenProperties
<1>2. \A i \in 1..Len(rows) : LinkedAt(rows, i) <=> LinkedAt(all, i)
  <2> TAKE i \in 1..Len(rows)
  <2>1. all[i] = rows[i] /\ (i # 1 => all[i - 1] = rows[i - 1])
    BY <1>1
  <2> HIDE DEF all
  <2> QED  BY <2>1 DEF LinkedAt
<1>3. \A i \in 1..Len(all) : i \in 1..Len(rows) \/ \E j \in 1..Len(more) : i = Len(rows) + j
  <2> TAKE i \in 1..Len(all)
  <2>1. i \in 1..Len(rows) \/ (i - Len(rows) \in 1..Len(more) /\ i = Len(rows) + (i - Len(rows)))
    BY <1>1
  <2> QED  BY <2>1
<1>4. \A j \in 1..Len(more) : Len(rows) + j \in 1..Len(all)
  BY <1>1
<1>5. \A i \in 1..Len(rows) : i \in 1..Len(all)
  BY <1>1
<1> HIDE DEF all
<1>6. Chained(all) => Chained(rows)
  BY <1>2, <1>5 DEF Chained
<1>7. Chained(all) => \A j \in 1..Len(more) : LinkedAt(all, Len(rows) + j)
  BY <1>4 DEF Chained
<1>8. (Chained(rows) /\ \A j \in 1..Len(more) : LinkedAt(all, Len(rows) + j)) => Chained(all)
  BY <1>2, <1>3 DEF Chained
<1> QED  BY <1>6, <1>7, <1>8 DEF all

(* What a writer sees is a chain: the committed log and its own rows. *)
LEMMA VisibleChain ==
  ASSUME ChainIInv, NEW t \in Txn
  PROVE  /\ log \o appended[t] \in Seq(AuditRow) /\ Chained(log \o appended[t])
<1>1. log \in Seq(AuditRow) /\ appended[t] \in Seq(AuditRow) /\ Chained(log)
  BY DEF ChainIInv, ChainTypesOK, ChainIntact, Chained
<1>2. CASE appended[t] = <<>>
  <2>1. log \o appended[t] = log
    BY <1>1, <1>2, ConcatEmptySeq
  <2> QED  BY <1>1, <2>1
<1>3. CASE appended[t] # <<>>
  <2>1. \A i \in 1..Len(appended[t]) : LinkedAt(log \o appended[t], Len(log) + i)
    BY <1>3 DEF ChainIInv, DraftExtendsChain
  <2> QED  BY <1>1, <2>1, ChainPlusDraft, ConcatProperties
<1> QED  BY <1>2, <1>3

-----------------------------------------------------------------------------
LEMMA ChainInit == InitChain => ChainIInv
<1> SUFFICES ASSUME InitChain PROVE ChainIInv
  OBVIOUS
<1>1. ChainTypesOK
  BY EmptySeq DEF InitChain, ChainTypesOK
<1>2. ChainIntact /\ DraftExtendsChain
  <2>1. Len(log) = 0
    BY EmptySeq DEF InitChain
  <2>2. ChainIntact
    BY <2>1 DEF ChainIntact
  <2>3. \A t \in Txn : appended[t] = <<>>
    BY DEF InitChain
  <2> QED  BY <2>2, <2>3 DEF DraftExtendsChain
<1>3. WriterOwnsChain
  BY DEF InitChain, WriterOwnsChain
<1> QED  BY <1>1, <1>2, <1>3 DEF ChainIInv

LEMMA AppendRowKeeps ==
  ASSUME ChainIInv, NEW t \in Txn, AppendRow(t)
  PROVE  ChainIInv'
<1>1. PICK c \in Content : appended' = [appended EXCEPT ![t] = Append(@, NewRow(t, c))]
  BY DEF AppendRow
<1> DEFINE rows == log \o appended[t]
           r == NewRow(t, c)
<1>2. /\ stage[t] = "append" /\ t \in holder /\ isolation[t] = "read committed"
      /\ UNCHANGED <<log, isolation, snapshot, holder>> /\ stage' = [stage EXCEPT ![t] = "open"]
  BY DEF AppendRow, ChainIInv, WriterOwnsChain
<1>3. rows \in Seq(AuditRow) /\ Chained(rows)
  BY VisibleChain
<1>4. r = [by |-> t, seq |-> HeadSeq(rows) + 1, prev |-> HeadHash(rows), content |-> c,
           hash |-> Hash(HeadHash(rows), c)]
  BY <1>2 DEF NewRow, Visible
<1>5. r \in AuditRow
  <2>1. HeadSeq(rows) \in Int /\ HeadSeq(rows) + 1 \in Int
    <3>1. Len(rows) \in Nat /\ HeadSeq(rows) = Len(rows)
      BY <1>3, HeadOfChain, LenProperties
    <3> QED  BY <3>1
  <2>2. HeadHash(rows) \in Seq(Content)
    <3>1. CASE rows = <<>>
      BY <1>3, <3>1, HeadOfChain, EmptySeq DEF NoHash
    <3>2. CASE rows # <<>>
      <4>1. Len(rows) \in 1..Len(rows)
        BY <1>3, <3>2, EmptySeq
      <4>2. rows[Len(rows)] \in AuditRow
        BY <1>3, <4>1, ElementOfSeq
      <4> QED  BY <1>3, <3>2, <4>2, HeadOfChain DEF AuditRow
    <3> QED  BY <3>1, <3>2
  <2>3. Hash(HeadHash(rows), c) \in Seq(Content)
    BY <2>2 DEF Hash
  <2> HIDE DEF rows, r
  <2> QED  BY <1>4, <2>1, <2>2, <2>3 DEF AuditRow
<1> HIDE DEF rows, r
<1>6. Append(rows, r) \in Seq(AuditRow) /\ Chained(Append(rows, r))
  <2>1. r.seq = HeadSeq(rows) + 1 /\ r.prev = HeadHash(rows) /\ r.hash = Hash(r.prev, r.content)
    BY <1>4
  <2> QED  BY <1>3, <1>5, <2>1, ChainGrows
<1>7. /\ appended'[t] = Append(appended[t], r) /\ appended'[t] \in Seq(AuditRow)
      /\ \A u \in Txn \ {t} : appended'[u] = appended[u]
      /\ appended' \in [Txn -> Seq(AuditRow)]
  <2>1. appended \in [Txn -> Seq(AuditRow)] /\ appended[t] \in Seq(AuditRow)
    BY DEF ChainIInv, ChainTypesOK
  <2>2. Append(appended[t], r) \in Seq(AuditRow)
    BY <1>5, <2>1
  <2>3. appended' = [appended EXCEPT ![t] = Append(appended[t], r)]
    BY <1>1 DEF r
  <2> QED  BY <2>1, <2>2, <2>3
<1>8. log \o Append(appended[t], r) = Append(rows, r)
  <2>1. log \in Seq(AuditRow) /\ appended[t] \in Seq(AuditRow)
    BY DEF ChainIInv, ChainTypesOK
  <2> DEFINE a == log \o Append(appended[t], r)
             b == Append(rows, r)
  <2>2. Len(log) \in Nat /\ Len(appended[t]) \in Nat
    BY <2>1, LenProperties
  <2>3. a \in Seq(AuditRow) /\ Len(a) = Len(log) + Len(appended[t]) + 1
    BY <1>5, <2>1, <2>2
  <2>4. b \in Seq(AuditRow) /\ Len(b) = Len(log) + Len(appended[t]) + 1
    BY <1>3, <1>5, <2>1, <2>2 DEF rows
  <2>5. \A i \in 1..Len(a) : a[i] = b[i]
    BY <1>5, <2>1, <2>2, <2>3 DEF rows
  <2> HIDE DEF a, b
  <2>6. a = b
    BY <2>3, <2>4, <2>5, SeqEqual
  <2> QED  BY <2>6 DEF a, b
<1>9. log' = log /\ log \in Seq(AuditRow) /\ Chained(log)
  BY <1>2 DEF ChainIInv, ChainTypesOK, ChainIntact, Chained
<1>10. DraftExtendsChain'
  <2> SUFFICES ASSUME NEW u \in Txn, appended'[u] # <<>>
               PROVE  /\ u \in holder'
                      /\ \A i \in 1..Len(appended'[u]) : LinkedAt(log' \o appended'[u], Len(log') + i)
    BY DEF DraftExtendsChain
  <2>1. CASE u # t
    BY <1>2, <1>7, <2>1 DEF ChainIInv, DraftExtendsChain
  <2>2. CASE u = t
    <3>1. Chained(log \o appended'[t])
      BY <1>6, <1>7, <1>8
    <3>2. \A i \in 1..Len(appended'[t]) : LinkedAt(log \o appended'[t], Len(log) + i)
      BY <1>7, <1>9, <3>1, ChainPlusDraft
    <3> QED  BY <1>2, <1>9, <2>2, <3>2
  <2> QED  BY <2>1, <2>2
<1>11. ChainTypesOK'
  BY <1>2, <1>7 DEF ChainIInv, ChainTypesOK
<1>12. ChainIntact'
  BY <1>9 DEF ChainIntact, Chained
<1>13. WriterOwnsChain'
  <2>1. \A u \in Txn : stage'[u] = IF u = t THEN "open" ELSE stage[u]
    BY <1>2 DEF ChainIInv, ChainTypesOK
  <2>2. \A u \in Txn : appended'[u] # <<>> => stage'[u] # "idle" /\ isolation'[u] = "read committed"
    <3> TAKE u \in Txn
    <3>1. CASE u = t
      <4>1. stage'[u] = "open"
        BY <2>1, <3>1
      <4>2. isolation'[u] = "read committed"
        BY <1>2, <3>1
      <4> QED  BY <4>1, <4>2
    <3>2. CASE u # t
      <4>1. appended'[u] = appended[u]
        BY <1>7, <3>2
      <4> QED  BY <1>2, <2>1, <3>2, <4>1 DEF ChainIInv, WriterOwnsChain
    <3> QED  BY <3>1, <3>2
  <2>3. \A u \in Txn : /\ stage'[u] = "append" => u \in holder'
                       /\ stage'[u] \in {"lock", "append"} => isolation'[u] = "read committed"
    BY <1>2, <2>1 DEF ChainIInv, WriterOwnsChain
  <2> QED  BY <1>2, <2>2, <2>3 DEF ChainIInv, WriterOwnsChain
<1> QED  BY <1>10, <1>11, <1>12, <1>13 DEF ChainIInv

LEMMA ChainCommitKeeps ==
  ASSUME ChainIInv, NEW t \in Txn, CommitTxn(t)
  PROVE  ChainIInv'
<1>1. /\ log' = log \o appended[t] /\ appended' = [appended EXCEPT ![t] = <<>>] /\ holder' = holder \ {t}
      /\ stage' = [stage EXCEPT ![t] = "idle"]
      /\ isolation' = [isolation EXCEPT ![t] = "read committed"]
      /\ snapshot' = [snapshot EXCEPT ![t] = <<>>]
  BY DEF CommitTxn, Release
<1>2. log' \in Seq(AuditRow) /\ Chained(log')
  BY <1>1, VisibleChain
<1>3. ChainTypesOK'
  BY <1>1, <1>2, EmptySeq DEF ChainIInv, ChainTypesOK
<1>4. DraftExtendsChain'
  <2> SUFFICES ASSUME NEW u \in Txn, appended'[u] # <<>>
               PROVE  /\ u \in holder'
                      /\ \A i \in 1..Len(appended'[u]) : LinkedAt(log' \o appended'[u], Len(log') + i)
    BY DEF DraftExtendsChain
  <2>1. u # t /\ appended'[u] = appended[u] /\ u \in holder
    BY <1>1 DEF ChainIInv, ChainTypesOK, DraftExtendsChain
  <2>2. appended[t] = <<>>
    BY <2>1 DEF ChainIInv, DraftExtendsChain, WriterOwnsChain
  <2>3. log' = log
    BY <1>1, <2>2, ConcatEmptySeq DEF ChainIInv, ChainTypesOK
  <2> QED  BY <1>1, <2>1, <2>3 DEF ChainIInv, DraftExtendsChain
<1>5. ChainIntact'
  BY <1>2 DEF ChainIntact, Chained
<1>6. WriterOwnsChain'
  BY <1>1 DEF ChainIInv, ChainTypesOK, WriterOwnsChain
<1> QED  BY <1>3, <1>4, <1>5, <1>6 DEF ChainIInv

LEMMA RollbackKeeps ==
  ASSUME ChainIInv, NEW t \in Txn, RollbackTxn(t)
  PROVE  ChainIInv'
<1>1. /\ log' = log /\ appended' = [appended EXCEPT ![t] = <<>>] /\ holder' = holder \ {t}
      /\ stage' = [stage EXCEPT ![t] = "idle"]
      /\ isolation' = [isolation EXCEPT ![t] = "read committed"]
      /\ snapshot' = [snapshot EXCEPT ![t] = <<>>]
  BY DEF RollbackTxn, Release
<1>2. ChainTypesOK'
  BY <1>1, EmptySeq DEF ChainIInv, ChainTypesOK
<1>3. DraftExtendsChain' /\ ChainIntact'
  BY <1>1 DEF ChainIInv, ChainTypesOK, DraftExtendsChain, ChainIntact
<1>4. WriterOwnsChain'
  BY <1>1 DEF ChainIInv, ChainTypesOK, WriterOwnsChain
<1> QED  BY <1>2, <1>3, <1>4 DEF ChainIInv

LEMMA ChainNext == ChainIInv /\ [NextChain]_chainVars => ChainIInv'
<1> SUFFICES ASSUME ChainIInv, [NextChain]_chainVars PROVE ChainIInv'
  OBVIOUS
<1>1. CASE UNCHANGED chainVars
  BY <1>1 DEF chainVars, ChainIInv, ChainTypesOK, WriterOwnsChain, ChainIntact, DraftExtendsChain
<1>2. ASSUME NEW t \in Txn, BeginTxn(t) PROVE ChainIInv'
  <2>1. DraftExtendsChain' /\ ChainIntact'
    BY <1>2 DEF BeginTxn, ChainIInv, DraftExtendsChain, ChainIntact
  <2>2. WriterOwnsChain'
    BY <1>2 DEF BeginTxn, ChainIInv, ChainTypesOK, WriterOwnsChain
  <2>3. ChainTypesOK'
    BY <1>2 DEF BeginTxn, ChainIInv, ChainTypesOK
  <2> QED  BY <2>1, <2>2, <2>3 DEF ChainIInv
<1>3. ASSUME NEW t \in Txn, InsertAuditRow(t) PROVE ChainIInv'
  BY <1>3 DEF InsertAuditRow, ChainIInv, ChainTypesOK, WriterOwnsChain, ChainIntact, DraftExtendsChain
<1>4. ASSUME NEW t \in Txn, LockChain(t) PROVE ChainIInv'
  <2>1. DraftExtendsChain' /\ ChainIntact'
    BY <1>4 DEF LockChain, ChainIInv, DraftExtendsChain, ChainIntact
  <2>2. WriterOwnsChain'
    BY <1>4 DEF LockChain, ChainIInv, ChainTypesOK, WriterOwnsChain
  <2> QED  BY <1>4, <2>1, <2>2 DEF LockChain, ChainIInv, ChainTypesOK
<1> QED
  BY <1>1, <1>2, <1>3, <1>4, AppendRowKeeps, ChainCommitKeeps, RollbackKeeps DEF NextChain

(* Every reachable state satisfies the inductive invariant. *)
THEOREM ChainInvariant == SpecChain => []ChainIInv
  BY ChainInit, ChainNext, PTL DEF SpecChain

(* ADR-0002: the committed chain has no gap, no duplicate and no broken    *)
(* link, for any number of concurrent writers and any mix of commits,      *)
(* rollbacks and isolation levels.                                         *)
THEOREM ChainAlwaysIntact == SpecChain => []ChainIntact
<1>1. ChainIInv => ChainIntact
  BY DEF ChainIInv
<1> QED  BY <1>1, ChainInvariant, PTL

-----------------------------------------------------------------------------
(* What platform.verify_audit_chain says, read from the front: each row    *)
(* is compared with the row before it, the first one with the anchor.      *)
PrevOf(rows, first, anchorHash, i) == IF i = first THEN anchorHash ELSE rows[i - 1].hash
DueSeq(rows, first, anchor, i) == IF i = first THEN anchor ELSE rows[i - 1].seq + 1
Follows(rows, first, anchor, anchorHash) ==
  \A i \in first..Len(rows) :
    /\ rows[i].seq = DueSeq(rows, first, anchor, i)
    /\ rows[i].prev = PrevOf(rows, first, anchorHash, i)
    /\ rows[i].hash = Hash(PrevOf(rows, first, anchorHash, i), rows[i].content)

(* On rows stored in the order of their numbers the verifier reports       *)
(* nothing just when every retained row follows the one before it.         *)
LEMMA VerifierMeaning ==
  ASSUME NEW rows \in Seq(AuditRow), NEW first \in Nat \ {0}, NEW anchor \in Int, NEW anchorHash,
         \A i, j \in 1..Len(rows) : i <= j => rows[i].seq <= rows[j].seq,
         Retained(rows, anchor) = first..Len(rows),
         rows # <<>> => first <= Len(rows)
  PROVE  Problems(rows, anchor, anchorHash) = {} <=> Follows(rows, first, anchor, anchorHash)
<1> DEFINE kept == Retained(rows, anchor)
           Smaller(i) == {j \in kept : Before(rows, j, i)}
           Lag(i) == CHOOSE j \in Smaller(i) : \A h \in Smaller(i) : h = j \/ Before(rows, h, j)
           ExpectedPrev(i) == IF Smaller(i) = {} THEN anchorHash ELSE rows[Lag(i)].hash
           ExpectedSeq(i) == IF Smaller(i) = {} THEN anchor ELSE rows[Lag(i)].seq + 1
           Duplicate(i) == Smaller(i) # {} /\ rows[i].seq = rows[Lag(i)].seq
           Doubles == {<<"duplicate_chain_seq", i>> : i \in {j \in kept : Duplicate(j)}}
           Gaps == {<<"chain_seq_gap", i>> : i \in {j \in kept : rows[j].seq # ExpectedSeq(j) /\ ~Duplicate(j)}}
           Links == {<<"prev_hash_mismatch", i>> : i \in {j \in kept : rows[j].prev # ExpectedPrev(j)}}
           Hashes == {<<"hash_mismatch", i>> :
                        i \in {j \in kept : rows[j].hash # Hash(ExpectedPrev(j), rows[j].content)}}
           Lost == IF rows # <<>> /\ kept = {} THEN {<<"anchor_not_found", 0>>} ELSE {}
<1>1. Problems(rows, anchor, anchorHash) = Doubles \cup Gaps \cup Links \cup Hashes \cup Lost
  BY DEF Problems
<1>2. Len(rows) \in Nat /\ kept = first..Len(rows) /\ \A i \in kept : i \in 1..Len(rows)
  BY LenProperties
<1>3. \A i \in kept : rows[i].seq \in Int
  <2> TAKE i \in kept
  <2>1. rows[i] \in AuditRow
    BY <1>2, ElementOfSeq
  <2> QED  BY <2>1 DEF AuditRow
<1>4. \A i, j \in kept : Before(rows, j, i) <=> j < i
  <2> SUFFICES ASSUME NEW i \in kept, NEW j \in kept PROVE Before(rows, j, i) <=> j < i
    OBVIOUS
  <2>1. i \in Int /\ j \in Int /\ rows[i].seq \in Int /\ rows[j].seq \in Int
    BY <1>2, <1>3
  <2>2. (i <= j => rows[i].seq <= rows[j].seq) /\ (j <= i => rows[j].seq <= rows[i].seq)
    BY <1>2
  <2> HIDE DEF kept
  <2> QED  BY <2>1, <2>2 DEF Before
<1>5. Smaller(first) = {}
  BY <1>2, <1>4
<1>6. \A i \in kept \ {first} : Smaller(i) # {} /\ Lag(i) = i - 1
  <2> SUFFICES ASSUME NEW i \in kept, i # first PROVE Smaller(i) # {} /\ Lag(i) = i - 1
    OBVIOUS
  <2>1. i \in Int /\ i - 1 \in kept /\ \A j \in kept : j < i <=> j <= i - 1
    BY <1>2
  <2>2. Smaller(i) = {j \in kept : j <= i - 1}
    BY <1>4, <2>1
  <2>3. i - 1 \in Smaller(i) /\ \A h \in Smaller(i) : h = i - 1 \/ Before(rows, h, i - 1)
    BY <1>2, <1>4, <2>1, <2>2
  <2>4. \A j \in Smaller(i) : (\A h \in Smaller(i) : h = j \/ Before(rows, h, j)) => j = i - 1
    BY <1>2, <1>4, <2>1, <2>2, <2>3
  <2> HIDE DEF kept, Smaller
  <2> QED  BY <2>3, <2>4
<1>7. \A i \in kept : /\ ExpectedPrev(i) = PrevOf(rows, first, anchorHash, i)
                      /\ ExpectedSeq(i) = DueSeq(rows, first, anchor, i)
  <2> HIDE DEF kept, Smaller, Lag
  <2> QED  BY <1>5, <1>6 DEF PrevOf, DueSeq
<1>8. \A i \in kept : Duplicate(i) => rows[i].seq # DueSeq(rows, first, anchor, i)
  <2> SUFFICES ASSUME NEW i \in kept, Duplicate(i) PROVE rows[i].seq # DueSeq(rows, first, anchor, i)
    OBVIOUS
  <2>1. i # first /\ Lag(i) = i - 1
    BY <1>5, <1>6
  <2>2. rows[i].seq = rows[i - 1].seq /\ rows[i].seq \in Int
    BY <1>3, <2>1
  <2> HIDE DEF kept, Smaller, Lag, Duplicate
  <2> QED  BY <2>1, <2>2 DEF DueSeq
<1>9. Doubles = {} /\ Gaps = {} <=> \A i \in kept : rows[i].seq = DueSeq(rows, first, anchor, i)
  <2> HIDE DEF kept, Smaller, Lag, ExpectedSeq, Duplicate
  <2> QED  BY <1>7, <1>8
<1>10. Links = {} <=> \A i \in kept : rows[i].prev = PrevOf(rows, first, anchorHash, i)
  <2> HIDE DEF kept, Smaller, Lag, ExpectedPrev
  <2> QED  BY <1>7
<1>11. Hashes = {} <=> \A i \in kept : rows[i].hash = Hash(PrevOf(rows, first, anchorHash, i), rows[i].content)
  <2> HIDE DEF kept, Smaller, Lag, ExpectedPrev
  <2> QED  BY <1>7
<1>12. Lost = {}
  BY <1>2
<1> HIDE DEF Doubles, Gaps, Links, Hashes, Lost, kept, Smaller, Lag, ExpectedPrev, ExpectedSeq, Duplicate
<1> QED  BY <1>1, <1>2, <1>9, <1>10, <1>11, <1>12 DEF Follows

(* A list that is numbered and linked passes, from any anchor inside it.   *)
LEMMA VerifierAcceptsChains ==
  ASSUME NEW rows \in Seq(AuditRow), Chained(rows)
  PROVE  /\ Problems(rows, 1, NoHash) = {}
         /\ \A a \in 1..Len(rows) : Problems(rows, a, IF a = 1 THEN NoHash ELSE rows[a - 1].hash) = {}
<1>1. Len(rows) \in Nat /\ \A i \in 1..Len(rows) : rows[i].seq = i
  BY LenProperties DEF Chained, LinkedAt
<1>2. \A i, j \in 1..Len(rows) : i <= j => rows[i].seq <= rows[j].seq
  BY <1>1
<1>3. ASSUME NEW a \in Nat \ {0}, rows # <<>> => a <= Len(rows)
      PROVE  Problems(rows, a, IF a = 1 THEN NoHash ELSE rows[a - 1].hash) = {}
  <2> DEFINE anchorHash == IF a = 1 THEN NoHash ELSE rows[a - 1].hash
  <2>1. Retained(rows, a) = a..Len(rows)
    BY <1>1 DEF Retained
  <2>2. Follows(rows, a, a, anchorHash)
    <3> SUFFICES ASSUME NEW i \in a..Len(rows)
                 PROVE  /\ rows[i].seq = DueSeq(rows, a, a, i)
                        /\ rows[i].prev = PrevOf(rows, a, anchorHash, i)
                        /\ rows[i].hash = Hash(PrevOf(rows, a, anchorHash, i), rows[i].content)
      BY DEF Follows
    <3>1. i \in 1..Len(rows) /\ (i # a => i - 1 \in 1..Len(rows) /\ i # 1)
      BY <1>1, <1>3
    <3>2. LinkedAt(rows, i) /\ rows[i].seq = i /\ (i # a => rows[i - 1].seq = i - 1)
      BY <1>1, <3>1 DEF Chained
    <3>3. rows[i].prev = PrevOf(rows, a, anchorHash, i)
      BY <3>1, <3>2 DEF LinkedAt, PrevOf
    <3>4. rows[i].seq = DueSeq(rows, a, a, i)
      BY <3>1, <3>2 DEF DueSeq
    <3> QED  BY <3>2, <3>3, <3>4 DEF LinkedAt
  <2> HIDE DEF anchorHash
  <2>3. Problems(rows, a, anchorHash) = {}
    BY <1>2, <1>3, <2>1, <2>2, VerifierMeaning
  <2> QED  BY <2>3 DEF anchorHash
<1>4. Problems(rows, 1, NoHash) = {}
  <2>1. rows # <<>> => 1 <= Len(rows)
    BY EmptySeq, LenProperties
  <2> QED  BY <1>3, <2>1
<1>5. ASSUME NEW a \in 1..Len(rows)
      PROVE  Problems(rows, a, IF a = 1 THEN NoHash ELSE rows[a - 1].hash) = {}
  <2>1. a \in Nat \ {0} /\ a <= Len(rows)
    BY <1>1
  <2> QED  BY <1>3, <2>1
<1> QED  BY <1>4, <1>5

(* Rows numbered from 1 on in the order they are stored in are all         *)
(* retained by the anchor 1.                                               *)
LEMMA VerifierFromOne ==
  ASSUME NEW rows \in Seq(AuditRow), NEW i \in 1..Len(rows),
         \A j, k \in 1..Len(rows) : rows[j].seq >= 1 /\ (j <= k => rows[j].seq <= rows[k].seq),
         Problems(rows, 1, NoHash) = {}
  PROVE  /\ rows[i].seq = DueSeq(rows, 1, 1, i)
         /\ rows[i].hash = Hash(PrevOf(rows, 1, NoHash, i), rows[i].content)
<1>1. Len(rows) \in Nat /\ (rows # <<>> => 1 <= Len(rows))
  BY LenProperties, EmptySeq
<1>2. Retained(rows, 1) = 1..Len(rows)
  BY DEF Retained
<1>3. Follows(rows, 1, 1, NoHash)
  BY <1>1, <1>2, VerifierMeaning
<1> QED  BY <1>3 DEF Follows

LEMMA VerifierFindsEdits ==
  ASSUME log \in Seq(AuditRow), ChainIntact, NEW i \in 1..Len(log), NEW c \in Content \ {log[i].content}
  PROVE  Problems(Edited(i, c), 1, NoHash) # {}
<1> DEFINE rows == Edited(i, c)
<1>1. /\ Len(log) \in Nat /\ \A j \in 1..Len(log) : log[j] \in AuditRow /\ log[j].seq = j
      /\ log[i].hash = Hash(log[i].prev, log[i].content)
      /\ log[i].prev = IF i = 1 THEN NoHash ELSE log[i - 1].hash
  BY ElementOfSeq, LenProperties DEF ChainIntact, LinkedAt
<1>2. [log[i] EXCEPT !.content = c] \in AuditRow
  BY <1>1 DEF AuditRow
<1>3. /\ rows = [log EXCEPT ![i] = [log[i] EXCEPT !.content = c]]
      /\ rows \in Seq(AuditRow) /\ Len(rows) = Len(log)
      /\ \A j \in 1..Len(log) : rows[j] = IF j = i THEN [log[i] EXCEPT !.content = c] ELSE log[j]
  BY <1>1, <1>2, ExceptSeq DEF Edited
<1>4. \A j \in 1..Len(log) : rows[j].seq = j
  <2> TAKE j \in 1..Len(log)
  <2>1. [log[i] EXCEPT !.content = c].seq = log[i].seq
    BY <1>1 DEF AuditRow
  <2> HIDE DEF rows
  <2> QED  BY <1>1, <1>3, <2>1
<1>5. rows[i].hash = log[i].hash /\ rows[i].content = c /\ (i # 1 => rows[i - 1].hash = log[i - 1].hash)
  <2>1. [log[i] EXCEPT !.content = c].hash = log[i].hash /\ [log[i] EXCEPT !.content = c].content = c
    BY <1>1 DEF AuditRow
  <2>2. i # 1 => i - 1 \in 1..Len(log) /\ i - 1 # i
    BY <1>1
  <2> HIDE DEF rows
  <2> QED  BY <1>1, <1>3, <2>1, <2>2
<1> HIDE DEF rows
<1>6. PrevOf(rows, 1, NoHash, i) = log[i].prev
  BY <1>1, <1>5 DEF PrevOf
<1>7. ASSUME Problems(rows, 1, NoHash) = {} PROVE FALSE
  <2>1. i \in 1..Len(rows) /\ rows \in Seq(AuditRow)
    BY <1>3
  <2>2. \A j, k \in 1..Len(rows) : rows[j].seq >= 1 /\ (j <= k => rows[j].seq <= rows[k].seq)
    BY <1>1, <1>3, <1>4
  <2>3. rows[i].hash = Hash(PrevOf(rows, 1, NoHash, i), rows[i].content)
    BY <1>7, <2>1, <2>2, VerifierFromOne
  <2>4. Append(log[i].prev, c) = Append(log[i].prev, log[i].content)
    BY <1>1, <1>5, <1>6, <2>3 DEF Hash
  <2>5. log[i].prev \in Seq(Content) /\ log[i].content \in Content
    BY <1>1 DEF AuditRow
  <2>6. c = log[i].content
    BY <2>4, <2>5, AppendProperties
  <2> QED  BY <2>6
<1> QED  BY <1>7 DEF rows

(* Two lists of rows stored one after the other.                           *)
LEMMA Spliced ==
  ASSUME NEW front \in Seq(AuditRow), NEW back \in Seq(AuditRow), NEW n \in Nat, Len(front) = n
  PROVE  /\ front \o back \in Seq(AuditRow) /\ Len(front \o back) = n + Len(back)
         /\ \A j \in 1..n : (front \o back)[j] = front[j]
         /\ \A j \in 1..(n + Len(back)) : j > n => (front \o back)[j] = back[j - n]
<1>1. Len(back) \in Nat
  BY LenProperties
<1>2. /\ front \o back \in Seq(AuditRow)
      /\ Len(front \o back) = Len(front) + Len(back)
      /\ \A j \in 1..(Len(front) + Len(back)) :
            (front \o back)[j] = IF j <= Len(front) THEN front[j] ELSE back[j - Len(front)]
  BY ConcatProperties
<1> QED  BY <1>1, <1>2

LEMMA VerifierFindsGaps ==
  ASSUME log \in Seq(AuditRow), ChainIntact, NEW i \in 1..Len(log), i < Len(log)
  PROVE  Problems(Removed(i), 1, NoHash) # {}
<1> DEFINE front == SubSeq(log, 1, i - 1)
           back == SubSeq(log, i + 1, Len(log))
           rows == front \o back
<1>1. Len(log) \in Nat /\ i - 1 \in Nat /\ \A j \in 1..Len(log) : log[j].seq = j
  BY LenProperties DEF ChainIntact, LinkedAt
<1>2. front \in Seq(AuditRow) /\ Len(front) = i - 1 /\ \A j \in 1..(i - 1) : front[j] = log[j]
  BY <1>1, SubSeqProperties
<1>3. /\ back \in Seq(AuditRow) /\ Len(back) = Len(log) - i
      /\ \A j \in 1..(Len(log) - i) : back[j] = log[i + j]
  BY <1>1, SubSeqProperties
<1> HIDE DEF front, back
<1>4. /\ rows \in Seq(AuditRow) /\ Len(rows) = (i - 1) + Len(back)
      /\ \A j \in 1..(i - 1) : rows[j] = front[j]
      /\ \A j \in 1..((i - 1) + Len(back)) : j > i - 1 => rows[j] = back[j - (i - 1)]
  BY <1>1, <1>2, <1>3, Spliced, ZenonT(30)
<1> HIDE DEF rows
<1>5. \A j \in 1..Len(rows) : rows[j].seq = IF j < i THEN j ELSE j + 1
  <2> TAKE j \in 1..Len(rows)
  <2>1. CASE j < i
    <3>1. j \in 1..(i - 1) /\ j \in 1..Len(log)
      BY <1>1, <1>3, <1>4, <2>1
    <3> QED  BY <1>1, <1>2, <1>4, <2>1, <3>1
  <2>2. CASE j >= i
    <3>1. /\ j - (i - 1) \in 1..(Len(log) - i) /\ i + (j - (i - 1)) = j + 1
          /\ j + 1 \in 1..Len(log) /\ j \in 1..((i - 1) + Len(back)) /\ j > i - 1
      BY <1>1, <1>3, <1>4, <2>2
    <3>2. rows[j] = log[j + 1]
      BY <1>3, <1>4, <3>1
    <3> QED  BY <1>1, <2>2, <3>1, <3>2, SMTT(30)
  <2> QED  BY <1>1, <2>1, <2>2
<1>6. \A j, k \in 1..Len(rows) : rows[j].seq >= 1 /\ (j <= k => rows[j].seq <= rows[k].seq)
  BY <1>1, <1>3, <1>4, <1>5
<1>7. i \in 1..Len(rows)
  BY <1>1, <1>3, <1>4
<1>8. ASSUME Problems(rows, 1, NoHash) = {} PROVE FALSE
  <2>1. rows[i].seq = DueSeq(rows, 1, 1, i)
    BY <1>4, <1>6, <1>7, <1>8, VerifierFromOne
  <2>2. rows[i].seq = i + 1
    BY <1>5, <1>7
  <2>3. i # 1 => rows[i - 1].seq = i - 1
    <3> SUFFICES ASSUME i # 1 PROVE rows[i - 1].seq = i - 1
      OBVIOUS
    <3>1. i - 1 \in 1..Len(rows) /\ i - 1 < i
      BY <1>1, <1>4, <1>7
    <3> QED  BY <1>5, <3>1
  <2> QED  BY <1>1, <2>1, <2>2, <2>3 DEF DueSeq
<1> QED  BY <1>8 DEF rows, front, back, Removed

LEMMA VerifierFindsDoubles ==
  ASSUME log \in Seq(AuditRow), ChainIntact, NEW i \in 1..Len(log)
  PROVE  Problems(Doubled(i), 1, NoHash) # {}
<1> DEFINE front == SubSeq(log, 1, i)
           back == SubSeq(log, i, Len(log))
           rows == front \o back
<1>1. Len(log) \in Nat /\ i \in Nat /\ \A j \in 1..Len(log) : log[j].seq = j
  BY LenProperties DEF ChainIntact, LinkedAt
<1>2. front \in Seq(AuditRow) /\ Len(front) = i /\ \A j \in 1..i : front[j] = log[j]
  BY <1>1, SubSeqProperties
<1>3. /\ back \in Seq(AuditRow) /\ Len(back) = Len(log) - i + 1
      /\ \A j \in 1..(Len(log) - i + 1) : back[j] = log[i + j - 1]
  BY <1>1, SubSeqProperties
<1> HIDE DEF front, back
<1>4. /\ rows \in Seq(AuditRow) /\ Len(rows) = i + Len(back)
      /\ \A j \in 1..i : rows[j] = front[j]
      /\ \A j \in 1..(i + Len(back)) : j > i => rows[j] = back[j - i]
  BY <1>1, <1>2, <1>3, Spliced
<1> HIDE DEF rows
<1>5. \A j \in 1..Len(rows) : rows[j].seq = IF j <= i THEN j ELSE j - 1
  <2> TAKE j \in 1..Len(rows)
  <2>1. CASE j <= i
    <3>1. j \in 1..i /\ j \in 1..Len(log)
      BY <1>1, <1>3, <1>4, <2>1
    <3> QED  BY <1>1, <1>2, <1>4, <2>1, <3>1
  <2>2. CASE j > i
    <3>1. /\ j - i \in 1..(Len(log) - i + 1) /\ i + (j - i) - 1 = j - 1
          /\ j - 1 \in 1..Len(log) /\ j \in 1..(i + Len(back))
      BY <1>1, <1>3, <1>4, <2>2
    <3>2. rows[j] = log[j - 1]
      BY <1>3, <1>4, <2>2, <3>1
    <3> QED  BY <1>1, <2>2, <3>1, <3>2
  <2> QED  BY <1>1, <2>1, <2>2
<1>6. \A j, k \in 1..Len(rows) : rows[j].seq >= 1 /\ (j <= k => rows[j].seq <= rows[k].seq)
  BY <1>1, <1>3, <1>4, <1>5
<1>7. i \in 1..Len(rows) /\ i + 1 \in 1..Len(rows)
  BY <1>1, <1>3, <1>4
<1>8. ASSUME Problems(rows, 1, NoHash) = {} PROVE FALSE
  <2>1. rows[i + 1].seq = DueSeq(rows, 1, 1, i + 1)
    BY <1>4, <1>6, <1>7, <1>8, VerifierFromOne
  <2>2. rows[i + 1].seq = i /\ rows[i].seq = i
    <3>1. ~(i + 1 <= i) /\ (i + 1) - 1 = i /\ i <= i
      BY <1>1
    <3>2. rows[i + 1].seq = (i + 1) - 1
      BY <1>5, <1>7, <3>1
    <3>3. rows[i].seq = i
      BY <1>5, <1>7, <3>1
    <3> QED  BY <3>1, <3>2, <3>3
  <2> QED  BY <1>1, <2>1, <2>2 DEF DueSeq
<1> QED  BY <1>8 DEF rows, front, back, Doubled

(* G8: on every chain that overlapping transactions leave, of any length,  *)
(* the verifier reports nothing, from the first row or from any anchor,    *)
(* and it reports an edited row, a row taken out of the middle and a row   *)
(* stored twice.                                                           *)
THEOREM ChainVerified == SpecChain => []VerifierIsExact
<1>1. ChainIInv => VerifierIsExact
  <2> SUFFICES ASSUME ChainIInv PROVE VerifierIsExact
    OBVIOUS
  <2>1. log \in Seq(AuditRow) /\ ChainIntact /\ Chained(log)
    BY DEF ChainIInv, ChainTypesOK, ChainIntact, Chained
  <2>2. VerifierAccepts
    BY <2>1, VerifierAcceptsChains DEF VerifierAccepts
  <2>3. VerifierDetects
    BY <2>1, VerifierFindsEdits, VerifierFindsGaps, VerifierFindsDoubles DEF VerifierDetects
  <2> QED  BY <2>2, <2>3 DEF VerifierIsExact
<1> QED  BY <1>1, ChainInvariant, PTL

-----------------------------------------------------------------------------
(* The types of the parts, for every value of the constants. The invariants *)
(* of ServicesProofs bound most of the fields; what is still missing is    *)
(* bounded here.                                                           *)

(* Billing: what is billed is of a group or of another table, in pallets.  *)
BilledRows == \A e \in billed : e.source \in Group \cup OtherSource /\ e.qty \in Pallets

LEMMA BillingIsOfPallets ==
  ASSUME NEW g \in Group, NEW row \in SnapshotRow
  PROVE  \A e \in BillingOf(g, row) : e.source \in Group \cup OtherSource /\ e.qty \in Pallets
<1>1. row.pallets \in Pallets /\ row.contracted \in Pallets
  BY DEF SnapshotRow
<1>2. OverflowQty(row.pallets, row.contracted) \in Pallets
  BY <1>1, OccupancyConstants DEF OverflowQty, Pallets
<1> QED  BY <1>1, <1>2 DEF BillingOf, BillableEvent

LEMMA BilledRowsStay ==
  ASSUME OccupancyInv, BilledRows, [NextOccupancy]_occupancyVars
  PROVE  BilledRows'
<1>1. ASSUME NEW r \in Run, CommitSnapshot(r) PROVE BilledRows'
  <2>1. \A g \in DOMAIN run[r].rows : g \in Group /\ run[r].rows[g] \in SnapshotRow
    BY DEF OccupancyInv, OccupancyTypes, RunState, RowsOfGroups
  <2>2. \A e \in billed' : e \in billed \/ \E g \in DOMAIN run[r].rows : e \in BillingOf(g, run[r].rows[g])
    BY <1>1 DEF CommitSnapshot, InsertEvents
  <2> QED  BY <2>1, <2>2, BillingIsOfPallets DEF BilledRows
<1>2. ASSUME NEW source \in OtherSource, InsertBillableEvent(source) PROVE BilledRows'
  BY <1>2 DEF InsertBillableEvent, BillableEvent, BilledRows
<1>3. CASE billed' = billed
  BY <1>3 DEF BilledRows
<1>4. \/ billed' = billed
      \/ \E r \in Run : CommitSnapshot(r)
      \/ \E source \in OtherSource : InsertBillableEvent(source)
  BY DEF NextOccupancy, occupancyVars, GetOccupied, GetContracted, AbortSnapshot, CreateSnapshot,
         KeepSnapshot, ChangeSpace
<1> QED  BY <1>1, <1>2, <1>3, <1>4

LEMMA OccupancyTypesStay == SpecOccupancy => []OccupancyTypeOK
<1>1. InitOccupancy => BilledRows
  BY DEF InitOccupancy, BilledRows
<1>2. OccupancyInv /\ BilledRows /\ [NextOccupancy]_occupancyVars => BilledRows'
  BY BilledRowsStay
<1>3. OccupancyInv /\ BilledRows => OccupancyTypeOK
  <2> SUFFICES ASSUME OccupancyInv, BilledRows PROVE OccupancyTypeOK
    OBVIOUS
  <2>1. \A r \in Run : run[r].rest \subseteq Group /\ DOMAIN run[r].rows \subseteq Group
    BY DEF OccupancyInv, OccupancyTypes, RunState, RowsOfGroups
  <2>2. \A g \in Group : daySnapshot[g] = NoSnapshot \/ daySnapshot[g] \in SnapshotRow
    BY DEF OccupancyInv, OccupancyTypes
  <2> QED  BY <2>1, <2>2 DEF OccupancyInv, OccupancyTypes, OccupancyTypeOK, BilledRows, SnapshotRow
<1> QED  BY <1>1, <1>2, <1>3, InitOccupancyKeeps, NextOccupancyKeeps, PTL DEF SpecOccupancy

(* Contracts: their other tables and the clock. *)
ContractTables == /\ slas \subseteq SlaEnabled
                  /\ listStatus \in [PriceList -> {"active", "expired"}]
                  /\ date \in Date

LEMMA ContractTablesStay ==
  ASSUME ContractTables, [NextContracts]_contractVars
  PROVE  ContractTables'
<1>1. CASE UNCHANGED <<slas, listStatus, date>>
  BY <1>1 DEF ContractTables
<1>2. CASE ListExpires
  BY <1>2 DEF ListExpires, ContractTables
<1>3. CASE NextDate
  BY <1>3, ContractConstants DEF NextDate, ContractTables, Date
<1>4. ASSUME NEW c \in Contract, AddContractSla(c) PROVE ContractTables'
  BY <1>4 DEF AddContractSla, ContractTables
<1> QED
  BY <1>1, <1>2, <1>3, <1>4
     DEF NextContracts, contractVars, CreateContract, SignContract, ActivateContract, SuspendContract,
         ResumeContract, ExpireContract, SetContractPriceList, SetStatusOf, UpdateContract

LEMMA ContractTypesStay == SpecContracts => []ContractsTypeOK
<1>1. InitContracts => ContractTables
  BY ContractConstants DEF InitContracts, ContractTables, Date
<1>2. ContractTables /\ [NextContracts]_contractVars => ContractTables'
  BY ContractTablesStay
<1>3. ContractsInv /\ ContractTables => ContractsTypeOK
  BY DEF ContractsInv, ContractTables, ContractsTypeOK, ContractRow
<1> QED  BY <1>1, <1>2, <1>3, InitContractsKeeps, NextContractsKeeps, PTL DEF SpecContracts

(* Commissions: at most one of a driver. *)
LEMMA AtMostOne ==
  ASSUME NEW S, \A r, s \in S : r = s
  PROVE  Cardinality(S) <= 1
<1>1. CASE S = {}
  BY <1>1, FS_EmptySet
<1>2. ASSUME NEW r \in S PROVE Cardinality(S) <= 1
  <2>1. S = {r}
    BY <1>2
  <2> QED  BY <2>1, FS_Singleton
<1> QED  BY <1>1, <1>2

LEMMA CommissionTypesStay == SpecCommissions => []CommissionsTypeOK
<1>1. CommissionsInv => CommissionsTypeOK
  <2> SUFFICES ASSUME CommissionsInv PROVE CommissionsTypeOK
    OBVIOUS
  <2>1. \A d \in Driver : commissions[d] \subseteq CommissionRow /\ Cardinality(commissions[d]) <= 1
    BY AtMostOne DEF CommissionsInv, CommissionTypes
  <2> QED  BY <2>1 DEF CommissionsInv, CommissionTypes, CommissionsTypeOK, ReviewRow
<1> QED  BY <1>1, InitCommissionsKeeps, NextCommissionsKeeps, PTL DEF SpecCommissions

(* Quotes: the numbers a quote is computed to. *)
LEMMA PricesAddToNat ==
  ASSUME NEW lines \in Seq(QuoteLine)
  PROVE  SumPrices(lines) \in Nat
<1> DEFINE f == [i \in DOMAIN lines |-> lines[i].price]
           S == DOMAIN lines
<1>1. \A i \in S : lines[i].price \in Nat
  <2>1. \A i \in S : lines[i] \in QuoteLine
    OBVIOUS
  <2>2. \A l \in QuoteLine : l.price \in LinePrice
    BY DEF QuoteLine
  <2> QED  BY <2>1, <2>2, QuoteConstants
<1>2. \A i \in S : f[i] \in Int /\ 0 <= f[i]
  BY <1>1
<1>3. IsFiniteSet(S)
  <2>1. S = 1..Len(lines) /\ Len(lines) \in Nat
    OBVIOUS
  <2> QED  BY <2>1, FS_Interval
<1>4. DOMAIN f = S /\ {} \in SUBSET S
  OBVIOUS
<1> HIDE DEF f, S
<1>5. SumFunctionOnSet(f, S) \in Int
  BY <1>2, <1>3, SumIsInt
<1>6. SumFunctionOnSet(f, {}) <= SumFunctionOnSet(f, S) /\ SumFunctionOnSet(f, {}) = 0
  BY <1>2, <1>3, <1>4, SumOfPart, SumOfNone
<1>7. SumPrices(lines) = SumFunctionOnSet(f, S)
  BY <1>4 DEF SumPrices, SumFunction, f
<1> QED  BY <1>5, <1>6, <1>7

LEMMA MarginIsInt ==
  ASSUME NEW lines \in Seq(QuoteLine), cost \in ServiceCost
  PROVE  ComputeEstimatedMarginPct(lines) \in Int
<1> DEFINE subtotal == SumPrices(lines)
           gain == (subtotal - Len(lines) * cost) * 100000
<1>1. subtotal \in Nat /\ cost \in Nat /\ Len(lines) \in Nat
  BY PricesAddToNat, QuoteConstants
<1> HIDE DEF subtotal
<1>2. gain \in Int
  BY <1>1
<1> HIDE DEF gain
<1>3. ASSUME subtotal # 0 PROVE DivRoundHalfUp(gain, subtotal) \in Int
  <2>1. \A z \in Int : -z \in Int
    OBVIOUS
  <2>2. PICK two \in Nat : two = 2 * subtotal /\ two > 0
    BY <1>1, <1>3
  <2>3. PICK down \in Int : down = -2 * gain + subtotal
    BY <1>1, <1>2
  <2>4. PICK up \in Int : up = 2 * gain + subtotal
    BY <1>1, <1>2
  <2>5. down \div two \in Int /\ up \div two \in Int
    BY <2>2
  <2> QED  BY <2>1, <2>2, <2>3, <2>4, <2>5 DEF DivRoundHalfUp
<1> QED  BY <1>3 DEF ComputeEstimatedMarginPct, NoMargin, subtotal, gain

Put(row, field, x) == [row EXCEPT ![field] = x]

QuoteNumbers(row) ==
  /\ Len(row.lines) <= MaxQuoteLines /\ row.margin \in Int
  /\ row.subtotal \in Nat /\ row.discount \in Nat

QuoteTables ==
  /\ \A q \in Quote : QuoteNumbers(quotes[q]) /\ (quotes[q] = NoQuote \/ quotes[q].status \in QuoteStatus)
  /\ cost \in ServiceCost /\ quoteDay \in QuoteDay

FullRow(row) ==
  row = [status |-> row.status, validUntil |-> row.validUntil, lines |-> row.lines,
         discount |-> row.discount, subtotal |-> row.subtotal, margin |-> row.margin,
         frozen |-> row.frozen]

LEMMA EditStatus ==
  ASSUME NEW row, FullRow(row), QuoteNumbers(row), NEW x, NEW r, r = Put(row, "status", x)
  PROVE  FullRow(r) /\ QuoteNumbers(r) /\ r.status = x
  BY DEF FullRow, QuoteNumbers, Put

LEMMA EditUntil ==
  ASSUME NEW row, FullRow(row), QuoteNumbers(row), NEW x, NEW r, r = Put(row, "validUntil", x)
  PROVE  FullRow(r) /\ QuoteNumbers(r) /\ r.status = row.status
  BY DEF FullRow, QuoteNumbers, Put

LEMMA EditFrozen ==
  ASSUME NEW row, FullRow(row), QuoteNumbers(row), NEW x, NEW r, r = Put(row, "frozen", x)
  PROVE  FullRow(r) /\ QuoteNumbers(r) /\ r.status = row.status
  BY DEF FullRow, QuoteNumbers, Put

LEMMA EditLines ==
  ASSUME NEW row, FullRow(row), QuoteNumbers(row), NEW x, Len(x) <= MaxQuoteLines, NEW r, r = Put(row, "lines", x)
  PROVE  FullRow(r) /\ QuoteNumbers(r) /\ r.status = row.status
  BY DEF FullRow, QuoteNumbers, Put

LEMMA EditMargin ==
  ASSUME NEW row, FullRow(row), QuoteNumbers(row), NEW x, x \in Int, NEW r, r = Put(row, "margin", x)
  PROVE  FullRow(r) /\ QuoteNumbers(r) /\ r.status = row.status
  BY DEF FullRow, QuoteNumbers, Put

LEMMA EditSubtotal ==
  ASSUME NEW row, FullRow(row), QuoteNumbers(row), NEW x, x \in Nat, NEW r, r = Put(row, "subtotal", x)
  PROVE  FullRow(r) /\ QuoteNumbers(r) /\ r.status = row.status
  BY DEF FullRow, QuoteNumbers, Put

LEMMA EditDiscount ==
  ASSUME NEW row, FullRow(row), QuoteNumbers(row), NEW x, x \in Nat, NEW r, r = Put(row, "discount", x)
  PROVE  FullRow(r) /\ QuoteNumbers(r) /\ r.status = row.status
  BY DEF FullRow, QuoteNumbers, Put

LEMMA RowKeepsNumbers ==
  ASSUME QuotesInv, QuoteTables, NEW q \in Quote, NEW row,
         UpdateQuote(q, row), QuoteNumbers(row), row.status \in QuoteStatus
  PROVE  QuoteTables'
<1>1. quotes'[q] = row /\ \A p \in Quote \ {q} : quotes'[p] = quotes[p]
  BY DEF UpdateQuote, QuotesInv, QuoteTypes
<1>2. (\A p \in Quote : QuoteNumbers(quotes[p]))'
  <2>1. \A p \in Quote : QuoteNumbers(quotes'[p])
    BY <1>1 DEF QuoteTables
  <2> QED  BY <2>1 DEF QuoteNumbers
<1>3. (\A p \in Quote : quotes[p] = NoQuote \/ quotes[p].status \in QuoteStatus)'
  <2>1. \A p \in Quote : quotes'[p] = NoQuote \/ quotes'[p].status \in QuoteStatus
    BY <1>1 DEF QuoteTables
  <2> QED  BY <2>1 DEF NoQuote
<1> QED  BY <1>2, <1>3 DEF UpdateQuote, QuoteTables

LEMMA QuoteRowsFull == ASSUME QuotesInv, NEW q \in Quote PROVE FullRow(quotes[q]) /\ quotes[q].lines \in Seq(QuoteLine)
  BY DEF QuotesInv, QuoteTypes, QuoteRowOK, FullRow, LinesAllowed

LEMMA StatusKeepsNumbers ==
  ASSUME QuotesInv, QuoteTables, NEW q \in Quote, NEW event, SetQuoteStatus(q, event),
         event \in {"SUBMIT_FOR_REVIEW", "APPROVE_COMMERCIAL", "RETURN_TO_DRAFT",
                    "RECORD_DECISION_ACCEPTED", "RECORD_DECISION_REJECTED"}
  PROVE  QuoteTables'
<1>1. PICK row : row = Put(quotes[q], "status", AdvanceQuote(q, event)) /\ UpdateQuote(q, row)
  BY DEF SetQuoteStatus, Put
<1>2. QuoteNumbers(row) /\ row.status = AdvanceQuote(q, event)
  BY <1>1, QuoteRowsFull, EditStatus DEF QuoteTables
<1>3. AdvanceQuote(q, event) \in QuoteStatus
  BY QuoteEvents DEF QuotesInv, SetQuoteStatus, QuoteStatus
<1> QED  BY <1>1, <1>2, <1>3, RowKeepsNumbers

LEMMA EmptyQuote == FullRow(NoQuote) /\ QuoteNumbers(NoQuote) /\ NoQuote.lines = <<>>
<1>1. NoQuote.lines = <<>> /\ NoQuote.margin = NoMargin /\ NoQuote.subtotal = 0 /\ NoQuote.discount = 0
  BY DEF NoQuote
<1>2. Len(<<>>) = 0 /\ 0 <= MaxQuoteLines
  BY QuoteConstants
<1> QED  BY <1>1, <1>2, NoQuoteIsEmpty DEF FullRow, QuoteNumbers, QuoteRowOK, NoMargin

LEMMA CreateKeepsNumbers ==
  ASSUME QuotesInv, QuoteTables, CreateQuote
  PROVE  QuoteTables'
<1>1. PICK q \in Quote, until \in QuoteDay :
        UpdateQuote(q, [NoQuote EXCEPT !.status = "draft", !.validUntil = until])
  BY DEF CreateQuote
<1>2. PICK r1 : r1 = Put(NoQuote, "status", "draft")
  OBVIOUS
<1>3. FullRow(r1) /\ QuoteNumbers(r1) /\ r1.status = "draft"
  BY <1>2, EmptyQuote, EditStatus
<1>4. PICK r2 : r2 = Put(r1, "validUntil", until) /\ UpdateQuote(q, r2)
  BY <1>2, <1>1 DEF Put
<1>5. QuoteNumbers(r2) /\ r2.status \in QuoteStatus
  BY <1>4, <1>3, EditUntil DEF QuoteStatus
<1> QED  BY <1>4, <1>5, RowKeepsNumbers

LEMMA UpsertKeepsNumbers ==
  ASSUME QuotesInv, QuoteTables, NEW q \in Quote, UpsertQuoteLine(q)
  PROVE  QuoteTables'
<1>0. PICK line \in QuoteLine, discount \in Discount : \E lines \in {Append(quotes[q].lines, line)} :
        /\ Len(lines) <= MaxQuoteLines /\ ValidDiscount(discount, SumPrices(lines))
        /\ QuoteEditable(quotes[q].status)
        /\ UpdateQuote(q, [quotes[q] EXCEPT !.lines = lines, !.discount = discount,
                                            !.subtotal = SumPrices(lines),
                                            !.margin = ComputeEstimatedMarginPct(lines)])
  BY DEF UpsertQuoteLine, QuoteLine
<1>1. PICK lines \in {Append(quotes[q].lines, line)} :
        \E subtotal \in {SumPrices(lines)}, margin \in {ComputeEstimatedMarginPct(lines)} :
          /\ Len(lines) <= MaxQuoteLines /\ ValidDiscount(discount, subtotal)
          /\ QuoteEditable(quotes[q].status)
          /\ UpdateQuote(q, [quotes[q] EXCEPT !.lines = lines, !.discount = discount,
                                              !.subtotal = subtotal, !.margin = margin])
  BY <1>0
<1>2a. PICK subtotal \in {SumPrices(lines)}, margin \in {ComputeEstimatedMarginPct(lines)} :
        /\ Len(lines) <= MaxQuoteLines /\ ValidDiscount(discount, subtotal)
        /\ QuoteEditable(quotes[q].status)
        /\ UpdateQuote(q, [quotes[q] EXCEPT !.lines = lines, !.discount = discount,
                                            !.subtotal = subtotal, !.margin = margin])
  BY <1>1
<1>2. lines \in Seq(QuoteLine)
  BY QuoteRowsFull
<1>3. subtotal \in Nat /\ margin \in Int
  BY <1>2, PricesAddToNat, MarginIsInt DEF QuoteTables
<1>4. discount \in Nat
  BY <1>2a, <1>3, QuoteConstants DEF ValidDiscount
<1>5. PICK r1 : r1 = Put(quotes[q], "lines", lines)
  OBVIOUS
<1>6. FullRow(r1) /\ QuoteNumbers(r1) /\ r1.status = "draft"
  BY <1>5, <1>2a, QuoteRowsFull, EditLines DEF QuoteTables, QuoteEditable
<1>7. PICK r2 : r2 = Put(r1, "discount", discount)
  OBVIOUS
<1>8. FullRow(r2) /\ QuoteNumbers(r2) /\ r2.status = "draft"
  BY <1>7, <1>4, <1>6, EditDiscount
<1>9. PICK r3 : r3 = Put(r2, "subtotal", subtotal)
  OBVIOUS
<1>10. FullRow(r3) /\ QuoteNumbers(r3) /\ r3.status = "draft"
  BY <1>9, <1>3, <1>8, EditSubtotal
<1>11. PICK r4 : r4 = Put(r3, "margin", margin) /\ UpdateQuote(q, r4)
  BY <1>5, <1>7, <1>9, <1>2a DEF Put
<1>12. QuoteNumbers(r4) /\ r4.status \in QuoteStatus
  BY <1>11, <1>3, <1>10, EditMargin DEF QuoteStatus
<1> QED  BY <1>11, <1>12, RowKeepsNumbers

LEMMA ApproveKeepsNumbers ==
  ASSUME QuotesInv, QuoteTables, NEW q \in Quote, ApproveFinance(q)
  PROVE  QuoteTables'
<1>1. PICK margin \in {ComputeEstimatedMarginPct(quotes[q].lines)},
           status \in {AdvanceQuote(q, "APPROVE_FINANCE")} :
        UpdateQuote(q, [quotes[q] EXCEPT !.status = status, !.margin = margin])
  BY DEF ApproveFinance
<1>2. margin \in Int
  BY QuoteRowsFull, MarginIsInt DEF QuoteTables
<1>3. PICK r1 : r1 = Put(quotes[q], "status", status)
  OBVIOUS
<1>4. FullRow(r1) /\ QuoteNumbers(r1) /\ r1.status = status
  BY <1>3, QuoteRowsFull, EditStatus DEF QuoteTables
<1>5. PICK r2 : r2 = Put(r1, "margin", margin) /\ UpdateQuote(q, r2)
  BY <1>3, <1>1 DEF Put
<1>6. QuoteNumbers(r2) /\ r2.status = status
  BY <1>5, <1>2, <1>4, EditMargin
<1>7. status \in QuoteStatus
  BY <1>1, QuoteEvents DEF QuotesInv, QuoteStatus, ApproveFinance
<1> QED  BY <1>5, <1>6, <1>7, RowKeepsNumbers

LEMMA SendKeepsNumbers ==
  ASSUME QuotesInv, QuoteTables, NEW q \in Quote, SendQuote(q)
  PROVE  QuoteTables'
<1>1. PICK status \in {AdvanceQuote(q, "SEND_QUOTE")} : \E frozen :
        UpdateQuote(q, [quotes[q] EXCEPT !.status = status, !.frozen = frozen])
  BY DEF SendQuote
<1>1a. PICK frozen : UpdateQuote(q, [quotes[q] EXCEPT !.status = status, !.frozen = frozen])
  BY <1>1
<1>2. PICK r1 : r1 = Put(quotes[q], "status", status)
  OBVIOUS
<1>3. FullRow(r1) /\ QuoteNumbers(r1) /\ r1.status = status
  BY <1>2, QuoteRowsFull, EditStatus DEF QuoteTables
<1>4. PICK r2 : r2 = Put(r1, "frozen", frozen) /\ UpdateQuote(q, r2)
  BY <1>2, <1>1a DEF Put
<1>5. QuoteNumbers(r2) /\ r2.status = status
  BY <1>4, <1>3, EditFrozen
<1>6. status \in QuoteStatus
  BY <1>1, QuoteEvents DEF QuotesInv, QuoteStatus, SendQuote
<1> QED  BY <1>4, <1>5, <1>6, RowKeepsNumbers

LEMMA ReviseKeepsNumbers ==
  ASSUME QuotesInv, QuoteTables, NEW q \in Quote, ReviseQuote(q)
  PROVE  QuoteTables'
<1>0. PICK new \in Quote, lines \in {quotes[q].lines}, until \in {quotes[q].validUntil} :
        UpdateQuote(new, [NoQuote EXCEPT !.status = "draft", !.lines = lines,
                                         !.margin = ComputeEstimatedMarginPct(lines),
                                         !.validUntil = until, !.subtotal = SumPrices(lines)])
  BY DEF ReviseQuote
<1>1. PICK subtotal \in {SumPrices(lines)}, margin \in {ComputeEstimatedMarginPct(lines)} :
        UpdateQuote(new, [NoQuote EXCEPT !.status = "draft", !.lines = lines, !.margin = margin,
                                         !.validUntil = until, !.subtotal = subtotal])
  BY <1>0
<1>2. lines \in Seq(QuoteLine) /\ Len(lines) <= MaxQuoteLines
  BY QuoteRowsFull DEF QuoteTables, QuoteNumbers
<1>3. subtotal \in Nat /\ margin \in Int
  BY <1>2, PricesAddToNat, MarginIsInt DEF QuoteTables
<1>4. PICK r1 : r1 = Put(NoQuote, "status", "draft")
  OBVIOUS
<1>5. FullRow(r1) /\ QuoteNumbers(r1) /\ r1.status = "draft"
  BY <1>4, EmptyQuote, EditStatus
<1>6. PICK r2 : r2 = Put(r1, "lines", lines)
  OBVIOUS
<1>7. FullRow(r2) /\ QuoteNumbers(r2) /\ r2.status = "draft"
  BY <1>6, <1>2, <1>5, EditLines
<1>8. PICK r3 : r3 = Put(r2, "margin", margin)
  OBVIOUS
<1>9. FullRow(r3) /\ QuoteNumbers(r3) /\ r3.status = "draft"
  BY <1>8, <1>3, <1>7, EditMargin
<1>10. PICK r4 : r4 = Put(r3, "validUntil", until)
  OBVIOUS
<1>11. FullRow(r4) /\ QuoteNumbers(r4) /\ r4.status = "draft"
  BY <1>10, <1>9, EditUntil
<1>12. PICK r5 : r5 = Put(r4, "subtotal", subtotal) /\ UpdateQuote(new, r5)
  BY <1>4, <1>6, <1>8, <1>10, <1>1 DEF Put
<1>13. QuoteNumbers(r5) /\ r5.status \in QuoteStatus
  BY <1>12, <1>3, <1>11, EditSubtotal DEF QuoteStatus
<1> QED  BY <1>12, <1>13, RowKeepsNumbers

LEMMA QuoteTablesStay ==
  ASSUME QuotesInv, QuoteTables, [NextQuotes]_quoteVars
  PROVE  QuoteTables'
<1>1. CASE UNCHANGED quotes /\ cost' \in ServiceCost /\ quoteDay' \in QuoteDay
  <2>1. (\A q \in Quote : QuoteNumbers(quotes[q]))'
    BY <1>1 DEF QuoteTables, QuoteNumbers
  <2> QED  BY <1>1, <2>1 DEF QuoteTables
<1>2. CASE UNCHANGED quoteVars \/ GrantPriceException
  BY <1>1, <1>2 DEF quoteVars, GrantPriceException, QuoteTables
<1>3. CASE ChangeCost
  BY <1>1, <1>3 DEF ChangeCost, QuoteTables
<1>4. CASE NextQuoteDay
  BY <1>1, <1>4, QuoteConstants DEF NextQuoteDay, QuoteTables, QuoteDay
<1>5. CASE CreateQuote
  BY <1>5, CreateKeepsNumbers
<1>6. ASSUME NEW q \in Quote, \/ SubmitForReview(q) \/ ApproveCommercial(q) \/ ReturnToDraft(q)
                              \/ RecordDecision(q)
      PROVE  QuoteTables'
  BY <1>6, StatusKeepsNumbers DEF SubmitForReview, ApproveCommercial, ReturnToDraft, RecordDecision
<1>7. ASSUME NEW q \in Quote, UpsertQuoteLine(q) \/ ApproveFinance(q) \/ SendQuote(q) \/ ReviseQuote(q)
      PROVE  QuoteTables'
  BY <1>7, UpsertKeepsNumbers, ApproveKeepsNumbers, SendKeepsNumbers, ReviseKeepsNumbers
<1> QED  BY <1>2, <1>3, <1>4, <1>5, <1>6, <1>7 DEF NextQuotes

LEMMA QuoteTypesStay == SpecQuotes => []QuotesTypeOK
<1>1. InitQuotes => QuoteTables
  BY EmptyQuote, QuoteConstants DEF InitQuotes, QuoteTables, QuoteDay
<1>2. QuotesInv /\ QuoteTables /\ [NextQuotes]_quoteVars => QuoteTables'
  BY QuoteTablesStay
<1>3. QuotesInv /\ QuoteTables => QuotesTypeOK
  <2> SUFFICES ASSUME QuotesInv, QuoteTables PROVE QuotesTypeOK
    OBVIOUS
  <2>1. granted \subseteq PriceException
    BY DEF QuotesInv, QuoteTypes
  <2> QED  BY <2>1 DEF QuoteTables, QuoteNumbers, QuotesTypeOK
<1> QED  BY <1>1, <1>2, <1>3, InitQuotesKeeps, NextQuotesKeeps, PTL DEF SpecQuotes

(* Prices: the list's row, and the lines callers may send. *)
LEMMA WritesTyped ==
  ASSUME PricesTypeOK, NEW rows \in SUBSET LineRows, NEW left, WriteLines(rows, left)
  PROVE  PricesTypeOK'
<1>1. priceLines' \subseteq priceLines \cup rows /\ UNCHANGED <<list, today>>
  BY DEF WriteLines, UpsertLine
<1> QED  BY <1>1 DEF PricesTypeOK

LEMMA PriceTypesStay == SpecPrices => []PricesTypeOK
<1>1. InitPrices => PricesTypeOK
  BY PriceConstants DEF InitPrices, PricesTypeOK, ListDay
<1>2. PricesTypeOK /\ [NextPrices]_priceVars => PricesTypeOK'
  <2> SUFFICES ASSUME PricesTypeOK, [NextPrices]_priceVars PROVE PricesTypeOK'
    OBVIOUS
  <2>1. CASE UNCHANGED priceVars
    BY <2>1 DEF priceVars, PricesTypeOK
  <2>2. CASE CreatePriceList
    BY <2>2 DEF CreatePriceList, PricesTypeOK, ListStatus
  <2>3. CASE UpsertPriceListLine
    BY <2>3, WritesTyped DEF UpsertPriceListLine
  <2>4. CASE ImportPriceListLines
    BY <2>4, WritesTyped DEF ImportPriceListLines
  <2>5. CASE ActivatePriceList
    <3>0. AfterPriceListEvent["ACTIVATE"] = [draft |-> "active"]
      BY DEF AfterPriceListEvent
    <3>1. list.status = "draft" /\ list' = [list EXCEPT !.status = "active"]
      BY <2>5, <3>0 DEF ActivatePriceList, CanAdvancePriceList, AdvancePriceList
    <3>2. list \in [status : ListStatus, validFrom : ListDay, validTo : ListDay \cup {NoEnd}]
      BY <3>1 DEF PricesTypeOK, NoList
    <3>3. list' \in [status : ListStatus, validFrom : ListDay, validTo : ListDay \cup {NoEnd}]
      BY <3>1, <3>2 DEF ListStatus
    <3> QED  BY <2>5, <3>3 DEF ActivatePriceList, PricesTypeOK
  <2>6. CASE ExpirePriceList
    <3>1. PICK to \in {IF list.validTo = NoEnd \/ list.validTo > today THEN today ELSE list.validTo} :
            list.status = "active" /\ list' = [list EXCEPT !.status = "expired", !.validTo = to]
      <4>1. AfterPriceListEvent["EXPIRE"] = [active |-> "expired"]
        BY DEF AfterPriceListEvent
      <4>2. list.status = "active" /\ AdvancePriceList("EXPIRE") = "expired"
        BY <2>6, <4>1 DEF ExpirePriceList, CanAdvancePriceList, AdvancePriceList
      <4> QED  BY <2>6, <4>2 DEF ExpirePriceList
    <3>2. list \in [status : ListStatus, validFrom : ListDay, validTo : ListDay \cup {NoEnd}]
      BY <3>1 DEF PricesTypeOK, NoList
    <3>3. to \in ListDay \cup {NoEnd}
      BY <3>1, <3>2 DEF PricesTypeOK
    <3>4. list' \in [status : ListStatus, validFrom : ListDay, validTo : ListDay \cup {NoEnd}]
      BY <3>1, <3>2, <3>3 DEF ListStatus
    <3> QED  BY <2>6, <3>4 DEF ExpirePriceList, PricesTypeOK
  <2>7. CASE PriceDay
    BY <2>7, PriceConstants DEF PriceDay, PricesTypeOK, ListDay
  <2> QED  BY <2>1, <2>2, <2>3, <2>4, <2>5, <2>6, <2>7 DEF NextPrices
<1> QED  BY <1>1, <1>2, PTL DEF SpecPrices

(* Login: the bounds of a call's rows and of the clock.                    *)
LoginBounds ==
  /\ Len(codes) <= MaxCodes /\ minute \in 0..LastMinute /\ userActive \in BOOLEAN
  /\ {requestLock, rowLock} \subseteq LoginCall \cup {"none"}
  /\ \A c \in LoginCall : loginCall[c].guess \in 0..MaxCodes /\ loginCall[c].rows \subseteq 1..MaxCodes

LEMMA NoCallIsBounded == NoLoginCall.guess = 0 /\ NoLoginCall.rows = {} /\ 0 \in 0..MaxCodes
  BY LoginAssumption DEF NoLoginCall

LEMMA EndKeepsBounds ==
  ASSUME LoginInv, LoginBounds, NEW c \in LoginCall, EndCall(c)
  PROVE  /\ {requestLock', rowLock'} \subseteq LoginCall \cup {"none"}
         /\ \A d \in LoginCall : loginCall'[d].guess \in 0..MaxCodes /\ loginCall'[d].rows \subseteq 1..MaxCodes
<1>1. \A d \in LoginCall : loginCall'[d] = IF d = c THEN NoLoginCall ELSE loginCall[d]
  BY DEF EndCall, LoginInv, LoginTypes
<1> QED  BY <1>1, NoCallIsBounded DEF EndCall, LoginBounds

LEMMA OneMore ==
  ASSUME NEW n \in Nat, NEW f, f = [i \in 1..n |-> f[i]], NEW x
  PROVE  Len(Append(f, x)) = n + 1 /\ Len(f) = n
<1>1. f \in [1..n -> {f[i] : i \in 1..n}]
  OBVIOUS
<1>2. f \in Seq({f[i] : i \in 1..n} \cup {x}) /\ Len(f) = n
  BY <1>1, SMTT(30)
<1> QED  BY <1>2

LEMMA LoginBoundsStay ==
  ASSUME LoginInv, LoginBounds, [NextLogin]_loginVars
  PROVE  LoginBounds'
<1> USE DEF LoginBounds
<1>0. codes \in Seq(CodeRow) /\ loginCall \in [LoginCall -> CallState] /\ Len(codes) \in Nat /\ MaxCodes \in Nat
  BY LoginAssumption DEF LoginInv, LoginTypes
<1>1. ASSUME NEW c \in LoginCall, RequestLoginOtp(c) PROVE LoginBounds'
  <2>1. \A d \in LoginCall : loginCall'[d].guess = loginCall[d].guess /\ loginCall'[d].rows = loginCall[d].rows
    BY <1>0, <1>1 DEF RequestLoginOtp, CallState
  <2> QED  BY <1>1, <2>1 DEF RequestLoginOtp
<1>1a. ASSUME NEW c \in LoginCall, ClearRequest(c) PROVE LoginBounds'
  <2>1. \A d \in LoginCall : loginCall'[d].guess = loginCall[d].guess /\ loginCall'[d].rows = loginCall[d].rows
    BY <1>0, <1>1a DEF ClearRequest, CallState
  <2> QED  BY <1>1a, <2>1 DEF ClearRequest
<1>2. ASSUME NEW c \in LoginCall, IssueCode(c) PROVE LoginBounds'
  <2>1. Len(codes') = Len(codes) + 1
    <3>1. Superseded = [i \in 1..Len(codes) |-> Superseded[i]]
      BY DEF Superseded
    <3>2. PICK x : codes' = Append(Superseded, x)
      BY <1>2 DEF IssueCode
    <3> QED  BY <1>0, <3>1, <3>2, OneMore
  <2> QED  BY <1>0, <1>2, <2>1, EndKeepsBounds DEF IssueCode
<1>3. ASSUME NEW c \in LoginCall, NEW guess \in 0..Len(codes), VerifyLoginOtp(c, guess) PROVE LoginBounds'
  <2>1. PICK sent : /\ sent = [NoLoginCall EXCEPT !.step = "presenting", !.at = minute, !.guess = guess]
                    /\ loginCall' = [loginCall EXCEPT ![c] = sent]
    BY <1>3 DEF VerifyLoginOtp
  <2>2. sent.guess = guess /\ sent.rows = {}
    BY <2>1 DEF NoLoginCall
  <2>3. guess \in 0..MaxCodes
    BY <1>0
  <2>4. \A d \in LoginCall : loginCall'[d] = IF d = c THEN sent ELSE loginCall[d]
    BY <1>0, <2>1
  <2> QED  BY <1>3, <2>2, <2>3, <2>4 DEF VerifyLoginOtp
<1>4. ASSUME NEW c \in LoginCall, LockCandidates(c) PROVE LoginBounds'
  <2>1. LiveCodes(loginCall[c].at) \subseteq 1..MaxCodes
    BY <1>0 DEF LiveCodes
  <2>2. CASE EndCall(c)
    BY <1>4, <2>2, EndKeepsBounds DEF LockCandidates
  <2>3. CASE ~EndCall(c)
    <3>1. PICK step, found : /\ found \subseteq 1..MaxCodes /\ rowLock' = c /\ requestLock' = requestLock
                            /\ loginCall' = [loginCall EXCEPT ![c].step = step, ![c].rows = found]
      BY <1>4, <2>1, <2>3 DEF LockCandidates
    <3>2. \A d \in LoginCall : /\ loginCall'[d].guess = loginCall[d].guess
                               /\ loginCall'[d].rows = IF d = c THEN found ELSE loginCall[d].rows
      BY <1>0, <3>1 DEF CallState
    <3> QED  BY <1>4, <3>1, <3>2, ZenonT(30) DEF LockCandidates
  <2> QED  BY <2>2, <2>3
<1>5. ASSUME NEW c \in LoginCall, RefuseCode(c) \/ AcceptCode(c) \/ AbandonCall(c) PROVE LoginBounds'
  <2>0. EndCall(c) /\ UNCHANGED <<userActive, minute>>
    BY <1>5 DEF RefuseCode, AcceptCode, AbandonCall
  <2>1. CASE RefuseCode(c)
    <3>1. codes' = [i \in 1..Len(codes) |-> codes'[i]]
      BY <2>1 DEF RefuseCode
    <3>2. Len(codes') = Len(codes)
      BY <1>0, <3>1, OneMore
    <3> QED  BY <2>0, <3>2, EndKeepsBounds
  <2>2. CASE AcceptCode(c)
    <3>1. codes' = codes \/ codes' = [codes EXCEPT ![loginCall[c].guess].consumed = TRUE]
      BY <2>2 DEF AcceptCode
    <3>2. Len(codes') = Len(codes)
      BY <1>0, <3>1
    <3> QED  BY <2>0, <3>2, EndKeepsBounds
  <2>3. CASE AbandonCall(c)
    BY <2>0, <2>3, EndKeepsBounds DEF AbandonCall
  <2> QED  BY <1>5, <2>1, <2>2, <2>3
<1>6. CASE UNCHANGED <<codes, loginCall, requestLock, rowLock>> /\ userActive' \in BOOLEAN /\ minute' \in 0..LastMinute
  BY <1>6
<1>7. CASE UNCHANGED loginVars
  BY <1>6, <1>7 DEF loginVars
<1>8. CASE SetUserActive
  BY <1>6, <1>8 DEF SetUserActive
<1>9. CASE NextMinute
  <2>1. minute' \in 0..LastMinute
    BY <1>9, LoginAssumption DEF NextMinute
  <2> QED  BY <1>6, <1>9, <2>1 DEF NextMinute
<1>10. ASSUME NEW t \in 1..Len(tokens), RevokeSession(t) PROVE LoginBounds'
  BY <1>6, <1>10 DEF RevokeSession
<1> QED  BY <1>1, <1>1a, <1>2, <1>3, <1>4, <1>5, <1>7, <1>8, <1>9, <1>10 DEF NextLogin

LEMMA LoginTypesStay == SpecLogin => []LoginTypesOK
<1>1. InitLogin => LoginBounds
  BY NoCallIsBounded, LoginAssumption DEF InitLogin, LoginBounds
<1>2. LoginInv /\ LoginBounds /\ [NextLogin]_loginVars => LoginBounds'
  BY LoginBoundsStay
<1>3. LoginInv /\ LoginBounds => LoginTypesOK
  <2> SUFFICES ASSUME LoginInv, LoginBounds PROVE LoginTypesOK
    OBVIOUS
  <2>1. codes \in Seq(CodeRow) /\ loginCall \in [LoginCall -> CallState] /\ tokens \in Seq(TokenRow)
    BY DEF LoginInv, LoginTypes
  <2>2. tokens \in Seq([otp : 1..Len(codes), expires : Int, revoked : BOOLEAN])
    <3> DEFINE S == [otp : 1..Len(codes), expires : Int, revoked : BOOLEAN]
    <3>1. tokens \in [1..Len(tokens) -> TokenRow] /\ Len(tokens) \in Nat
      BY <2>1
    <3>2. \A t \in 1..Len(tokens) : tokens[t] \in [otp : 1..Len(codes), expires : Int, revoked : BOOLEAN]
      BY <3>1 DEF LoginInv, LoginTypes, TokenRow
    <3> HIDE DEF S
    <3>3. tokens \in [1..Len(tokens) -> S]
      BY <3>1, <3>2 DEF S
    <3>4. tokens \in Seq(S)
      BY <3>1, <3>3
    <3> QED  BY <3>4 DEF S
  <2>3. \A c \in LoginCall : loginCall[c] \in
          [step : {"idle", "asking", "cleared", "presenting", "matching", "matched"},
           at : Nat, guess : 0..MaxCodes, rows : SUBSET (1..MaxCodes)]
    BY <2>1 DEF LoginBounds, CallState
  <2>4. DOMAIN loginCall = LoginCall /\ loginCall = [c \in LoginCall |-> loginCall[c]]
    BY <2>1
  <2> QED  BY <2>1, <2>2, <2>3, <2>4 DEF LoginBounds, LoginTypesOK, CodeRow
<1> QED  BY <1>1, <1>2, <1>3, InitLoginKeeps, NextLoginKeeps, PTL DEF SpecLogin

(* Pulls: no row beyond the last version, as committed or as a cycle finds *)
(* it, and the health rows.                                                *)
PullBounds ==
  /\ \A k \in Tracking : shipments[k].version <= MaxPulls
  /\ \A c \in Cycle, k \in Tracking : Found(c, k).version <= MaxPulls
  /\ health \in Seq(BOOLEAN)

LEMMA PullBoundsStay ==
  ASSUME PullsInv, PullBounds, [NextPulls]_pullVars
  PROVE  PullBounds'
<1>1. /\ cycle \in [Cycle -> CycleState] /\ MaxPulls \in Nat
      /\ TRUE \in BOOLEAN /\ FALSE \in BOOLEAN
      /\ \A c \in Cycle, k \in Tracking : shipments[k] \in ShipmentRow /\ cycle[c].notes[k] \in Seq(AuditEntry)
  BY PullsAssumption DEF PullsInv, PullTypes, CycleState
<1>2. ASSUME NEW c \in Cycle, UNCHANGED <<shipments, health>>,
             \A d \in Cycle \ {c} : cycle'[d] = cycle[d],
             \A k \in Tracking : Found(c, k)'.version <= MaxPulls
      PROVE  PullBounds'
  <2>1. ASSUME NEW d \in Cycle, NEW k \in Tracking PROVE Found(d, k)'.version <= MaxPulls
    <3>1. CASE d = c
      BY <1>2, <3>1
    <3>2. CASE d # c
      BY <1>2, <3>2 DEF PullBounds, Found
    <3> QED  BY <3>1, <3>2
  <2> QED  BY <1>2, <2>1 DEF PullBounds
<1>3. ASSUME NEW c \in Cycle, FetchShipments(c) \/ AbortCycle(c) PROVE PullBounds'
  <2>1. PICK cy : /\ \A k \in Tracking : cy.notes[k] = <<>>
                  /\ cycle' = [cycle EXCEPT ![c] = cy]
    BY <1>3 DEF FetchShipments, AbortCycle, Asleep
  <2>2. cycle'[c] = cy /\ \A d \in Cycle \ {c} : cycle'[d] = cycle[d]
    BY <1>1, <2>1
  <2>3. UNCHANGED <<shipments, health>>
    BY <1>3 DEF FetchShipments, AbortCycle
  <2>4. \A k \in Tracking : Found(c, k)' = shipments[k]
    BY <2>1, <2>2, <2>3 DEF Found
  <2> QED  BY <1>2, <2>2, <2>3, <2>4 DEF PullBounds
<1>4. ASSUME NEW c \in Cycle, PortalUnreachable(c) PROVE PullBounds'
  <2>1. health' = Append(health, FALSE) /\ UNCHANGED <<shipments, cycle>>
    BY <1>4 DEF PortalUnreachable
  <2>2. health' \in Seq(BOOLEAN)
    BY <1>1, <2>1, AppendProperties DEF PullBounds
  <2> QED  BY <2>1, <2>2 DEF PullBounds, Found
<1>5. ASSUME NEW c \in Cycle, FindShipmentByTrackingNo(c) \/ UnchangedRecord(c) PROVE PullBounds'
  <2>1. cycle'[c].notes = cycle[c].notes /\ \A d \in Cycle \ {c} : cycle'[d] = cycle[d]
    BY <1>1, <1>5 DEF FindShipmentByTrackingNo, UnchangedRecord, CycleState
  <2>2. UNCHANGED <<shipments, health>>
    BY <1>5 DEF FindShipmentByTrackingNo, UnchangedRecord
  <2>3. \A k \in Tracking : Found(c, k)' = Found(c, k)
    BY <2>1, <2>2 DEF Found
  <2> QED  BY <1>2, <2>1, <2>2, <2>3 DEF PullBounds
<1>6. ASSUME NEW c \in Cycle, WriteShipment(c) PROVE PullBounds'
  <2>1. PICK k \in Tracking : k = Head(cycle[c].answer).no
    BY <1>6, NextRecord DEF PullsInv, WriteShipment
  <2>2. PICK note : note = [old |-> cycle[c].read.value, new |-> Head(cycle[c].answer).value]
    OBVIOUS
  <2>3. /\ Found(c, k).version < MaxPulls /\ UNCHANGED <<shipments, health>>
        /\ cycle' = [cycle EXCEPT ![c].step = "pulling", ![c].answer = Tail(@),
                                  ![c].notes[k] = Append(@, note)]
    BY <1>6, <2>1, <2>2 DEF WriteShipment
  <2>4. note \in AuditEntry
    <3>1. cycle[c].read.value \in PortalValue \cup {"none"} /\ Head(cycle[c].answer).value \in PortalValue
      BY <1>1, <1>6, NextRecord DEF PullsInv, WriteShipment, CycleState, ShipmentRow
    <3> QED  BY <2>2, <3>1 DEF AuditEntry
  <2>5. cycle[c].notes \in [Tracking -> Seq(AuditEntry)]
    BY <1>1 DEF CycleState
  <2>6. /\ cycle'[c].notes = [cycle[c].notes EXCEPT ![k] = Append(cycle[c].notes[k], note)]
        /\ \A d \in Cycle \ {c} : cycle'[d] = cycle[d]
    BY <1>1, <2>3 DEF CycleState
  <2>7. ASSUME NEW j \in Tracking PROVE Found(c, j)'.version <= MaxPulls
    <3>1. CASE j # k
      <4>1. cycle'[c].notes[j] = cycle[c].notes[j]
        BY <2>5, <2>6, <3>1
      <4>2. Found(c, j)' = Found(c, j)
        BY <2>3, <4>1 DEF Found
      <4> QED  BY <4>2 DEF PullBounds
    <3>2. CASE j = k
      <4> DEFINE grown == Append(cycle[c].notes[k], note)
      <4>1. cycle'[c].notes[k] = grown
        BY <2>5, <2>6
      <4>2. grown # <<>> /\ Len(grown) = Len(cycle[c].notes[k]) + 1
        BY <1>1, <2>4, AppendProperties, NoteIsLast
      <4>3. Found(c, k)'.version = shipments[k].version + Len(grown)
        <5> HIDE DEF grown
        <5> QED  BY <2>3, <4>1, <4>2 DEF Found
      <4>4. Found(c, k).version = shipments[k].version + Len(cycle[c].notes[k])
        BY FoundIsRow DEF PullsInv
      <4>5. Len(cycle[c].notes[k]) \in Nat /\ shipments[k].version \in Nat
        BY <1>1 DEF ShipmentRow
      <4> HIDE DEF grown
      <4> QED  BY <1>1, <2>3, <3>2, <4>2, <4>3, <4>4, <4>5
    <3> QED  BY <3>1, <3>2
  <2> QED  BY <1>2, <2>3, <2>6, <2>7
<1>7. ASSUME NEW c \in Cycle, CommitCycle(c) PROVE PullBounds'
  <2>1. /\ \A k \in Tracking : shipments'[k] = Found(c, k)
        /\ health' = Append(health, TRUE) /\ cycle' = [cycle EXCEPT ![c] = Asleep]
    BY <1>7 DEF CommitCycle
  <2>2. \A k \in Tracking : shipments'[k].version <= MaxPulls
    BY <2>1 DEF PullBounds
  <2>3. health' \in Seq(BOOLEAN)
    BY <1>1, <2>1, AppendProperties DEF PullBounds
  <2>4. cycle'[c] = Asleep /\ \A d \in Cycle \ {c} : cycle'[d] = cycle[d]
    BY <1>1, <2>1
  <2>5. ASSUME NEW d \in Cycle, NEW k \in Tracking PROVE Found(d, k)'.version <= MaxPulls
    <3>1. CASE cycle'[d].notes[k] = <<>>
      <4>1. Found(d, k)' = shipments'[k]
        BY <3>1 DEF Found
      <4> QED  BY <2>2, <4>1
    <3>2. CASE cycle'[d].notes[k] # <<>>
      <4>1. d # c
        BY <2>4, <3>2 DEF Asleep
      <4>2. cycle'[d] = cycle[d] /\ cycle[c].notes[k] = <<>>
        BY <2>4, <3>2, <4>1 DEF PullsInv, NotesAreOwned, WrittenByOther
      <4>3. shipments'[k] = shipments[k]
        BY <2>1, <4>2 DEF Found
      <4>4. Found(d, k)' = Found(d, k)
        BY <4>2, <4>3 DEF Found
      <4> QED  BY <4>4 DEF PullBounds
    <3> QED  BY <3>1, <3>2
  <2> QED  BY <2>2, <2>3, <2>5 DEF PullBounds
<1>8. CASE UNCHANGED pullVars
  BY <1>8 DEF pullVars, PullBounds, Found
<1> QED  BY <1>3, <1>4, <1>5, <1>6, <1>7, <1>8 DEF NextPulls

LEMMA PullTypesStay == SpecPulls => []PullsTypeOK
<1>1. InitPulls => PullBounds
  BY PullsAssumption, EmptySeq DEF InitPulls, PullBounds, Found, Unknown, Asleep
<1>2. PullsInv /\ PullBounds /\ [NextPulls]_pullVars => PullBounds'
  BY PullBoundsStay
<1>3. PullsInv /\ PullBounds => PullsTypeOK
  <2> SUFFICES ASSUME PullsInv, PullBounds PROVE PullsTypeOK
    OBVIOUS
  <2>1. /\ cycle \in [Cycle -> CycleState] /\ shipments \in [Tracking -> ShipmentRow]
    BY DEF PullsInv, PullTypes
  <2>2. \A k \in Tracking : shipments[k] \in [value : PortalValue \cup {"none"}, version : 0..MaxPulls]
    BY <2>1, PullsAssumption DEF PullBounds, ShipmentRow
  <2>3. shipments \in [Tracking -> [value : PortalValue \cup {"none"}, version : 0..MaxPulls]]
    BY <2>1, <2>2
  <2>4. \A c \in Cycle : cycle[c].step \in {"idle", "pulling", "read"} /\ cycle[c].answer \in Seq(Record)
    BY <2>1 DEF CycleState
  <2> QED  BY <2>1, <2>3, <2>4 DEF PullBounds, PullsTypeOK
<1> QED  BY <1>1, <1>2, <1>3, InitPullsKeeps, NextPullsKeeps, PTL DEF SpecPulls

(* Checks: the changes of the facts are counted up to their bound. *)
LEMMA CheckTypesStay == SpecChecks => []ChecksTypeOK
<1> DEFINE FewChanges == factChanges <= MaxFactChanges
<1>1. InitChecks => FewChanges
  BY CheckConstants DEF InitChecks
<1>2. ChecksInv /\ FewChanges /\ [NextChecks]_checkVars => FewChanges'
  <2> SUFFICES ASSUME ChecksInv, FewChanges, [NextChecks]_checkVars PROVE FewChanges'
    OBVIOUS
  <2>1. factChanges \in Nat
    BY DEF ChecksInv, CheckTypes
  <2>2. factChanges' = factChanges \/ (factChanges < MaxFactChanges /\ factChanges' = factChanges + 1)
    BY DEF NextChecks, checkVars, BeginChecks, ReadSkus, ReadPriceLine, CheckCondition, NextCheckDay,
           ChangeFacts
  <2> QED  BY <2>1, <2>2, CheckConstants
<1>3. ChecksInv /\ FewChanges => ChecksTypeOK
  <2> SUFFICES ASSUME ChecksInv, FewChanges PROVE ChecksTypeOK
    OBVIOUS
  <2>1. factChanges \in 0..MaxFactChanges
    BY CheckConstants DEF ChecksInv, CheckTypes
  <2> QED  BY <2>1 DEF ChecksInv, CheckTypes, ChecksTypeOK, SkuRows
<1> QED  BY <1>1, <1>2, <1>3, InitChecksKeeps, NextChecksKeeps, PTL DEF SpecChecks

(* Driver ids: the papers and the day. *)
StaffTables == /\ papers \in [Employee -> [DocType -> 0..LastStaffDay]]
               /\ staffDay \in 1..LastStaffDay

LEMMA StaffTypesStay == SpecStaff => []DriverIdsTypeOK
<1>1. InitStaff => StaffTables
  BY StaffAssumption DEF InitStaff, StaffTables
<1>2. StaffTables /\ [NextStaff]_staffVars => StaffTables'
  <2> SUFFICES ASSUME StaffTables, [NextStaff]_staffVars PROVE StaffTables'
    OBVIOUS
  <2>1. CASE UNCHANGED <<papers, staffDay>>
    BY <2>1 DEF StaffTables
  <2>2. ASSUME NEW e \in Employee, NEW type \in DocType, NEW expiry \in 1..LastStaffDay,
               RecordEmployeeDocument(e, type, expiry)
        PROVE  StaffTables'
    <3>1. papers' = [papers EXCEPT ![e][type] = expiry] /\ expiry \in 0..LastStaffDay /\ staffDay' = staffDay
      BY <2>2, StaffAssumption DEF RecordEmployeeDocument
    <3> QED  BY <3>1 DEF StaffTables
  <2>3. CASE NextStaffDay
    BY <2>3, StaffAssumption DEF NextStaffDay, StaffTables
  <2>4. \/ UNCHANGED <<papers, staffDay>> \/ NextStaffDay
        \/ \E e \in Employee, type \in DocType, expiry \in 1..LastStaffDay : RecordEmployeeDocument(e, type, expiry)
    BY DEF NextStaff, staffVars, RegisterEmployee, ChangeEmployeeStatus, AssignDriverId, InsertAssignment,
           AbandonAssignment, SuspendDriverId, RestoreDriverId
  <2> QED  BY <2>1, <2>2, <2>3, <2>4
<1>3. IdsInv /\ StaffTables => DriverIdsTypeOK
  BY DEF IdsInv, IdTypes, StaffTables, DriverIdsTypeOK, HoldingRow
<1> QED  BY <1>1, <1>2, <1>3, InitStaffKeeps, NextStaffKeeps, PTL DEF SpecStaff

(* The host: its replies, its classes of errors, the session and its user. *)
ApiTables ==
  /\ session \in BOOLEAN /\ keyRow \in BOOLEAN
  /\ subject \in [internal : BOOLEAN, active : BOOLEAN]
  /\ scopeChanges \in 0..MaxScopeChanges
  /\ commands \subseteq [by : Attempt, entity : Entity, held : SUBSET Entity]

LEMMA ClassesAreKnown ==
  ErrorClass \subseteq {"none", "stale", "role", "missing", "taken", "rule", "window", "link", "negative"}
<1>1. \A t \in Thrown : t.classes \subseteq {"stale", "role", "missing", "taken", "rule", "window", "link"}
  BY ThrownRows
<1>2. \A api : OwnErrors(api) \subseteq {"stale", "role", "missing", "taken", "rule", "window", "link"}
  BY <1>1 DEF OwnErrors, Thrown
<1>3. \A api : LedgerErrors(api) \subseteq {"negative"}
  BY DEF LedgerErrors
<1> QED  BY <1>2, <1>3 DEF ErrorClass

LEMMA RepliesAreKnown == ReplyValue \subseteq Refused4xx \cup {NoReply, 200, 500}
BY StatusesRefuse DEF ReplyValue, Refused4xx

LEMMA CommitsAreTyped ==
  ASSUME ApiInv, ApiTables, NEW a \in Attempt, CommitCommand(a)
  PROVE  ApiTables'
<1>1. UNCHANGED <<session, subject, scopeChanges>>
  BY DEF CommitCommand
<1>2. attempts[a].entity \in Entity /\ members \subseteq Entity
  BY DEF ApiInv, ApiTypes, CommitCommand, ScopeAllows
<1>3. CASE UNCHANGED <<keyRow, commands>>
  BY <1>1, <1>3 DEF ApiTables
<1>4. CASE /\ keyRow' = TRUE
           /\ commands' = commands \cup {[by |-> a, entity |-> attempts[a].entity, held |-> members]}
  <2>1. keyRow' \in BOOLEAN
    BY <1>4
  <2>2. commands' \subseteq [by : Attempt, entity : Entity, held : SUBSET Entity]
    BY <1>2, <1>4 DEF ApiTables
  <2> QED  BY <1>1, <2>1, <2>2 DEF ApiTables
<1> QED  BY <1>3, <1>4 DEF CommitCommand

LEMMA ApiTablesStay ==
  ASSUME ApiInv, ApiTables, [NextApi]_apiVars
  PROVE  ApiTables'
<1>1. CASE UNCHANGED <<session, subject, scopeChanges, keyRow, commands>>
  BY <1>1 DEF ApiTables
<1>2. CASE EndSession
  BY <1>2 DEF EndSession, ApiTables
<1>3. CASE DeactivateUser
  <2>1. subject' = [subject EXCEPT !.active = FALSE] /\ UNCHANGED <<session, scopeChanges, keyRow, commands>>
    BY <1>3 DEF DeactivateUser
  <2>2. subject' \in [internal : BOOLEAN, active : BOOLEAN]
    BY <2>1 DEF ApiTables
  <2> QED  BY <2>1, <2>2 DEF ApiTables
<1>4. ASSUME NEW e \in Entity, ChangeScope(e) PROVE ApiTables'
  <2>1. scopeChanges' \in 0..MaxScopeChanges
    BY <1>4, ApiAssumption DEF ChangeScope, ApiTables
  <2> QED  BY <1>4, <2>1 DEF ChangeScope, ApiTables
<1>5. ASSUME NEW a \in Attempt, CommitCommand(a) PROVE ApiTables'
  BY <1>5, CommitsAreTyped
<1>6. ASSUME NEW a \in Attempt, NEW class,
             \/ Receive(a) \/ ResolveEntity(a) \/ BeginCommand(a) \/ FailAttempt(a) \/ RefuseCommand(a, class)
      PROVE  ApiTables'
  <2>1. CASE Receive(a)
    BY <1>1, <2>1 DEF Receive
  <2>2. CASE ResolveEntity(a)
    BY <1>1, <2>2 DEF ResolveEntity
  <2>3. CASE BeginCommand(a)
    BY <1>1, <2>3 DEF BeginCommand
  <2>4. CASE FailAttempt(a)
    BY <1>1, <2>4 DEF FailAttempt
  <2>5. CASE RefuseCommand(a, class)
    BY <1>1, <2>5 DEF RefuseCommand
  <2> QED  BY <1>6, <2>1, <2>2, <2>3, <2>4, <2>5
<1>7. CASE UNCHANGED apiVars
  BY <1>1, <1>7 DEF apiVars
<1>8. ASSUME NEW a \in Attempt,
             \/ Receive(a) \/ ResolveEntity(a) \/ BeginCommand(a) \/ CommitCommand(a) \/ FailAttempt(a)
             \/ \E class : RefuseCommand(a, class)
      PROVE  ApiTables'
  BY <1>5, <1>6, <1>8
<1>9. CASE NextApi
  BY <1>2, <1>3, <1>4, <1>8, <1>9, Zenon DEF NextApi
<1> QED  BY <1>7, <1>9

LEMMA ApiTypesStay == SpecApi => []ApiTypeOK
<1>1. InitApi => ApiTables
  <2> SUFFICES ASSUME InitApi PROVE ApiTables
    OBVIOUS
  <2>1. 0 \in 0..MaxScopeChanges
    BY ApiAssumption
  <2>2. session \in BOOLEAN /\ keyRow = FALSE /\ scopeChanges = 0 /\ commands = {}
    BY DEF InitApi
  <2>3. subject \in [internal : BOOLEAN, active : BOOLEAN]
    BY DEF InitApi
  <2>4. keyRow \in BOOLEAN
    BY <2>2
  <2> QED  BY <2>1, <2>2, <2>3, <2>4 DEF ApiTables
<1>2. ApiInv /\ ApiTables /\ [NextApi]_apiVars => ApiTables'
  BY ApiTablesStay
<1>3. ApiInv /\ ApiTables => ApiTypeOK
  <2> SUFFICES ASSUME ApiInv, ApiTables PROVE ApiTypeOK
    OBVIOUS
  <2>1. attempts \in [Attempt -> AttemptState] /\ request \in ApiRequest /\ members \subseteq Entity
    BY DEF ApiInv, ApiTypes
  <2> DEFINE State == [step : {"out", "known", "scoped", "working", "over"}, entity : Entity \cup {"none"},
                       reply : Refused4xx \cup {NoReply, 200, 500}, vouched : BOOLEAN,
                       class : {"none", "stale", "role", "missing", "taken", "rule", "window", "link", "negative"}]
  <2>2. \A s \in AttemptState : s \in State
    BY ClassesAreKnown, RepliesAreKnown, ZenonT(30) DEF AttemptState
  <2>3. attempts \in [Attempt -> State]
    <3> HIDE DEF State
    <3> QED  BY <2>1, <2>2
  <2> QED  BY <2>1, <2>3 DEF ApiTables, ApiTypeOK
<1> QED  BY <1>1, <1>2, <1>3, InitApiKeeps, NextApiKeeps, PTL DEF SpecApi

(* Delivery tasks. An order's version counts its changes of status and its *)
(* task.                                                                   *)
Rank(status) ==
  CASE status = "allocated" -> 1 [] status = "cancelled" -> 2 [] status = "picked" -> 2
    [] status = "checked" -> 3 [] status = "loaded" -> 4

VersionCounts(row) == row.version = Rank(row.status) + (IF row.task = NoTask THEN 0 ELSE 1)

TaskBounds ==
  /\ \A o \in TaskOrder : VersionCounts(orderRow[o])
  /\ \A c \in Clerk : clerk[c].expected \in 0..5 /\ clerk[c].order \in TaskOrder
  /\ taskReads \in 0..MaxTaskReads /\ instant \in Instant
  /\ documents \in [Vehicle -> SUBSET (Expiry \cup NoVehicle)]
  /\ \A s \in verdicts : s.at \in Instant

(* As many tasks of an entity as numbers, each of an order of its own.     *)
LEMMA NumbersAreFew ==
  ASSUME TasksInv, NEW e \in TaskEntity
  PROVE  taskCounter[e] \in 0..Cardinality(TaskOrder)
<1> DEFINE numbers == 1..taskCounter[e]
           taskOf(i) == CHOOSE t \in tasks : t.entity = e /\ t.no = i
<1>1. taskCounter[e] \in Nat /\ Cardinality(TaskOrder) \in Nat /\ IsFiniteSet(TaskOrder)
  BY TasksAssumption, FS_CardinalityType DEF TasksInv, TaskTypes
<1>2. IsFiniteSet(numbers) /\ Cardinality(numbers) = taskCounter[e]
  <2>1. PICK one \in Int : one = 1
    OBVIOUS
  <2>2. PICK n \in Nat : n = taskCounter[e]
    BY <1>1
  <2>3. n \in Int
    BY <2>2
  <2>4. IsFiniteSet(one..n) /\ Cardinality(one..n) = IF one > n THEN 0 ELSE n - one + 1
    BY <2>1, <2>3, FS_Interval
  <2>5. IsFiniteSet(1..n)
    BY <2>1, <2>4
  <2>6. Cardinality(1..n) = n
    BY <2>1, <2>2, <2>4
  <2> QED  BY <2>2, <2>5, <2>6
<1>3. \A i \in numbers : taskOf(i) \in tasks /\ taskOf(i).no = i
  <2>1. \A i \in numbers : \E t \in tasks : t.entity = e /\ t.no = i
    BY DEF TasksInv, OneTaskPerOrder
  <2> QED  BY <2>1
<1> HIDE DEF taskOf
<1>4. \A i, j \in numbers : taskOf(i).order = taskOf(j).order => i = j
  BY <1>3 DEF TasksInv, OneTaskPerOrder
<1>5. \A i \in numbers : taskOf(i).order \in TaskOrder
  BY <1>3 DEF TasksInv, TaskTypes, TaskRow
<1>6. PICK f : f = [i \in numbers |-> taskOf(i).order]
  OBVIOUS
<1>7. f \in Injection(numbers, TaskOrder)
  <2> HIDE DEF numbers
  <2>1. f \in [numbers -> TaskOrder]
    BY <1>5, <1>6
  <2>2. \A i, j \in numbers : f[i] = f[j] => i = j
    BY <1>4, <1>6
  <2> QED  BY <2>1, <2>2 DEF Injection, IsInjective
<1> HIDE DEF numbers
<1>8. Cardinality(numbers) <= Cardinality(TaskOrder)
  BY <1>1, <1>2, <1>7, FS_Injection
<1> QED  BY <1>1, <1>2, <1>8

LEMMA InstantsHaveDays ==
  /\ LastInstant \in Nat /\ 0 \in Instant
  /\ \A docs \in SUBSET Expiry : docs \in SUBSET (Expiry \cup NoVehicle)
BY TasksAssumption DEF Instant

LEMMA StatusRanks == \A s \in Status : Rank(s) \in 1..4
BY DEF Status, Rank

LEMMA NextRanks ==
  ASSUME NEW s \in Status, NEW t \in NextStatus(s)
  PROVE  t \in Status /\ Rank(t) = Rank(s) + 1
<1>1. \/ s = "allocated" /\ t \in {"cancelled", "picked"}
      \/ s = "picked" /\ t = "checked"
      \/ s = "checked" /\ t = "loaded"
  BY DEF Status, NextStatus
<1> QED  BY <1>1 DEF Status, Rank

LEMMA VersionsAreFew ==
  ASSUME TasksInv, TaskBounds, NEW o \in TaskOrder
  PROVE  orderRow[o].version \in 1..5
<1>1. orderRow[o].status \in Status
  BY DEF TasksInv, TaskTypes, OrderRow
<1>2. PICK r \in 1..4 : r = Rank(orderRow[o].status)
  BY <1>1, StatusRanks
<1> QED  BY <1>2 DEF TaskBounds, VersionCounts

LEMMA SaidAtInstant ==
  ASSUME TaskBounds, NEW by, NEW v, NEW at \in Instant, NEW assignable, Say(by, v, at, assignable)
  PROVE  \A s \in verdicts' : s.at \in Instant
BY DEF Say, TaskBounds

LEMMA VehicleStepsBounded ==
  ASSUME TasksInv, TaskBounds, NEW v \in Vehicle,
         \/ \E docs \in SUBSET Expiry : RegisterVehicle(v, docs)
         \/ \E at \in Instant : AssertVehicleAssignable(v, at)
         \/ \E t \in tasks : AssignVehicle(t, v)
  PROVE  TaskBounds'
<1>1. UNCHANGED <<orderRow, clerk, taskReads, instant>>
  BY DEF RegisterVehicle, AssertVehicleAssignable, AssignVehicle
<1>2. \A s \in verdicts' : s.at \in Instant
  BY SaidAtInstant DEF RegisterVehicle, AssertVehicleAssignable, AssignVehicle, TaskBounds
<1>3. documents' \in [Vehicle -> SUBSET (Expiry \cup NoVehicle)]
  BY InstantsHaveDays DEF RegisterVehicle, AssertVehicleAssignable, AssignVehicle, TaskBounds
<1>4. (\A o \in TaskOrder : VersionCounts(orderRow[o]))'
  <2>1. \A o \in TaskOrder : VersionCounts(orderRow'[o])
    BY <1>1 DEF TaskBounds
  <2> QED  BY <2>1 DEF VersionCounts
<1> QED  BY <1>1, <1>2, <1>3, <1>4 DEF TaskBounds

LEMMA AnOrder == NoCommand.expected = 0 /\ NoCommand.order \in TaskOrder
BY TasksAssumption DEF NoCommand

LEMMA ClerkStepsBounded ==
  ASSUME TasksInv, TaskBounds, NEW c \in Clerk,
         \/ \E o \in TaskOrder : SendCreateTask(c, o)
         \/ LockOrder(c) \/ NextTaskNo(c) \/ RollBackTask(c)
  PROVE  TaskBounds'
<1>0. clerk \in [Clerk -> ClerkState]
  BY DEF TasksInv, TaskTypes
<1>1. UNCHANGED <<orderRow, instant, documents, verdicts>>
  BY DEF SendCreateTask, LockOrder, NextTaskNo, RollBackTask
<1>2. taskReads' \in 0..MaxTaskReads
  BY TasksAssumption DEF SendCreateTask, LockOrder, NextTaskNo, RollBackTask, TaskBounds
<1>3. PICK state : /\ clerk' = [clerk EXCEPT ![c] = state]
                   /\ state.expected \in 0..5 /\ state.order \in TaskOrder
  <2>1. ASSUME NEW o \in TaskOrder, SendCreateTask(c, o)
        PROVE  \E state : /\ clerk' = [clerk EXCEPT ![c] = state]
                          /\ state.expected \in 0..5 /\ state.order \in TaskOrder
    <3>1. orderRow[o].version \in 0..5
      BY VersionsAreFew
    <3>2. PICK state : state = [step |-> "sent", order |-> o, expected |-> orderRow[o].version]
      OBVIOUS
    <3>3. clerk' = [clerk EXCEPT ![c] = state]
      BY <2>1, <3>2 DEF SendCreateTask
    <3>4. state.expected \in 0..5 /\ state.order \in TaskOrder
      BY <3>1, <3>2
    <3> QED  BY <3>3, <3>4
  <2>2. ASSUME NEW step, clerk' = [clerk EXCEPT ![c].step = step]
        PROVE  \E state : /\ clerk' = [clerk EXCEPT ![c] = state]
                          /\ state.expected \in 0..5 /\ state.order \in TaskOrder
    <3>1. PICK state : state = [clerk[c] EXCEPT !.step = step]
      OBVIOUS
    <3>2. state.expected = clerk[c].expected /\ state.order = clerk[c].order
      BY <1>0, <3>1 DEF ClerkState
    <3>3. clerk' = [clerk EXCEPT ![c] = state]
      BY <2>2, <3>1
    <3> QED  BY <3>2, <3>3 DEF TaskBounds
  <2>3. CASE clerk' = [clerk EXCEPT ![c] = NoCommand]
    <3>1. PICK state : state = NoCommand
      OBVIOUS
    <3>2. clerk' = [clerk EXCEPT ![c] = state]
      BY <2>3, <3>1
    <3>3. state.expected \in 0..5 /\ state.order \in TaskOrder
      BY <3>1, AnOrder
    <3> QED  BY <3>2, <3>3
  <2>4. CASE LockOrder(c)
    <3>1. \/ clerk' = [clerk EXCEPT ![c] = NoCommand]
          \/ clerk' = [clerk EXCEPT ![c].step = "locked"]
      BY <2>4 DEF LockOrder
    <3> QED  BY <2>2, <2>3, <3>1
  <2>5. CASE NextTaskNo(c) \/ RollBackTask(c)
    BY <2>2, <2>3, <2>5 DEF NextTaskNo, RollBackTask
  <2> QED  BY <2>1, <2>4, <2>5
<1>4. \A d \in Clerk : clerk'[d] = IF d = c THEN state ELSE clerk[d]
  BY <1>0, <1>3
<1>5. \A d \in Clerk : clerk'[d].expected \in 0..5 /\ clerk'[d].order \in TaskOrder
  BY <1>3, <1>4 DEF TaskBounds
<1>6. (\A o \in TaskOrder : VersionCounts(orderRow[o]))'
  <2>1. \A o \in TaskOrder : VersionCounts(orderRow'[o])
    BY <1>1 DEF TaskBounds
  <2> QED  BY <2>1 DEF VersionCounts
<1> QED  BY <1>1, <1>2, <1>5, <1>6 DEF TaskBounds

(* One order moves. *)
LEMMA OneOrderCounts ==
  ASSUME TasksInv, TaskBounds, NEW o \in TaskOrder, NEW row, orderRow' = [orderRow EXCEPT ![o] = row],
         VersionCounts(row)
  PROVE  (\A p \in TaskOrder : VersionCounts(orderRow[p]))'
<1>1. \A p \in TaskOrder : orderRow'[p] = IF p = o THEN row ELSE orderRow[p]
  BY DEF TasksInv, TaskTypes
<1>2. \A p \in TaskOrder : VersionCounts(orderRow'[p])
  BY <1>1 DEF TaskBounds
<1> QED  BY <1>2 DEF VersionCounts

LEMMA AdvanceBounded ==
  ASSUME TasksInv, TaskBounds, NEW o \in TaskOrder, AdvanceOrder(o)
  PROVE  TaskBounds'
<1>1. PICK s \in NextStatus(orderRow[o].status) :
        orderRow' = [orderRow EXCEPT ![o].status = s, ![o].version = @ + 1]
  BY DEF AdvanceOrder
<1>2. UNCHANGED <<clerk, taskReads, documents, instant, verdicts>>
  BY DEF AdvanceOrder
<1>3. orderRow[o] \in OrderRow
  BY DEF TasksInv, TaskTypes
<1>4. PICK row : row = [orderRow[o] EXCEPT !.status = s, !.version = orderRow[o].version + 1]
  OBVIOUS
<1>5. orderRow' = [orderRow EXCEPT ![o] = row]
  BY <1>1, <1>4
<1>6. row.status = s /\ row.version = orderRow[o].version + 1 /\ row.task = orderRow[o].task
  BY <1>3, <1>4 DEF OrderRow
<1>7. orderRow[o].status \in Status
  BY <1>3 DEF OrderRow
<1>8. PICK r \in 1..4 : r = Rank(orderRow[o].status)
  BY <1>7, StatusRanks
<1>9. Rank(row.status) = r + 1
  BY <1>6, <1>7, <1>8, NextRanks
<1>10. VersionCounts(orderRow[o])
  BY DEF TaskBounds
<1>11. VersionCounts(row)
  BY <1>6, <1>8, <1>9, <1>10 DEF VersionCounts
<1> QED  BY <1>2, <1>5, <1>11, OneOrderCounts DEF TaskBounds

LEMMA CommitBounded ==
  ASSUME TasksInv, TaskBounds, NEW c \in Clerk, CommitTask(c)
  PROVE  TaskBounds'
<1>0. clerk[c].order \in TaskOrder /\ clerk[c].step = "numbered"
  BY DEF TaskBounds, CommitTask
<1>1. PICK o \in TaskOrder : o = clerk[c].order
  BY <1>0
<1>2. PICK no : no = taskCounter[EntityOf[c]] + 1
  OBVIOUS
<1>3. /\ orderRow' = [orderRow EXCEPT ![o].task = no, ![o].version = @ + 1]
      /\ clerk' = [clerk EXCEPT ![c] = NoCommand]
      /\ UNCHANGED <<taskReads, documents, instant, verdicts>>
  BY <1>1, <1>2 DEF CommitTask
<1>4. orderRow[o] \in OrderRow /\ clerk \in [Clerk -> ClerkState] /\ no \in Nat \ {0}
  BY <1>2, TasksAssumption DEF TasksInv, TaskTypes
<1>5. orderRow[o].task = NoTask
  BY <1>0, <1>1 DEF TasksInv, OrdersAreHeld, MayHaveTask
<1>6. PICK row : row = [orderRow[o] EXCEPT !.task = no, !.version = orderRow[o].version + 1]
  OBVIOUS
<1>7. orderRow' = [orderRow EXCEPT ![o] = row]
  BY <1>3, <1>6
<1>8. row.status = orderRow[o].status /\ row.version = orderRow[o].version + 1 /\ row.task = no
  BY <1>4, <1>6 DEF OrderRow
<1>9. PICK r \in 1..4 : r = Rank(orderRow[o].status)
  BY <1>4, StatusRanks DEF OrderRow
<1>10. VersionCounts(orderRow[o])
  BY DEF TaskBounds
<1>11. VersionCounts(row)
  BY <1>4, <1>5, <1>8, <1>9, <1>10 DEF VersionCounts, NoTask
<1>12. \A d \in Clerk : clerk'[d] = IF d = c THEN NoCommand ELSE clerk[d]
  BY <1>3, <1>4
<1>13. \A d \in Clerk : clerk'[d].expected \in 0..5 /\ clerk'[d].order \in TaskOrder
  BY <1>12, AnOrder DEF TaskBounds
<1> QED  BY <1>3, <1>7, <1>11, <1>13, OneOrderCounts DEF TaskBounds

LEMMA TaskBoundsStay ==
  ASSUME TasksInv, TaskBounds, [NextTasks]_taskVars
  PROVE  TaskBounds'
<1>1. CASE UNCHANGED taskVars \/ PassTime
  <2>1. UNCHANGED <<orderRow, clerk, taskReads, documents, verdicts>>
    BY <1>1 DEF taskVars, PassTime
  <2>2. instant' \in Instant
    BY <1>1, TasksAssumption DEF taskVars, PassTime, TaskBounds, Instant
  <2>3. (\A o \in TaskOrder : VersionCounts(orderRow[o]))'
    <3>1. \A o \in TaskOrder : VersionCounts(orderRow'[o])
      BY <2>1 DEF TaskBounds
    <3> QED  BY <3>1 DEF VersionCounts
  <2> QED  BY <2>1, <2>2, <2>3 DEF TaskBounds
<1> QED  BY <1>1, VehicleStepsBounded, ClerkStepsBounded, AdvanceBounded, CommitBounded DEF NextTasks

LEMMA TaskTypesStay == SpecTasks => []TasksTypeOK
<1>1. InitTasks => TaskBounds
  <2> SUFFICES ASSUME InitTasks PROVE TaskBounds
    OBVIOUS
  <2>1. \A o \in TaskOrder : VersionCounts(orderRow[o])
    BY DEF InitTasks, VersionCounts, Rank, NoTask
  <2>2. \A c \in Clerk : clerk[c].expected \in 0..5 /\ clerk[c].order \in TaskOrder
    BY AnOrder DEF InitTasks
  <2>3. taskReads \in 0..MaxTaskReads /\ instant \in Instant
    BY InstantsHaveDays, TasksAssumption DEF InitTasks
  <2> QED  BY <2>1, <2>2, <2>3 DEF InitTasks, TaskBounds
<1>2. TasksInv /\ TaskBounds /\ [NextTasks]_taskVars => TaskBounds'
  BY TaskBoundsStay
<1>3. TasksInv /\ TaskBounds => TasksTypeOK
  <2> SUFFICES ASSUME TasksInv, TaskBounds PROVE TasksTypeOK
    OBVIOUS
  <2>0. /\ orderRow \in [TaskOrder -> OrderRow] /\ tasks \subseteq TaskRow
        /\ taskCounter \in [TaskEntity -> Nat] /\ clerk \in [Clerk -> ClerkState]
        /\ verdicts \subseteq VerdictRow
    BY DEF TasksInv, TaskTypes
  <2>1. \A o \in TaskOrder : orderRow[o].task \in 0..Cardinality(TaskOrder)
    <3>1. \A o \in TaskOrder : orderRow[o].task \in Nat
      BY <2>0 DEF OrderRow
    <3>2. \A o \in TaskOrder : orderRow[o].task # NoTask =>
            \E t \in tasks : orderRow[o].task = t.no /\ t.entity \in TaskEntity /\ t.no \in 1..taskCounter[t.entity]
      BY <2>0 DEF TasksInv, OneTaskPerOrder, TaskRow
    <3>3. Cardinality(TaskOrder) \in Nat
      BY TasksAssumption, FS_CardinalityType
    <3>4. \A o \in TaskOrder : orderRow[o].task # NoTask =>
            \E n \in 0..Cardinality(TaskOrder) : orderRow[o].task \in 1..n
      BY <3>2, NumbersAreFew
    <3> QED  BY <3>1, <3>3, <3>4 DEF NoTask
  <2>2. orderRow \in [TaskOrder -> [status : Status, version : 1..5, task : 0..Cardinality(TaskOrder)]]
    <3>1. \A o \in TaskOrder : orderRow[o] \in [status : Status, version : 1..5, task : 0..Cardinality(TaskOrder)]
      BY <2>0, <2>1, VersionsAreFew DEF OrderRow
    <3> QED  BY <2>0, <3>1
  <2>3. taskCounter \in [TaskEntity -> 0..Cardinality(TaskOrder)]
    BY <2>0, NumbersAreFew
  <2>4. clerk \in [Clerk -> [step : {"idle", "sent", "locked", "numbered"}, order : TaskOrder, expected : 0..5]]
    <3>1. \A c \in Clerk : clerk[c] \in [step : {"idle", "sent", "locked", "numbered"}, order : TaskOrder,
                                         expected : 0..5]
      BY <2>0 DEF TaskBounds, ClerkState
    <3> QED  BY <2>0, <3>1
  <2>5. verdicts \subseteq [by : {"register", "assert", "guard"}, vehicle : Vehicle, at : Instant,
                            assignable : BOOLEAN]
    BY <2>0 DEF TaskBounds, VerdictRow
  <2> QED  BY <2>0, <2>2, <2>3, <2>4, <2>5 DEF TaskBounds, TasksTypeOK, TaskRow
<1> QED  BY <1>1, <1>2, <1>3, InitTasksKeeps, NextTasksKeeps, PTL DEF SpecTasks

(* The types that an invariant proved above already states. *)
LEMMA ChainTypesStay == SpecChain => []ChainTypesOK
<1>1. ChainIInv => ChainTypesOK
  BY DEF ChainIInv
<1> QED  BY <1>1, ChainInvariant, PTL

LEMMA KeyTypesStay == SpecEvents => [](KeysTypeOK /\ EventsTypeOK)
<1>1. KeysIInv => KeysTypeOK
  BY DEF KeysIInv
<1>2. EventsIInv => EventsTypeOK
  BY DEF EventsIInv
<1> QED  BY <1>1, <1>2, CommandsAreKeys, IdempotencyInvariant, EventsInvariant, PTL

LEMMA CountTypesStay == SpecCounts => []CountsTypeOK
<1>1. CountsInv => CountsTypeOK
  BY DEF CountsInv, CountTypes, CountsTypeOK, CountLines
<1> QED  BY <1>1, InitCountsKeeps, NextCountsKeeps, PTL DEF SpecCounts

LEMMA SpaceTypesStay == SpecSpace => []SpaceTypeOK
<1>1. SpaceInv => SpaceTypeOK
  BY DEF SpaceInv, SpaceTypes, SpaceTypeOK
<1> QED  BY <1>1, InitSpaceKeeps, NextSpaceKeeps, PTL DEF SpecSpace

LEMMA CreditTypesStay == SpecCredit => []CreditTypeOK
<1>1. CreditInv => CreditTypeOK
  BY DEF CreditInv, CreditTypes, CreditTypeOK
<1> QED  BY <1>1, InitCreditKeeps, NextCreditKeeps, PTL DEF SpecCredit

LEMMA ShiftTypesStay == SpecShifts => []ShiftsTypeOK
<1>1. ShiftsInv => ShiftsTypeOK
  BY DEF ShiftsInv
<1> QED  BY <1>1, InitShiftsKeeps, NextShiftsKeeps, PTL DEF SpecShifts

-----------------------------------------------------------------------------
(* The run of the parts (MCServices).                                      *)

LEMMA RestKeep ==
  ASSUME OthersRest
  PROVE
         /\ live # "chain" => UNCHANGED chainVars
         /\ live # "keys" => UNCHANGED eventVars
         /\ live # "counts" => UNCHANGED countVars
         /\ live # "space" => UNCHANGED spaceVars
         /\ live # "occupancy" => UNCHANGED occupancyVars
         /\ live # "prices" => UNCHANGED priceVars
         /\ live # "contracts" => UNCHANGED contractVars
         /\ live # "credit" => UNCHANGED creditVars
         /\ live # "quotes" => UNCHANGED quoteVars
         /\ live # "commissions" => UNCHANGED commissionVars
         /\ live # "login" => UNCHANGED loginVars
         /\ live # "pulls" => UNCHANGED pullVars
         /\ live # "shifts" => UNCHANGED shiftVars
         /\ live # "staff" => UNCHANGED staffVars
         /\ live # "api" => UNCHANGED apiVars
         /\ live # "checks" => UNCHANGED checkVars
         /\ live # "tasks" => UNCHANGED taskVars
  BY DEF OthersRest

LEMMA StepsOfParts ==
  ASSUME [NextServices]_serviceVars
  PROVE
         /\ [NextChain]_chainVars
         /\ [NextEvents]_eventVars
         /\ [NextCounts]_countVars
         /\ [NextSpace]_spaceVars
         /\ [NextOccupancy]_occupancyVars
         /\ [NextPrices]_priceVars
         /\ [NextContracts]_contractVars
         /\ [NextCredit]_creditVars
         /\ [NextQuotes]_quoteVars
         /\ [NextCommissions]_commissionVars
         /\ [NextLogin]_loginVars
         /\ [NextPulls]_pullVars
         /\ [NextShifts]_shiftVars
         /\ [NextStaff]_staffVars
         /\ [NextApi]_apiVars
         /\ [NextChecks]_checkVars
         /\ [NextTasks]_taskVars
<1>1. CASE UNCHANGED serviceVars
  BY <1>1 DEF serviceVars
<1>2. CASE NextServices
  BY <1>2, RestKeep DEF NextServices
<1> QED  BY <1>1, <1>2

LEMMA StartsOfParts ==
  ASSUME InitServices
  PROVE  /\ live \in Components
         /\ InitChain
         /\ InitEvents
         /\ InitCounts
         /\ InitSpace
         /\ InitOccupancy
         /\ InitPrices
         /\ InitContracts
         /\ InitCredit
         /\ InitQuotes
         /\ InitCommissions
         /\ InitLogin
         /\ InitPulls
         /\ InitShifts
         /\ InitStaff
         /\ InitApi
         /\ InitChecks
         /\ InitTasks
  BY DEF InitServices

(* The seventeen parts share no variable and only one of them moves, so a  *)
(* behaviour of the run is a behaviour of every part: each theorem about a *)
(* part holds of the run.                                                  *)
THEOREM RunIsOfParts ==
  SpecServices =>
    /\ SpecChain
    /\ SpecEvents
    /\ SpecCounts
    /\ SpecSpace
    /\ SpecOccupancy
    /\ SpecPrices
    /\ SpecContracts
    /\ SpecCredit
    /\ SpecQuotes
    /\ SpecCommissions
    /\ SpecLogin
    /\ SpecPulls
    /\ SpecShifts
    /\ SpecStaff
    /\ SpecApi
    /\ SpecChecks
    /\ SpecTasks
  BY StepsOfParts, StartsOfParts, PTL
  DEF SpecServices, SpecChain, SpecEvents, SpecCounts, SpecSpace, SpecOccupancy, SpecPrices,
      SpecContracts, SpecCredit, SpecQuotes, SpecCommissions, SpecLogin, SpecPulls, SpecShifts,
      SpecStaff, SpecApi, SpecChecks, SpecTasks

LEMMA LiveStays == SpecServices => [](live \in Components)
<1>1. InitServices => live \in Components
  BY StartsOfParts
<1>2. live \in Components /\ [NextServices]_serviceVars => (live \in Components)'
  <2> SUFFICES ASSUME live \in Components, [NextServices]_serviceVars
               PROVE  (live \in Components)'
    OBVIOUS
  <2>1. CASE NextServices
    BY <2>1 DEF NextServices, OthersRest, Components
  <2>2. CASE UNCHANGED serviceVars
    BY <2>2 DEF serviceVars, Components
  <2> QED  BY <2>1, <2>2
<1> QED  BY <1>1, <1>2, PTL DEF SpecServices

(* Whatever part a behaviour of the run moves, its state keeps the types   *)
(* the schema and the handlers give it.                                    *)
THEOREM ServicesTypesStay == SpecServices => []ServicesTypesOK
<1>1. /\ live \in Components
      /\ ChainTypesOK /\ KeysTypeOK /\ EventsTypeOK /\ CountsTypeOK /\ SpaceTypeOK
      /\ OccupancyTypeOK /\ PricesTypeOK /\ ContractsTypeOK /\ CreditTypeOK /\ QuotesTypeOK
      /\ CommissionsTypeOK /\ LoginTypesOK /\ PullsTypeOK /\ ShiftsTypeOK /\ DriverIdsTypeOK
      /\ ApiTypeOK /\ ChecksTypeOK /\ TasksTypeOK
      => ServicesTypesOK
  BY DEF Components, ServicesTypesOK
<1> QED
  BY <1>1, RunIsOfParts, LiveStays, ChainTypesStay, KeyTypesStay, CountTypesStay, SpaceTypesStay,
     OccupancyTypesStay, PriceTypesStay, ContractTypesStay, CreditTypesStay, QuoteTypesStay,
     CommissionTypesStay, LoginTypesStay, PullTypesStay, ShiftTypesStay, StaffTypesStay,
     ApiTypesStay, CheckTypesStay, TaskTypesStay, PTL
==============================================================================
