--------------------------- MODULE ServicesProofs ---------------------------
(***************************************************************************)
(* What these services keep, for every value of their constants.  Each     *)
(* section strengthens one property to an invariant of the specification   *)
(* of its module, with what the locks, the versions and the constraints of *)
(* the database are there for.                                             *)
(***************************************************************************)
EXTENDS ServicePromises, PortalPulls, OccupancyBilling, SpaceBlocks,
        SequenceTheorems, FiniteSetTheorems, SumLemmas, TLAPS

-----------------------------------------------------------------------------
(* Portal pulls (PortalPulls).                                             *)

ShipmentRow == [value : PortalValue \cup {"none"}, version : Nat]
AuditEntry == [old : PortalValue \cup {"none"}, new : PortalValue \cup {"none"}]
CycleState ==
  [step : {"idle", "pulling", "read"}, answer : Seq(Record), read : ShipmentRow,
   notes : [Tracking -> Seq(AuditEntry)]]

PullTypes ==
  /\ shipments \in [Tracking -> ShipmentRow]
  /\ trail \in [Tracking -> Seq(AuditEntry)]
  /\ cycle \in [Cycle -> CycleState]
  /\ \A c \in Cycle : cycle[c].step = "read" => cycle[c].answer # <<>>

(* A row a cycle has written is its alone, and its audit rows lead from    *)
(* the committed row to the one it finds.                                  *)
NotesAreOwned ==
  \A c \in Cycle, k \in Tracking :
    /\ Replays(shipments[k].value, cycle[c].notes[k], Found(c, k).value)
    /\ cycle[c].notes[k] # <<>> => ~ WrittenByOther(c, k)

(* A row a cycle has read has not changed unless its version has grown.    *)
ReadIsOld(c) ==
  LET row == Found(c, Head(cycle[c].answer).no)
  IN /\ cycle[c].read.version <= row.version
     /\ cycle[c].read.version = row.version => cycle[c].read = row
ReadsAreOld == \A c \in Cycle : cycle[c].step = "read" => ReadIsOld(c)

PullsInv == PullTypes /\ NotesAreOwned /\ ReadsAreOld /\ PullsAuditReplays

LEMMA NoteIsLast ==
  ASSUME NEW notes \in Seq(AuditEntry), NEW note \in AuditEntry
  PROVE  /\ Append(notes, note) # <<>>
         /\ Append(notes, note)[Len(Append(notes, note))] = note
<1>1. Len(notes) \in Nat
  OBVIOUS
<1>2. Len(Append(notes, note)) = Len(notes) + 1 /\ Append(notes, note)[Len(notes) + 1] = note
  BY AppendProperties
<1>3. Append(notes, note) # <<>>
  BY AppendProperties
<1> QED  BY <1>1, <1>2, <1>3

(* A further audit row, with what the one before it left.                  *)
LEMMA ReplayTakesOne ==
  ASSUME NEW notes \in Seq(AuditEntry), NEW note \in AuditEntry, NEW from,
         Replays(from, notes, note.old)
  PROVE  Replays(from, Append(notes, note), note.new)
<1> DEFINE n == Len(notes)
           all == Append(notes, note)
<1> SUFFICES Replays(from, all, note.new)
  OBVIOUS
<1>1. /\ n \in Nat /\ Len(all) = n + 1 /\ all[n + 1] = note /\ all # <<>>
      /\ \A i \in 1..n : all[i] = notes[i]
  BY AppendProperties
<1>2. all[1].old = from
  <2>1. CASE notes = <<>>
    BY <1>1, <2>1, EmptySeq DEF Replays
  <2>2. CASE notes # <<>>
    <3>1. 1 \in 1..n
      BY <2>2, EmptySeq
    <3> QED  BY <1>1, <2>2, <3>1 DEF Replays
  <2> QED  BY <2>1, <2>2
<1>3. ASSUME NEW i \in 2..(n + 1) PROVE all[i].old = all[i - 1].new
  <2>1. CASE i = n + 1
    <3>1. n \in 1..n /\ i - 1 = n /\ notes # <<>>
      BY <1>1, <2>1, EmptySeq
    <3>2. all[i - 1] = notes[n]
      BY <1>1, <3>1
    <3> QED  BY <1>1, <2>1, <3>1, <3>2 DEF Replays
  <2>2. CASE i # n + 1
    <3>1. i \in 2..n /\ i \in 1..n /\ i - 1 \in 1..n
      BY <1>1, <2>2
    <3>2. all[i] = notes[i] /\ all[i - 1] = notes[i - 1]
      BY <1>1, <3>1
    <3> QED  BY <3>1, <3>2 DEF Replays
  <2> QED  BY <2>1, <2>2
<1> HIDE DEF all, n
<1> QED  BY <1>1, <1>2, <1>3 DEF Replays

(* Audit rows that go on from where others stopped.                        *)
LEMMA ReplaysJoin ==
  ASSUME NEW first \in Seq(AuditEntry), NEW more \in Seq(AuditEntry), NEW from, NEW mid, NEW to,
         Replays(from, first, mid), Replays(mid, more, to)
  PROVE  Replays(from, first \o more, to)
<1> DEFINE n == Len(first)
           m == Len(more)
           all == first \o more
<1>1. CASE more = <<>>
  BY <1>1 DEF Replays
<1>2. CASE first = <<>>
  BY <1>2 DEF Replays
<1>3. CASE first # <<>> /\ more # <<>>
  <2> SUFFICES Replays(from, all, to)
    OBVIOUS
  <2>1. n \in Nat /\ m \in Nat /\ n > 0 /\ m > 0
    BY <1>3, EmptySeq
  <2>2. /\ all \in Seq(AuditEntry) /\ Len(all) = n + m
        /\ \A i \in 1..n : all[i] = first[i]
        /\ \A i \in 1..m : all[n + i] = more[i]
    <3>1. /\ Len(all) = n + m
          /\ \A i \in 1..(n + m) : all[i] = IF i <= n THEN first[i] ELSE more[i - n]
      BY ConcatProperties
    <3>2. \A i \in 1..n : i \in 1..(n + m) /\ i <= n
      BY <2>1
    <3>3. \A i \in 1..m : n + i \in 1..(n + m) /\ ~(n + i <= n) /\ (n + i) - n = i
      BY <2>1
    <3>4. all \in Seq(AuditEntry)
      BY ConcatProperties
    <3> QED  BY <3>1, <3>2, <3>3, <3>4
  <2>3. all # <<>>
    BY <2>1, <2>2, EmptySeq
  <2>4. all[1].old = from /\ all[n + m].new = to
    <3>1. 1 \in 1..n /\ m \in 1..m
      BY <2>1
    <3> QED  BY <1>3, <2>2, <3>1 DEF Replays
  <2>5. ASSUME NEW i \in 2..(n + m) PROVE all[i].old = all[i - 1].new
    <3>1. CASE i <= n
      <4>1. i \in 2..n /\ i \in 1..n /\ i - 1 \in 1..n
        BY <2>1, <3>1
      <4> QED  BY <2>2, <4>1 DEF Replays
    <3>2. CASE i = n + 1
      <4>1. n \in 1..n /\ 1 \in 1..m /\ i - 1 = n
        BY <2>1, <3>2
      <4>2. all[i] = more[1] /\ all[i - 1] = first[n]
        BY <2>2, <3>2, <4>1
      <4> QED  BY <1>3, <4>2 DEF Replays
    <3>3. CASE i > n + 1
      <4> DEFINE j == i - n
      <4>1. j \in 2..m /\ j \in 1..m /\ j - 1 \in 1..m /\ i = n + j /\ i - 1 = n + (j - 1)
        BY <2>1, <3>3
      <4> HIDE DEF j
      <4>2. all[i] = more[j] /\ all[i - 1] = more[j - 1]
        BY <2>2, <4>1
      <4> QED  BY <4>1, <4>2 DEF Replays
    <3> QED  BY <2>1, <3>1, <3>2, <3>3
  <2>6. Len(all) = n + m
    BY <2>2
  <2> HIDE DEF all, n, m
  <2> QED  BY <2>3, <2>4, <2>5, <2>6 DEF Replays
<1> QED  BY <1>1, <1>2, <1>3

LEMMA FoundIsRow ==
  ASSUME PullTypes, NEW c \in Cycle, NEW k \in Tracking
  PROVE  /\ Found(c, k) \in ShipmentRow
         /\ Found(c, k).version = shipments[k].version + Len(cycle[c].notes[k])
<1> DEFINE notes == cycle[c].notes[k]
<1>1. notes \in Seq(AuditEntry) /\ shipments[k] \in ShipmentRow
  BY DEF PullTypes, CycleState
<1>2. CASE notes = <<>>
  <2>1. Found(c, k) = shipments[k] /\ Len(notes) = 0
    BY <1>2 DEF Found
  <2> QED  BY <1>1, <2>1 DEF ShipmentRow
<1>3. CASE notes # <<>>
  <2>1. Found(c, k) = [value |-> notes[Len(notes)].new, version |-> shipments[k].version + Len(notes)]
    BY <1>3 DEF Found
  <2>2. Len(notes) \in Nat /\ notes[Len(notes)] \in AuditEntry
    BY <1>1, <1>3, EmptySeq, ElementOfSeq
  <2>3. shipments[k].version + Len(notes) \in Nat
    BY <1>1, <2>2 DEF ShipmentRow
  <2>4. notes[Len(notes)].new \in PortalValue \cup {"none"}
    BY <2>2 DEF AuditEntry
  <2> QED  BY <2>1, <2>3, <2>4 DEF ShipmentRow
<1> QED  BY <1>2, <1>3

LEMMA NextRecord ==
  ASSUME PullTypes, NEW c \in Cycle, cycle[c].step = "read" \/ cycle[c].answer # <<>>
  PROVE  /\ cycle[c] \in CycleState /\ cycle[c].answer # <<>>
         /\ Head(cycle[c].answer).no \in Tracking /\ Head(cycle[c].answer).value \in PortalValue
         /\ Tail(cycle[c].answer) \in Seq(Record)
<1> DEFINE answer == cycle[c].answer
<1>1. cycle[c] \in CycleState /\ answer \in Seq(Record) /\ answer # <<>>
  BY DEF PullTypes, CycleState
<1> HIDE DEF answer
<1>2. Head(answer) \in Record /\ Tail(answer) \in Seq(Record)
  BY <1>1, HeadTailProperties
<1>3. Head(answer).no \in Tracking /\ Head(answer).value \in PortalValue
  BY <1>2 DEF Record
<1> QED  BY <1>1, <1>2, <1>3 DEF answer

LEMMA InitPullsKeeps == InitPulls => PullsInv
<1> SUFFICES ASSUME InitPulls PROVE PullsInv
  OBVIOUS
<1>1. Unknown \in ShipmentRow /\ Asleep \in CycleState /\ Asleep.step = "idle"
      /\ \A k \in Tracking : Asleep.notes[k] = <<>>
  BY EmptySeq DEF Unknown, Asleep, ShipmentRow, CycleState
<1>2. PullTypes
  BY <1>1, EmptySeq DEF InitPulls, PullTypes
<1>3. \A c \in Cycle, k \in Tracking : cycle[c].notes[k] = <<>> /\ Found(c, k) = shipments[k]
  BY <1>1 DEF InitPulls, Found
<1>4. NotesAreOwned
  BY <1>3 DEF NotesAreOwned, Replays
<1>5. ReadsAreOld
  BY <1>1 DEF InitPulls, ReadsAreOld
<1>6. PullsAuditReplays
  BY EmptySeq DEF InitPulls, PullsAuditReplays, Replays, Unknown
<1> QED  BY <1>2, <1>4, <1>5, <1>6 DEF PullsInv

(* A step of one cycle that leaves the tables alone.                       *)
LEMMA CycleMoves ==
  ASSUME PullsInv, NEW c \in Cycle, NEW moved \in CycleState,
         cycle' = [cycle EXCEPT ![c] = moved], UNCHANGED <<shipments, trail>>,
         moved.step = "read" => moved.answer # <<>> /\ ReadIsOld(c)',
         \A k \in Tracking : /\ Replays(shipments[k].value, moved.notes[k], Found(c, k)'.value)
                             /\ moved.notes[k] # <<>> => ~ WrittenByOther(c, k)
  PROVE  PullsInv'
<1>1. cycle'[c] = moved /\ \A d \in Cycle \ {c} : cycle'[d] = cycle[d]
  BY DEF PullsInv, PullTypes
<1>2. \A d \in Cycle \ {c}, k \in Tracking : Found(d, k)' = Found(d, k)
  BY <1>1 DEF Found
<1>3. PullTypes'
  BY <1>1 DEF PullsInv, PullTypes
<1>4. NotesAreOwned'
  <2> SUFFICES ASSUME NEW d \in Cycle, NEW k \in Tracking
               PROVE  /\ Replays(shipments[k].value, cycle'[d].notes[k], Found(d, k)'.value)
                      /\ cycle'[d].notes[k] # <<>> =>
                           \A e \in Cycle \ {d} : cycle'[e].notes[k] = <<>>
    BY DEF NotesAreOwned, WrittenByOther
  <2>1. CASE d = c
    BY <1>1, <2>1 DEF WrittenByOther
  <2>2. CASE d # c
    <3>1. Replays(shipments[k].value, cycle[d].notes[k], Found(d, k).value)
      BY DEF PullsInv, NotesAreOwned
    <3>2. ASSUME cycle[d].notes[k] # <<>>, NEW e \in Cycle \ {d} PROVE cycle'[e].notes[k] = <<>>
      BY <1>1, <2>2, <3>2 DEF PullsInv, NotesAreOwned, WrittenByOther
    <3> QED  BY <1>1, <1>2, <2>2, <3>1, <3>2
  <2> QED  BY <2>1, <2>2
<1>5. ReadsAreOld'
  <2> SUFFICES ASSUME NEW d \in Cycle, cycle'[d].step = "read" PROVE ReadIsOld(d)'
    BY DEF ReadsAreOld
  <2>1. CASE d = c
    BY <1>1, <2>1
  <2>2. CASE d # c
    <3>1. cycle'[d] = cycle[d] /\ ReadIsOld(d)
      BY <1>1, <2>2 DEF PullsInv, ReadsAreOld
    <3>2. Head(cycle[d].answer).no \in Tracking
      BY <1>1, <2>2, <3>1, NextRecord DEF PullsInv
    <3> QED  BY <1>2, <2>2, <3>1, <3>2 DEF ReadIsOld
  <2> QED  BY <2>1, <2>2
<1>6. PullsAuditReplays'
  BY DEF PullsInv, PullsAuditReplays
<1> QED  BY <1>3, <1>4, <1>5, <1>6 DEF PullsInv

(* A cycle that begins, or that is rolled back, has written nothing.       *)
LEMMA EmptyCycleKeeps ==
  ASSUME PullsInv, NEW c \in Cycle, FetchShipments(c) \/ AbortCycle(c)
  PROVE  PullsInv'
<1>1. Asleep \in CycleState /\ Asleep.step = "idle" /\ \A k \in Tracking : Asleep.notes[k] = <<>>
  BY EmptySeq DEF Unknown, Asleep, ShipmentRow, CycleState
<1>2. PICK moved \in CycleState :
        /\ cycle' = [cycle EXCEPT ![c] = moved]
        /\ moved.step # "read" /\ \A k \in Tracking : moved.notes[k] = <<>>
  <2>1. CASE AbortCycle(c)
    BY <1>1, <2>1 DEF AbortCycle
  <2>2. CASE FetchShipments(c)
    <3>1. PICK n \in 0..MaxRecords : \E answer \in [1..n -> Record] :
            cycle' = [cycle EXCEPT ![c] = [Asleep EXCEPT !.step = "pulling", !.answer = answer]]
      BY <2>2 DEF FetchShipments
    <3>2. PICK answer \in [1..n -> Record] :
            cycle' = [cycle EXCEPT ![c] = [Asleep EXCEPT !.step = "pulling", !.answer = answer]]
      BY <3>1
    <3>3. answer \in Seq(Record)
      <4>1. n \in Nat
        BY PullsAssumption
      <4> QED  BY <4>1
    <3> DEFINE moved == [Asleep EXCEPT !.step = "pulling", !.answer = answer]
    <3>4. moved \in CycleState /\ moved.step = "pulling" /\ moved.notes = Asleep.notes
      BY <1>1, <3>3 DEF CycleState
    <3> HIDE DEF moved
    <3>5. moved.step # "read" /\ \A k \in Tracking : moved.notes[k] = <<>>
      BY <1>1, <3>4
    <3>6. cycle' = [cycle EXCEPT ![c] = moved]
      BY <3>2 DEF moved
    <3> QED  BY <3>4, <3>5, <3>6
  <2> QED  BY <2>1, <2>2
<1>3. UNCHANGED <<shipments, trail>>
  BY DEF FetchShipments, AbortCycle
<1>4. cycle'[c] = moved
  BY <1>2 DEF PullsInv, PullTypes
<1>5. \A k \in Tracking : Found(c, k)' = shipments[k]
  BY <1>2, <1>3, <1>4 DEF Found
<1>6. \A k \in Tracking : /\ Replays(shipments[k].value, moved.notes[k], Found(c, k)'.value)
                          /\ moved.notes[k] # <<>> => ~ WrittenByOther(c, k)
  BY <1>2, <1>5 DEF Replays
<1> QED  BY <1>2, <1>3, <1>6, CycleMoves

(* Reading, and finding nothing to change, keep what the cycle has written.*)
LEMMA ReadingKeeps ==
  ASSUME PullsInv, NEW c \in Cycle, FindShipmentByTrackingNo(c) \/ UnchangedRecord(c)
  PROVE  PullsInv'
<1> DEFINE cy == cycle[c]
           k == Head(cy.answer).no
<1>1. cy \in CycleState /\ cy.answer # <<>> /\ k \in Tracking /\ Tail(cy.answer) \in Seq(Record)
  BY NextRecord DEF FindShipmentByTrackingNo, UnchangedRecord, PullsInv
<1>2. PICK moved \in CycleState :
        /\ cycle' = [cycle EXCEPT ![c] = moved] /\ moved.notes = cy.notes
        /\ moved.step = "read" => moved.answer = cy.answer /\ moved.read = Found(c, k)
  <2>1. CASE FindShipmentByTrackingNo(c)
    <3> DEFINE moved == [cy EXCEPT !.step = "read", !.read = Found(c, k)]
    <3>1. Found(c, k) \in ShipmentRow
      BY <1>1, FoundIsRow DEF PullsInv
    <3>2. moved \in CycleState /\ moved.notes = cy.notes /\ moved.answer = cy.answer /\ moved.read = Found(c, k)
      BY <1>1, <3>1 DEF CycleState
    <3>3. cycle' = [cycle EXCEPT ![c] = moved]
      BY <2>1 DEF FindShipmentByTrackingNo
    <3> HIDE DEF moved
    <3> QED  BY <3>2, <3>3
  <2>2. CASE UnchangedRecord(c)
    <3> DEFINE moved == [cy EXCEPT !.step = "pulling", !.answer = Tail(cy.answer)]
    <3>1. Tail(cy.answer) \in Seq(Record)
      BY <1>1
    <3>2. moved \in CycleState /\ moved.notes = cy.notes /\ moved.step = "pulling"
      BY <1>1, <3>1 DEF CycleState
    <3>3. cycle' = [cycle EXCEPT ![c] = moved]
      BY <2>2 DEF UnchangedRecord
    <3> HIDE DEF moved
    <3> QED  BY <3>2, <3>3
  <2> QED  BY <2>1, <2>2
<1>3. UNCHANGED <<shipments, trail>>
  BY DEF FindShipmentByTrackingNo, UnchangedRecord
<1>4. cycle'[c] = moved
  BY <1>2 DEF PullsInv, PullTypes
<1> HIDE DEF cy, k
<1>5. \A j \in Tracking : Found(c, j)' = Found(c, j)
  BY <1>2, <1>3, <1>4 DEF Found, cy
<1>6. ASSUME moved.step = "read" PROVE moved.answer # <<>> /\ ReadIsOld(c)'
  <2>1. moved.answer = cy.answer /\ moved.read = Found(c, k) /\ Head(moved.answer).no = k
    BY <1>2, <1>6 DEF k
  <2>2. Found(c, k).version \in Nat
    BY <1>1, FoundIsRow DEF PullsInv, ShipmentRow
  <2> QED  BY <1>1, <1>4, <1>5, <2>1, <2>2 DEF ReadIsOld
<1>7. \A j \in Tracking : /\ Replays(shipments[j].value, moved.notes[j], Found(c, j)'.value)
                          /\ moved.notes[j] # <<>> => ~ WrittenByOther(c, j)
  BY <1>2, <1>5 DEF PullsInv, NotesAreOwned, cy
<1> QED  BY <1>2, <1>3, <1>6, <1>7, CycleMoves

LEMMA WriteKeeps ==
  ASSUME PullsInv, NEW c \in Cycle, WriteShipment(c)
  PROVE  PullsInv'
<1> DEFINE cy == cycle[c]
           k == Head(cy.answer).no
           note == [old |-> cy.read.value, new |-> Head(cy.answer).value]
           grown == Append(cy.notes[k], note)
           moved == [cy EXCEPT !.step = "pulling", !.answer = Tail(cy.answer),
                               !.notes = [cy.notes EXCEPT ![k] = grown]]
<1>1. /\ cy \in CycleState /\ cy.answer # <<>> /\ cy.step = "read" /\ k \in Tracking
      /\ Head(cy.answer).value \in PortalValue /\ Tail(cy.answer) \in Seq(Record)
  BY NextRecord DEF WriteShipment, PullsInv
<1>2. cy.read = Found(c, k) /\ ~ WrittenByOther(c, k) /\ UNCHANGED <<shipments, trail>>
  BY DEF WriteShipment, PullsInv, ReadsAreOld, ReadIsOld, RowIsAsRead
<1>3. cycle' = [cycle EXCEPT ![c] = moved]
  BY Zenon DEF WriteShipment
<1>4. /\ cy.notes \in [Tracking -> Seq(AuditEntry)] /\ note \in AuditEntry
      /\ grown \in Seq(AuditEntry) /\ Tail(cy.answer) \in Seq(Record)
  <2>1. cy.notes \in [Tracking -> Seq(AuditEntry)] /\ cy.read.value \in PortalValue \cup {"none"}
    BY <1>1 DEF CycleState, ShipmentRow
  <2>2. note \in AuditEntry
    BY <1>1, <2>1 DEF AuditEntry
  <2> HIDE DEF note
  <2> QED  BY <1>1, <2>1, <2>2, AppendProperties
<1>5. moved \in CycleState /\ moved.step = "pulling" /\ moved.notes = [cy.notes EXCEPT ![k] = grown]
  <2>1. [cy.notes EXCEPT ![k] = grown] \in [Tracking -> Seq(AuditEntry)]
    BY <1>4
  <2> HIDE DEF grown
  <2> QED  BY <1>1, <1>4, <2>1 DEF CycleState
<1>6. Replays(shipments[k].value, grown, note.new) /\ grown # <<>> /\ grown[Len(grown)] = note
  <2>1. note.old = Found(c, k).value
    BY <1>2
  <2>2. Replays(shipments[k].value, cy.notes[k], note.old)
    BY <1>1, <2>1 DEF PullsInv, NotesAreOwned
  <2> HIDE DEF note
  <2>3. cy.notes[k] \in Seq(AuditEntry)
    BY <1>1, <1>4
  <2>4. Replays(shipments[k].value, grown, note.new)
    BY <1>4, <2>2, <2>3, ReplayTakesOne
  <2>5. grown # <<>> /\ grown[Len(grown)] = note
    BY <1>4, <2>3, NoteIsLast
  <2> QED  BY <2>4, <2>5
<1> HIDE DEF cy, k, note, grown, moved
<1>7. cycle'[c] = moved /\ \A j \in Tracking : moved.notes[j] = IF j = k THEN grown ELSE cy.notes[j]
  BY <1>1, <1>3, <1>4, <1>5 DEF PullsInv, PullTypes
<1>8. ASSUME NEW j \in Tracking
      PROVE  /\ Replays(shipments[j].value, moved.notes[j], Found(c, j)'.value)
             /\ moved.notes[j] # <<>> => ~ WrittenByOther(c, j)
  <2>1. CASE j = k
    <3>1. Found(c, j)'.value = note.new
      BY <1>2, <1>6, <1>7, <2>1 DEF Found
    <3> QED  BY <1>2, <1>6, <1>7, <2>1, <3>1
  <2>2. CASE j # k
    <3>1. Found(c, j)' = Found(c, j) /\ moved.notes[j] = cycle[c].notes[j]
      BY <1>2, <1>7, <2>2 DEF Found, cy
    <3> QED  BY <3>1 DEF PullsInv, NotesAreOwned
  <2> QED  BY <2>1, <2>2
<1> QED  BY <1>2, <1>3, <1>5, <1>8, CycleMoves

LEMMA CommitCycleKeeps ==
  ASSUME PullsInv, NEW c \in Cycle, CommitCycle(c)
  PROVE  PullsInv'
<1>1. /\ shipments' = [k \in Tracking |-> Found(c, k)]
      /\ trail' = [k \in Tracking |-> trail[k] \o cycle[c].notes[k]]
      /\ cycle' = [cycle EXCEPT ![c] = Asleep]
  BY DEF CommitCycle
<1>2. Asleep \in CycleState /\ Asleep.step = "idle" /\ \A k \in Tracking : Asleep.notes[k] = <<>>
  BY EmptySeq DEF Unknown, Asleep, ShipmentRow, CycleState
<1>3. cycle'[c] = Asleep /\ \A d \in Cycle \ {c} : cycle'[d] = cycle[d]
  BY <1>1 DEF PullsInv, PullTypes
<1>4. \A k \in Tracking : /\ shipments[k] \in ShipmentRow /\ Found(c, k) \in ShipmentRow
                          /\ trail[k] \in Seq(AuditEntry) /\ cycle[c].notes[k] \in Seq(AuditEntry)
                          /\ Found(c, k).version = shipments[k].version + Len(cycle[c].notes[k])
  BY FoundIsRow DEF PullsInv, PullTypes, CycleState
<1>5. PullTypes'
  <2>1. shipments' \in [Tracking -> ShipmentRow]
    BY <1>1, <1>4
  <2>2. trail' \in [Tracking -> Seq(AuditEntry)]
    BY <1>1, <1>4, ConcatProperties
  <2> QED  BY <1>1, <1>2, <1>3, <2>1, <2>2 DEF PullsInv, PullTypes
<1>6. ASSUME NEW d \in Cycle \ {c}, NEW k \in Tracking
      PROVE  /\ cycle[d].notes[k] # <<>> => shipments'[k] = shipments[k] /\ Found(d, k)' = Found(d, k)
             /\ cycle[d].notes[k] = <<>> => Found(d, k)' = Found(c, k) /\ Found(d, k) = shipments[k]
  <2>1. cycle[d].notes[k] # <<>> => cycle[c].notes[k] = <<>>
    BY DEF PullsInv, NotesAreOwned, WrittenByOther
  <2>2. shipments'[k] = Found(c, k) /\ cycle'[d] = cycle[d]
    BY <1>1, <1>3
  <2>3. cycle[c].notes[k] = <<>> => Found(c, k) = shipments[k]
    BY DEF Found
  <2> QED  BY <2>1, <2>2, <2>3 DEF Found
<1>7. NotesAreOwned'
  <2> SUFFICES ASSUME NEW d \in Cycle, NEW k \in Tracking
               PROVE  /\ Replays(shipments'[k].value, cycle'[d].notes[k], Found(d, k)'.value)
                      /\ cycle'[d].notes[k] # <<>> =>
                           \A e \in Cycle \ {d} : cycle'[e].notes[k] = <<>>
    BY DEF NotesAreOwned, WrittenByOther
  <2>1. CASE cycle'[d].notes[k] = <<>>
    <3>1. Found(d, k)' = shipments'[k]
      BY <2>1 DEF Found
    <3> QED  BY <2>1, <3>1 DEF Replays
  <2>2. CASE cycle'[d].notes[k] # <<>>
    <3>1. d \in Cycle \ {c} /\ cycle'[d] = cycle[d]
      BY <1>2, <1>3, <2>2
    <3>2. shipments'[k] = shipments[k] /\ Found(d, k)' = Found(d, k)
      BY <1>6, <2>2, <3>1
    <3>3. Replays(shipments[k].value, cycle[d].notes[k], Found(d, k).value)
      BY DEF PullsInv, NotesAreOwned
    <3>4. ASSUME NEW e \in Cycle \ {d} PROVE cycle'[e].notes[k] = <<>>
      BY <1>2, <1>3, <2>2, <3>1 DEF PullsInv, NotesAreOwned, WrittenByOther
    <3> QED  BY <3>1, <3>2, <3>3, <3>4
  <2> QED  BY <2>1, <2>2
<1>8. ReadsAreOld'
  <2> SUFFICES ASSUME NEW d \in Cycle, cycle'[d].step = "read" PROVE ReadIsOld(d)'
    BY DEF ReadsAreOld
  <2>1. d \in Cycle \ {c} /\ cycle'[d] = cycle[d] /\ ReadIsOld(d)
    BY <1>2, <1>3 DEF PullsInv, ReadsAreOld
  <2>2. PICK k \in Tracking : k = Head(cycle[d].answer).no
    BY <2>1, NextRecord DEF PullsInv
  <2> DEFINE read == cycle[d].read
  <2>3. read.version \in Nat
    BY <2>1, NextRecord DEF PullsInv, CycleState, ShipmentRow
  <2>4. /\ read.version <= Found(d, k).version
        /\ read.version = Found(d, k).version => read = Found(d, k)
    BY <2>1, <2>2 DEF ReadIsOld
  <2> HIDE DEF read
  <2>5. /\ read.version <= Found(d, k)'.version
        /\ read.version = Found(d, k)'.version => read = Found(d, k)'
    <3>1. CASE Found(d, k)' = Found(d, k)
      BY <2>4, <3>1
    <3>2. CASE Found(d, k)' # Found(d, k)
      <4>1. Found(d, k)' = Found(c, k) /\ Found(d, k) = shipments[k] /\ Found(c, k) # shipments[k]
        <5>1. Found(d, k)' = Found(c, k) /\ Found(d, k) = shipments[k]
          BY <1>6, <2>1, <3>2
        <5> QED  BY <3>2, <5>1
      <4>2. Len(cycle[c].notes[k]) \in Nat /\ Len(cycle[c].notes[k]) # 0
        BY <1>4, <4>1, EmptySeq DEF Found
      <4>3. shipments[k].version \in Nat
        BY <1>4 DEF ShipmentRow
      <4>4. Found(d, k)'.version = shipments[k].version + Len(cycle[c].notes[k])
        BY <1>4, <4>1
      <4>5. Found(d, k).version \in Nat /\ Found(d, k)'.version > Found(d, k).version
        BY <4>1, <4>2, <4>3, <4>4
      <4>6. Found(d, k)'.version \in Nat
        BY <4>2, <4>3, <4>4
      <4> QED  BY <2>3, <2>4, <4>5, <4>6
    <3> QED  BY <3>1, <3>2
  <2> QED  BY <2>1, <2>2, <2>5 DEF ReadIsOld, read
<1>9. PullsAuditReplays'
  <2> SUFFICES ASSUME NEW k \in Tracking
               PROVE  /\ Len(trail'[k]) = shipments'[k].version
                      /\ Replays("none", trail'[k], shipments'[k].value)
    BY DEF PullsAuditReplays
  <2>1. trail'[k] = trail[k] \o cycle[c].notes[k] /\ shipments'[k] = Found(c, k)
    BY <1>1
  <2>2. Len(trail[k]) = shipments[k].version /\ Replays("none", trail[k], shipments[k].value)
    BY DEF PullsInv, PullsAuditReplays
  <2>3. Replays(shipments[k].value, cycle[c].notes[k], Found(c, k).value)
    BY DEF PullsInv, NotesAreOwned
  <2>4. Len(trail'[k]) = Len(trail[k]) + Len(cycle[c].notes[k])
    BY <1>4, <2>1, ConcatProperties
  <2>5. Replays("none", trail[k] \o cycle[c].notes[k], Found(c, k).value)
    BY <1>4, <2>2, <2>3, ReplaysJoin
  <2> QED  BY <1>4, <2>1, <2>2, <2>4, <2>5
<1> QED  BY <1>5, <1>7, <1>8, <1>9 DEF PullsInv

LEMMA NextPullsKeeps == PullsInv /\ [NextPulls]_pullVars => PullsInv'
<1> SUFFICES ASSUME PullsInv, [NextPulls]_pullVars PROVE PullsInv'
  OBVIOUS
<1>1. ASSUME UNCHANGED <<shipments, trail, cycle>> PROVE PullsInv'
  <2>1. \A c \in Cycle, k \in Tracking : Found(c, k)' = Found(c, k) /\ WrittenByOther(c, k)' = WrittenByOther(c, k)
    BY <1>1 DEF Found, WrittenByOther
  <2>2. PullTypes' /\ PullsAuditReplays'
    BY <1>1 DEF PullsInv, PullTypes, PullsAuditReplays
  <2>3. NotesAreOwned'
    BY <1>1, <2>1 DEF PullsInv, NotesAreOwned
  <2>4. ASSUME NEW c \in Cycle, cycle[c].step = "read" PROVE ReadIsOld(c)'
    <3>1. Head(cycle[c].answer).no \in Tracking
      BY <2>4, NextRecord DEF PullsInv
    <3>2. ReadIsOld(c)
      BY <2>4 DEF PullsInv, ReadsAreOld
    <3> QED  BY <1>1, <2>1, <3>1, <3>2 DEF ReadIsOld
  <2>5. ReadsAreOld'
    BY <1>1, <2>4 DEF ReadsAreOld
  <2> QED  BY <2>2, <2>3, <2>5 DEF PullsInv
<1>2. ASSUME NEW c \in Cycle, PortalUnreachable(c) PROVE PullsInv'
  BY <1>1, <1>2 DEF PortalUnreachable
<1>3. CASE UNCHANGED pullVars
  BY <1>1, <1>3 DEF pullVars
<1>4. CASE NextPulls
  BY <1>2, <1>4, EmptyCycleKeeps, ReadingKeeps, WriteKeeps, CommitCycleKeeps DEF NextPulls
<1> QED  BY <1>3, <1>4

(* A cycle writes a row only as it last read it, its own writes counted    *)
(* in, and audits each write: the audit entries of a shipment replay to    *)
(* the row it has, however many cycles pull, crash and retry, and however  *)
(* often the portal repeats a tracking number.                             *)
THEOREM PullsReplay == SpecPulls => []PullsAuditReplays
<1>1. PullsInv => PullsAuditReplays
  BY DEF PullsInv
<1> QED  BY InitPullsKeeps, NextPullsKeeps, <1>1, PTL DEF SpecPulls

-----------------------------------------------------------------------------
(* Billing of a day (OccupancyBilling).                                    *)

SnapshotRow == [pallets : Pallets, contracted : Pallets]
RowsOfGroups == UNION {[D -> SnapshotRow] : D \in SUBSET Group}
ReadOfGroups == [Group -> Pallets] \cup {<<>>}
RunState == [pc : {"idle", "contracted", "upsert"}, occupied : ReadOfGroups,
             contracted : ReadOfGroups, rest : SUBSET Group, rows : RowsOfGroups]

OccupancyTypes ==
  /\ occupied \in [Group -> Pallets] /\ contracted \in [Group -> Pallets]
  /\ daySnapshot \in [Group -> SnapshotRow \cup {NoSnapshot}]
  /\ run \in [Run -> RunState]
  /\ \A r \in Run :
       /\ run[r].pc # "idle" => run[r].occupied \in [Group -> Pallets]
       /\ run[r].pc = "upsert" => run[r].contracted \in [Group -> Pallets]

(* A group's row is one run's until it is committed, and there is none yet; *)
(* a run is done with the groups it has rows of.                            *)
RowsAreOwned ==
  \A r \in Run : \A g \in DOMAIN run[r].rows :
    /\ daySnapshot[g] = NoSnapshot /\ g \notin run[r].rest
    /\ \A other \in Run \ {r} : g \notin DOMAIN run[other].rows

OccupancyInv == OccupancyTypes /\ RowsAreOwned /\ SnapshotBilledAsTaken

LEMMA NoRows == <<>> \in RowsOfGroups /\ DOMAIN <<>> = {}
<1>1. <<>> = [g \in {} |-> CHOOSE row \in SnapshotRow : TRUE]
  OBVIOUS
<1>2. [g \in {} |-> CHOOSE row \in SnapshotRow : TRUE] \in [{} -> SnapshotRow]
  OBVIOUS
<1> QED  BY <1>1, <1>2 DEF RowsOfGroups

LEMMA MoreRows ==
  ASSUME NEW rows \in RowsOfGroups, NEW g \in Group, NEW row \in SnapshotRow
  PROVE  LET more == [h \in DOMAIN rows \cup {g} |-> IF h = g THEN row ELSE rows[h]]
         IN  more \in RowsOfGroups /\ DOMAIN more = DOMAIN rows \cup {g}
<1>1. PICK D \in SUBSET Group : rows \in [D -> SnapshotRow]
  BY DEF RowsOfGroups
<1>2. [h \in D \cup {g} |-> IF h = g THEN row ELSE rows[h]] \in [D \cup {g} -> SnapshotRow]
  BY <1>1
<1> QED  BY <1>1, <1>2 DEF RowsOfGroups

LEMMA RowsOfSome ==
  ASSUME NEW rows \in RowsOfGroups
  PROVE  DOMAIN rows \subseteq Group /\ \A g \in DOMAIN rows : rows[g] \in SnapshotRow
BY DEF RowsOfGroups

LEMMA NoRunIsARun == /\ NoRun \in RunState /\ NoRun.pc = "idle" /\ NoRun.rest = {}
                     /\ DOMAIN NoRun.rows = {}
BY NoRows DEF NoRun, RunState, ReadOfGroups

LEMMA InitOccupancyKeeps == InitOccupancy => OccupancyInv
<1> SUFFICES ASSUME InitOccupancy PROVE OccupancyInv
  OBVIOUS
<1>1. OccupancyTypes
  BY NoRunIsARun DEF InitOccupancy, OccupancyTypes
<1>2. RowsAreOwned /\ SnapshotBilledAsTaken
  BY NoRunIsARun DEF InitOccupancy, RowsAreOwned, SnapshotBilledAsTaken
<1> QED  BY <1>1, <1>2 DEF OccupancyInv

(* A run that changes without adding a row leaves the rest as it was.       *)
LEMMA RunKeeps ==
  ASSUME OccupancyInv, NEW r \in Run, NEW state \in RunState,
         run' = [run EXCEPT ![r] = state], UNCHANGED <<occupied, contracted, daySnapshot, billed>>,
         state.pc # "idle" => state.occupied \in [Group -> Pallets],
         state.pc = "upsert" => state.contracted \in [Group -> Pallets],
         \/ DOMAIN state.rows = {}
         \/ state.rows = run[r].rows /\ state.rest \subseteq run[r].rest
         \/ \E g \in run[r].rest :
              /\ DOMAIN state.rows = DOMAIN run[r].rows \cup {g} /\ state.rest = run[r].rest \ {g}
              /\ daySnapshot[g] = NoSnapshot
              /\ \A other \in Run \ {r} : g \notin DOMAIN run[other].rows
  PROVE  OccupancyInv'
<1>1. OccupancyTypes'
  BY DEF OccupancyInv, OccupancyTypes
<1>2. RowsAreOwned'
  <2>1. /\ run'[r] = state
        /\ \A s \in Run : s # r => run'[s] = run[s]
    BY DEF OccupancyInv, OccupancyTypes
  <2>2. DOMAIN state.rows = {} => RowsAreOwned'
    BY <2>1 DEF OccupancyInv, RowsAreOwned
  <2>3. state.rows = run[r].rows /\ state.rest \subseteq run[r].rest => RowsAreOwned'
    BY <2>1 DEF OccupancyInv, RowsAreOwned
  <2>4. ASSUME NEW g \in run[r].rest,
               DOMAIN state.rows = DOMAIN run[r].rows \cup {g}, state.rest = run[r].rest \ {g},
               daySnapshot[g] = NoSnapshot,
               \A other \in Run \ {r} : g \notin DOMAIN run[other].rows
        PROVE  RowsAreOwned'
    BY <2>1, <2>4 DEF OccupancyInv, RowsAreOwned
  <2> QED  BY <2>2, <2>3, <2>4
<1>3. SnapshotBilledAsTaken'
  BY DEF OccupancyInv, SnapshotBilledAsTaken
<1> QED  BY <1>1, <1>2, <1>3 DEF OccupancyInv

LEMMA ReadsKeep ==
  ASSUME OccupancyInv, NEW r \in Run, GetOccupied(r) \/ GetContracted(r) \/ AbortSnapshot(r)
  PROVE  OccupancyInv'
<1>0. run[r] \in RunState
  BY DEF OccupancyInv, OccupancyTypes
<1>1. CASE GetOccupied(r)
  <2>1. PICK others \in SUBSET {g \in Group : occupied[g] = 0} :
          run' = [run EXCEPT ![r] = [NoRun EXCEPT !.pc = "contracted", !.occupied = occupied,
                                  !.rest = {g \in Group : occupied[g] > 0} \cup others]]
    BY <1>1 DEF GetOccupied
  <2> DEFINE state == [NoRun EXCEPT !.pc = "contracted", !.occupied = occupied,
                                    !.rest = {g \in Group : occupied[g] > 0} \cup others]
  <2>2. /\ state \in RunState /\ state.occupied \in [Group -> Pallets]
        /\ state.pc = "contracted" /\ DOMAIN state.rows = {}
    BY NoRunIsARun DEF RunState, ReadOfGroups, OccupancyInv, OccupancyTypes
  <2>3. UNCHANGED <<occupied, contracted, daySnapshot, billed>>
    BY <1>1 DEF GetOccupied
  <2> HIDE DEF state
  <2> QED  BY <2>1, <2>2, <2>3, RunKeeps DEF state
<1>2. CASE GetContracted(r)
  <2> DEFINE state == [run[r] EXCEPT !.pc = "upsert", !.contracted = contracted]
  <2>1. run' = [run EXCEPT ![r] = state] /\ UNCHANGED <<occupied, contracted, daySnapshot, billed>>
    BY <1>2 DEF GetContracted
  <2>2. /\ state \in RunState /\ state.occupied \in [Group -> Pallets]
        /\ state.contracted \in [Group -> Pallets]
        /\ state.rows = run[r].rows /\ state.rest = run[r].rest
    BY <1>0, <1>2 DEF GetContracted, RunState, ReadOfGroups, OccupancyInv, OccupancyTypes
  <2> HIDE DEF state
  <2> QED  BY <2>1, <2>2, RunKeeps
<1>3. CASE AbortSnapshot(r)
  BY <1>3, NoRunIsARun, RunKeeps DEF AbortSnapshot
<1> QED  BY <1>1, <1>2, <1>3

LEMMA UpsertsKeep ==
  ASSUME OccupancyInv, NEW r \in Run, NEW g \in Group, CreateSnapshot(r, g) \/ KeepSnapshot(r, g)
  PROVE  OccupancyInv'
<1>0. /\ run[r] \in RunState /\ run[r].pc = "upsert" /\ g \in run[r].rest
      /\ run[r].occupied \in [Group -> Pallets] /\ run[r].contracted \in [Group -> Pallets]
  BY DEF OccupancyInv, OccupancyTypes, CreateSnapshot, KeepSnapshot, MayUpsert
<1>1. CASE CreateSnapshot(r, g)
  <2> DEFINE row  == [pallets |-> run[r].occupied[g], contracted |-> run[r].contracted[g]]
             more == [h \in DOMAIN run[r].rows \cup {g} |-> IF h = g THEN row ELSE run[r].rows[h]]
             state == [run[r] EXCEPT !.rest = run[r].rest \ {g}, !.rows = more]
  <2>1. more \in RowsOfGroups /\ DOMAIN more = DOMAIN run[r].rows \cup {g}
    <3>1. row \in SnapshotRow /\ run[r].rows \in RowsOfGroups
      BY <1>0 DEF SnapshotRow, RunState
    <3> HIDE DEF row
    <3> QED  BY <3>1, MoreRows
  <2>2. run' = [run EXCEPT ![r] = state] /\ UNCHANGED <<occupied, contracted, daySnapshot, billed>>
    BY <1>1 DEF CreateSnapshot
  <2> HIDE DEF more
  <2>3. /\ state \in RunState /\ state.pc = "upsert"
        /\ state.occupied \in [Group -> Pallets] /\ state.contracted \in [Group -> Pallets]
        /\ state.rows = more /\ state.rest = run[r].rest \ {g}
    BY <1>0, <2>1 DEF RunState
  <2>4. /\ daySnapshot[g] = NoSnapshot
        /\ \A other \in Run \ {r} : g \notin DOMAIN run[other].rows
    BY <1>1 DEF CreateSnapshot, MayUpsert
  <2> HIDE DEF state
  <2> QED  BY <1>0, <2>1, <2>2, <2>3, <2>4, RunKeeps
<1>2. CASE KeepSnapshot(r, g)
  <2> DEFINE state == [run[r] EXCEPT !.rest = @ \ {g}]
  <2>1. run' = [run EXCEPT ![r] = state] /\ UNCHANGED <<occupied, contracted, daySnapshot, billed>>
    BY <1>2 DEF KeepSnapshot
  <2>2. /\ state \in RunState /\ state.pc = "upsert"
        /\ state.occupied \in [Group -> Pallets] /\ state.contracted \in [Group -> Pallets]
        /\ state.rows = run[r].rows /\ state.rest \subseteq run[r].rest
    BY <1>0 DEF RunState
  <2> HIDE DEF state
  <2> QED  BY <2>1, <2>2, RunKeeps
<1> QED  BY <1>1, <1>2

LEMMA BillingIsOfItsGroup ==
  ASSUME NEW g \in Group, NEW row \in SnapshotRow
  PROVE  /\ \A e \in BillingOf(g, row) : e.source = g
         /\ \A e, f \in BillingOf(g, row) : Triple(e) = Triple(f) => e = f
BY DEF BillingOf, BillableEvent, Triple

LEMMA CommitBills ==
  ASSUME OccupancyInv, NEW r \in Run, CommitSnapshot(r)
  PROVE  OccupancyInv'
<1> DEFINE rows == run[r].rows
           events == UNION {BillingOf(g, rows[g]) : g \in DOMAIN rows}
<1>0. /\ DOMAIN rows \subseteq Group /\ \A g \in DOMAIN rows : rows[g] \in SnapshotRow
      /\ \A g \in DOMAIN rows : daySnapshot[g] = NoSnapshot
  BY RowsOfSome DEF OccupancyInv, OccupancyTypes, RunState, RowsAreOwned
<1>a. /\ daySnapshot' = [g \in Group |-> IF g \in DOMAIN rows THEN rows[g] ELSE daySnapshot[g]]
      /\ billed' = InsertEvents(events)
      /\ run' = [run EXCEPT ![r] = NoRun] /\ UNCHANGED <<occupied, contracted>>
  BY <1>0 DEF CommitSnapshot
<1>b. /\ run'[r] = NoRun
      /\ \A s \in Run : s # r => run'[s] = run[s]
  BY <1>a DEF OccupancyInv, OccupancyTypes
<1> HIDE DEF rows
<1>1. OccupancyTypes'
  BY <1>0, <1>a, NoRunIsARun DEF OccupancyInv, OccupancyTypes
<1>2. RowsAreOwned'
  <2> SUFFICES ASSUME NEW s \in Run, NEW g \in DOMAIN run'[s].rows
               PROVE  /\ daySnapshot'[g] = NoSnapshot /\ g \notin run'[s].rest
                      /\ \A other \in Run \ {s} : g \notin DOMAIN run'[other].rows
    BY DEF RowsAreOwned
  <2>1. s # r /\ run'[s] = run[s]
    BY <1>b, NoRunIsARun
  <2>2. g \in Group
    BY <2>1, RowsOfSome DEF OccupancyInv, OccupancyTypes, RunState
  <2>3. /\ daySnapshot[g] = NoSnapshot /\ g \notin run[s].rest
        /\ \A other \in Run \ {s} : g \notin DOMAIN run[other].rows
    BY <2>1 DEF OccupancyInv, RowsAreOwned
  <2>4. g \notin DOMAIN rows
    BY <2>1, <2>3 DEF rows
  <2> QED  BY <1>a, <1>b, <2>1, <2>2, <2>3, <2>4, NoRunIsARun
<1>3. SnapshotBilledAsTaken'
  <2> SUFFICES ASSUME NEW g \in Group
               PROVE  {e \in billed' : e.source = g} =
                        IF daySnapshot'[g] = NoSnapshot THEN {} ELSE BillingOf(g, daySnapshot'[g])
    BY DEF SnapshotBilledAsTaken
  <2>0. {e \in billed : e.source = g} =
           IF daySnapshot[g] = NoSnapshot THEN {} ELSE BillingOf(g, daySnapshot[g])
    BY DEF OccupancyInv, SnapshotBilledAsTaken
  <2>1. \A e \in events : e.source \in DOMAIN rows /\ e \in BillingOf(e.source, rows[e.source])
    BY <1>0, BillingIsOfItsGroup
  <2>2. \A h \in DOMAIN rows : \A e \in BillingOf(h, rows[h]) : e \in events
    OBVIOUS
  <2> HIDE DEF events
  <2>3. CASE g \in DOMAIN rows
    <3>1. {e \in billed : e.source = g} = {}
      BY <2>0, <2>3, <1>0
    <3>2. \A e \in BillingOf(g, rows[g]) : e.source = g /\ e \in billed'
      BY <2>2, <2>3, <3>1, <1>0, <1>a, BillingIsOfItsGroup DEF InsertEvents, Triple
    <3>3. \A e \in billed' : e.source = g => e \in BillingOf(g, rows[g])
      BY <2>1, <3>1, <1>a DEF InsertEvents
    <3>4. daySnapshot'[g] = rows[g] /\ rows[g] # NoSnapshot
      BY <2>3, <1>0, <1>a DEF SnapshotRow, NoSnapshot, Pallets
    <3> QED  BY <3>2, <3>3, <3>4
  <2>4. CASE g \notin DOMAIN rows
    <3>1. \A e \in billed' : e.source = g => e \in billed
      BY <2>1, <2>4, <1>a DEF InsertEvents
    <3>2. \A e \in billed : e \in billed'
      BY <1>a DEF InsertEvents
    <3>3. daySnapshot'[g] = daySnapshot[g]
      BY <2>4, <1>a
    <3> QED  BY <3>1, <3>2, <3>3, <2>0
  <2> QED  BY <2>3, <2>4
<1> QED  BY <1>1, <1>2, <1>3 DEF OccupancyInv

LEMMA OthersKeep ==
  ASSUME OccupancyInv,
         \/ \E source \in OtherSource : InsertBillableEvent(source)
         \/ \E g \in Group : ChangeSpace(g)
  PROVE  OccupancyInv'
<1>1. ASSUME NEW source \in OtherSource, InsertBillableEvent(source)
      PROVE  OccupancyInv'
  <2>1. PICK service \in {"ST-01", "ST-12"}, qty \in Pallets \ {0} :
          billed' = billed \cup {BillableEvent(source, service, qty)}
    BY <1>1 DEF InsertBillableEvent
  <2>2. BillableEvent(source, service, qty).source \notin Group
    BY OccupancyConstants DEF BillableEvent
  <2>3. UNCHANGED <<occupied, contracted, daySnapshot, run>>
    BY <1>1 DEF InsertBillableEvent
  <2>4. OccupancyTypes' /\ RowsAreOwned'
    BY <2>3 DEF OccupancyInv, OccupancyTypes, RowsAreOwned
  <2>5. SnapshotBilledAsTaken'
    <3> SUFFICES ASSUME NEW g \in Group
                 PROVE  {e \in billed' : e.source = g} = {e \in billed : e.source = g}
      BY <2>3 DEF OccupancyInv, SnapshotBilledAsTaken
    <3> QED  BY <2>1, <2>2
  <2> QED  BY <2>4, <2>5 DEF OccupancyInv
<1>2. ASSUME NEW g \in Group, ChangeSpace(g)
      PROVE  OccupancyInv'
  <2>1. occupied' \in [Group -> Pallets] /\ contracted' \in [Group -> Pallets]
    BY <1>2, OccupancyConstants DEF ChangeSpace, OccupancyInv, OccupancyTypes, Pallets
  <2>2. UNCHANGED <<daySnapshot, billed, run>>
    BY <1>2 DEF ChangeSpace
  <2> QED  BY <2>1, <2>2 DEF OccupancyInv, OccupancyTypes, RowsAreOwned, SnapshotBilledAsTaken
<1> QED  BY <1>1, <1>2

LEMMA NextOccupancyKeeps == OccupancyInv /\ [NextOccupancy]_occupancyVars => OccupancyInv'
<1> SUFFICES ASSUME OccupancyInv, [NextOccupancy]_occupancyVars PROVE OccupancyInv'
  OBVIOUS
<1>1. CASE UNCHANGED occupancyVars
  BY <1>1 DEF occupancyVars, OccupancyInv, OccupancyTypes, RowsAreOwned, SnapshotBilledAsTaken
<1>2. CASE NextOccupancy
  BY <1>2, ReadsKeep, UpsertsKeep, CommitBills, OthersKeep DEF NextOccupancy
<1> QED  BY <1>1, <1>2

(* A day is billed once, as its runs found it: no two runs that cover the  *)
(* same group both keep what they counted, and no later one changes it.    *)
THEOREM SnapshotsBilledOnce == SpecOccupancy => []SnapshotBilledAsTaken
<1>1. OccupancyInv => SnapshotBilledAsTaken
  BY DEF OccupancyInv
<1> QED  BY InitOccupancyKeeps, NextOccupancyKeeps, <1>1, PTL DEF SpecOccupancy

-----------------------------------------------------------------------------
(* Shifts (Shifts).                                                        *)

ShiftsInv == ShiftsTypeOK /\ OneShiftADay

LEMMA InitShiftsKeeps == InitShifts => ShiftsInv
BY EmptySeq DEF InitShifts, ShiftsInv, ShiftsTypeOK, OneShiftADay

LEMMA InsertShiftKeeps ==
  ASSUME ShiftsInv, NEW p \in Planner, InsertShiftAssignment(p)
  PROVE  ShiftsInv'
<1> DEFINE n == Len(shiftRows)
           row == plan[p]
<1>0. shiftRows \in Seq(ShiftRow) /\ n \in Nat /\ row \in ShiftRow
  BY DEF ShiftsInv, ShiftsTypeOK, InsertShiftAssignment
<1>1. ShiftsTypeOK'
  BY <1>0 DEF ShiftsInv, ShiftsTypeOK, InsertShiftAssignment
<1>2. /\ shiftRows' = Append(shiftRows, row) /\ Len(shiftRows') = n + 1
      /\ \A i \in 1..n : shiftRows'[i] = shiftRows[i]
      /\ shiftRows'[n + 1] = row
  BY <1>0 DEF InsertShiftAssignment
<1>3. \A i \in 1..n : shiftRows[i].worker = row.worker => ~RangesOverlap(shiftRows[i], row)
  BY DEF InsertShiftAssignment, NoOverlap, RangesOf
<1> HIDE DEF n, row
<1>4. OneShiftADay'
  <2> SUFFICES ASSUME NEW i \in 1..(n + 1), NEW j \in 1..(n + 1), i < j,
                      shiftRows'[i].worker = shiftRows'[j].worker
               PROVE  ~RangesOverlap(shiftRows'[i], shiftRows'[j])
    BY <1>2 DEF OneShiftADay, RangesOverlap
  <2>1. i \in 1..n
    BY <1>0
  <2>2. CASE j = n + 1
    BY <2>1, <2>2, <1>2, <1>3
  <2>3. CASE j \in 1..n
    BY <2>1, <2>3, <1>2 DEF ShiftsInv, OneShiftADay, n
  <2> QED  BY <2>2, <2>3, <1>0
<1> QED  BY <1>1, <1>4 DEF ShiftsInv

LEMMA EndShiftKeeps ==
  ASSUME ShiftsInv, NEW i \in 1..Len(shiftRows), NEW to \in 1..LastShiftDay,
         EndShiftAssignment(i, to)
  PROVE  ShiftsInv'
<1> DEFINE ended == [shiftRows[i] EXCEPT !.to = to]
<1>0. shiftRows \in Seq(ShiftRow) /\ shiftRows[i] \in ShiftRow
  BY DEF ShiftsInv, ShiftsTypeOK
<1>1. ended \in ShiftRow /\ ended.worker = shiftRows[i].worker
      /\ ended.from = shiftRows[i].from /\ ended.to < shiftRows[i].to
  <2>1. shiftRows[i].to = Forever /\ IsValidRange(ended)
    BY DEF EndShiftAssignment
  <2>2. LastShiftDay \in Nat /\ Forever \in Nat /\ LastShiftDay < Forever
    BY ShiftsAssumption
  <2>3. ended = [worker |-> shiftRows[i].worker, from |-> shiftRows[i].from, to |-> to]
    BY <1>0 DEF ShiftRow
  <2>4. shiftRows[i].worker \in Worker /\ shiftRows[i].from \in 1..LastShiftDay
    BY <1>0 DEF ShiftRow
  <2>5. ended \in ShiftRow
    BY <2>3, <2>4 DEF ShiftRow
  <2>6. ended.worker = shiftRows[i].worker /\ ended.from = shiftRows[i].from /\ ended.to = to
    BY <2>3
  <2> HIDE DEF ended
  <2> QED  BY <2>1, <2>2, <2>5, <2>6
<1>2. shiftRows' = [shiftRows EXCEPT ![i] = ended] /\ plan' = plan
  BY DEF EndShiftAssignment
<1> HIDE DEF ended
<1>3. /\ shiftRows' \in Seq(ShiftRow) /\ Len(shiftRows') = Len(shiftRows)
      /\ shiftRows'[i] = ended
      /\ \A j \in 1..Len(shiftRows) : j # i => shiftRows'[j] = shiftRows[j]
  BY <1>0, <1>1, <1>2
<1>4. ShiftsTypeOK'
  BY <1>2, <1>3 DEF ShiftsInv, ShiftsTypeOK
<1>5. OneShiftADay'
  <2> SUFFICES ASSUME NEW j \in 1..Len(shiftRows), NEW k \in 1..Len(shiftRows), j < k,
                      shiftRows'[j].worker = shiftRows'[k].worker,
                      RangesOverlap(shiftRows'[j], shiftRows'[k])
               PROVE  FALSE
    BY <1>3 DEF OneShiftADay
  <2>1. shiftRows[j] \in ShiftRow /\ shiftRows[k] \in ShiftRow
    BY <1>0
  <2>2. shiftRows[j].worker = shiftRows[k].worker
    BY <1>1, <1>3
  <2>3. RangesOverlap(shiftRows[j], shiftRows[k])
    <3>1. LastShiftDay \in Nat /\ Forever \in Nat
      BY ShiftsAssumption
    <3>2. \A row \in ShiftRow : row.from \in Nat /\ row.to \in Nat
      BY <3>1 DEF ShiftRow
    <3>3. /\ shiftRows'[j].from = shiftRows[j].from /\ shiftRows'[j].to <= shiftRows[j].to
          /\ shiftRows'[j].to \in Nat
      BY <1>0, <1>1, <1>3, <2>1, <3>2
    <3>4. /\ shiftRows'[k].from = shiftRows[k].from /\ shiftRows'[k].to <= shiftRows[k].to
          /\ shiftRows'[k].to \in Nat
      BY <1>0, <1>1, <1>3, <2>1, <3>2
    <3> QED  BY <2>1, <3>2, <3>3, <3>4 DEF RangesOverlap
  <2> QED  BY <2>2, <2>3 DEF ShiftsInv, OneShiftADay
<1> QED  BY <1>4, <1>5 DEF ShiftsInv

LEMMA PlansKeep ==
  ASSUME ShiftsInv, NEW p \in Planner,
         AbandonPlan(p) \/ \E row \in ShiftRow : AssignShift(p, row)
  PROVE  ShiftsInv'
BY DEF AbandonPlan, AssignShift, ShiftsInv, ShiftsTypeOK, OneShiftADay

LEMMA NextShiftsKeeps == ShiftsInv /\ [NextShifts]_shiftVars => ShiftsInv'
<1> SUFFICES ASSUME ShiftsInv, [NextShifts]_shiftVars PROVE ShiftsInv'
  OBVIOUS
<1>1. CASE UNCHANGED shiftVars
  BY <1>1 DEF shiftVars, ShiftsInv, ShiftsTypeOK, OneShiftADay
<1>2. CASE NextShifts
  BY <1>2, InsertShiftKeeps, EndShiftKeeps, PlansKeep DEF NextShifts
<1> QED  BY <1>1, <1>2

(* The exclusion constraint of hr.shift_assignments leaves no employee two *)
(* shifts on a day, also when an assignment is ended with another date.    *)
THEOREM ShiftsDisjoint == SpecShifts => []OneShiftADay
<1>1. ShiftsInv => OneShiftADay
  BY DEF ShiftsInv
<1> QED  BY InitShiftsKeeps, NextShiftsKeeps, <1>1, PTL DEF SpecShifts

-----------------------------------------------------------------------------
(* Login codes (LoginCodes).                                               *)

CodeRow  == [expires : Int, consumed : BOOLEAN, attempts : Nat, issued : Nat, refusals : Nat]
TokenRow == [otp : Nat, expires : Int, revoked : BOOLEAN]
CallState ==
  [step : {"idle", "asking", "cleared", "presenting", "matching", "matched"},
   at : Nat, guess : Nat, rows : SUBSET Nat]

LoginTypes ==
  /\ codes \in Seq(CodeRow) /\ tokens \in Seq(TokenRow)
  /\ loginCall \in [LoginCall -> CallState]
  /\ minute \in Nat
  /\ \A t \in 1..Len(tokens) : tokens[t].otp \in 1..Len(codes)

(* Who compares a code holds the live codes' rows: they are as it found    *)
(* them, unconsumed and with an attempt left.                              *)
RowsAreHeld ==
  \A c \in LoginCall : loginCall[c].step \in {"matching", "matched"} =>
    /\ rowLock = c
    /\ loginCall[c].rows \subseteq 1..Len(codes) /\ loginCall[c].rows # {}
    /\ \A i \in loginCall[c].rows : ~codes[i].consumed /\ codes[i].attempts < MaxAttempts
    /\ loginCall[c].step = "matched" => loginCall[c].guess \in loginCall[c].rows

(* Every refusal was counted, and none was given beyond the limit.         *)
RefusalsCounted ==
  \A i \in 1..Len(codes) : codes[i].refusals = codes[i].attempts /\ codes[i].attempts <= MaxAttempts

EarlierConsumed == \A i \in 1..(Len(codes) - 1) : codes[i].consumed

LoginInv ==
  LoginTypes /\ RowsAreHeld /\ RefusalsCounted /\ EarlierConsumed /\ CodeOpensOneSession

LEMMA InitLoginKeeps == InitLogin => LoginInv
<1> SUFFICES ASSUME InitLogin PROVE LoginInv
  OBVIOUS
<1>1. LoginTypes
  BY EmptySeq DEF InitLogin, LoginTypes, CallState, NoLoginCall
<1>2. RowsAreHeld /\ RefusalsCounted /\ EarlierConsumed /\ CodeOpensOneSession
  BY DEF InitLogin, RowsAreHeld, RefusalsCounted, EarlierConsumed, CodeOpensOneSession, NoLoginCall
<1> QED  BY <1>1, <1>2 DEF LoginInv

LEMMA NoCallIsACall == NoLoginCall \in CallState /\ NoLoginCall.step = "idle"
BY DEF NoLoginCall, CallState

(* A call that ends lets go of its locks; the others hold what they held.  *)
LEMMA EndedCall ==
  ASSUME LoginTypes, RowsAreHeld, NEW c \in LoginCall, EndCall(c)
  PROVE  /\ loginCall' \in [LoginCall -> CallState]
         /\ loginCall'[c].step = "idle"
         /\ \A d \in LoginCall : d # c => loginCall'[d] = loginCall[d]
         /\ rowLock # c => rowLock' = rowLock
BY NoCallIsACall DEF EndCall, LoginTypes

(* Calls that only move on, neither taking nor leaving the rows' locks.    *)
LEMMA CallsKeep ==
  ASSUME LoginInv, NEW c \in LoginCall,
         RequestLoginOtp(c) \/ ClearRequest(c) \/ AbandonCall(c)
         \/ \E guess \in 0..Len(codes) : VerifyLoginOtp(c, guess)
  PROVE  LoginInv'
<1>0. loginCall[c] \in CallState
  BY DEF LoginInv, LoginTypes
<1>1. UNCHANGED <<codes, tokens, minute>>
  BY DEF RequestLoginOtp, ClearRequest, AbandonCall, VerifyLoginOtp
<1>2. /\ loginCall' \in [LoginCall -> CallState]
      /\ loginCall'[c].step \notin {"matching", "matched"}
      /\ \A d \in LoginCall : d # c => loginCall'[d] = loginCall[d]
      /\ rowLock # c => rowLock' = rowLock
  <2>1. CASE RequestLoginOtp(c)
    BY <1>0, <2>1 DEF RequestLoginOtp, LoginInv, LoginTypes, CallState
  <2>2. CASE ClearRequest(c)
    BY <1>0, <2>2 DEF ClearRequest, LoginInv, LoginTypes, CallState
  <2>3. CASE AbandonCall(c)
    BY <2>3, EndedCall DEF AbandonCall, LoginInv
  <2>4. ASSUME NEW guess \in 0..Len(codes), VerifyLoginOtp(c, guess)
        PROVE  /\ loginCall' \in [LoginCall -> CallState]
               /\ loginCall'[c].step \notin {"matching", "matched"}
               /\ \A d \in LoginCall : d # c => loginCall'[d] = loginCall[d]
               /\ rowLock' = rowLock
    <3> DEFINE new == [NoLoginCall EXCEPT !.step = "presenting", !.at = minute, !.guess = guess]
    <3>1. loginCall' = [loginCall EXCEPT ![c] = new] /\ rowLock' = rowLock
      BY <2>4 DEF VerifyLoginOtp
    <3>2. guess \in Nat
      BY DEF LoginInv, LoginTypes
    <3>3. new \in CallState /\ new.step = "presenting"
      BY NoCallIsACall, <3>2 DEF CallState, LoginInv, LoginTypes
    <3> HIDE DEF new
    <3> QED  BY <3>1, <3>3 DEF LoginInv, LoginTypes
  <2> QED  BY <2>1, <2>2, <2>3, <2>4
<1>3. LoginTypes'
  BY <1>1, <1>2 DEF LoginInv, LoginTypes
<1>4. RowsAreHeld'
  BY <1>1, <1>2 DEF LoginInv, RowsAreHeld
<1> QED  BY <1>1, <1>3, <1>4 DEF LoginInv, RefusalsCounted, EarlierConsumed, CodeOpensOneSession

LEMMA LockKeeps ==
  ASSUME LoginInv, NEW c \in LoginCall, LockCandidates(c)
  PROVE  LoginInv'
<1> DEFINE live == LiveCodes(loginCall[c].at)
<1>0. loginCall[c] \in CallState /\ rowLock \in {"none", c} /\ UNCHANGED <<codes, tokens, minute>>
  BY DEF LoginInv, LoginTypes, LockCandidates, RowLockFree
<1>1. CASE live = {} \/ ~userActive
  <2>1. EndCall(c)
    BY <1>1 DEF LockCandidates
  <2>2. LoginTypes'
    BY <1>0, <2>1, EndedCall DEF LoginInv, LoginTypes
  <2>3. RowsAreHeld'
    BY <1>0, <2>1, EndedCall DEF LoginInv, RowsAreHeld
  <2> QED  BY <1>0, <2>2, <2>3 DEF LoginInv, RefusalsCounted, EarlierConsumed, CodeOpensOneSession
<1>2. CASE ~(live = {} \/ ~userActive)
  <2> DEFINE found == [loginCall[c] EXCEPT
                         !.step = IF loginCall[c].guess \in live THEN "matched" ELSE "matching",
                         !.rows = live]
  <2>1. rowLock' = c /\ loginCall' = [loginCall EXCEPT ![c] = found]
    BY <1>2 DEF LockCandidates
  <2>2. /\ live \subseteq 1..Len(codes) /\ live # {}
        /\ \A i \in live : ~codes[i].consumed /\ codes[i].attempts < MaxAttempts
    BY <1>2 DEF LiveCodes
  <2>3. live \in SUBSET Nat
    BY <2>2 DEF LoginInv, LoginTypes
  <2> HIDE DEF live
  <2>4. /\ found \in CallState /\ found.rows = live
        /\ found.step = "matched" => found.guess \in live
    BY <1>0, <2>3 DEF CallState
  <2> HIDE DEF found
  <2>5. LoginTypes'
    BY <1>0, <2>1, <2>4 DEF LoginInv, LoginTypes
  <2>6. RowsAreHeld'
    <3>1. \A d \in LoginCall : d # c => loginCall'[d] = loginCall[d]
      BY <2>1 DEF LoginInv, LoginTypes
    <3>2. \A d \in LoginCall : d # c => loginCall[d].step \notin {"matching", "matched"}
      BY <1>0, LoginAssumption DEF LoginInv, RowsAreHeld
    <3>3. loginCall'[c] = found
      BY <2>1 DEF LoginInv, LoginTypes
    <3> QED  BY <1>0, <2>1, <2>2, <2>4, <3>1, <3>2, <3>3 DEF RowsAreHeld
  <2> QED  BY <1>0, <2>5, <2>6 DEF LoginInv, RefusalsCounted, EarlierConsumed, CodeOpensOneSession
<1> QED  BY <1>1, <1>2

(* No other call compares codes while this one does.                       *)
LEMMA OneComparesAtATime ==
  ASSUME RowsAreHeld, NEW c \in LoginCall, loginCall[c].step \in {"matching", "matched"},
         NEW d \in LoginCall, d # c
  PROVE  loginCall[d].step \notin {"matching", "matched"}
BY DEF RowsAreHeld

LEMMA IssueKeeps ==
  ASSUME LoginInv, NEW c \in LoginCall, IssueCode(c)
  PROVE  LoginInv'
<1> DEFINE n == Len(codes)
           new == [expires |-> loginCall[c].at + ExpiryMinutes, consumed |-> FALSE,
                   attempts |-> 0, issued |-> loginCall[c].at, refusals |-> 0]
<1>0. codes \in Seq(CodeRow) /\ n \in Nat /\ loginCall[c] \in CallState
  BY DEF LoginInv, LoginTypes
<1>1. new \in CodeRow /\ new.attempts = 0 /\ new.refusals = 0
  BY <1>0, LoginAssumption DEF CallState, CodeRow
<1>2. codes' = Append(Superseded, new) /\ tokens' = tokens /\ minute' = minute /\ EndCall(c)
  BY DEF IssueCode
<1>3. /\ Superseded \in Seq(CodeRow) /\ Len(Superseded) = n
      /\ \A i \in 1..n : /\ Superseded[i].consumed /\ Superseded[i].attempts = codes[i].attempts
                         /\ Superseded[i].refusals = codes[i].refusals
  <2> DEFINE ended(i) == [codes[i] EXCEPT !.consumed = TRUE]
  <2>1. \A i \in 1..n : codes[i] \in CodeRow
    BY <1>0
  <2>2. \A i \in 1..n : /\ ended(i) \in CodeRow /\ ended(i).consumed
                        /\ ended(i).attempts = codes[i].attempts
                        /\ ended(i).refusals = codes[i].refusals
    BY <2>1 DEF CodeRow
  <2>3. Superseded = [i \in 1..n |-> ended(i)]
    BY DEF Superseded
  <2> HIDE DEF ended, n
  <2> QED  BY <1>0, <2>2, <2>3
<1> HIDE DEF n, new
<1>4. /\ codes' \in Seq(CodeRow) /\ Len(codes') = n + 1 /\ codes'[n + 1] = new
      /\ \A i \in 1..n : /\ codes'[i].consumed /\ codes'[i].attempts = codes[i].attempts
                         /\ codes'[i].refusals = codes[i].refusals
  BY <1>0, <1>1, <1>2, <1>3
<1>5. LoginTypes'
  BY <1>0, <1>2, <1>4, EndedCall DEF LoginInv, LoginTypes, n
<1>6. \A d \in LoginCall : loginCall'[d].step \notin {"matching", "matched"}
  <2>1. \A d \in LoginCall : loginCall[d].step \notin {"matching", "matched"}
    <3> SUFFICES ASSUME NEW d \in LoginCall, loginCall[d].step \in {"matching", "matched"}
                 PROVE  FALSE
      OBVIOUS
    <3>1. rowLock = d /\ \E i \in 1..Len(codes) : ~codes[i].consumed
      BY DEF LoginInv, RowsAreHeld
    <3> QED  BY <3>1, LoginAssumption DEF IssueCode
  <2> QED  BY <1>2, <2>1, EndedCall DEF LoginInv
<1>7. RowsAreHeld'
  BY <1>6 DEF RowsAreHeld
<1>8. RefusalsCounted'
  <2> SUFFICES ASSUME NEW i \in 1..(n + 1)
               PROVE  codes'[i].refusals = codes'[i].attempts /\ codes'[i].attempts <= MaxAttempts
    BY <1>4 DEF RefusalsCounted
  <2>1. CASE i = n + 1
    BY <2>1, <1>1, <1>4, LoginAssumption
  <2>2. CASE i \in 1..n
    BY <2>2, <1>4 DEF LoginInv, RefusalsCounted, n
  <2> QED  BY <2>1, <2>2, <1>0
<1>9. CodeOpensOneSession'
  BY <1>2, <1>4 DEF LoginInv, LoginTypes, CodeOpensOneSession, n
<1>10. EarlierConsumed'
  BY <1>0, <1>4 DEF EarlierConsumed
<1> QED  BY <1>5, <1>7, <1>8, <1>9, <1>10 DEF LoginInv

LEMMA CountedRow ==
  ASSUME NEW row \in CodeRow
  PROVE  LET counted == [row EXCEPT !.attempts = @ + 1, !.refusals = @ + 1]
         IN  /\ counted \in CodeRow /\ counted.attempts = row.attempts + 1
             /\ counted.refusals = row.refusals + 1 /\ counted.consumed = row.consumed
<1> DEFINE counted == [row EXCEPT !.attempts = row.attempts + 1, !.refusals = row.refusals + 1]
<1>1. row.attempts + 1 \in Nat /\ row.refusals + 1 \in Nat
  BY DEF CodeRow
<1>2. counted \in CodeRow
  BY <1>1 DEF CodeRow
<1>3. /\ counted.attempts = row.attempts + 1 /\ counted.refusals = row.refusals + 1
      /\ counted.consumed = row.consumed
  BY DEF CodeRow
<1> QED  BY <1>2, <1>3

LEMMA RefuseKeeps ==
  ASSUME LoginInv, NEW c \in LoginCall, RefuseCode(c)
  PROVE  LoginInv'
<1> DEFINE n == Len(codes)
           rows == loginCall[c].rows
           Counted(i) == [codes[i] EXCEPT !.attempts = @ + 1, !.refusals = @ + 1]
<1>0. /\ codes \in Seq(CodeRow) /\ n \in Nat /\ \A i \in 1..n : codes[i] \in CodeRow
      /\ rows \subseteq 1..n
      /\ \A i \in rows : ~codes[i].consumed /\ codes[i].attempts < MaxAttempts
      /\ tokens' = tokens /\ minute' = minute /\ EndCall(c)
  <2>1. codes \in Seq(CodeRow)
    BY DEF LoginInv, LoginTypes
  <2>2. /\ rows \subseteq 1..n
        /\ \A i \in rows : ~codes[i].consumed /\ codes[i].attempts < MaxAttempts
    BY DEF LoginInv, RefuseCode, RowsAreHeld
  <2>3. tokens' = tokens /\ minute' = minute /\ EndCall(c)
    BY DEF RefuseCode
  <2> HIDE DEF rows
  <2> QED  BY <2>1, <2>2, <2>3
<1>1. codes' = [i \in 1..n |-> IF i \in rows THEN Counted(i) ELSE codes[i]]
  BY DEF RefuseCode
<1>2. \A i \in 1..n : /\ Counted(i) \in CodeRow /\ Counted(i).attempts = codes[i].attempts + 1
                      /\ Counted(i).refusals = codes[i].refusals + 1
                      /\ Counted(i).consumed = codes[i].consumed
  <2> SUFFICES ASSUME NEW i \in 1..n
               PROVE  /\ Counted(i) \in CodeRow /\ Counted(i).attempts = codes[i].attempts + 1
                      /\ Counted(i).refusals = codes[i].refusals + 1
                      /\ Counted(i).consumed = codes[i].consumed
    OBVIOUS
  <2>1. codes[i] \in CodeRow
    BY <1>0
  <2> QED  BY <2>1, CountedRow
<1> HIDE DEF n, rows, Counted
<1>3. codes' \in Seq(CodeRow) /\ Len(codes') = n
  BY <1>0, <1>1, <1>2
<1>4. \A i \in 1..n : codes'[i] = IF i \in rows THEN Counted(i) ELSE codes[i]
  BY <1>1
<1>5. LoginTypes'
  BY <1>0, <1>3, EndedCall DEF LoginInv, LoginTypes, n
<1>6. RowsAreHeld'
  <2>1. \A d \in LoginCall : d # c => loginCall[d].step \notin {"matching", "matched"}
    BY OneComparesAtATime DEF LoginInv, RefuseCode
  <2> QED  BY <1>0, <2>1, EndedCall DEF LoginInv, RowsAreHeld
<1>7. RefusalsCounted'
  <2> SUFFICES ASSUME NEW i \in 1..n
               PROVE  codes'[i].refusals = codes'[i].attempts /\ codes'[i].attempts <= MaxAttempts
    BY <1>3 DEF RefusalsCounted
  <2>1. /\ codes[i].refusals = codes[i].attempts /\ codes[i].attempts <= MaxAttempts
        /\ codes[i].attempts \in Nat
    <3>1. codes[i] \in CodeRow
      BY <1>0
    <3>2. codes[i].refusals = codes[i].attempts /\ codes[i].attempts <= MaxAttempts
      BY DEF LoginInv, RefusalsCounted, n
    <3> QED  BY <3>1, <3>2 DEF CodeRow
  <2>2. MaxAttempts \in Nat
    BY LoginAssumption
  <2>3. CASE i \in rows
    <3>1. codes[i].attempts < MaxAttempts
      BY <1>0, <2>3
    <3>2. /\ codes'[i].attempts = codes[i].attempts + 1
          /\ codes'[i].refusals = codes[i].refusals + 1
      BY <1>2, <1>4, <2>3
    <3> QED  BY <2>1, <2>2, <3>1, <3>2
  <2>4. CASE i \notin rows
    BY <2>1, <2>4, <1>4
  <2> QED  BY <2>3, <2>4
<1>8. CodeOpensOneSession'
  BY <1>0, <1>2, <1>4 DEF LoginInv, LoginTypes, CodeOpensOneSession, n
<1>9. EarlierConsumed'
  BY <1>0, <1>2, <1>3, <1>4 DEF LoginInv, EarlierConsumed, n
<1> QED  BY <1>5, <1>6, <1>7, <1>8, <1>9 DEF LoginInv

LEMMA AcceptKeeps ==
  ASSUME LoginInv, NEW c \in LoginCall, AcceptCode(c)
  PROVE  LoginInv'
<1> DEFINE g == loginCall[c].guess
           m == Len(tokens)
           new == [otp |-> g, expires |-> minute + SessionLifetime, revoked |-> FALSE]
<1>0. /\ codes \in Seq(CodeRow) /\ tokens \in Seq(TokenRow) /\ m \in Nat /\ minute \in Nat
      /\ g \in 1..Len(codes) /\ ~codes[g].consumed
      /\ minute' = minute /\ EndCall(c)
  BY DEF LoginInv, LoginTypes, AcceptCode, RowsAreHeld
<1>1. \A d \in LoginCall : loginCall'[d].step \notin {"matching", "matched"}
  <2>1. \A d \in LoginCall : d # c => loginCall[d].step \notin {"matching", "matched"}
    BY OneComparesAtATime DEF LoginInv, AcceptCode
  <2> QED  BY <1>0, <2>1, EndedCall DEF LoginInv
<1>2. RowsAreHeld'
  BY <1>1 DEF RowsAreHeld
<1>3. CASE UNCHANGED <<codes, tokens>>
  <2>1. LoginTypes'
    BY <1>0, <1>3, EndedCall DEF LoginInv, LoginTypes
  <2> QED  BY <1>2, <1>3, <2>1 DEF LoginInv, RefusalsCounted, EarlierConsumed, CodeOpensOneSession
<1>4. CASE /\ codes' = [codes EXCEPT ![g].consumed = TRUE]
           /\ tokens' = Append(tokens, new)
  <2>1. /\ codes' \in Seq(CodeRow) /\ Len(codes') = Len(codes)
        /\ codes'[g].consumed
        /\ \A i \in 1..Len(codes) : /\ codes[i].consumed => codes'[i].consumed
                                    /\ codes'[i].attempts = codes[i].attempts
                                    /\ codes'[i].refusals = codes[i].refusals
    <3> DEFINE used == [codes[g] EXCEPT !.consumed = TRUE]
    <3>1. codes' = [codes EXCEPT ![g] = used] /\ codes[g] \in CodeRow
      BY <1>0, <1>4
    <3>2. /\ used \in CodeRow /\ used.consumed /\ used.attempts = codes[g].attempts
          /\ used.refusals = codes[g].refusals
      BY <3>1 DEF CodeRow
    <3> HIDE DEF used
    <3> QED  BY <1>0, <3>1, <3>2
  <2>2. new \in TokenRow /\ new.otp = g
    BY <1>0, LoginAssumption DEF TokenRow
  <2> HIDE DEF new, m
  <2>3. /\ tokens' \in Seq(TokenRow) /\ Len(tokens') = m + 1 /\ tokens'[m + 1] = new
        /\ \A t \in 1..m : tokens'[t] = tokens[t]
    BY <1>0, <1>4, <2>2 DEF m
  <2>4. \A t \in 1..m : tokens[t].otp \in 1..Len(codes) /\ tokens[t].otp # g
                        /\ codes[tokens[t].otp].consumed
    BY <1>0 DEF LoginInv, LoginTypes, CodeOpensOneSession, m
  <2> HIDE DEF g
  <2>5. LoginTypes'
    <3>1. loginCall' \in [LoginCall -> CallState]
      BY <1>0, EndedCall DEF LoginInv
    <3>2. ASSUME NEW t \in 1..(m + 1) PROVE tokens'[t].otp \in 1..Len(codes')
      <4>1. t \in 1..m \/ t = m + 1
        BY <1>0
      <4> QED  BY <4>1, <1>0, <2>1, <2>2, <2>3, <2>4
    <3> QED  BY <1>0, <2>1, <2>3, <3>1, <3>2 DEF LoginTypes
  <2>6. RefusalsCounted'
    BY <2>1 DEF LoginInv, RefusalsCounted
  <2>7. CodeOpensOneSession'
    <3>1. ASSUME NEW t \in 1..(m + 1), NEW u \in 1..(m + 1), tokens'[t].otp = tokens'[u].otp
          PROVE  t = u
      <4>1. t \in 1..m \/ t = m + 1
        BY <1>0
      <4>2. u \in 1..m \/ u = m + 1
        BY <1>0
      <4> QED  BY <3>1, <4>1, <4>2, <2>2, <2>3, <2>4 DEF LoginInv, CodeOpensOneSession, m
    <3>2. ASSUME NEW t \in 1..(m + 1)
          PROVE  codes'[tokens'[t].otp].consumed
      <4>1. t \in 1..m \/ t = m + 1
        BY <1>0
      <4> QED  BY <4>1, <2>1, <2>2, <2>3, <2>4
    <3> QED  BY <3>1, <3>2, <2>3 DEF CodeOpensOneSession
  <2>8. EarlierConsumed'
    <3>1. Len(codes) \in Nat
      BY <1>0
    <3> QED  BY <2>1, <3>1 DEF LoginInv, EarlierConsumed
  <2> QED  BY <1>2, <2>5, <2>6, <2>7, <2>8 DEF LoginInv
<1> QED  BY <1>3, <1>4 DEF AcceptCode

LEMMA OutsideCallsKeep ==
  ASSUME LoginInv, SetUserActive \/ NextMinute \/ \E t \in 1..Len(tokens) : RevokeSession(t)
  PROVE  LoginInv'
<1>1. CASE SetUserActive \/ NextMinute
  <2>1. UNCHANGED <<codes, tokens, loginCall, rowLock>>
    BY <1>1 DEF SetUserActive, NextMinute
  <2>2. minute' \in Nat
    BY <1>1 DEF SetUserActive, NextMinute, LoginInv, LoginTypes
  <2>3. LoginTypes'
    BY <2>1, <2>2 DEF LoginInv, LoginTypes
  <2>4. RowsAreHeld'
    BY <2>1 DEF LoginInv, RowsAreHeld
  <2> QED  BY <2>1, <2>3, <2>4 DEF LoginInv, RefusalsCounted, EarlierConsumed, CodeOpensOneSession
<1>2. ASSUME NEW t \in 1..Len(tokens), RevokeSession(t)
      PROVE  LoginInv'
  <2> DEFINE revoked == [tokens[t] EXCEPT !.revoked = TRUE]
  <2>1. tokens' = [tokens EXCEPT ![t] = revoked] /\ UNCHANGED <<codes, minute, loginCall, rowLock>>
    BY <1>2 DEF RevokeSession
  <2>2. tokens \in Seq(TokenRow) /\ tokens[t] \in TokenRow
    BY DEF LoginInv, LoginTypes
  <2>3. revoked \in TokenRow /\ revoked.otp = tokens[t].otp
    BY <2>2 DEF TokenRow
  <2> HIDE DEF revoked
  <2>4. /\ tokens' \in Seq(TokenRow) /\ Len(tokens') = Len(tokens)
        /\ \A u \in 1..Len(tokens) : tokens'[u].otp = tokens[u].otp
    BY <2>1, <2>2, <2>3
  <2> QED  BY <2>1, <2>4 DEF LoginInv, LoginTypes, RowsAreHeld, RefusalsCounted, EarlierConsumed, CodeOpensOneSession
<1> QED  BY <1>1, <1>2

LEMMA NextLoginKeeps == LoginInv /\ [NextLogin]_loginVars => LoginInv'
<1> SUFFICES ASSUME LoginInv, [NextLogin]_loginVars PROVE LoginInv'
  OBVIOUS
<1>1. CASE UNCHANGED loginVars
  BY <1>1 DEF loginVars, LoginInv, LoginTypes, RowsAreHeld, RefusalsCounted, EarlierConsumed, CodeOpensOneSession
<1>2. CASE NextLogin
  BY <1>2, CallsKeep, LockKeeps, IssueKeeps, RefuseKeeps, AcceptKeeps, OutsideCallsKeep DEF NextLogin
<1> QED  BY <1>1, <1>2

LEMMA LastIsOutstanding == LoginInv => OneCodeOutstanding
<1> SUFFICES ASSUME LoginInv PROVE OneCodeOutstanding
  OBVIOUS
<1> DEFINE n == Len(codes)
           open == {i \in 1..n : ~codes[i].consumed}
<1>1. n \in Nat
  BY DEF LoginInv, LoginTypes
<1>2. open \subseteq {n}
  BY <1>1 DEF LoginInv, EarlierConsumed
<1>3. IsFiniteSet({n}) /\ Cardinality({n}) = 1
  BY FS_Singleton
<1>4. Cardinality(open) <= 1
  BY <1>2, <1>3, FS_Subset
<1> QED  BY <1>4 DEF OneCodeOutstanding

(* Codes of the login: a code opens one session however often it is        *)
(* presented at once, a wrong guess is counted on the code it was compared *)
(* with, and at most one code can still be answered.                       *)
THEOREM LoginByCode ==
  SpecLogin => [](CodeOpensOneSession /\ GuessesAreCounted /\ OneCodeOutstanding)
<1>1. LoginInv => CodeOpensOneSession /\ GuessesAreCounted /\ OneCodeOutstanding
  BY LastIsOutstanding DEF LoginInv, RefusalsCounted, GuessesAreCounted
<1> QED  BY InitLoginKeeps, NextLoginKeeps, <1>1, PTL DEF SpecLogin

-----------------------------------------------------------------------------
(* Delivery tasks (DeliveryTasks).                                         *)

OrderRow   == [status : Status, version : Nat, task : Nat]
TaskRow    == [entity : TaskEntity, no : Nat, order : TaskOrder, vehicle : Vehicle \cup {"none"}]
VerdictRow == [by : {"register", "assert", "guard"}, vehicle : Vehicle, at : Nat, assignable : BOOLEAN]

ClerkState == [step : {"idle", "sent", "locked", "numbered"},
               order : TaskOrder \cup {NoCommand.order}, expected : Nat]

TaskTypes ==
  /\ orderRow \in [TaskOrder -> OrderRow] /\ tasks \subseteq TaskRow
  /\ taskCounter \in [TaskEntity -> Nat]
  /\ clerk \in [Clerk -> ClerkState]
  /\ \A c \in Clerk : clerk[c].step \in {"sent", "locked", "numbered"} => clerk[c].order \in TaskOrder
  /\ documents \in [Vehicle -> SUBSET Int] /\ verdicts \subseteq VerdictRow /\ instant \in Nat

(* What a clerk has found of the order stays so while it holds its lock.   *)
OrdersAreHeld ==
  \A c \in Clerk : clerk[c].step \in {"locked", "numbered"} =>
    /\ MayHaveTask(c, clerk[c].order)
    /\ \A d \in Clerk \ {c} : ~HoldsOrder(d, clerk[c].order)

(* A verdict is what the documents of the vehicle say of the day, and they *)
(* do not change.                                                          *)
VerdictsFromDocuments ==
  \A s \in verdicts :
    /\ documents[s.vehicle] # NoVehicle
    /\ s.assignable = (\A d \in documents[s.vehicle] : d >= KuwaitDate(s.at))

TasksInv == TaskTypes /\ OrdersAreHeld /\ VerdictsFromDocuments /\ OneTaskPerOrder

LEMMA NoCommandIsIdle == NoCommand \in ClerkState /\ NoCommand.step = "idle"
BY DEF NoCommand, ClerkState

LEMMA InitTasksKeeps == InitTasks => TasksInv
<1> SUFFICES ASSUME InitTasks PROVE TasksInv
  OBVIOUS
<1>1. TaskTypes
  BY NoCommandIsIdle, TasksAssumption DEF InitTasks, TaskTypes, OrderRow, Status, NoTask, NoVehicle
<1>2. OrdersAreHeld /\ VerdictsFromDocuments
  BY NoCommandIsIdle DEF InitTasks, OrdersAreHeld, VerdictsFromDocuments
<1>3. OneTaskPerOrder
  BY DEF InitTasks, OneTaskPerOrder, NoTask
<1> QED  BY <1>1, <1>2, <1>3 DEF TasksInv

LEMMA KuwaitDateIsADay == \A at \in Nat : KuwaitDate(at) \in Nat
BY DEF KuwaitDate

(* Steps that speak of a vehicle.                                          *)
LEMMA VerdictKeeps ==
  ASSUME TasksInv, NEW v \in Vehicle, NEW at \in Nat, NEW by \in {"register", "assert", "guard"},
         NEW ok \in BOOLEAN, Say(by, v, at, ok),
         documents' \in [Vehicle -> SUBSET Int],
         \A w \in Vehicle : documents[w] # NoVehicle => documents'[w] = documents[w],
         documents'[v] # NoVehicle,
         ok = (\A d \in documents'[v] : d >= KuwaitDate(at))
  PROVE  verdicts' \subseteq VerdictRow /\ VerdictsFromDocuments'
<1> DEFINE new == [by |-> by, vehicle |-> v, at |-> at, assignable |-> ok]
<1>1. verdicts' = verdicts \cup {new}
  BY DEF Say
<1>2. new \in VerdictRow /\ new.vehicle = v /\ new.at = at /\ new.assignable = ok
  BY DEF VerdictRow
<1> HIDE DEF new
<1>3. verdicts' \subseteq VerdictRow
  BY <1>1, <1>2 DEF TasksInv, TaskTypes
<1>4. VerdictsFromDocuments'
  <2> SUFFICES ASSUME NEW s \in verdicts'
               PROVE  /\ documents'[s.vehicle] # NoVehicle
                      /\ s.assignable = (\A d \in documents'[s.vehicle] : d >= KuwaitDate(s.at))
    BY DEF VerdictsFromDocuments
  <2>1. CASE s \in verdicts
    <3>1. s.vehicle \in Vehicle
      BY <2>1 DEF TasksInv, TaskTypes, VerdictRow
    <3> QED  BY <2>1, <3>1 DEF TasksInv, VerdictsFromDocuments
  <2>2. CASE s = new
    BY <2>2, <1>2
  <2> QED  BY <2>1, <2>2, <1>1
<1> QED  BY <1>3, <1>4

LEMMA VehiclesKeep ==
  ASSUME TasksInv, NEW v \in Vehicle,
         \/ \E docs \in SUBSET Expiry : RegisterVehicle(v, docs)
         \/ \E at \in Instant : AssertVehicleAssignable(v, at)
  PROVE  TasksInv'
<1>0. Instant \subseteq Nat /\ Expiry \subseteq Int
  BY TasksAssumption DEF Instant, Expiry
<1>1. ASSUME NEW docs \in SUBSET Expiry, RegisterVehicle(v, docs)
      PROVE  TasksInv'
  <2>1. /\ documents' = [documents EXCEPT ![v] = docs] /\ documents[v] = NoVehicle
        /\ Say("register", v, instant, ExpiredDocuments(docs, instant) = {})
        /\ UNCHANGED <<orderRow, tasks, taskCounter, clerk, instant>>
    BY <1>1 DEF RegisterVehicle
  <2>2. docs # NoVehicle
    BY TasksAssumption DEF Expiry, NoVehicle
  <2>3. documents' \in [Vehicle -> SUBSET Int] /\ documents'[v] = docs
    BY <1>0, <2>1 DEF TasksInv, TaskTypes
  <2>4. instant \in Nat /\ KuwaitDate(instant) \in Nat
    BY KuwaitDateIsADay DEF TasksInv, TaskTypes
  <2>5. (ExpiredDocuments(docs, instant) = {}) = (\A d \in docs : d >= KuwaitDate(instant))
    <3>0. docs \subseteq Int
      BY <1>0
    <3>1. (ExpiredDocuments(docs, instant) = {}) <=> (\A d \in docs : d >= KuwaitDate(instant))
      <4>1. (ExpiredDocuments(docs, instant) = {}) <=> (\A d \in docs : ~(d < KuwaitDate(instant)))
        BY Zenon DEF ExpiredDocuments
      <4>2. \A d \in docs : ~(d < KuwaitDate(instant)) <=> d >= KuwaitDate(instant)
        BY <3>0, <2>4
      <4> QED  BY <4>1, <4>2
    <3> QED  BY <3>1
  <2>6. \A w \in Vehicle : documents[w] # NoVehicle => documents'[w] = documents[w]
    BY <2>1 DEF TasksInv, TaskTypes
  <2>7. verdicts' \subseteq VerdictRow /\ VerdictsFromDocuments'
    BY <2>1, <2>2, <2>3, <2>4, <2>5, <2>6, VerdictKeeps
  <2>8. OrdersAreHeld' /\ OneTaskPerOrder'
    BY <2>1 DEF TasksInv, OrdersAreHeld, MayHaveTask, HoldsOrder, OneTaskPerOrder
  <2>9. TaskTypes'
    BY <2>1, <2>3, <2>7 DEF TasksInv, TaskTypes
  <2> QED  BY <2>7, <2>8, <2>9 DEF TasksInv
<1>2. ASSUME NEW at \in Instant, AssertVehicleAssignable(v, at)
      PROVE  TasksInv'
  <2>1. /\ Say("assert", v, at, ExpiredDocuments(documents[v], at) = {}) /\ documents[v] # NoVehicle
        /\ UNCHANGED <<orderRow, tasks, taskCounter, clerk, documents, instant>>
    BY <1>2 DEF AssertVehicleAssignable
  <2>2. at \in Nat /\ KuwaitDate(at) \in Nat /\ documents \in [Vehicle -> SUBSET Int]
    BY <1>0, KuwaitDateIsADay DEF TasksInv, TaskTypes
  <2>3. (ExpiredDocuments(documents[v], at) = {}) = (\A d \in documents[v] : d >= KuwaitDate(at))
    <3>1. (ExpiredDocuments(documents[v], at) = {}) <=> (\A d \in documents[v] : d >= KuwaitDate(at))
      BY <2>2 DEF ExpiredDocuments
    <3> QED  BY <3>1
  <2>4. verdicts' \subseteq VerdictRow /\ VerdictsFromDocuments'
    BY <2>1, <2>2, <2>3, VerdictKeeps
  <2>5. OrdersAreHeld' /\ OneTaskPerOrder'
    BY <2>1 DEF TasksInv, OrdersAreHeld, MayHaveTask, HoldsOrder, OneTaskPerOrder
  <2>6. TaskTypes'
    BY <2>1, <2>4 DEF TasksInv, TaskTypes
  <2> QED  BY <2>4, <2>5, <2>6 DEF TasksInv
<1> QED  BY <1>1, <1>2

LEMMA AssignKeeps ==
  ASSUME TasksInv, NEW v \in Vehicle, NEW t \in tasks, AssignVehicle(t, v)
  PROVE  TasksInv'
<1>1. /\ Say("guard", v, instant, ~GuardRefuses(v)) /\ documents[v] # NoVehicle
      /\ UNCHANGED <<orderRow, taskCounter, clerk, documents, instant>>
  BY DEF AssignVehicle
<1>2. instant \in Nat /\ KuwaitDate(instant) \in Nat /\ documents \in [Vehicle -> SUBSET Int]
  BY KuwaitDateIsADay DEF TasksInv, TaskTypes
<1>3. (~GuardRefuses(v)) = (\A d \in documents[v] : d >= KuwaitDate(instant))
  <2>1. (~GuardRefuses(v)) <=> (\A d \in documents[v] : d >= KuwaitDate(instant))
    BY <1>2 DEF GuardRefuses
  <2> QED  BY <2>1
<1>4. verdicts' \subseteq VerdictRow /\ VerdictsFromDocuments'
  BY <1>1, <1>2, <1>3, VerdictKeeps
<1>5. OrdersAreHeld'
  BY <1>1 DEF TasksInv, OrdersAreHeld, MayHaveTask, HoldsOrder
<1>6. tasks' \subseteq TaskRow /\ OneTaskPerOrder'
  <2>1. CASE tasks' = tasks
    BY <1>1, <2>1 DEF TasksInv, TaskTypes, OneTaskPerOrder
  <2>2. CASE tasks' = (tasks \ {t}) \cup {[t EXCEPT !.vehicle = v]}
    <3> DEFINE new == [t EXCEPT !.vehicle = v]
    <3>1. t \in TaskRow
      BY DEF TasksInv, TaskTypes
    <3>2. new \in TaskRow /\ new.order = t.order /\ new.no = t.no /\ new.entity = t.entity
      BY <3>1 DEF TaskRow
    <3> HIDE DEF new
    <3>3. tasks' = (tasks \ {t}) \cup {new}
      BY <2>2 DEF new
    <3>4. tasks' \subseteq TaskRow
      BY <3>2, <3>3 DEF TasksInv, TaskTypes
    <3>5. ASSUME NEW w \in tasks'
          PROVE  /\ orderRow'[w.order].task = w.no /\ EntityOf[w.order] = w.entity
                 /\ orderRow'[w.order].status \in ReadyStatus
                 /\ \A u \in tasks' : u.order = w.order => u = w
      BY <1>1, <3>2, <3>3 DEF TasksInv, OneTaskPerOrder
    <3>6. \A o \in TaskOrder : orderRow'[o].task # NoTask => \E w \in tasks' : w.order = o
      BY <1>1, <3>2, <3>3 DEF TasksInv, OneTaskPerOrder
    <3>7. ASSUME NEW e \in TaskEntity
          PROVE  {w.no : w \in {w \in tasks' : w.entity = e}} = {w.no : w \in {w \in tasks : w.entity = e}}
      BY <3>2, <3>3
    <3>8. \A e \in TaskEntity : {w.no : w \in {w \in tasks' : w.entity = e}} = 1..taskCounter'[e]
      BY <1>1, <3>7 DEF TasksInv, OneTaskPerOrder
    <3> QED  BY <3>4, <3>5, <3>6, <3>8 DEF OneTaskPerOrder
  <2> QED  BY <2>1, <2>2 DEF AssignVehicle
<1>7. TaskTypes'
  BY <1>1, <1>4, <1>6 DEF TasksInv, TaskTypes
<1> QED  BY <1>4, <1>5, <1>6, <1>7 DEF TasksInv

LEMMA AdvanceKeeps ==
  ASSUME TasksInv, NEW o \in TaskOrder, AdvanceOrder(o)
  PROVE  TasksInv'
<1>1. PICK s \in NextStatus(orderRow[o].status) :
        orderRow' = [orderRow EXCEPT ![o] = [orderRow[o] EXCEPT !.status = s, !.version = orderRow[o].version + 1]]
  BY DEF AdvanceOrder, TasksInv, TaskTypes, OrderRow
<1>2. UNCHANGED <<tasks, taskCounter, clerk, documents, instant, verdicts>> /\ OrderUnlocked(o)
  BY DEF AdvanceOrder
<1> DEFINE new == [orderRow[o] EXCEPT !.status = s, !.version = orderRow[o].version + 1]
<1>3. orderRow[o] \in OrderRow /\ orderRow[o].version + 1 \in Nat
  BY DEF TasksInv, TaskTypes, OrderRow
<1>4. s \in Status /\ (orderRow[o].status \in ReadyStatus => s \in ReadyStatus)
  BY <1>1, <1>3 DEF NextStatus, Status, ReadyStatus, OrderRow
<1>5. new \in OrderRow /\ new.task = orderRow[o].task /\ new.status = s
  BY <1>3, <1>4 DEF OrderRow
<1>6. orderRow' = [orderRow EXCEPT ![o] = new]
  BY <1>1
<1> HIDE DEF new
<1>7. /\ orderRow' \in [TaskOrder -> OrderRow] /\ orderRow'[o] = new
      /\ \A p \in TaskOrder : p # o => orderRow'[p] = orderRow[p]
  BY <1>5, <1>6 DEF TasksInv, TaskTypes
<1>8. TaskTypes'
  BY <1>2, <1>7 DEF TasksInv, TaskTypes
<1>9. OrdersAreHeld'
  <2>1. \A c \in Clerk : clerk[c].step \in {"locked", "numbered"} => clerk[c].order \in TaskOrder \ {o}
    BY <1>2 DEF OrderUnlocked, HoldsOrder, TasksInv, TaskTypes
  <2> QED  BY <1>2, <1>7, <2>1 DEF TasksInv, OrdersAreHeld, MayHaveTask, HoldsOrder
<1>10. OneTaskPerOrder'
  <2>1. \A p \in TaskOrder : /\ orderRow'[p].task = orderRow[p].task
                             /\ orderRow[p].status \in ReadyStatus => orderRow'[p].status \in ReadyStatus
    BY <1>4, <1>5, <1>7
  <2>2. \A t \in tasks : t.order \in TaskOrder
    BY DEF TasksInv, TaskTypes, TaskRow
  <2> QED  BY <1>2, <2>1, <2>2 DEF TasksInv, OneTaskPerOrder
<1>11. VerdictsFromDocuments'
  BY <1>2 DEF TasksInv, VerdictsFromDocuments
<1> QED  BY <1>8, <1>9, <1>10, <1>11 DEF TasksInv

(* Steps of a clerk that write nothing: the locks it takes or lets go of.  *)
LEMMA ClerkKeeps ==
  ASSUME TasksInv, NEW c \in Clerk, NEW state \in ClerkState,
         clerk' = [clerk EXCEPT ![c] = state],
         UNCHANGED <<orderRow, tasks, taskCounter, documents, instant, verdicts>>,
         state.step \in {"sent", "locked", "numbered"} => state.order \in TaskOrder,
         state.step \in {"locked", "numbered"} =>
           /\ state.order = clerk[c].order /\ state.expected = clerk[c].expected
           /\ MayHaveTask(c, state.order)
           /\ \A d \in Clerk \ {c} : ~HoldsOrder(d, state.order)
  PROVE  TasksInv'
<1>1. clerk'[c] = state /\ \A d \in Clerk : d # c => clerk'[d] = clerk[d]
  BY DEF TasksInv, TaskTypes
<1>2. TaskTypes'
  BY <1>1 DEF TasksInv, TaskTypes
<1>3. OrdersAreHeld'
  <2> SUFFICES ASSUME NEW d \in Clerk, clerk'[d].step \in {"locked", "numbered"}
               PROVE  /\ MayHaveTask(d, clerk[d].order)'
                      /\ \A e \in Clerk \ {d} : ~HoldsOrder(e, clerk[d].order)'
    BY DEF OrdersAreHeld
  <2>1. CASE d = c
    BY <1>1, <2>1 DEF MayHaveTask, HoldsOrder
  <2>2. CASE d # c
    <3>1. /\ clerk'[d] = clerk[d] /\ MayHaveTask(d, clerk[d].order)
          /\ \A e \in Clerk \ {d} : ~HoldsOrder(e, clerk[d].order)
      BY <1>1, <2>2 DEF TasksInv, OrdersAreHeld
    <3>2. MayHaveTask(d, clerk[d].order)'
      BY <3>1 DEF MayHaveTask
    <3>3. ~HoldsOrder(c, clerk[d].order)'
      BY <1>1, <2>2, <3>1 DEF HoldsOrder
    <3>4. \A e \in Clerk \ {c, d} : ~HoldsOrder(e, clerk[d].order)'
      BY <1>1, <3>1 DEF HoldsOrder
    <3> QED  BY <3>2, <3>3, <3>4
  <2> QED  BY <2>1, <2>2
<1>4. OneTaskPerOrder' /\ VerdictsFromDocuments'
  BY DEF TasksInv, OneTaskPerOrder, VerdictsFromDocuments
<1> QED  BY <1>2, <1>3, <1>4 DEF TasksInv

LEMMA ClerksKeep ==
  ASSUME TasksInv, NEW c \in Clerk,
         NextTaskNo(c) \/ RollBackTask(c) \/ LockOrder(c) \/ \E o \in TaskOrder : SendCreateTask(c, o)
  PROVE  TasksInv'
<1>0. /\ UNCHANGED <<orderRow, tasks, taskCounter, documents, instant, verdicts>>
      /\ clerk[c] \in ClerkState
  BY DEF NextTaskNo, RollBackTask, LockOrder, SendCreateTask, TasksInv, TaskTypes
<1>1. CASE NextTaskNo(c)
  <2> DEFINE state == [clerk[c] EXCEPT !.step = "numbered"]
  <2>1. clerk' = [clerk EXCEPT ![c] = state] /\ clerk[c].step = "locked"
    BY <1>1 DEF NextTaskNo
  <2>2. /\ state \in ClerkState /\ state.step = "numbered"
        /\ state.order = clerk[c].order /\ state.expected = clerk[c].expected
    BY <1>0 DEF ClerkState
  <2> HIDE DEF state
  <2>3. state.order \in TaskOrder /\ MayHaveTask(c, state.order)
        /\ \A d \in Clerk \ {c} : ~HoldsOrder(d, state.order)
    BY <2>1, <2>2 DEF TasksInv, TaskTypes, OrdersAreHeld
  <2> QED  BY <1>0, <2>1, <2>2, <2>3, ClerkKeeps
<1>2. CASE RollBackTask(c)
  BY <1>0, <1>2, NoCommandIsIdle, ClerkKeeps DEF RollBackTask
<1>3. CASE LockOrder(c) /\ ~MayHaveTask(c, clerk[c].order)
  BY <1>0, <1>3, NoCommandIsIdle, ClerkKeeps DEF LockOrder
<1>4. CASE LockOrder(c) /\ MayHaveTask(c, clerk[c].order)
  <2> DEFINE state == [clerk[c] EXCEPT !.step = "locked"]
  <2>1. clerk' = [clerk EXCEPT ![c] = state] /\ clerk[c].step = "sent" /\ OrderUnlocked(clerk[c].order)
    BY <1>4 DEF LockOrder
  <2>2. /\ state \in ClerkState /\ state.step = "locked"
        /\ state.order = clerk[c].order /\ state.expected = clerk[c].expected
    BY <1>0 DEF ClerkState
  <2> HIDE DEF state
  <2>3. state.order \in TaskOrder /\ MayHaveTask(c, state.order)
        /\ \A d \in Clerk \ {c} : ~HoldsOrder(d, state.order)
    BY <1>4, <2>1, <2>2 DEF TasksInv, TaskTypes, OrderUnlocked
  <2> QED  BY <1>0, <2>1, <2>2, <2>3, ClerkKeeps
<1>5. ASSUME NEW o \in TaskOrder, SendCreateTask(c, o)
      PROVE  TasksInv'
  <2> DEFINE state == [step |-> "sent", order |-> o, expected |-> orderRow[o].version]
  <2>1. clerk' = [clerk EXCEPT ![c] = state]
    BY <1>5 DEF SendCreateTask
  <2>2. state \in ClerkState /\ state.step = "sent" /\ state.order = o
    BY DEF ClerkState, TasksInv, TaskTypes, OrderRow
  <2> HIDE DEF state
  <2> QED  BY <1>0, <2>1, <2>2, ClerkKeeps
<1> QED  BY <1>1, <1>2, <1>3, <1>4, <1>5

LEMMA CommitTaskKeeps ==
  ASSUME TasksInv, NEW c \in Clerk, CommitTask(c)
  PROVE  TasksInv'
<1> DEFINE o  == clerk[c].order
           e  == EntityOf[c]
           no == taskCounter[e] + 1
           new == [entity |-> e, no |-> no, order |-> o, vehicle |-> "none"]
           row == [orderRow[o] EXCEPT !.task = no, !.version = orderRow[o].version + 1]
<1>0. o \in TaskOrder /\ e \in TaskEntity /\ taskCounter[e] \in Nat /\ no \in Nat /\ no # 0
  <2>1. o \in TaskOrder
    BY DEF CommitTask, TasksInv, TaskTypes
  <2>2. e \in TaskEntity
    BY TasksAssumption
  <2>3. taskCounter[e] \in Nat
    BY <2>2 DEF TasksInv, TaskTypes
  <2> HIDE DEF o, e
  <2> QED  BY <2>1, <2>2, <2>3
<1>1. /\ EntityOf[o] = e /\ orderRow[o].task = NoTask /\ orderRow[o].status \in ReadyStatus
      /\ \A d \in Clerk \ {c} : ~HoldsOrder(d, o)
  BY DEF CommitTask, TasksInv, OrdersAreHeld, MayHaveTask
<1>2. new \in TaskRow /\ new.entity = e /\ new.no = no /\ new.order = o
  BY <1>0 DEF TaskRow
<1>3. row \in OrderRow /\ row.task = no /\ row.status = orderRow[o].status
  <2>1. orderRow[o] \in OrderRow /\ orderRow[o].version + 1 \in Nat
    BY <1>0 DEF TasksInv, TaskTypes, OrderRow
  <2> HIDE DEF no
  <2> QED  BY <1>0, <2>1 DEF OrderRow
<1>4. /\ tasks' = tasks \cup {new} /\ taskCounter' = [taskCounter EXCEPT ![e] = no]
      /\ orderRow' = [orderRow EXCEPT ![o] = row] /\ clerk' = [clerk EXCEPT ![c] = NoCommand]
      /\ UNCHANGED <<documents, instant, verdicts>>
  BY <1>0 DEF CommitTask, TasksInv, TaskTypes, OrderRow
<1> HIDE DEF o, e, no, new, row
<1>5. /\ orderRow' \in [TaskOrder -> OrderRow] /\ orderRow'[o] = row
      /\ \A p \in TaskOrder : p # o => orderRow'[p] = orderRow[p]
      /\ taskCounter' \in [TaskEntity -> Nat] /\ taskCounter'[e] = no
      /\ \A f \in TaskEntity : f # e => taskCounter'[f] = taskCounter[f]
      /\ clerk' \in [Clerk -> ClerkState] /\ clerk'[c] = NoCommand
      /\ \A d \in Clerk : d # c => clerk'[d] = clerk[d]
  BY <1>0, <1>3, <1>4, NoCommandIsIdle DEF TasksInv, TaskTypes
<1>6. TaskTypes'
  BY <1>2, <1>4, <1>5, NoCommandIsIdle DEF TasksInv, TaskTypes
<1>7. OrdersAreHeld'
  <2> SUFFICES ASSUME NEW d \in Clerk, clerk'[d].step \in {"locked", "numbered"}
               PROVE  /\ MayHaveTask(d, clerk[d].order)'
                      /\ \A b \in Clerk \ {d} : ~HoldsOrder(b, clerk[d].order)'
    BY DEF OrdersAreHeld
  <2>1. d # c /\ clerk'[d] = clerk[d]
    BY <1>5, NoCommandIsIdle
  <2>2. clerk[d].order \in TaskOrder /\ clerk[d].order # o
    BY <1>1, <2>1 DEF HoldsOrder, TasksInv, TaskTypes
  <2>3. /\ MayHaveTask(d, clerk[d].order)
        /\ \A b \in Clerk \ {d} : ~HoldsOrder(b, clerk[d].order)
    BY <2>1 DEF TasksInv, OrdersAreHeld
  <2>4. MayHaveTask(d, clerk[d].order)'
    BY <1>5, <2>1, <2>2, <2>3 DEF MayHaveTask
  <2>5. \A b \in Clerk \ {d} : ~HoldsOrder(b, clerk[d].order)'
    BY <1>5, <2>1, <2>3, NoCommandIsIdle DEF HoldsOrder
  <2> QED  BY <2>4, <2>5
<1>8. OneTaskPerOrder'
  <2>0. \A t \in tasks : t.order \in TaskOrder /\ t.order # o /\ t.no # 0
    <3> SUFFICES ASSUME NEW t \in tasks PROVE t.order \in TaskOrder /\ t.order # o /\ t.no # 0
      OBVIOUS
    <3>1. t.order \in TaskOrder /\ t.entity \in TaskEntity
      BY DEF TasksInv, TaskTypes, TaskRow
    <3>2. t.no \in 1..taskCounter[t.entity]
      BY <3>1 DEF TasksInv, OneTaskPerOrder
    <3>3. t.no # 0
      BY <3>1, <3>2 DEF TasksInv, TaskTypes
    <3> QED  BY <3>1, <3>3, <1>1 DEF TasksInv, OneTaskPerOrder, NoTask
  <2>1. ASSUME NEW t \in tasks'
        PROVE  /\ orderRow'[t.order].task = t.no /\ EntityOf[t.order] = t.entity
               /\ orderRow'[t.order].status \in ReadyStatus
               /\ \A u \in tasks' : u.order = t.order => u = t
    <3>1. CASE t = new
      BY <3>1, <2>0, <1>1, <1>2, <1>3, <1>4, <1>5
    <3>2. CASE t \in tasks
      BY <3>2, <2>0, <1>2, <1>4, <1>5 DEF TasksInv, OneTaskPerOrder
    <3> QED  BY <3>1, <3>2, <1>4
  <2>2. \A p \in TaskOrder : orderRow'[p].task # NoTask => \E t \in tasks' : t.order = p
    BY <1>2, <1>4, <1>5 DEF TasksInv, OneTaskPerOrder
  <2>3. ASSUME NEW f \in TaskEntity
        PROVE  {t.no : t \in {t \in tasks' : t.entity = f}} = 1..taskCounter'[f]
    <3>1. {t.no : t \in {t \in tasks : t.entity = f}} = 1..taskCounter[f]
      BY DEF TasksInv, OneTaskPerOrder
    <3>2. CASE f = e
      <4>1. {t.no : t \in {t \in tasks' : t.entity = f}}
              = {t.no : t \in {t \in tasks : t.entity = f}} \cup {no}
        BY <3>2, <1>2, <1>4
      <4>2. 1..no = (1..taskCounter[e]) \cup {no}
        BY <1>0 DEF no
      <4> QED  BY <3>1, <3>2, <4>1, <4>2, <1>5
    <3>3. CASE f # e
      <4>1. {t.no : t \in {t \in tasks' : t.entity = f}}
              = {t.no : t \in {t \in tasks : t.entity = f}}
        BY <3>3, <1>2, <1>4
      <4> QED  BY <3>1, <3>3, <4>1, <1>5
    <3> QED  BY <3>2, <3>3
  <2> QED  BY <2>1, <2>2, <2>3 DEF OneTaskPerOrder
<1>9. VerdictsFromDocuments'
  BY <1>4 DEF TasksInv, VerdictsFromDocuments
<1> QED  BY <1>6, <1>7, <1>8, <1>9 DEF TasksInv

LEMMA NextTasksKeeps == TasksInv /\ [NextTasks]_taskVars => TasksInv'
<1> SUFFICES ASSUME TasksInv, [NextTasks]_taskVars PROVE TasksInv'
  OBVIOUS
<1>1. CASE UNCHANGED taskVars
  BY <1>1 DEF taskVars, TasksInv, TaskTypes, OrdersAreHeld, MayHaveTask, HoldsOrder,
              VerdictsFromDocuments, OneTaskPerOrder
<1>2. CASE PassTime
  <2>1. UNCHANGED <<orderRow, tasks, taskCounter, clerk, documents, verdicts>> /\ instant' \in Nat
    BY <1>2 DEF PassTime, TasksInv, TaskTypes
  <2> QED  BY <2>1 DEF TasksInv, TaskTypes, OrdersAreHeld, MayHaveTask, HoldsOrder,
                       VerdictsFromDocuments, OneTaskPerOrder
<1>3. CASE NextTasks /\ ~PassTime
  BY <1>3, VehiclesKeep, AssignKeeps, AdvanceKeeps, ClerksKeep, CommitTaskKeeps DEF NextTasks
<1> QED  BY <1>1, <1>2, <1>3

LEMMA VerdictsAgree == TasksInv => VehicleVerdictsAgree
<1> SUFFICES ASSUME TasksInv, NEW s \in verdicts, NEW t \in verdicts,
                    s.vehicle = t.vehicle, KuwaitDate(s.at) <= KuwaitDate(t.at)
             PROVE  /\ t.assignable => s.assignable
                    /\ KuwaitDate(s.at) = KuwaitDate(t.at) => s.assignable = t.assignable
  BY DEF VehicleVerdictsAgree
<1>1. KuwaitDate(s.at) \in Nat /\ KuwaitDate(t.at) \in Nat /\ documents[s.vehicle] \subseteq Int
      /\ s.assignable \in BOOLEAN /\ t.assignable \in BOOLEAN
  BY KuwaitDateIsADay DEF TasksInv, TaskTypes, VerdictRow
<1>2. /\ s.assignable = (\A d \in documents[s.vehicle] : d >= KuwaitDate(s.at))
      /\ t.assignable = (\A d \in documents[s.vehicle] : d >= KuwaitDate(t.at))
  BY DEF TasksInv, VerdictsFromDocuments
<1>3. (\A d \in documents[s.vehicle] : d >= KuwaitDate(t.at))
        => (\A d \in documents[s.vehicle] : d >= KuwaitDate(s.at))
  BY <1>1
<1> QED  BY <1>1, <1>2, <1>3

(* An order has one task at most, and it has it when it says so; numbers   *)
(* are unique per entity; and a verdict on a vehicle is what its documents *)
(* say of the day in Kuwait.                                               *)
THEOREM TasksFollow == SpecTasks => []TasksFollowOrders
<1>1. TasksInv => TasksFollowOrders
  BY VerdictsAgree DEF TasksInv, TasksFollowOrders
<1> QED  BY InitTasksKeeps, NextTasksKeeps, <1>1, PTL DEF SpecTasks

-----------------------------------------------------------------------------
(* Requests of the host (ApiHost).                                         *)

ErrorClass ==
  {"none"} \cup UNION {OwnErrors(api) \cup LedgerErrors(api) : api \in Mounted \cup NotBuilt}
ReplyValue == Refused4xx \cup {NoReply, 200, 500}
            \cup {StatusOf(api, class) : api \in Mounted \cup NotBuilt, class \in ErrorClass \cup {"key"}}
AttemptState ==
  [step : {"out", "known", "scoped", "working", "over"}, entity : Entity \cup {"none"},
   reply : ReplyValue, vouched : BOOLEAN, class : ErrorClass]

ApiTypes ==
  /\ request \in ApiRequest /\ members \subseteq Entity
  /\ attempts \in [Attempt -> AttemptState]
  /\ \A a \in Attempt : attempts[a].step # "over" => attempts[a].reply = NoReply

(* What the host has found out about an attempt it has not answered yet.   *)
StepsAreEarned ==
  \A a \in Attempt :
    /\ attempts[a].step \in {"known", "scoped", "working"} \/ attempts[a].reply \notin {NoReply, 401}
         => attempts[a].vouched
    /\ attempts[a].step \in {"scoped", "working"} => request.header \in {"absent", attempts[a].entity}

(* A write has its key to itself while it works, and the key is answered   *)
(* when, and only when, it was done.                                       *)
KeyTellsCommands ==
  /\ commands # {} => keyRow
  /\ \A d, e \in commands : d = e
  /\ request.op = "read" => commands = {}
  /\ request.op # "read" => \A a \in Attempt : attempts[a].step = "working" =>
       ~keyRow /\ \A b \in Attempt \ {a} : attempts[b].step # "working"
  /\ \A d \in commands : /\ attempts[d.by].step = "over"
                         /\ attempts[d.by].reply \in {NoReply, 200, 500}
                         /\ d.entity \in d.held /\ request.header \in {"absent", d.entity}

ApiInv == ApiTypes /\ StepsAreEarned /\ KeyTellsCommands

LEMMA InitApiKeeps == InitApi => ApiInv
<1> SUFFICES ASSUME InitApi PROVE ApiInv
  OBVIOUS
<1>1. Waiting \in AttemptState /\ Waiting.step = "out" /\ Waiting.reply = NoReply
  BY DEF Waiting, AttemptState, ErrorClass, ReplyValue
<1>2. request \in ApiRequest /\ members \subseteq Entity /\ attempts = [a \in Attempt |-> Waiting] /\ commands = {}
  BY DEF InitApi
<1>3. ApiTypes
  BY <1>1, <1>2 DEF ApiTypes
<1>4. StepsAreEarned /\ KeyTellsCommands
  BY <1>1, <1>2 DEF StepsAreEarned, KeyTellsCommands
<1> QED  BY <1>3, <1>4 DEF ApiInv

(* A step of an attempt that does nothing but move it on or answer it.     *)
LEMMA AttemptKeeps ==
  ASSUME ApiInv, NEW a \in Attempt, NEW state \in AttemptState,
         attempts' = [attempts EXCEPT ![a] = state],
         UNCHANGED <<request, members, keyRow, commands>>, attempts[a].step # "over",
         state.step # "over" => state.reply = NoReply,
         state.step \in {"known", "scoped", "working"} \/ state.reply \notin {NoReply, 401} => state.vouched,
         state.step \in {"scoped", "working"} => request.header \in {"absent", state.entity},
         state.step = "working" /\ request.op # "read" =>
           ~keyRow /\ \A b \in Attempt \ {a} : attempts[b].step # "working"
  PROVE  ApiInv'
<1>1. attempts'[a] = state /\ \A b \in Attempt : b # a => attempts'[b] = attempts[b]
  BY DEF ApiInv, ApiTypes
<1>2. ApiTypes'
  BY <1>1 DEF ApiInv, ApiTypes
<1>3. StepsAreEarned'
  BY <1>1 DEF ApiInv, StepsAreEarned
<1>4. KeyTellsCommands'
  <2>1. \A d \in commands : d.by # a
    BY DEF ApiInv, KeyTellsCommands
  <2>2. \A d \in commands' : /\ attempts'[d.by].step = "over"
                             /\ attempts'[d.by].reply \in {NoReply, 200, 500}
                             /\ d.entity \in d.held /\ request'.header \in {"absent", d.entity}
    <3>1. \A b : b # a => attempts'[b] = attempts[b]
      OBVIOUS
    <3> QED  BY <2>1, <3>1 DEF ApiInv, KeyTellsCommands
  <2>3. request'.op # "read" => \A b \in Attempt : attempts'[b].step = "working" =>
          ~keyRow' /\ \A c \in Attempt \ {b} : attempts'[c].step # "working"
    BY <1>1 DEF ApiInv, KeyTellsCommands
  <2> QED  BY <2>2, <2>3 DEF ApiInv, KeyTellsCommands
<1> QED  BY <1>2, <1>3, <1>4 DEF ApiInv

(* An answer to an attempt that was let in, or 401.                        *)
LEMMA ReplyKeeps ==
  ASSUME ApiInv, NEW a \in Attempt, NEW status \in ReplyValue, Reply(a, status),
         UNCHANGED <<request, members, keyRow, commands>>, attempts[a].step # "over",
         status \in {NoReply, 401} \/ attempts[a].step \in {"known", "scoped", "working"}
  PROVE  ApiInv'
<1> DEFINE state == [attempts[a] EXCEPT !.step = "over", !.reply = status]
<1>1. attempts[a] \in AttemptState
  BY DEF ApiInv, ApiTypes
<1>2. /\ state \in AttemptState /\ state.step = "over" /\ state.reply = status
      /\ state.vouched = attempts[a].vouched
  BY <1>1 DEF AttemptState
<1>3. attempts' = [attempts EXCEPT ![a] = state]
  BY DEF Reply
<1>4. attempts[a].step \in {"known", "scoped", "working"} => attempts[a].vouched
  BY DEF ApiInv, StepsAreEarned
<1> HIDE DEF state
<1> QED  BY <1>2, <1>3, <1>4, AttemptKeeps

LEMMA SomeStatuses ==
  /\ {NoReply, 200, 400, 401, 403, 413, 415, 422, 500, 501} \subseteq ReplyValue
  /\ ApiInv => StatusOf(request.api, "key") \in ReplyValue
  /\ ApiInv => \A class \in OwnErrors(request.api) \cup LedgerErrors(request.api) :
                 class \in ErrorClass /\ StatusOf(request.api, class) \in ReplyValue
<1>1. {NoReply, 200, 400, 401, 403, 413, 415, 422, 500, 501} \subseteq ReplyValue
  BY DEF ReplyValue, Refused4xx, NoReply
<1>2. ApiInv => request.api \in Mounted \cup NotBuilt
  BY DEF ApiInv, ApiTypes, ApiRequest
<1>3. \A api \in Mounted \cup NotBuilt, class \in ErrorClass \cup {"key"} : StatusOf(api, class) \in ReplyValue
  BY DEF ReplyValue
<1>4. \A api \in Mounted \cup NotBuilt : \A class \in OwnErrors(api) \cup LedgerErrors(api) : class \in ErrorClass
  BY DEF ErrorClass
<1> QED  BY <1>1, <1>2, <1>3, <1>4

LEMMA ReceiveKeeps ==
  ASSUME ApiInv, NEW a \in Attempt, Receive(a)
  PROVE  ApiInv'
<1>0. /\ attempts[a] \in AttemptState /\ attempts[a].step = "out" /\ attempts[a].reply = NoReply
      /\ UNCHANGED <<request, members, keyRow, commands>>
  BY DEF ApiInv, ApiTypes, Receive
<1>1. CASE ~Vouched
  BY <1>0, <1>1, SomeStatuses, ReplyKeeps DEF Receive
<1>2. CASE Vouched
  <2> DEFINE known == [attempts[a] EXCEPT !.vouched = session /\ subject.internal /\ subject.active]
             over(status) == [known EXCEPT !.step = "over", !.reply = status]
             next == [known EXCEPT !.step = "known"]
  <2>1. session /\ subject.internal /\ subject.active
    BY <1>2 DEF Vouched
  <2>2. known \in AttemptState /\ known.vouched /\ known.reply = NoReply
    BY <1>0, <2>1 DEF AttemptState
  <2>3. \/ attempts' = [attempts EXCEPT ![a] = next]
        \/ \E status \in {400, 413, 415, 501} : attempts' = [attempts EXCEPT ![a] = over(status)]
    BY <1>2 DEF Receive
  <2> HIDE DEF known
  <2>4. CASE attempts' = [attempts EXCEPT ![a] = next]
    <3>1. next \in AttemptState /\ next.step = "known" /\ next.reply = NoReply /\ next.vouched
      BY <2>2 DEF AttemptState
    <3> HIDE DEF next
    <3> QED  BY <1>0, <2>4, <3>1, AttemptKeeps
  <2>5. ASSUME NEW status \in {400, 413, 415, 501}, attempts' = [attempts EXCEPT ![a] = over(status)]
        PROVE  ApiInv'
    <3> DEFINE state == over(status)
    <3>0. status \in ReplyValue
      BY SomeStatuses
    <3>1. state \in AttemptState /\ state.step = "over" /\ state.vouched
      BY <2>2, <3>0 DEF AttemptState
    <3>2. attempts' = [attempts EXCEPT ![a] = state]
      BY <2>5
    <3> HIDE DEF state
    <3> QED  BY <1>0, <3>1, <3>2, AttemptKeeps, ZenonT(30)
  <2> QED  BY <2>3, <2>4, <2>5
<1> QED  BY <1>1, <1>2

LEMMA ResolveKeeps ==
  ASSUME ApiInv, NEW a \in Attempt, ResolveEntity(a)
  PROVE  ApiInv'
<1>0. /\ attempts[a] \in AttemptState /\ attempts[a].step = "known" /\ attempts[a].reply = NoReply
      /\ attempts[a].vouched /\ UNCHANGED <<request, members, keyRow, commands>>
  BY DEF ApiInv, ApiTypes, StepsAreEarned, ResolveEntity
<1>1. ASSUME NEW status \in {400, 403, 422}, Reply(a, status)
      PROVE  ApiInv'
  BY <1>0, <1>1, SomeStatuses, ReplyKeeps
<1>2. ASSUME NEW e \in ChosenEntities(request.header),
             attempts' = [attempts EXCEPT ![a].step = "scoped", ![a].entity = e]
      PROVE  ApiInv'
  <2> DEFINE state == [attempts[a] EXCEPT !.step = "scoped", !.entity = e]
  <2>1. attempts' = [attempts EXCEPT ![a] = state]
    BY <1>2
  <2>2. request.header \in {"absent", e}
    BY DEF ChosenEntities
  <2>3. e \in Entity
    <3>1. request.header \in Entity \cup {"absent", "malformed"}
      BY DEF ApiInv, ApiTypes, ApiRequest
    <3>2. members \subseteq Entity
      BY DEF ApiInv, ApiTypes
    <3> QED  BY <3>1, <3>2 DEF ChosenEntities
  <2>4. /\ state \in AttemptState /\ state.step = "scoped" /\ state.reply = NoReply
        /\ state.vouched /\ state.entity = e
    BY <1>0, <2>3 DEF AttemptState
  <2> HIDE DEF state
  <2> QED  BY <1>0, <2>1, <2>2, <2>4, AttemptKeeps
<1> QED  BY <1>1, <1>2 DEF ResolveEntity

LEMMA BeginKeeps ==
  ASSUME ApiInv, NEW a \in Attempt, BeginCommand(a)
  PROVE  ApiInv'
<1>0. /\ attempts[a] \in AttemptState /\ attempts[a].step = "scoped" /\ attempts[a].reply = NoReply
      /\ attempts[a].vouched /\ request.header \in {"absent", attempts[a].entity}
      /\ UNCHANGED <<request, members, keyRow, commands>> /\ request.op \in {"write", "read"}
  BY DEF ApiInv, ApiTypes, StepsAreEarned, BeginCommand, ApiRequest
<1>1. ASSUME NEW status \in {200, StatusOf(request.api, "key")}, Reply(a, status)
      PROVE  ApiInv'
  <2>1. status \in ReplyValue
    BY SomeStatuses
  <2> QED  BY <1>0, <1>1, <2>1, ReplyKeeps
<1>2. ASSUME attempts' = [attempts EXCEPT ![a].step = "working"],
             request.op = "read" \/ (~KeyInFlight(a) /\ ~keyRow)
      PROVE  ApiInv'
  <2> DEFINE state == [attempts[a] EXCEPT !.step = "working"]
  <2>1. attempts' = [attempts EXCEPT ![a] = state]
    BY <1>2
  <2>2. /\ state \in AttemptState /\ state.step = "working" /\ state.reply = NoReply
        /\ state.vouched /\ state.entity = attempts[a].entity
    BY <1>0 DEF AttemptState
  <2> HIDE DEF state
  <2>3. request.op # "read" => ~keyRow /\ \A b \in Attempt \ {a} : attempts[b].step # "working"
    BY <1>2 DEF KeyInFlight
  <2> QED  BY <1>0, <2>1, <2>2, <2>3, AttemptKeeps
<1>3. \/ Reply(a, 200) \/ Reply(a, StatusOf(request.api, "key"))
      \/ /\ attempts' = [attempts EXCEPT ![a].step = "working"]
         /\ request.op = "read" \/ (~KeyInFlight(a) /\ ~keyRow)
  <2>1. CASE request.op = "read"
    BY <2>1 DEF BeginCommand
  <2>2. CASE request.op = "write" /\ KeyInFlight(a)
    BY <2>2 DEF BeginCommand
  <2>3. CASE request.op = "write" /\ ~KeyInFlight(a) /\ keyRow
    BY <2>3 DEF BeginCommand
  <2>4. CASE request.op = "write" /\ ~KeyInFlight(a) /\ ~keyRow
    BY <2>4 DEF BeginCommand
  <2> QED  BY <1>0, <2>1, <2>2, <2>3, <2>4
<1> QED  BY <1>1, <1>2, <1>3

LEMMA EndsKeep ==
  ASSUME ApiInv, NEW a \in Attempt,
         \/ FailAttempt(a)
         \/ \E class \in OwnErrors(request.api) \cup LedgerErrors(request.api) : RefuseCommand(a, class)
  PROVE  ApiInv'
<1>1. CASE FailAttempt(a)
  BY <1>1, SomeStatuses, ReplyKeeps DEF FailAttempt
<1>2. ASSUME NEW class \in OwnErrors(request.api) \cup LedgerErrors(request.api), RefuseCommand(a, class)
      PROVE  ApiInv'
  <2> DEFINE state == [attempts[a] EXCEPT !.step = "over", !.class = class,
                                          !.reply = StatusOf(request.api, class)]
  <2>0. /\ attempts[a] \in AttemptState /\ attempts[a].step = "working" /\ attempts[a].vouched
        /\ UNCHANGED <<request, members, keyRow, commands>>
    BY <1>2 DEF ApiInv, ApiTypes, StepsAreEarned, RefuseCommand
  <2>1. class \in ErrorClass /\ StatusOf(request.api, class) \in ReplyValue
    BY SomeStatuses
  <2>2. attempts' = [attempts EXCEPT ![a] = state]
    BY <1>2 DEF RefuseCommand
  <2>3. state \in AttemptState /\ state.step = "over" /\ state.vouched
    BY <2>0, <2>1 DEF AttemptState
  <2> HIDE DEF state
  <2> QED  BY <2>0, <2>2, <2>3, AttemptKeeps
<1> QED  BY <1>1, <1>2

LEMMA CommitCommandKeeps ==
  ASSUME ApiInv, NEW a \in Attempt, CommitCommand(a)
  PROVE  ApiInv'
<1>0. /\ attempts[a] \in AttemptState /\ attempts[a].step = "working" /\ attempts[a].vouched
      /\ request.header \in {"absent", attempts[a].entity} /\ UNCHANGED <<request, members>>
      /\ attempts[a].entity \in members
  BY DEF ApiInv, ApiTypes, StepsAreEarned, CommitCommand, ScopeAllows
<1>1. PICK status \in {200, 500, NoReply} : Reply(a, status)
  BY DEF CommitCommand
<1>2. status \in ReplyValue
  BY SomeStatuses
<1>3. CASE request.op = "read"
  BY <1>0, <1>1, <1>2, <1>3, ReplyKeeps DEF CommitCommand
<1>4. CASE request.op # "read"
  <2> DEFINE state == [attempts[a] EXCEPT !.step = "over", !.reply = status]
             done == [by |-> a, entity |-> attempts[a].entity, held |-> members]
  <2>1. /\ attempts' = [attempts EXCEPT ![a] = state]
        /\ keyRow' = TRUE /\ commands' = commands \cup {done}
    BY <1>1, <1>4 DEF Reply, CommitCommand
  <2>2. /\ state \in AttemptState /\ state.step = "over" /\ state.reply = status
        /\ state.vouched /\ state.entity = attempts[a].entity
    BY <1>0, <1>2 DEF AttemptState
  <2>3. done.by = a /\ done.entity = attempts[a].entity /\ done.held = members
    OBVIOUS
  <2>4. commands = {} /\ \A b \in Attempt \ {a} : attempts[b].step # "working"
    BY <1>0, <1>4 DEF ApiInv, KeyTellsCommands
  <2> HIDE DEF state, done
  <2>5. attempts'[a] = state /\ \A b \in Attempt : b # a => attempts'[b] = attempts[b]
    BY <2>1 DEF ApiInv, ApiTypes
  <2>6. ApiTypes'
    BY <1>0, <2>1, <2>2, <2>5 DEF ApiInv, ApiTypes
  <2>7. StepsAreEarned'
    BY <1>0, <2>2, <2>5 DEF ApiInv, StepsAreEarned
  <2>8. commands' = {done}
    BY <2>1, <2>4
  <2>9. \A b \in Attempt : attempts'[b].step # "working"
    BY <2>2, <2>4, <2>5
  <2>10. KeyTellsCommands'
    BY <1>0, <1>1, <1>4, <2>1, <2>2, <2>3, <2>5, <2>8, <2>9 DEF KeyTellsCommands
  <2> QED  BY <2>6, <2>7, <2>10 DEF ApiInv
<1> QED  BY <1>3, <1>4

LEMMA ScopeKeeps ==
  ASSUME ApiInv, EndSession \/ DeactivateUser \/ \E e \in Entity : ChangeScope(e)
  PROVE  ApiInv'
<1>1. UNCHANGED <<request, attempts, keyRow, commands>> /\ members' \subseteq Entity
  BY DEF EndSession, DeactivateUser, ChangeScope, ApiInv, ApiTypes
<1>2. ApiTypes'
  BY <1>1 DEF ApiInv, ApiTypes
<1> QED  BY <1>1, <1>2 DEF ApiInv, StepsAreEarned, KeyTellsCommands

LEMMA NextApiKeeps == ApiInv /\ [NextApi]_apiVars => ApiInv'
<1> SUFFICES ASSUME ApiInv, [NextApi]_apiVars PROVE ApiInv'
  OBVIOUS
<1>1. CASE UNCHANGED apiVars
  BY <1>1 DEF apiVars, ApiInv, ApiTypes, StepsAreEarned, KeyTellsCommands
<1>2. CASE NextApi
  BY <1>2, ReceiveKeeps, ResolveKeeps, BeginKeeps, EndsKeep, CommitCommandKeeps, ScopeKeeps DEF NextApi
<1> QED  BY <1>1, <1>2

LEMMA OneCommand == ApiInv => RequestDoneOnce /\ RequestsStayInScope
<1> SUFFICES ASSUME ApiInv PROVE RequestDoneOnce /\ RequestsStayInScope
  OBVIOUS
<1>1. Cardinality(commands) <= 1
  <2>1. CASE commands = {}
    BY <2>1, FS_EmptySet
  <2>2. CASE commands # {}
    <3>1. PICK d \in commands : TRUE
      BY <2>2
    <3>2. commands = {d}
      BY <3>1 DEF ApiInv, KeyTellsCommands
    <3> QED  BY <3>2, FS_Singleton
  <2> QED  BY <2>1, <2>2
<1>2. \A a \in Attempt : attempts[a].reply \in Refused4xx => \A d \in commands : d.by # a
  BY DEF ApiInv, KeyTellsCommands, Refused4xx, NoReply
<1>3. RequestDoneOnce
  BY <1>1, <1>2 DEF RequestDoneOnce, ApiInv, KeyTellsCommands
<1>4. RequestsStayInScope
  BY DEF RequestsStayInScope, ApiInv, StepsAreEarned, KeyTellsCommands
<1> QED  BY <1>3, <1>4

(* A command a client sends again with its key is done once, a refused     *)
(* attempt has not done it, and it is done only in an entity the caller is a*)
(* member of and the header names.                                         *)
THEOREM RequestsKept == SpecApi => [](RequestDoneOnce /\ RequestsStayInScope)
<1> QED  BY InitApiKeeps, NextApiKeeps, OneCommand, PTL DEF SpecApi

-----------------------------------------------------------------------------
(* Driver ids (DriverIds).                                                 *)

HoldingRow == [id : DriverId, employee : Employee, open : BOOLEAN, late : BOOLEAN]

IdTypes ==
  /\ staff \in [Employee -> OnStaff \cup {"unknown", "terminated"}]
  /\ driverIds \in [DriverId -> {"available", "assigned", "suspended"}]
  /\ holdings \in Seq(HoldingRow)
  /\ checked \in [Dispatcher -> [employee : Employee, id : DriverId] \cup {NotChecked}]

(* A row is closed before its id, or its employee, has another one.        *)
ClosedBeforeNext ==
  \A i, j \in 1..Len(holdings) : i < j /\ holdings[i].open =>
    holdings[i].id # holdings[j].id /\ (holdings[j].open => holdings[i].employee # holdings[j].employee)

AssignedHasHolder ==
  \A d \in DriverId : driverIds[d] = "assigned" =>
    \E i \in 1..Len(holdings) : holdings[i].open /\ holdings[i].id = d

FreedByAnother(i) ==
  \E j \in 1..(i - 1) : holdings[j].id = holdings[i].id /\ staff[holdings[j].employee] = "terminated"

OpenRowsAreHeld ==
  \A i \in 1..Len(holdings) : holdings[i].open =>
    /\ driverIds[holdings[i].id] = "assigned" \/ FreedByAnother(i)
    /\ staff[holdings[i].employee] = "terminated" => holdings[i].late

IdsInv == IdTypes /\ ClosedBeforeNext /\ AssignedHasHolder /\ OpenRowsAreHeld

LEMMA InitStaffKeeps == InitStaff => IdsInv
<1> SUFFICES ASSUME InitStaff PROVE IdsInv
  OBVIOUS
<1>1. IdTypes
  BY EmptySeq DEF InitStaff, IdTypes
<1>2. ClosedBeforeNext /\ AssignedHasHolder /\ OpenRowsAreHeld
  BY DEF InitStaff, ClosedBeforeNext, AssignedHasHolder, OpenRowsAreHeld
<1> QED  BY <1>1, <1>2 DEF IdsInv

LEMMA RowsAreRows ==
  ASSUME IdTypes
  PROVE  /\ Len(holdings) \in Nat
         /\ \A i \in 1..Len(holdings) : /\ holdings[i] \in HoldingRow /\ holdings[i].id \in DriverId
                                        /\ holdings[i].employee \in Employee
<1>1. Len(holdings) \in Nat /\ \A i \in 1..Len(holdings) : holdings[i] \in HoldingRow
  BY DEF IdTypes
<1>2. \A r \in HoldingRow : r.id \in DriverId /\ r.employee \in Employee
  BY DEF HoldingRow
<1> QED  BY <1>1, <1>2

(* Closing rows changes nothing else of them.                              *)
LEMMA ClosedRows ==
  ASSUME IdTypes, NEW rows
  PROVE  /\ Closed(rows) \in Seq(HoldingRow) /\ Len(Closed(rows)) = Len(holdings)
         /\ \A i \in 1..Len(holdings) :
              /\ Closed(rows)[i].id = holdings[i].id /\ Closed(rows)[i].late = holdings[i].late
              /\ Closed(rows)[i].employee = holdings[i].employee
              /\ Closed(rows)[i].open <=> holdings[i].open /\ i \notin rows
<1> DEFINE n == Len(holdings)
           ended(i) == [holdings[i] EXCEPT !.open = FALSE]
           row(i) == IF i \in rows THEN ended(i) ELSE holdings[i]
<1>1. n \in Nat /\ \A i \in 1..n : holdings[i] \in HoldingRow
  BY RowsAreRows
<1>2. \A i \in 1..n : /\ ended(i) \in HoldingRow /\ ended(i).id = holdings[i].id
                      /\ ended(i).employee = holdings[i].employee
                      /\ ended(i).late = holdings[i].late /\ ~ended(i).open
  BY <1>1 DEF HoldingRow
<1> HIDE DEF ended
<1>3. \A i \in 1..n : /\ row(i) \in HoldingRow /\ row(i).id = holdings[i].id
                      /\ row(i).employee = holdings[i].employee /\ row(i).late = holdings[i].late
                      /\ row(i).open <=> holdings[i].open /\ i \notin rows
  BY <1>1, <1>2
<1>4. Closed(rows) = [i \in 1..n |-> row(i)]
  BY DEF Closed, ended
<1> HIDE DEF n, row
<1>5. Closed(rows) \in Seq(HoldingRow) /\ Len(Closed(rows)) = n
  BY <1>1, <1>3, <1>4
<1>6. \A i \in 1..n : Closed(rows)[i] = row(i)
  BY <1>4
<1> QED  BY <1>3, <1>5, <1>6 DEF n

(* An employee's status changes to anything but 'terminated'.              *)
LEMMA StatusKeeps ==
  ASSUME IdsInv, UNCHANGED <<driverIds, holdings, checked>>,
         staff' \in [Employee -> OnStaff \cup {"unknown", "terminated"}],
         \A e \in Employee : staff'[e] = "terminated" <=> staff[e] = "terminated"
  PROVE  IdsInv'
<1>1. IdTypes' /\ ClosedBeforeNext' /\ AssignedHasHolder'
  BY DEF IdsInv, IdTypes, ClosedBeforeNext, AssignedHasHolder
<1>2. OpenRowsAreHeld'
  <2> SUFFICES ASSUME NEW i \in 1..Len(holdings), holdings[i].open
               PROVE  /\ driverIds[holdings[i].id] = "assigned" \/ FreedByAnother(i)'
                      /\ staff'[holdings[i].employee] = "terminated" => holdings[i].late
    BY DEF OpenRowsAreHeld
  <2>1. /\ driverIds[holdings[i].id] = "assigned" \/ FreedByAnother(i)
        /\ staff[holdings[i].employee] = "terminated" => holdings[i].late
    BY DEF IdsInv, OpenRowsAreHeld
  <2>2. \A j \in 1..Len(holdings) : holdings[j].employee \in Employee
    BY RowsAreRows DEF IdsInv
  <2>3. FreedByAnother(i) => FreedByAnother(i)'
    <3>1. \A j \in 1..(i - 1) : j \in 1..Len(holdings)
      BY RowsAreRows DEF IdsInv
    <3> QED  BY <2>2, <3>1 DEF FreedByAnother
  <2> QED  BY <2>1, <2>2, <2>3
<1> QED  BY <1>1, <1>2 DEF IdsInv

LEMMA TerminationKeeps ==
  ASSUME IdsInv, NEW e \in Employee, ChangeEmployeeStatus(e, "terminated")
  PROVE  IdsInv'
<1> DEFINE rows == {i \in 1..Len(holdings) : holdings[i].employee = e}
<1>1. /\ staff' = [staff EXCEPT ![e] = "terminated"] /\ holdings' = Closed(rows)
      /\ driverIds' = [d \in DriverId |-> IF d \in FreedIds(e) THEN "available" ELSE driverIds[d]]
      /\ checked' = checked
  BY DEF ChangeEmployeeStatus
<1>2. /\ holdings' \in Seq(HoldingRow) /\ Len(holdings') = Len(holdings)
      /\ \A i \in 1..Len(holdings) :
           /\ holdings'[i].id = holdings[i].id /\ holdings'[i].late = holdings[i].late
           /\ holdings'[i].employee = holdings[i].employee
           /\ holdings'[i].open <=> holdings[i].open /\ holdings[i].employee # e
  BY <1>1, ClosedRows DEF IdsInv
<1>3. IdTypes'
  BY <1>1, <1>2 DEF IdsInv, IdTypes
<1>4. ClosedBeforeNext'
  BY <1>2 DEF IdsInv, ClosedBeforeNext
<1>5. AssignedHasHolder'
  <2> SUFFICES ASSUME NEW d \in DriverId, driverIds'[d] = "assigned"
               PROVE  \E i \in 1..Len(holdings') : holdings'[i].open /\ holdings'[i].id = d
    BY DEF AssignedHasHolder
  <2>1. d \notin FreedIds(e) /\ driverIds[d] = "assigned"
    BY <1>1
  <2>2. PICK i \in 1..Len(holdings) : holdings[i].open /\ holdings[i].id = d
    BY <2>1 DEF IdsInv, AssignedHasHolder
  <2>3. holdings[i].employee # e
    BY <2>1, <2>2 DEF FreedIds
  <2> QED  BY <1>2, <2>2, <2>3
<1>6. OpenRowsAreHeld'
  <2> SUFFICES ASSUME NEW i \in 1..Len(holdings'), holdings'[i].open
               PROVE  /\ driverIds'[holdings'[i].id] = "assigned" \/ FreedByAnother(i)'
                      /\ staff'[holdings'[i].employee] = "terminated" => holdings'[i].late
    BY DEF OpenRowsAreHeld
  <2>1. /\ i \in 1..Len(holdings) /\ holdings[i].open /\ holdings[i].employee # e
        /\ holdings'[i].id = holdings[i].id /\ holdings'[i].late = holdings[i].late
        /\ holdings'[i].employee = holdings[i].employee
    BY <1>2
  <2>2. /\ driverIds[holdings[i].id] = "assigned" \/ FreedByAnother(i)
        /\ staff[holdings[i].employee] = "terminated" => holdings[i].late
    BY <2>1 DEF IdsInv, OpenRowsAreHeld
  <2>3. /\ Len(holdings) \in Nat /\ holdings[i].id \in DriverId
        /\ \A j \in 1..Len(holdings) : holdings[j].employee \in Employee
    BY <2>1, RowsAreRows DEF IdsInv
  <2>4. \A x \in Employee : staff'[x] = IF x = e THEN "terminated" ELSE staff[x]
    BY <1>1 DEF IdsInv, IdTypes
  <2>5. FreedByAnother(i) => FreedByAnother(i)'
    <3>1. SUFFICES ASSUME NEW j \in 1..(i - 1), holdings[j].id = holdings[i].id,
                          staff[holdings[j].employee] = "terminated"
                   PROVE  holdings'[j].id = holdings'[i].id /\ staff'[holdings'[j].employee] = "terminated"
      BY DEF FreedByAnother
    <3>2. j \in 1..Len(holdings)
      BY <2>1, <2>3
    <3> QED  BY <3>1, <3>2, <1>2, <2>1, <2>3, <2>4
  <2>6. driverIds[holdings[i].id] = "assigned" /\ holdings[i].id \in FreedIds(e) => FreedByAnother(i)'
    <3>1. SUFFICES ASSUME holdings[i].id \in FreedIds(e) PROVE FreedByAnother(i)'
      OBVIOUS
    <3>2. PICK j \in 1..Len(holdings) : holdings[j].id = holdings[i].id /\ holdings[j].employee = e
      BY <3>1 DEF FreedIds
    <3>3. ~(i < j) /\ i # j
      BY <2>1, <3>2 DEF IdsInv, ClosedBeforeNext
    <3>4. j \in 1..(i - 1)
      BY <2>1, <2>3, <3>3
    <3>5. holdings'[j].id = holdings'[i].id /\ staff'[holdings'[j].employee] = "terminated"
      BY <1>2, <2>1, <2>4, <3>2
    <3> QED  BY <3>4, <3>5 DEF FreedByAnother
  <2>7. driverIds[holdings[i].id] = "assigned" /\ holdings[i].id \notin FreedIds(e)
          => driverIds'[holdings'[i].id] = "assigned"
    BY <1>1, <2>1, <2>3
  <2>8. staff'[holdings'[i].employee] = staff[holdings[i].employee]
    BY <2>1, <2>3, <2>4
  <2> QED  BY <2>1, <2>2, <2>5, <2>6, <2>7, <2>8
<1> QED  BY <1>3, <1>4, <1>5, <1>6 DEF IdsInv

LEMMA StaffKeeps ==
  ASSUME IdsInv, NEW e \in Employee,
         RegisterEmployee(e) \/ \E new \in OnStaff \cup {"terminated"} : ChangeEmployeeStatus(e, new)
  PROVE  IdsInv'
<1>1. CASE RegisterEmployee(e)
  BY <1>1, StatusKeeps DEF RegisterEmployee, IdsInv, IdTypes, OnStaff
<1>2. ASSUME NEW new \in OnStaff, ChangeEmployeeStatus(e, new)
      PROVE  IdsInv'
  <2>1. new # "terminated" /\ staff[e] # "terminated"
    BY <1>2 DEF ChangeEmployeeStatus, StaffMoves, OnStaff
  <2>2. UNCHANGED <<driverIds, holdings, checked>> /\ staff' = [staff EXCEPT ![e] = new]
    BY <1>2, <2>1 DEF ChangeEmployeeStatus
  <2> QED  BY <2>1, <2>2, StatusKeeps DEF IdsInv, IdTypes
<1> QED  BY <1>1, <1>2, TerminationKeeps

LEMMA InsertKeeps ==
  ASSUME IdsInv, NEW c \in Dispatcher, InsertAssignment(c)
  PROVE  IdsInv'
<1> DEFINE n == Len(holdings)
           e == checked[c].employee
           d == checked[c].id
           new == [id |-> d, employee |-> e, open |-> TRUE, late |-> staff[e] = "terminated"]
<1>0. e \in Employee /\ d \in DriverId /\ n \in Nat
  BY RowsAreRows DEF IdsInv, IdTypes, InsertAssignment
<1>1. /\ \A i \in 1..n : holdings[i].open => holdings[i].employee # e /\ holdings[i].id # d
      /\ holdings' = Append(holdings, new) /\ driverIds' = [driverIds EXCEPT ![d] = "assigned"]
      /\ checked' = [checked EXCEPT ![c] = NotChecked] /\ staff' = staff
  BY DEF InsertAssignment
<1>2. /\ new \in HoldingRow /\ new.id = d /\ new.employee = e /\ new.open
      /\ new.late <=> staff[e] = "terminated"
  BY <1>0 DEF HoldingRow
<1> HIDE DEF n, e, d, new
<1>3. /\ holdings' \in Seq(HoldingRow) /\ Len(holdings') = n + 1 /\ holdings'[n + 1] = new
      /\ \A i \in 1..n : holdings'[i] = holdings[i]
  BY <1>1, <1>2 DEF IdsInv, IdTypes, n
<1>4. IdTypes'
  BY <1>1, <1>3 DEF IdsInv, IdTypes
<1>5. ClosedBeforeNext'
  <2> SUFFICES ASSUME NEW i \in 1..(n + 1), NEW j \in 1..(n + 1), i < j, holdings'[i].open
               PROVE  /\ holdings'[i].id # holdings'[j].id
                      /\ holdings'[j].open => holdings'[i].employee # holdings'[j].employee
    BY <1>3 DEF ClosedBeforeNext
  <2>1. i \in 1..n
    BY <1>0
  <2>2. CASE j = n + 1
    BY <2>1, <2>2, <1>1, <1>2, <1>3
  <2>3. CASE j \in 1..n
    BY <2>1, <2>3, <1>3 DEF IdsInv, ClosedBeforeNext, n
  <2> QED  BY <2>2, <2>3, <1>0
<1>6. AssignedHasHolder'
  <2> SUFFICES ASSUME NEW x \in DriverId, driverIds'[x] = "assigned"
               PROVE  \E i \in 1..(n + 1) : holdings'[i].open /\ holdings'[i].id = x
    BY <1>3 DEF AssignedHasHolder
  <2>1. CASE x = d
    BY <2>1, <1>0, <1>2, <1>3
  <2>2. CASE x # d
    <3>1. driverIds[x] = "assigned"
      BY <2>2, <1>1 DEF IdsInv, IdTypes
    <3>2. PICK i \in 1..n : holdings[i].open /\ holdings[i].id = x
      BY <3>1 DEF IdsInv, AssignedHasHolder, n
    <3> QED  BY <3>2, <1>0, <1>3
  <2> QED  BY <2>1, <2>2
<1>7. OpenRowsAreHeld'
  <2> SUFFICES ASSUME NEW i \in 1..(n + 1), holdings'[i].open
               PROVE  /\ driverIds'[holdings'[i].id] = "assigned" \/ FreedByAnother(i)'
                      /\ staff'[holdings'[i].employee] = "terminated" => holdings'[i].late
    BY <1>3 DEF OpenRowsAreHeld
  <2>1. CASE i = n + 1
    BY <2>1, <1>0, <1>1, <1>2, <1>3 DEF IdsInv, IdTypes
  <2>2. CASE i \in 1..n
    <3>1. /\ driverIds[holdings[i].id] = "assigned" \/ FreedByAnother(i)
          /\ staff[holdings[i].employee] = "terminated" => holdings[i].late
          /\ holdings'[i] = holdings[i] /\ holdings[i].id # d /\ holdings[i].id \in DriverId
      BY <2>2, <1>1, <1>3, RowsAreRows DEF IdsInv, OpenRowsAreHeld, n
    <3>2. driverIds'[holdings[i].id] = driverIds[holdings[i].id]
      BY <3>1, <1>1 DEF IdsInv, IdTypes
    <3>3. FreedByAnother(i) => FreedByAnother(i)'
      <4>1. \A j \in 1..(i - 1) : j \in 1..n
        BY <2>2, <1>0
      <4> QED  BY <2>2, <4>1, <1>1, <1>3 DEF FreedByAnother
    <3> QED  BY <3>1, <3>2, <3>3, <1>1
  <2> QED  BY <2>1, <2>2, <1>0
<1> QED  BY <1>4, <1>5, <1>6, <1>7 DEF IdsInv

LEMMA SuspendKeeps ==
  ASSUME IdsInv, NEW d \in DriverId, SuspendDriverId(d) \/ RestoreDriverId(d)
  PROVE  IdsInv'
<1> DEFINE rows == IF driverIds[d] = "assigned" THEN {i \in 1..Len(holdings) : holdings[i].id = d} ELSE {}
<1>1. /\ driverIds' \in [DriverId -> {"available", "assigned", "suspended"}]
      /\ driverIds'[d] # "assigned" /\ \A x \in DriverId : x # d => driverIds'[x] = driverIds[x]
      /\ UNCHANGED <<staff, checked>>
  BY DEF SuspendDriverId, RestoreDriverId, IdsInv, IdTypes
<1>2. /\ holdings' \in Seq(HoldingRow) /\ Len(holdings') = Len(holdings)
      /\ \A i \in 1..Len(holdings) :
           /\ holdings'[i].id = holdings[i].id /\ holdings'[i].late = holdings[i].late
           /\ holdings'[i].employee = holdings[i].employee
           /\ holdings'[i].open <=> holdings[i].open /\ i \notin rows
  <2>1. CASE driverIds[d] = "assigned"
    <3>1. holdings' = Closed(rows)
      BY <2>1 DEF SuspendDriverId, RestoreDriverId
    <3> HIDE DEF rows
    <3> QED  BY <3>1, ClosedRows DEF IdsInv
  <2>2. CASE driverIds[d] # "assigned"
    <3>1. holdings' = holdings
      BY <2>2 DEF SuspendDriverId, RestoreDriverId
    <3> QED  BY <2>2, <3>1 DEF IdsInv, IdTypes
  <2> QED  BY <2>1, <2>2
<1>3. \A i \in 1..Len(holdings) : holdings'[i].open /\ driverIds[holdings[i].id] = "assigned" => holdings[i].id # d
  BY <1>2
<1>4. \A i \in 1..Len(holdings) : holdings[i].open /\ holdings[i].id # d => holdings'[i].open
  BY <1>2
<1>5. \A i \in 1..Len(holdings) : holdings'[i].open => holdings[i].open
  BY <1>2
<1>6. /\ Len(holdings') = Len(holdings)
      /\ \A i \in 1..Len(holdings) :
           /\ holdings'[i].id = holdings[i].id /\ holdings'[i].late = holdings[i].late
           /\ holdings'[i].employee = holdings[i].employee
  BY <1>2
<1> HIDE DEF rows
<1>7. IdTypes'
  BY <1>1, <1>2 DEF IdsInv, IdTypes
<1>8. ClosedBeforeNext'
  BY <1>5, <1>6 DEF IdsInv, ClosedBeforeNext
<1>9. AssignedHasHolder'
  <2> SUFFICES ASSUME NEW x \in DriverId, driverIds'[x] = "assigned"
               PROVE  \E i \in 1..Len(holdings) : holdings'[i].open /\ holdings'[i].id = x
    BY <1>6 DEF AssignedHasHolder
  <2>1. x # d /\ driverIds[x] = "assigned"
    BY <1>1
  <2>2. PICK i \in 1..Len(holdings) : holdings[i].open /\ holdings[i].id = x
    BY <2>1 DEF IdsInv, AssignedHasHolder
  <2> QED  BY <2>1, <2>2, <1>4, <1>6
<1>10. OpenRowsAreHeld'
  <2> SUFFICES ASSUME NEW i \in 1..Len(holdings), holdings'[i].open
               PROVE  /\ driverIds'[holdings'[i].id] = "assigned" \/ FreedByAnother(i)'
                      /\ staff'[holdings'[i].employee] = "terminated" => holdings'[i].late
    BY <1>6 DEF OpenRowsAreHeld
  <2>1. /\ driverIds[holdings[i].id] = "assigned" \/ FreedByAnother(i)
        /\ staff[holdings[i].employee] = "terminated" => holdings[i].late
        /\ holdings[i].id \in DriverId /\ Len(holdings) \in Nat
    BY <1>5, RowsAreRows DEF IdsInv, OpenRowsAreHeld
  <2>2. driverIds[holdings[i].id] = "assigned" => driverIds'[holdings'[i].id] = "assigned"
    BY <1>1, <1>3, <1>6, <2>1
  <2>3. FreedByAnother(i) => FreedByAnother(i)'
    <3>1. \A j \in 1..(i - 1) : j \in 1..Len(holdings)
      BY <2>1
    <3> QED  BY <3>1, <1>1, <1>6 DEF FreedByAnother
  <2> QED  BY <2>1, <2>2, <2>3, <1>1, <1>6
<1> QED  BY <1>7, <1>8, <1>9, <1>10 DEF IdsInv

LEMMA ChecksKeep ==
  ASSUME IdsInv,
         \/ \E c \in Dispatcher : \/ AbandonAssignment(c)
                                  \/ \E e \in Employee, d \in DriverId : AssignDriverId(c, e, d)
         \/ \E e \in Employee, type \in DocType, expiry \in 1..LastStaffDay :
              RecordEmployeeDocument(e, type, expiry)
         \/ NextStaffDay
  PROVE  IdsInv'
<1>1. UNCHANGED <<staff, driverIds, holdings>>
  BY DEF AbandonAssignment, AssignDriverId, RecordEmployeeDocument, NextStaffDay
<1>2. checked' \in [Dispatcher -> [employee : Employee, id : DriverId] \cup {NotChecked}]
  BY DEF AbandonAssignment, AssignDriverId, RecordEmployeeDocument, NextStaffDay, IdsInv, IdTypes
<1> QED  BY <1>1, <1>2 DEF IdsInv, IdTypes, ClosedBeforeNext, AssignedHasHolder, OpenRowsAreHeld,
                            FreedByAnother

LEMMA NextStaffKeeps == IdsInv /\ [NextStaff]_staffVars => IdsInv'
<1> SUFFICES ASSUME IdsInv, [NextStaff]_staffVars PROVE IdsInv'
  OBVIOUS
<1>1. CASE UNCHANGED staffVars
  BY <1>1 DEF staffVars, IdsInv, IdTypes, ClosedBeforeNext, AssignedHasHolder, OpenRowsAreHeld,
              FreedByAnother
<1>2. CASE NextStaff
  BY <1>2, StaffKeeps, InsertKeeps, SuspendKeeps, ChecksKeep DEF NextStaff
<1> QED  BY <1>1, <1>2

LEMMA HoldersFollow == IdsInv => IdsFollowHolders
<1> SUFFICES ASSUME IdsInv PROVE IdsFollowHolders
  OBVIOUS
<1>1. \A i, j \in 1..Len(holdings) : holdings[i].open /\ holdings[j].open /\ i # j =>
        holdings[i].id # holdings[j].id /\ holdings[i].employee # holdings[j].employee
  <2> SUFFICES ASSUME NEW i \in 1..Len(holdings), NEW j \in 1..Len(holdings),
                      holdings[i].open, holdings[j].open, i # j
               PROVE  holdings[i].id # holdings[j].id /\ holdings[i].employee # holdings[j].employee
    OBVIOUS
  <2>1. i < j \/ j < i
    BY RowsAreRows DEF IdsInv
  <2> QED  BY <2>1 DEF IdsInv, ClosedBeforeNext
<1> QED  BY <1>1 DEF IdsInv, IdsFollowHolders, AssignedHasHolder, OpenRowsAreHeld, FreedByAnother

(* Ids and their holders agree, up to what the two triggers leave open.    *)
THEOREM IdsFollow == SpecStaff => []IdsFollowHolders
<1> QED  BY InitStaffKeeps, NextStaffKeeps, HoldersFollow, PTL DEF SpecStaff

-----------------------------------------------------------------------------
(* Space (SpaceBlocks).                                                    *)

SpaceTypes ==
  /\ IsFiniteSet(spaceRows)
  /\ \A e \in spaceRows : /\ e.id \in Nat /\ e.id <= Cardinality(spaceRows)
                          /\ e.row \in Allocation \cup Reservation
  /\ blockLock \in [Block -> SpaceSession \cup {NoSession}]
  /\ spacePc \in [SpaceSession -> {"idle", "check", "insert"}]
  /\ spaceReq \in [SpaceSession -> SUBSET (Allocation \cup Reservation)]
  /\ \A s \in SpaceSession :
       IF spacePc[s] = "idle" THEN spaceReq[s] = {}
       ELSE \E req \in Allocation \cup Reservation : spaceReq[s] = {req}

(* A session at work has locked its block, so what its check found          *)
(* sellable still is when it inserts.                                      *)
BlocksAreLocked ==
  \A s \in SpaceSession : \A req \in spaceReq[s] :
    /\ blockLock[req.block] = s
    /\ spacePc[s] = "insert" => Sellable(req) >= req.qty

SpaceInv == SpaceTypes /\ BlocksAreLocked /\ SoldWithinTerms

Sold(req) == {e \in spaceRows : Overlaps(e.row, req)}
Covering(b, d) ==
  {e \in spaceRows : e.row.block = b /\ e.row.from <= d /\ (e.row.to = OpenEnded \/ e.row.to >= d)}

LEMMA SpaceRow ==
  ASSUME NEW r \in Allocation \cup Reservation
  PROVE  /\ r.block \in Block /\ r.qty \in Nat \ {0} /\ r.from \in Day /\ r.to \in Day \cup {OpenEnded}
         /\ r.from \in Int /\ r.to \in Int
<1>1. r.block \in Block /\ r.qty \in SpaceQty /\ r.from \in Day /\ r.to \in Day \cup {OpenEnded}
  <2>1. CASE r \in Allocation
    BY <2>1 DEF Allocation
  <2>2. CASE r \in Reservation
    BY <2>2 DEF Reservation
  <2> QED  BY <2>1, <2>2
<1>2. r.qty \in Nat \ {0}
  BY <1>1, SpaceConstants
<1>3. \A d \in Day \cup {OpenEnded} : d \in Int
  BY SpaceConstants DEF Day, OpenEnded
<1> QED  BY <1>1, <1>2, <1>3

LEMMA SpaceSums ==
  ASSUME SpaceTypes, NEW S \in SUBSET spaceRows
  PROVE  /\ IsFiniteSet(S)
         /\ \A e \in S : QtyOf[e] = e.row.qty /\ QtyOf[e] \in Int /\ 0 <= QtyOf[e]
<1>1. IsFiniteSet(S)
  BY FS_Subset DEF SpaceTypes
<1>2. \A e \in S : QtyOf[e] = e.row.qty /\ e.row.qty \in Nat
  BY SpaceRow DEF SpaceTypes, QtyOf
<1> QED  BY <1>1, <1>2

(* Steps that sell nothing.                                                *)
LEMMA SoldStays ==
  ASSUME UNCHANGED spaceRows
  PROVE  /\ SoldWithinTerms => SoldWithinTerms'
         /\ \A req : Sellable(req)' = Sellable(req)
BY DEF SoldWithinTerms, SoldOn, Sellable, QtyOf

LEMMA InitSpaceKeeps == InitSpace => SpaceInv
<1> SUFFICES ASSUME InitSpace PROVE SpaceInv
  OBVIOUS
<1>1. SpaceTypes
  BY FS_EmptySet DEF InitSpace, SpaceTypes
<1>2. BlocksAreLocked
  BY DEF InitSpace, BlocksAreLocked
<1>3. SoldWithinTerms
  <2> SUFFICES ASSUME NEW b \in Block, NEW d \in Day PROVE SoldOn(b, d) <= BlockCapacity
    BY DEF SoldWithinTerms
  <2>1. {e \in spaceRows : e.row.block = b /\ e.row.from <= d /\ (e.row.to = OpenEnded \/ e.row.to >= d)} = {}
    BY DEF InitSpace
  <2>2. SoldOn(b, d) = 0
    BY <2>1, SumOfNone DEF SoldOn
  <2> QED  BY <2>2, SpaceConstants
<1> QED  BY <1>1, <1>2, <1>3 DEF SpaceInv

LEMMA GetBlockKeeps ==
  ASSUME SpaceInv, NEW s \in SpaceSession, NEW req \in Allocation \cup Reservation, GetBlock(s, req)
  PROVE  SpaceInv'
<1>1. /\ spacePc'[s] = "check" /\ spaceReq'[s] = {req} /\ blockLock'[req.block] = s
      /\ blockLock[req.block] = NoSession
      /\ \A t \in SpaceSession \ {s} : spacePc'[t] = spacePc[t] /\ spaceReq'[t] = spaceReq[t]
      /\ \A b \in Block \ {req.block} : blockLock'[b] = blockLock[b]
      /\ UNCHANGED spaceRows
  BY SpaceRow DEF GetBlock, SpaceInv, SpaceTypes
<1>2. SpaceTypes'
  <2>1. /\ blockLock' \in [Block -> SpaceSession \cup {NoSession}]
        /\ spacePc' \in [SpaceSession -> {"idle", "check", "insert"}]
        /\ spaceReq' \in [SpaceSession -> SUBSET (Allocation \cup Reservation)]
    BY DEF GetBlock, SpaceInv, SpaceTypes
  <2> QED  BY <1>1, <2>1 DEF SpaceInv, SpaceTypes
<1>3. BlocksAreLocked'
  <2> SUFFICES ASSUME NEW t \in SpaceSession, NEW r \in spaceReq'[t]
               PROVE  /\ blockLock'[r.block] = t
                      /\ spacePc'[t] = "insert" => Sellable(r)' >= r.qty
    BY DEF BlocksAreLocked, Sellable, Overlaps, CheckedUntil
  <2>1. CASE t = s
    BY <1>1, <2>1
  <2>2. CASE t # s
    <3>1. r \in spaceReq[t] /\ spacePc'[t] = spacePc[t] /\ r.block \in Block
      BY <1>1, <2>2, SpaceRow DEF SpaceInv, SpaceTypes
    <3>2. blockLock[r.block] = t /\ (spacePc[t] = "insert" => Sellable(r) >= r.qty)
      BY <3>1 DEF SpaceInv, BlocksAreLocked
    <3>3. r.block # req.block
      BY <1>1, <3>2, SpaceConstants
    <3> QED  BY <1>1, <3>1, <3>2, <3>3, SoldStays
  <2> QED  BY <2>1, <2>2
<1> QED  BY <1>1, <1>2, <1>3, SoldStays DEF SpaceInv

LEMMA CheckSpaceKeeps ==
  ASSUME SpaceInv, NEW s \in SpaceSession, CheckSpaceAvailable(s)
  PROVE  SpaceInv'
<1>1. /\ spacePc[s] = "check" /\ spacePc'[s] = "insert" /\ \A req \in spaceReq[s] : Sellable(req) >= req.qty
      /\ \A t \in SpaceSession \ {s} : spacePc'[t] = spacePc[t]
      /\ spacePc' \in [SpaceSession -> {"idle", "check", "insert"}]
      /\ UNCHANGED <<spaceRows, blockLock, spaceReq>>
  BY DEF CheckSpaceAvailable, SpaceInv, SpaceTypes
<1>2. SpaceTypes'
  BY <1>1 DEF SpaceInv, SpaceTypes
<1>3. BlocksAreLocked'
  <2> SUFFICES ASSUME NEW t \in SpaceSession, NEW r \in spaceReq[t]
               PROVE  /\ blockLock'[r.block] = t
                      /\ spacePc'[t] = "insert" => Sellable(r)' >= r.qty
    BY <1>1 DEF BlocksAreLocked
  <2> QED  BY <1>1, SoldStays DEF SpaceInv, BlocksAreLocked
<1> QED  BY <1>1, <1>2, <1>3, SoldStays DEF SpaceInv

LEMMA BlockReleased ==
  ASSUME SpaceInv, NEW s \in SpaceSession, ReleaseBlock(s)
  PROVE  /\ spacePc'[s] = "idle" /\ spaceReq'[s] = {}
         /\ \A t \in SpaceSession \ {s} : spacePc'[t] = spacePc[t] /\ spaceReq'[t] = spaceReq[t]
         /\ \A b \in Block : blockLock[b] # s => blockLock'[b] = blockLock[b]
         /\ blockLock' \in [Block -> SpaceSession \cup {NoSession}]
         /\ spacePc' \in [SpaceSession -> {"idle", "check", "insert"}]
         /\ spaceReq' \in [SpaceSession -> SUBSET (Allocation \cup Reservation)]
BY DEF ReleaseBlock, SpaceInv, SpaceTypes

LEMMA NotSoldKeeps ==
  ASSUME SpaceInv, NEW s \in SpaceSession, ReleaseBlock(s), UNCHANGED spaceRows
  PROVE  SpaceInv'
<1>1. SpaceTypes'
  BY BlockReleased DEF SpaceInv, SpaceTypes
<1>2. BlocksAreLocked'
  <2> SUFFICES ASSUME NEW t \in SpaceSession \ {s}, NEW r \in spaceReq[t]
               PROVE  /\ blockLock'[r.block] = t
                      /\ spacePc'[t] = "insert" => Sellable(r)' >= r.qty
    BY BlockReleased DEF BlocksAreLocked
  <2>1. /\ r.block \in Block /\ blockLock[r.block] = t
        /\ spacePc[t] = "insert" => Sellable(r) >= r.qty
    BY SpaceRow DEF SpaceInv, SpaceTypes, BlocksAreLocked
  <2> QED  BY <2>1, BlockReleased, SoldStays
<1> QED  BY <1>1, <1>2, SoldStays DEF SpaceInv

LEMMA InsertSpaceKeeps ==
  ASSUME SpaceInv, NEW s \in SpaceSession, InsertSpaceRow(s)
  PROVE  SpaceInv'
<1>1. PICK req \in Allocation \cup Reservation : spaceReq[s] = {req}
  BY DEF InsertSpaceRow, SpaceInv, SpaceTypes
<1> DEFINE new == [id |-> Cardinality(spaceRows) + 1, row |-> req]
<1>2. /\ SpaceTypes /\ BlocksAreLocked /\ SoldWithinTerms
      /\ blockLock[req.block] = s /\ Sellable(req) >= req.qty
  BY <1>1 DEF InsertSpaceRow, SpaceInv, BlocksAreLocked
<1>3. /\ req.block \in Block /\ req.qty \in Nat /\ req.from \in Day /\ req.from \in Int
      /\ req.to \in Day \cup {OpenEnded} /\ req.to \in Int
  BY SpaceRow
<1>4. spaceRows' = spaceRows \cup {new} /\ ReleaseBlock(s)
  BY <1>1 DEF InsertSpaceRow
<1>5. Cardinality(spaceRows) \in Nat /\ new \notin spaceRows
  BY <1>2, FS_CardinalityType DEF SpaceTypes
<1>6. IsFiniteSet(spaceRows') /\ Cardinality(spaceRows') = Cardinality(spaceRows) + 1
  BY <1>2, <1>4, <1>5, FS_AddElement DEF SpaceTypes
<1>7. SpaceTypes'
  <2>1. \A e \in spaceRows' : /\ e.id \in Nat /\ e.id <= Cardinality(spaceRows')
                              /\ e.row \in Allocation \cup Reservation
    <3> SUFFICES ASSUME NEW e \in spaceRows'
                 PROVE  /\ e.id \in Nat /\ e.id <= Cardinality(spaceRows')
                        /\ e.row \in Allocation \cup Reservation
      OBVIOUS
    <3>1. CASE e = new
      BY <1>5, <1>6, <3>1
    <3>2. CASE e \in spaceRows
      BY <1>2, <1>5, <1>6, <3>2 DEF SpaceTypes
    <3> QED  BY <1>4, <3>1, <3>2
  <2>2. /\ spacePc'[s] = "idle" /\ spaceReq'[s] = {}
        /\ \A t \in SpaceSession \ {s} : spacePc'[t] = spacePc[t] /\ spaceReq'[t] = spaceReq[t]
        /\ blockLock' \in [Block -> SpaceSession \cup {NoSession}]
        /\ spacePc' \in [SpaceSession -> {"idle", "check", "insert"}]
        /\ spaceReq' \in [SpaceSession -> SUBSET (Allocation \cup Reservation)]
    BY <1>4, BlockReleased
  <2>3. \A t \in SpaceSession :
          IF spacePc'[t] = "idle" THEN spaceReq'[t] = {}
          ELSE \E r \in Allocation \cup Reservation : spaceReq'[t] = {r}
    BY <1>2, <2>2 DEF SpaceTypes
  <2> QED  BY <1>6, <2>1, <2>2, <2>3 DEF SpaceTypes
<1>8. QtyOf'[new] = req.qty /\ \A e \in spaceRows : QtyOf'[e] = QtyOf[e]
  BY <1>4 DEF QtyOf
<1>9. \A S \in SUBSET spaceRows :
        /\ SumFunctionOnSet(QtyOf', S) = SumFunctionOnSet(QtyOf, S)
        /\ SumFunctionOnSet(QtyOf', S \cup {new}) = SumFunctionOnSet(QtyOf, S) + req.qty
        /\ SumFunctionOnSet(QtyOf, S) \in Int
  <2> HIDE DEF new
  <2> TAKE S \in SUBSET spaceRows
  <2>1. IsFiniteSet(S) /\ \A e \in S : QtyOf[e] \in Int /\ QtyOf'[e] = QtyOf[e]
    BY <1>2, <1>8, SpaceSums
  <2>2. new \notin S /\ QtyOf'[new] \in Int
    BY <1>3, <1>5, <1>8
  <2>3. SumFunctionOnSet(QtyOf', S \cup {new}) = SumFunctionOnSet(QtyOf, S) + QtyOf'[new]
    BY <2>1, <2>2, SumJoins
  <2>4. SumFunctionOnSet(QtyOf', S) = SumFunctionOnSet(QtyOf, S)
    BY <2>1, SumOfEquals
  <2>5. SumFunctionOnSet(QtyOf, S) \in Int
    BY <2>1, SumIsInt
  <2> QED  BY <1>8, <2>3, <2>4, <2>5
<1>10. BlocksAreLocked'
  <2> SUFFICES ASSUME NEW t \in SpaceSession \ {s}, NEW r \in spaceReq[t]
               PROVE  /\ blockLock'[r.block] = t
                      /\ spacePc'[t] = "insert" => Sellable(r)' >= r.qty
    BY <1>2, <1>4, BlockReleased DEF BlocksAreLocked
  <2>1. /\ r.block \in Block /\ blockLock[r.block] = t
        /\ spacePc[t] = "insert" => Sellable(r) >= r.qty
    BY <1>2, SpaceRow DEF SpaceTypes, BlocksAreLocked
  <2>2. r.block # req.block
    BY <1>2, <2>1
  <2>3. {e \in spaceRows' : Overlaps(e.row, r)} = {e \in spaceRows : Overlaps(e.row, r)}
    BY <1>4, <2>2 DEF Overlaps
  <2>4. Sellable(r)' = Sellable(r)
    <3>1. SumFunctionOnSet(QtyOf', {e \in spaceRows : Overlaps(e.row, r)})
            = SumFunctionOnSet(QtyOf, {e \in spaceRows : Overlaps(e.row, r)})
      BY <1>9
    <3> QED  BY <2>3, <3>1 DEF Sellable
  <2> QED  BY <1>2, <1>4, <2>1, <2>4, BlockReleased
<1>11. SoldWithinTerms'
  <2> SUFFICES ASSUME NEW b \in Block, NEW d \in Day,
                      \A e \in spaceRows' : (e.row.block = b /\ e.row.to = OpenEnded) => d <= e.row.from
               PROVE  SoldOn(b, d)' <= BlockCapacity
    BY DEF SoldWithinTerms
  <2>1. SoldOn(b, d) <= BlockCapacity
    BY <1>2, <1>4 DEF SoldWithinTerms
  <2>2. /\ SoldOn(b, d) = SumFunctionOnSet(QtyOf, Covering(b, d)) /\ Covering(b, d) \subseteq spaceRows
        /\ SoldOn(b, d)' = SumFunctionOnSet(QtyOf', Covering(b, d)')
    BY DEF SoldOn, Covering
  <2>3. CASE req.block = b /\ req.from <= d /\ (req.to = OpenEnded \/ req.to >= d)
    <3>1. Covering(b, d)' = Covering(b, d) \cup {new}
      BY <1>4, <2>3 DEF Covering
    <3>2. Covering(b, d) \subseteq Sold(req)
      <4> SUFFICES ASSUME NEW e \in Covering(b, d) PROVE Overlaps(e.row, req)
        BY DEF Covering, Sold
      <4>1. /\ e.row.block = b /\ e.row.from <= d /\ (e.row.to = OpenEnded \/ e.row.to >= d)
            /\ e.row.from \in Int /\ e.row.to \in Int /\ d \in Int
        BY <1>2, SpaceRow DEF Covering, SpaceTypes, Day
      <4>2. req.to = OpenEnded => d <= req.from
        <5>1. new \in spaceRows' /\ new.row = req
          BY <1>4
        <5> HIDE DEF new
        <5> QED  BY <2>3, <5>1
      <4>3. d <= CheckedUntil(req)
        BY <2>3, <4>1, <4>2 DEF CheckedUntil
      <4>4. CheckedUntil(req) \in Int
        BY <1>3 DEF CheckedUntil
      <4> QED  BY <1>3, <2>3, <4>1, <4>3, <4>4 DEF Overlaps
    <3>3. SumFunctionOnSet(QtyOf, Covering(b, d)) <= SumFunctionOnSet(QtyOf, Sold(req))
      <4>1. Sold(req) \subseteq spaceRows
        BY DEF Sold
      <4>2. IsFiniteSet(Sold(req)) /\ \A e \in Sold(req) : QtyOf[e] \in Int /\ 0 <= QtyOf[e]
        BY <1>2, <4>1, SpaceSums
      <4> QED  BY <3>2, <4>2, SumOfPart
    <3>4. BlockCapacity - SumFunctionOnSet(QtyOf, Sold(req)) >= req.qty
      BY <1>2 DEF Sellable, Sold
    <3>5. /\ SoldOn(b, d)' = SumFunctionOnSet(QtyOf, Covering(b, d)) + req.qty
          /\ SumFunctionOnSet(QtyOf, Covering(b, d)) \in Int
      BY <1>9, <2>2, <3>1
    <3>6. SumFunctionOnSet(QtyOf, Sold(req)) \in Int
      BY <1>9 DEF Sold
    <3> QED  BY <1>3, <3>3, <3>4, <3>5, <3>6, SpaceConstants
  <2>4. CASE ~(req.block = b /\ req.from <= d /\ (req.to = OpenEnded \/ req.to >= d))
    <3>1. Covering(b, d)' = Covering(b, d)
      BY <1>4, <2>4 DEF Covering
    <3> QED  BY <1>9, <2>1, <2>2, <3>1
  <2> QED  BY <2>3, <2>4
<1> QED  BY <1>7, <1>10, <1>11 DEF SpaceInv

LEMMA NextSpaceKeeps == SpaceInv /\ [NextSpace]_spaceVars => SpaceInv'
<1> SUFFICES ASSUME SpaceInv, [NextSpace]_spaceVars PROVE SpaceInv'
  OBVIOUS
<1>1. CASE NextSpace
  <2>1. PICK s \in SpaceSession :
          \/ ReserveSpace(s) \/ AllocateSpace(s)
          \/ CheckSpaceAvailable(s) \/ SpaceNotAvailable(s)
          \/ InsertSpaceRow(s) \/ AbandonSpace(s)
    BY <1>1 DEF NextSpace
  <2>2. CASE ReserveSpace(s) \/ AllocateSpace(s)
    BY <2>2, GetBlockKeeps DEF ReserveSpace, AllocateSpace
  <2>3. CASE CheckSpaceAvailable(s)
    BY <2>3, CheckSpaceKeeps
  <2>4. CASE SpaceNotAvailable(s) \/ AbandonSpace(s)
    BY <2>4, NotSoldKeeps DEF SpaceNotAvailable, AbandonSpace
  <2>5. CASE InsertSpaceRow(s)
    BY <2>5, InsertSpaceKeeps
  <2> QED  BY <2>1, <2>2, <2>3, <2>4, <2>5
<1>2. CASE UNCHANGED spaceVars
  <2>1. SpaceTypes' /\ BlocksAreLocked'
    BY <1>2 DEF spaceVars, SpaceInv, SpaceTypes, BlocksAreLocked, Sellable, QtyOf
  <2> QED  BY <1>2, <2>1, SoldStays DEF SpaceInv, spaceVars
<1> QED  BY <1>1, <1>2

(* The row lock of GetBlock and the check under it: up to the first day of *)
(* the first allocation without an end no block is oversold, for any       *)
(* number of sessions, blocks, days and quantities.                        *)
THEOREM SoldAsChecked == SpecSpace => []SoldWithinTerms
<1>1. SpaceInv => SoldWithinTerms
  BY DEF SpaceInv
<1> QED  BY <1>1, InitSpaceKeeps, NextSpaceKeeps, PTL DEF SpecSpace

-----------------------------------------------------------------------------
(* Inventory counts (StockCounts).                                         *)

CountLines == UNION {[S -> CountLineRow] : S \in SUBSET Place}

CountTypes ==
  /\ stock \in [Place -> Nat]
  /\ counts \in [Count -> [status : CountStatus, version : Nat, lines : CountLines]]
  /\ seen \in [Count -> [version : Nat, lines : CountLines]]
  /\ quiet \in [Count -> SUBSET Place]
  /\ \A c \in Count : counts[c].status = "none" <=> counts[c].version = 0

(* What the manager read is the count while the version is the same: the   *)
(* commands that change a line and not the version run before the review.  *)
ReadingsStand ==
  \A c \in Count :
    /\ seen[c].version <= counts[c].version
    /\ (seen[c].version = counts[c].version /\ seen[c].version # 0) =>
         counts[c].status = "review" /\ counts[c].lines = seen[c].lines

(* A place nothing was posted to holds what the snapshot says of it.       *)
QuietAsSnapped ==
  \A c \in Count : \A p \in quiet[c] :
    /\ p \in DOMAIN counts[c].lines
    /\ counts[c].status # "adjusted" => stock[p] = counts[c].lines[p].system

ReviewedIsComplete ==
  \A c \in Count : counts[c].status \in {"review", "recount"} => IsCountComplete(counts[c].lines)

CountsInv == CountTypes /\ ReadingsStand /\ QuietAsSnapped /\ ReviewedIsComplete /\ AdjustedAsRead

LEMMA CountEvents ==
  ASSUME NEW status \in CountStatus
  PROVE  /\ CanTransition(status, "COUNT_LINE") <=> status = "in_progress"
         /\ CanTransition(status, "RECOUNT_LINE") <=> status \in {"review", "recount"}
         /\ CanTransition(status, "ADJUST") <=> status = "review"
         /\ CanTransition(status, "FLAG_RECOUNT") <=> status = "review"
BY DEF CanTransition, AfterEvent, CountStatus

LEMMA CountAdvances ==
  ASSUME NEW asked \in BOOLEAN
  PROVE  /\ Advance(Advance("draft", "START", TRUE), "COMPLETE", asked) =
              IF asked THEN "review" ELSE "in_progress"
         /\ Advance("in_progress", "COMPLETE", asked) = IF asked THEN "review" ELSE "in_progress"
         /\ \A status \in {"review", "recount"} :
              Advance(Advance(status, "FLAG_RECOUNT", status = "review"), "RECOUNT_COMPLETE", asked) =
                IF asked THEN "review" ELSE "recount"
BY DEF Advance, AfterEvent

LEMMA LinesOfCount ==
  ASSUME CountTypes, NEW c \in Count
  PROVE  /\ counts[c].status \in CountStatus /\ counts[c].version \in Nat
         /\ DOMAIN counts[c].lines \subseteq Place
         /\ counts[c].lines \in [DOMAIN counts[c].lines -> CountLineRow]
         /\ seen[c].version \in Nat
BY DEF CountTypes, CountLines

LEMMA InitCountsKeeps == InitCounts => CountsInv
<1> SUFFICES ASSUME InitCounts PROVE CountsInv
  OBVIOUS
<1>1. <<>> \in CountLines
  <2>1. <<>> \in [{} -> CountLineRow] /\ {} \in SUBSET Place
    OBVIOUS
  <2> QED  BY <2>1 DEF CountLines
<1>2. stock \in [Place -> Nat]
  BY CountConstants DEF InitCounts
<1>3. /\ counts \in [Count -> [status : CountStatus, version : Nat, lines : CountLines]]
      /\ seen \in [Count -> [version : Nat, lines : CountLines]]
      /\ quiet \in [Count -> SUBSET Place]
  BY <1>1 DEF InitCounts, CountStatus
<1>4. \A c \in Count : /\ counts[c].status = "none" /\ counts[c].version = 0
                       /\ seen[c].version = 0 /\ quiet[c] = {}
  BY DEF InitCounts
<1> QED
  BY <1>2, <1>3, <1>4 DEF CountsInv, CountTypes, ReadingsStand, QuietAsSnapped, ReviewedIsComplete, AdjustedAsRead

(* One count is given lines and a status; the version grows unless the     *)
(* count is still being counted.                                           *)
LEMMA UpdateCountKeeps ==
  ASSUME CountsInv, NEW c \in Count, UNCHANGED <<stock, quiet, seen, movements>>,
         NEW status \in CountStatus \ {"none", "adjusted"}, NEW lines \in CountLines, NEW grows \in BOOLEAN,
         counts[c].status # "none",
         UpdateCount(c, status, lines, grows),
         counts[c].status = "review" => grows,
         status \in {"review", "recount"} => IsCountComplete(lines),
         counts[c].status # "adjusted",
         DOMAIN lines = DOMAIN counts[c].lines,
         \A p \in DOMAIN lines : lines[p].system = counts[c].lines[p].system
  PROVE  CountsInv'
<1> DEFINE new == [status |-> status, lines |-> lines,
                   version |-> IF grows THEN counts[c].version + 1 ELSE counts[c].version]
<1>1. counts' = [counts EXCEPT ![c] = new]
  BY DEF UpdateCount
<1>2. /\ new \in [status : CountStatus, version : Nat, lines : CountLines]
      /\ new.status = status /\ new.lines = lines /\ new.version # 0
      /\ new.version >= counts[c].version
      /\ grows => new.version = counts[c].version + 1
  BY LinesOfCount DEF CountsInv, CountTypes
<1> HIDE DEF new
<1>3. CountTypes'
  BY <1>1, <1>2 DEF CountsInv, CountTypes
<1>4. counts'[c] = new /\ \A d \in Count \ {c} : counts'[d] = counts[d]
  BY <1>1 DEF CountsInv, CountTypes
<1>5. ReadingsStand'
  <2>1. seen[c].version <= counts[c].version /\ seen[c].version \in Nat /\ counts[c].version \in Nat
    BY LinesOfCount DEF CountsInv, ReadingsStand
  <2>2. CASE grows
    BY <1>2, <1>4, <2>1, <2>2 DEF CountsInv, ReadingsStand
  <2>3. CASE ~ grows
    <3>1. seen[c].version # counts[c].version
      BY <2>3, LinesOfCount DEF CountsInv, ReadingsStand, CountTypes
    <3>2. new.version = counts[c].version
      BY <2>3, <1>2 DEF new
    <3> QED  BY <1>2, <1>4, <2>1, <3>1, <3>2 DEF CountsInv, ReadingsStand
  <2> QED  BY <2>2, <2>3
<1>6. QuietAsSnapped'
  BY <1>2, <1>4 DEF CountsInv, QuietAsSnapped
<1>7. ReviewedIsComplete' /\ AdjustedAsRead'
  BY <1>2, <1>4 DEF CountsInv, ReviewedIsComplete, AdjustedAsRead
<1> QED  BY <1>3, <1>5, <1>6, <1>7 DEF CountsInv

LEMMA StartCountKeeps ==
  ASSUME CountsInv, NEW c \in Count, StartCount(c)
  PROVE  CountsInv'
<1>1. PICK scope \in Scopes :
        /\ InsertCount(c, Advance(Advance("draft", "START", TRUE), "COMPLETE",
                                  DOMAIN SnapshotStock(scope) = {}), SnapshotStock(scope))
        /\ quiet' = [quiet EXCEPT ![c] = DOMAIN SnapshotStock(scope)]
        /\ UNCHANGED <<stock, seen, movements>>
  BY DEF StartCount
<1> DEFINE lines == SnapshotStock(scope)
           status == Advance(Advance("draft", "START", TRUE), "COMPLETE", DOMAIN lines = {})
           new == [status |-> status, version |-> 1, lines |-> lines]
<1>2. /\ lines \in CountLines
      /\ DOMAIN lines \subseteq Place
      /\ \A p \in DOMAIN lines : lines[p].system = stock[p]
  <2>1. scope \subseteq Place
    BY DEF Scopes
  <2> DEFINE S == {q \in scope : stock[q] # 0}
  <2>2. S \in SUBSET Place /\ lines = [p \in S |-> [system |-> stock[p], counted |-> NotCounted, recount |-> NotCounted]]
    BY <2>1 DEF SnapshotStock
  <2>3. lines \in [S -> CountLineRow]
    BY <2>2 DEF CountsInv, CountTypes, CountLineRow
  <2>4. DOMAIN lines = S /\ \A p \in S : lines[p].system = stock[p]
    BY <2>2
  <2> HIDE DEF S, lines
  <2>5. lines \in CountLines
    BY <2>2, <2>3 DEF CountLines
  <2> QED  BY <2>2, <2>4, <2>5
<1>3. status = IF DOMAIN lines = {} THEN "review" ELSE "in_progress"
  BY CountAdvances
<1>4. status = "review" => IsCountComplete(lines)
  BY <1>3 DEF IsCountComplete
<1>5. status \in {"review", "in_progress"}
  BY <1>3
<1>6. counts[c].status = "none" /\ counts' = [counts EXCEPT ![c] = new]
  BY <1>1 DEF InsertCount
<1>7. quiet' = [quiet EXCEPT ![c] = DOMAIN lines] /\ UNCHANGED <<stock, seen, movements>>
  BY <1>1
<1> HIDE DEF lines, status
<1>8. new.status = status /\ new.lines = lines /\ new.version = 1
      /\ new \in [status : CountStatus, version : Nat, lines : CountLines]
  BY <1>2, <1>5 DEF CountStatus
<1> HIDE DEF new
<1>9. CountTypes'
  BY <1>2, <1>5, <1>6, <1>7, <1>8 DEF CountsInv, CountTypes
<1>10. counts'[c] = new /\ quiet'[c] = DOMAIN lines
       /\ \A d \in Count \ {c} : counts'[d] = counts[d] /\ quiet'[d] = quiet[d]
  BY <1>6, <1>7 DEF CountsInv, CountTypes
<1>11. ReadingsStand'
  <2>1. seen[c].version = 0
    BY <1>6, LinesOfCount DEF CountsInv, CountTypes, ReadingsStand
  <2> QED  BY <1>7, <1>8, <1>10, <2>1 DEF CountsInv, ReadingsStand
<1>12. QuietAsSnapped'
  BY <1>2, <1>7, <1>8, <1>10 DEF CountsInv, QuietAsSnapped
<1>13. ReviewedIsComplete' /\ AdjustedAsRead'
  BY <1>4, <1>5, <1>7, <1>8, <1>10 DEF CountsInv, ReviewedIsComplete, AdjustedAsRead
<1> QED  BY <1>9, <1>11, <1>12, <1>13 DEF CountsInv

LEMMA CountLocationKeeps ==
  ASSUME CountsInv, NEW c \in Count, NEW p \in Place, CountLocation(c, p)
  PROVE  CountsInv'
<1>1. PICK q \in CountQty :
        UpdateCount(c, Advance(counts[c].status, "COMPLETE", IsCountComplete(UpdateLineQtyCounted(c, p, q))),
                    UpdateLineQtyCounted(c, p, q), IsCountComplete(UpdateLineQtyCounted(c, p, q)))
  BY DEF CountLocation
<1> DEFINE lines == UpdateLineQtyCounted(c, p, q)
           status == Advance(counts[c].status, "COMPLETE", IsCountComplete(lines))
<1>2. counts[c].status = "in_progress" /\ p \in DOMAIN counts[c].lines
  BY LinesOfCount, CountEvents DEF CountLocation, CountsInv
<1>3. IsCountComplete(lines) \in BOOLEAN
  BY DEF IsCountComplete
<1>4. status = IF IsCountComplete(lines) THEN "review" ELSE "in_progress"
  BY <1>2, <1>3, CountAdvances
<1>5. /\ lines \in CountLines /\ DOMAIN lines = DOMAIN counts[c].lines
      /\ \A r \in DOMAIN lines : lines[r].system = counts[c].lines[r].system
  <2>1. q \in Nat
    BY CountConstants
  <2>2. lines \in [DOMAIN counts[c].lines -> CountLineRow]
    BY <2>1, LinesOfCount DEF CountsInv, UpdateLineQtyCounted, CountLineRow
  <2>3. \A r \in DOMAIN lines : lines[r].system = counts[c].lines[r].system
    BY LinesOfCount DEF CountsInv, UpdateLineQtyCounted, CountLineRow
  <2> HIDE DEF lines
  <2>4. lines \in CountLines
    BY <2>2, LinesOfCount DEF CountsInv, CountLines
  <2> QED  BY <2>2, <2>3, <2>4
<1>6. UNCHANGED <<stock, quiet, seen, movements>>
  BY DEF CountLocation
<1>7. UpdateCount(c, status, lines, IsCountComplete(lines))
  BY <1>1
<1>8. status \in CountStatus \ {"none", "adjusted"}
  BY <1>4 DEF CountStatus
<1> HIDE DEF lines, status
<1> QED  BY <1>2, <1>3, <1>4, <1>5, <1>6, <1>7, <1>8, UpdateCountKeeps

LEMMA RecountKeeps ==
  ASSUME CountsInv, NEW c \in Count, NEW p \in Place, Recount(c, p)
  PROVE  CountsInv'
<1> DEFINE flags == counts[c].status = "review"
<1>1. /\ counts[c].status \in {"review", "recount"} /\ p \in DOMAIN counts[c].lines
      /\ CanTransition(counts[c].status, "FLAG_RECOUNT") = flags
  <2>1. CanTransition(counts[c].status, "FLAG_RECOUNT") \in BOOLEAN
    BY DEF CanTransition
  <2> QED  BY <2>1, LinesOfCount, CountEvents DEF Recount, CountsInv
<1>2. PICK q \in CountQty :
        UpdateCount(c, Advance(Advance(counts[c].status, "FLAG_RECOUNT", flags), "RECOUNT_COMPLETE",
                               AllVariancesRecounted(UpdateLineRecountQty(c, p, q))),
                    UpdateLineRecountQty(c, p, q),
                    flags \/ AllVariancesRecounted(UpdateLineRecountQty(c, p, q)))
  BY <1>1 DEF Recount
<1> DEFINE lines == UpdateLineRecountQty(c, p, q)
           completes == AllVariancesRecounted(lines)
           status == Advance(Advance(counts[c].status, "FLAG_RECOUNT", flags), "RECOUNT_COMPLETE", completes)
<1>3. completes \in BOOLEAN
  BY DEF AllVariancesRecounted
<1>4. status = IF completes THEN "review" ELSE "recount"
  BY <1>1, <1>3, CountAdvances
<1>5. /\ lines \in CountLines /\ DOMAIN lines = DOMAIN counts[c].lines
      /\ \A r \in DOMAIN lines : /\ lines[r].system = counts[c].lines[r].system
                                 /\ lines[r].counted = counts[c].lines[r].counted
  <2>1. q \in Nat
    BY CountConstants
  <2>2. lines \in [DOMAIN counts[c].lines -> CountLineRow]
    BY <2>1, LinesOfCount DEF CountsInv, UpdateLineRecountQty, CountLineRow
  <2>3. \A r \in DOMAIN lines : /\ lines[r].system = counts[c].lines[r].system
                                /\ lines[r].counted = counts[c].lines[r].counted
    BY LinesOfCount DEF CountsInv, UpdateLineRecountQty, CountLineRow
  <2> HIDE DEF lines
  <2>4. lines \in CountLines
    BY <2>2, LinesOfCount DEF CountsInv, CountLines
  <2> QED  BY <2>2, <2>3, <2>4
<1>6. UNCHANGED <<stock, quiet, seen, movements>>
  BY DEF Recount
<1>7. UpdateCount(c, status, lines, flags \/ completes)
  BY <1>2
<1>8. status \in CountStatus \ {"none", "adjusted"}
  BY <1>4 DEF CountStatus
<1>9. IsCountComplete(lines)
  BY <1>1, <1>5 DEF CountsInv, ReviewedIsComplete, IsCountComplete
<1> HIDE DEF lines, status, completes
<1>10. UpdateCount(c, status, lines, flags \/ completes) /\ (counts[c].status = "review" => flags \/ completes)
  BY <1>7
<1> QED  BY <1>1, <1>3, <1>4, <1>5, <1>6, <1>7, <1>8, <1>9, UpdateCountKeeps

LEMMA ReadCountKeeps ==
  ASSUME CountsInv, NEW c \in Count, ReadCount(c)
  PROVE  CountsInv'
<1> DEFINE new == [version |-> counts[c].version, lines |-> counts[c].lines]
<1>1. new \in [version : Nat, lines : CountLines] /\ new.version = counts[c].version /\ new.lines = counts[c].lines
  BY LinesOfCount DEF CountsInv, CountTypes
<1>2. counts[c].status = "review" /\ seen' = [seen EXCEPT ![c] = new]
  BY DEF ReadCount
<1> HIDE DEF new
<1>3. CountTypes'
  BY <1>1, <1>2 DEF ReadCount, CountsInv, CountTypes
<1>4. seen'[c] = new /\ \A d \in Count \ {c} : seen'[d] = seen[d]
  BY <1>2 DEF CountsInv, CountTypes
<1>5. counts[c].version \in Nat
  BY LinesOfCount DEF CountsInv
<1> QED
  BY <1>1, <1>2, <1>3, <1>4, <1>5
     DEF ReadCount, CountsInv, ReadingsStand, QuietAsSnapped, ReviewedIsComplete, AdjustedAsRead

LEMMA DifferenceCorrects ==
  ASSUME NEW line \in CountLineRow, line.counted # NotCounted
  PROVE  line.system + Difference(line) = FinalQty(line)
<1>1. line.system \in Int /\ line.counted \in Int /\ line.recount \in Int
  BY DEF CountLineRow, NotCounted
<1> QED  BY <1>1 DEF Difference, FinalQty

LEMMA DifferenceIsInt == \A line \in CountLineRow : Difference(line) \in Int
<1> SUFFICES ASSUME NEW line \in CountLineRow PROVE Difference(line) \in Int
  OBVIOUS
<1>1. line.system \in Int /\ line.counted \in Int /\ line.recount \in Int
  BY DEF CountLineRow, NotCounted
<1> QED  BY <1>1 DEF Difference, FinalQty

LEMMA AdjustPosts ==
  ASSUME CountsInv, NEW c \in Count, AdjustCount(c)
  PROVE  \E diff \in [Place -> Int] :
           /\ \A p \in Place : p \in DOMAIN counts[c].lines => diff[p] = Difference(counts[c].lines[p])
           /\ \A p \in Place : stock'[p] = stock[p] + diff[p]
           /\ stock' \in [Place -> Nat]
           /\ quiet' = [d \in Count |-> quiet[d] \ {p \in Place : diff[p] # 0}]
<1> DEFINE lines == counts[c].lines
           diff == [p \in Place |-> IF p \in DOMAIN lines THEN Difference(lines[p]) ELSE 0]
<1>1. /\ \A p \in Place : Postable(p, diff[p])
      /\ stock' = [p \in Place |-> stock[p] + diff[p]]
      /\ quiet' = [d \in Count |-> quiet[d] \ {p \in Place : diff[p] # 0}]
  BY DEF AdjustCount, Disturb
<1>2. diff \in [Place -> Int] /\ \A p \in Place : p \in DOMAIN lines => diff[p] = Difference(lines[p])
  BY LinesOfCount, DifferenceIsInt DEF CountsInv
<1> HIDE DEF diff
<1>3. \A p \in Place : stock[p] \in Nat /\ diff[p] \in Int
  BY <1>2 DEF CountsInv, CountTypes
<1>4. \A p \in Place : stock[p] + diff[p] \in Nat
  BY <1>1, <1>3 DEF Postable
<1>5. stock' \in [Place -> Nat] /\ \A p \in Place : stock'[p] = stock[p] + diff[p]
  BY <1>1, <1>4
<1> QED  BY <1>1, <1>2, <1>5

LEMMA AdjustCountKeeps ==
  ASSUME CountsInv, NEW c \in Count, AdjustCount(c)
  PROVE  CountsInv'
<1> DEFINE new == [status |-> "adjusted", lines |-> counts[c].lines, version |-> counts[c].version + 1]
<1>1. PICK diff \in [Place -> Int] :
        /\ \A p \in Place : stock'[p] = stock[p] + diff[p]
        /\ stock' \in [Place -> Nat]
        /\ quiet' = [d \in Count |-> quiet[d] \ {p \in Place : diff[p] # 0}]
  BY AdjustPosts
<1>2. /\ seen[c].version # 0 /\ counts[c].version = seen[c].version
      /\ counts' = [counts EXCEPT ![c] = new] /\ seen' = seen
  BY DEF AdjustCount, UpToDateCount, UpdateCount
<1>3. counts[c].lines = seen[c].lines
  BY <1>2 DEF CountsInv, ReadingsStand
<1>4. /\ new \in [status : CountStatus, version : Nat, lines : CountLines]
      /\ new.status = "adjusted" /\ new.lines = counts[c].lines /\ new.version = counts[c].version + 1
      /\ new.version # 0
  BY LinesOfCount DEF CountsInv, CountTypes, CountStatus
<1> HIDE DEF new
<1>5. counts'[c] = new /\ \A d \in Count \ {c} : counts'[d] = counts[d]
  BY <1>2 DEF CountsInv, CountTypes
<1>6. CountTypes'
  <2>1. quiet' \in [Count -> SUBSET Place]
    BY <1>1 DEF CountsInv, CountTypes
  <2>2. \A d \in Count : counts'[d].status = "none" <=> counts'[d].version = 0
    BY <1>4, <1>5 DEF CountsInv, CountTypes
  <2> QED  BY <1>1, <1>2, <1>4, <2>1, <2>2 DEF CountsInv, CountTypes
<1>7. ReadingsStand'
  <2>1. counts[c].version \in Nat
    BY LinesOfCount DEF CountsInv
  <2> QED  BY <1>2, <1>4, <1>5, <2>1 DEF CountsInv, ReadingsStand
<1>8. QuietAsSnapped'
  <2> SUFFICES ASSUME NEW d \in Count, NEW p \in quiet'[d]
               PROVE  /\ p \in DOMAIN counts'[d].lines
                      /\ counts'[d].status # "adjusted" => stock'[p] = counts'[d].lines[p].system
    BY DEF QuietAsSnapped
  <2>1. p \in quiet[d] /\ p \in Place /\ diff[p] = 0
    BY <1>1 DEF CountsInv, CountTypes
  <2>2. stock'[p] = stock[p]
    BY <1>1, <2>1 DEF CountsInv, CountTypes
  <2> QED  BY <1>4, <1>5, <2>1, <2>2 DEF CountsInv, QuietAsSnapped
<1>9. ReviewedIsComplete' /\ AdjustedAsRead'
  BY <1>2, <1>3, <1>4, <1>5 DEF CountsInv, ReviewedIsComplete, AdjustedAsRead
<1> QED  BY <1>6, <1>7, <1>8, <1>9 DEF CountsInv

LEMMA MovementKeeps ==
  ASSUME CountsInv, NEW p \in Place, Movement(p)
  PROVE  CountsInv'
<1>1. PICK q \in CountQty : stock' = [stock EXCEPT ![p] = q]
  BY DEF Movement
<1>2. quiet' = [d \in Count |-> quiet[d] \ {p}] /\ counts' = counts /\ seen' = seen
  BY DEF Movement, Disturb
<1>3. CountTypes'
  <2>1. quiet' \in [Count -> SUBSET Place]
    BY <1>2 DEF CountsInv, CountTypes
  <2> QED  BY <1>1, <1>2, <2>1, CountConstants DEF CountsInv, CountTypes
<1>4. QuietAsSnapped'
  BY <1>1, <1>2 DEF CountsInv, CountTypes, QuietAsSnapped
<1> QED  BY <1>2, <1>3, <1>4 DEF CountsInv, ReadingsStand, ReviewedIsComplete, AdjustedAsRead

LEMMA NextCountsKeeps == CountsInv /\ [NextCounts]_countVars => CountsInv'
<1> SUFFICES ASSUME CountsInv, [NextCounts]_countVars PROVE CountsInv'
  OBVIOUS
<1>1. CASE UNCHANGED countVars
  BY <1>1 DEF countVars, CountsInv, CountTypes, ReadingsStand, QuietAsSnapped, ReviewedIsComplete, AdjustedAsRead
<1> QED
  BY <1>1, StartCountKeeps, ReadCountKeeps, AdjustCountKeeps, CountLocationKeeps, RecountKeeps, MovementKeeps
     DEF NextCounts

LEMMA QuietLinesAdjusted == CountsInv /\ [NextCounts]_countVars => AdjustsQuietLines
<1> SUFFICES ASSUME CountsInv, [NextCounts]_countVars,
                    NEW c \in Count, counts[c].status # "adjusted", counts'[c].status = "adjusted",
                    NEW p \in quiet[c]
             PROVE  stock'[p] = FinalQty(counts[c].lines[p])
  BY DEF AdjustsQuietLines
<1>1. AdjustCount(c)
  <2>1. counts \in [Count -> [status : CountStatus, version : Nat, lines : CountLines]]
    BY DEF CountsInv, CountTypes
  <2>2. ASSUME NEW d \in Count, NEW status, NEW lines, NEW touched, status # "adjusted",
               UpdateCount(d, status, lines, touched)
        PROVE  FALSE
    BY <2>1, <2>2 DEF UpdateCount
  <2>3. ASSUME NEW d \in Count, AdjustCount(d) PROVE d = c
    BY <2>1, <2>3 DEF AdjustCount, UpdateCount
  <2>4. ASSUME NEW d \in Count, StartCount(d) PROVE FALSE
    <3>1. PICK lines : counts' = [counts EXCEPT ![d] =
             [status |-> Advance(Advance("draft", "START", TRUE), "COMPLETE", DOMAIN lines = {}),
              version |-> 1, lines |-> lines]]
      BY <2>4 DEF StartCount, InsertCount
    <3>2. Advance(Advance("draft", "START", TRUE), "COMPLETE", DOMAIN lines = {}) # "adjusted"
      BY CountAdvances
    <3> QED  BY <2>1, <3>1, <3>2
  <2>5. ASSUME NEW d \in Count, NEW q \in Place, CountLocation(d, q) PROVE FALSE
    <3>1. counts[d].status = "in_progress"
      BY <2>5, LinesOfCount, CountEvents DEF CountLocation, CountsInv
    <3>2. PICK lines : UpdateCount(d, Advance("in_progress", "COMPLETE", IsCountComplete(lines)), lines,
                                   IsCountComplete(lines))
      BY <2>5, <3>1 DEF CountLocation
    <3>3. Advance("in_progress", "COMPLETE", IsCountComplete(lines)) # "adjusted"
      BY CountAdvances DEF IsCountComplete
    <3> QED  BY <2>2, <3>2, <3>3
  <2>6. ASSUME NEW d \in Count, NEW q \in Place, Recount(d, q) PROVE FALSE
    <3>1. /\ counts[d].status \in {"review", "recount"}
          /\ CanTransition(counts[d].status, "FLAG_RECOUNT") = (counts[d].status = "review")
      <4>1. CanTransition(counts[d].status, "FLAG_RECOUNT") \in BOOLEAN
        BY DEF CanTransition
      <4> QED  BY <2>6, <4>1, LinesOfCount, CountEvents DEF Recount, CountsInv
    <3>2. PICK lines : UpdateCount(d, Advance(Advance(counts[d].status, "FLAG_RECOUNT", counts[d].status = "review"),
                                              "RECOUNT_COMPLETE", AllVariancesRecounted(lines)),
                                   lines, counts[d].status = "review" \/ AllVariancesRecounted(lines))
      BY <2>6, <3>1 DEF Recount
    <3>3. Advance(Advance(counts[d].status, "FLAG_RECOUNT", counts[d].status = "review"),
                  "RECOUNT_COMPLETE", AllVariancesRecounted(lines)) # "adjusted"
      BY <3>1, CountAdvances DEF AllVariancesRecounted
    <3> QED  BY <2>2, <3>2, <3>3
  <2>7. counts' # counts
    OBVIOUS
  <2> QED
    BY <2>3, <2>4, <2>5, <2>6, <2>7 DEF NextCounts, countVars, ReadCount, Movement
<1>2. counts[c].status = "review"
  BY <1>1, LinesOfCount, CountEvents DEF AdjustCount, CountsInv
<1>3. p \in DOMAIN counts[c].lines /\ p \in Place /\ stock[p] = counts[c].lines[p].system
  BY DEF CountsInv, QuietAsSnapped, CountTypes
<1>4. counts[c].lines[p] \in CountLineRow /\ counts[c].lines[p].counted # NotCounted
  BY <1>2, <1>3, LinesOfCount DEF CountsInv, ReviewedIsComplete, IsCountComplete
<1>5. stock'[p] = stock[p] + Difference(counts[c].lines[p])
  BY <1>1, <1>3, AdjustPosts
<1> QED  BY <1>3, <1>4, <1>5, DifferenceCorrects

-----------------------------------------------------------------------------
(* Daily commissions (Commissions).                                        *)

ReviewRow ==
  [driver : Driver, event : {"DISPUTE", "CONFIRM"}, row : CommissionRow, at : 0..LastHour]

CommissionTypes ==
  /\ delivered \in [Driver -> 0..MaxDelivered]
  /\ commissions \in [Driver -> SUBSET CommissionRow]
  /\ \A d \in Driver : \A r, s \in commissions[d] : r = s
  /\ confirmedAs \in [Driver -> SUBSET [by : Person, read : CommissionStatus, at : 0..LastHour]]
  /\ review \in [Person -> SUBSET ReviewRow]
  /\ hour \in 0..LastHour

(* A reading is of a row no newer than the one there is, and of that very   *)
(* row while the version is the same; its taker was allowed the event then. *)
ReadingIsPast(r) ==
  \E row \in commissions[r.driver] : /\ r.row.version <= row.version
                                     /\ r.row.version = row.version => r.row = row
ReadingAllows(p, r) ==
  /\ CanChangeCommission(r.row.status, r.event)
  /\ r.event = "CONFIRM" =>
       /\ p # r.driver
       /\ r.row.status = "disputed" => p \in Confirmer
       /\ r.row.status = "calculated" => r.at >= r.row.created + DisputeWindow

DisputesAreMarked ==
  \A d \in Driver : \A row \in commissions[d] : /\ row.status = "calculated" => ~ row.disputed
                                                /\ row.status = "disputed" => row.disputed

CommissionsInv ==
  /\ CommissionTypes /\ DisputesAreMarked /\ ConfirmedAsRead
  /\ \A p \in Person : \A r \in review[p] : ReadingIsPast(r) /\ ReadingAllows(p, r)

LEMMA CommissionEvents ==
  ASSUME NEW status \in CommissionStatus, NEW event \in {"DISPUTE", "CONFIRM"},
         CanChangeCommission(status, event)
  PROVE  /\ event = "DISPUTE" => status = "calculated" /\ AfterCommissionEvent[event][status] = "disputed"
         /\ event = "CONFIRM" => /\ status \in {"calculated", "disputed"}
                                 /\ AfterCommissionEvent[event][status] = "confirmed"
BY DEF CanChangeCommission, AfterCommissionEvent, CommissionStatus

LEMMA InitCommissionsKeeps == InitCommissions => CommissionsInv
BY CommissionConstants
   DEF InitCommissions, CommissionsInv, CommissionTypes, DisputesAreMarked, ConfirmedAsRead

LEMMA GrossIsNat ==
  ASSUME NEW rule \in CommissionRule, NEW n \in 0..MaxDelivered
  PROVE  ComputeGrossCommission(rule, n) \in Nat
<1>1. rule.rate \in Nat /\ rule.min \in Nat /\ n \in Nat
  BY CommissionConstants
<1>2. ASSUME NEW a \in Nat, NEW b \in Nat PROVE a * b \in Nat
  OBVIOUS
<1> QED  BY <1>1, <1>2 DEF ComputeGrossCommission

LEMMA CalculateKeeps ==
  ASSUME CommissionsInv, NEW d \in Driver, CalculateDailyCommission(d)
  PROVE  CommissionsInv'
<1>1. PICK rule \in CommissionRule :
        /\ commissions[d] = {}
        /\ commissions' = [commissions EXCEPT ![d] =
             {[status |-> "calculated", delivered |-> delivered[d],
               gross |-> ComputeGrossCommission(rule, delivered[d]),
               created |-> hour, disputed |-> FALSE, version |-> 1]}]
  BY DEF CalculateDailyCommission, SelectCommissionRule
<1>2. UNCHANGED <<delivered, confirmedAs, review, hour>>
  BY DEF CalculateDailyCommission
<1> DEFINE new == [status |-> "calculated", delivered |-> delivered[d],
                   gross |-> ComputeGrossCommission(rule, delivered[d]),
                   created |-> hour, disputed |-> FALSE, version |-> 1]
<1>3. new \in CommissionRow
  BY GrossIsNat DEF CommissionsInv, CommissionTypes, CommissionRow, CommissionStatus
<1>4. new.status = "calculated" /\ ~ new.disputed
  OBVIOUS
<1>5. commissions' = [commissions EXCEPT ![d] = {new}]
  BY <1>1
<1> HIDE DEF new
<1>6. CommissionTypes'
  BY <1>2, <1>3, <1>5 DEF CommissionsInv, CommissionTypes
<1>7. DisputesAreMarked' /\ ConfirmedAsRead'
  BY <1>2, <1>4, <1>5 DEF CommissionsInv, CommissionTypes, DisputesAreMarked, ConfirmedAsRead
<1>8. ASSUME NEW p \in Person, NEW r \in review[p] PROVE ReadingIsPast(r)' /\ ReadingAllows(p, r)
  <2>1. r.driver \in Driver /\ r.driver # d
    BY <1>1 DEF CommissionsInv, CommissionTypes, ReadingIsPast, ReviewRow
  <2>2. commissions'[r.driver] = commissions[r.driver]
    BY <1>5, <2>1 DEF CommissionsInv, CommissionTypes
  <2> QED  BY <2>2 DEF CommissionsInv, ReadingIsPast
<1> QED  BY <1>2, <1>6, <1>7, <1>8 DEF CommissionsInv, ReadingAllows

LEMMA ReadCommissionKeeps ==
  ASSUME CommissionsInv, NEW p \in Person, DisputeCommission(p) \/ ConfirmCommission(p)
  PROVE  CommissionsInv'
<1>1. PICK d \in Driver, event \in {"DISPUTE", "CONFIRM"} : \E row \in commissions[d] :
        /\ GetCommissionDailyById(p, d, event, row)
        /\ event = "CONFIRM" => /\ p # d
                                /\ row.status = "disputed" => p \in Confirmer
                                /\ row.status = "calculated" => ~ IsWithinDisputeWindow(row, hour)
  <2>1. CASE DisputeCommission(p)
    BY <2>1 DEF DisputeCommission
  <2>2. CASE ConfirmCommission(p)
    BY <2>2 DEF ConfirmCommission
  <2> QED  BY <2>1, <2>2
<1>2. PICK row \in commissions[d] :
        /\ GetCommissionDailyById(p, d, event, row)
        /\ event = "CONFIRM" => /\ p # d
                                /\ row.status = "disputed" => p \in Confirmer
                                /\ row.status = "calculated" => ~ IsWithinDisputeWindow(row, hour)
  BY <1>1
<1>3. UNCHANGED <<delivered, commissions, confirmedAs, hour>>
  BY <1>2 DEF GetCommissionDailyById
<1> DEFINE new == [driver |-> d, event |-> event, row |-> row, at |-> hour]
<1>4. row \in CommissionRow /\ new \in ReviewRow
  BY DEF CommissionsInv, CommissionTypes, ReviewRow
<1>5. review' = [review EXCEPT ![p] = {new}]
  BY <1>2 DEF GetCommissionDailyById
<1>6. ReadingIsPast(new)
  <2>1. row.version \in Nat
    BY <1>4 DEF CommissionRow
  <2> QED  BY <2>1 DEF ReadingIsPast
<1>7. ReadingAllows(p, new)
  <2>1. row.created \in Int /\ hour \in Int /\ DisputeWindow \in Int
    BY <1>4, CommissionConstants DEF CommissionRow, CommissionsInv, CommissionTypes
  <2>2. CanChangeCommission(row.status, event)
    BY <1>2 DEF GetCommissionDailyById
  <2> QED  BY <1>2, <2>1, <2>2 DEF ReadingAllows, IsWithinDisputeWindow
<1> HIDE DEF new
<1>8. CommissionTypes' /\ DisputesAreMarked' /\ ConfirmedAsRead'
  BY <1>3, <1>4, <1>5 DEF CommissionsInv, CommissionTypes, DisputesAreMarked, ConfirmedAsRead
<1>9. ASSUME NEW q \in Person, NEW r \in review'[q] PROVE ReadingIsPast(r)' /\ ReadingAllows(q, r)
  <2>1. ReadingIsPast(r) /\ ReadingAllows(q, r)
    BY <1>5, <1>6, <1>7 DEF CommissionsInv, CommissionTypes
  <2> QED  BY <1>3, <2>1 DEF ReadingIsPast
<1> QED  BY <1>8, <1>9 DEF CommissionsInv, ReadingAllows

(* What UpdateCommission does with the reading r and the row there is.     *)
UpdateRead(p, r, row) ==
  LET status == AfterCommissionEvent[r.event][r.row.status]
  IN  /\ RowAsRead(r, row)
      /\ commissions' = [commissions EXCEPT ![r.driver] =
           {[row EXCEPT !.status = status, !.disputed = @ \/ status = "disputed",
                        !.version = @ + 1]}]
      /\ confirmedAs' = [confirmedAs EXCEPT ![r.driver] =
           IF status = "confirmed" THEN {[by |-> p, read |-> r.row.status, at |-> r.at]} ELSE @]

LEMMA UpdateCommissionKeeps ==
  ASSUME CommissionsInv, NEW p \in Person, UpdateCommission(p)
  PROVE  CommissionsInv'
<1>1. PICK r \in review[p] : \E row \in commissions[r.driver] : UpdateRead(p, r, row)
  BY DEF UpdateCommission, UpdateRead
<1>2. PICK row \in commissions[r.driver] :
        /\ RowAsRead(r, row)
        /\ commissions' = [commissions EXCEPT ![r.driver] =
             {[row EXCEPT !.status = AfterCommissionEvent[r.event][r.row.status],
                          !.disputed = row.disputed \/ AfterCommissionEvent[r.event][r.row.status] = "disputed",
                          !.version = row.version + 1]}]
        /\ confirmedAs' = [confirmedAs EXCEPT ![r.driver] =
             IF AfterCommissionEvent[r.event][r.row.status] = "confirmed"
             THEN {[by |-> p, read |-> r.row.status, at |-> r.at]} ELSE confirmedAs[r.driver]]
  BY <1>1 DEF UpdateRead
<1>3. /\ review' = [review EXCEPT ![p] = {}]
      /\ UNCHANGED <<delivered, hour>>
  BY DEF UpdateCommission
<1> DEFINE d == r.driver
           status == AfterCommissionEvent[r.event][row.status]
           new == [row EXCEPT !.status = status, !.disputed = row.disputed \/ status = "disputed",
                              !.version = row.version + 1]
           entry == [by |-> p, read |-> row.status, at |-> r.at]
<1>4. r \in ReviewRow /\ d \in Driver /\ row \in CommissionRow /\ row.version \in Nat
  BY DEF CommissionsInv, CommissionTypes, ReviewRow, CommissionRow
<1>5. r.row = row /\ ReadingAllows(p, r)
  BY <1>2, <1>4 DEF CommissionsInv, CommissionTypes, ReadingIsPast, RowAsRead
<1>6. /\ commissions' = [commissions EXCEPT ![d] = {new}]
      /\ confirmedAs' = [confirmedAs EXCEPT ![d] = IF status = "confirmed" THEN {entry} ELSE confirmedAs[d]]
  BY <1>2, <1>5
<1>7. \/ r.event = "DISPUTE" /\ row.status = "calculated" /\ status = "disputed"
      \/ r.event = "CONFIRM" /\ row.status \in {"calculated", "disputed"} /\ status = "confirmed"
  BY <1>4, <1>5, CommissionEvents DEF ReadingAllows, ReviewRow, CommissionRow
<1>8. /\ new.status = status /\ new.created = row.created /\ new.version = row.version + 1
      /\ new.disputed = (row.disputed \/ status = "disputed")
      /\ new \in CommissionRow
  <2>1. status \in CommissionStatus
    BY <1>7 DEF CommissionStatus
  <2>2. row.version + 1 \in Nat \ {0}
    BY <1>4
  <2> HIDE DEF status
  <2> QED  BY <1>4, <2>1, <2>2 DEF CommissionRow
<1>9. entry \in [by : Person, read : CommissionStatus, at : 0..LastHour]
  BY <1>4 DEF ReviewRow, CommissionRow
<1>10. status = "confirmed" =>
        /\ entry.by # d
        /\ new.disputed <=> entry.read = "disputed"
        /\ new.disputed => entry.by \in Confirmer
        /\ ~ new.disputed => entry.at >= new.created + DisputeWindow
  <2>1. (row.status = "disputed" => row.disputed) /\ (row.status = "calculated" => ~ row.disputed)
    BY <1>4 DEF CommissionsInv, DisputesAreMarked
  <2>2. row.disputed \in BOOLEAN
    BY <1>4 DEF CommissionRow
  <2> HIDE DEF new, status
  <2> QED  BY <1>5, <1>7, <1>8, <2>1, <2>2 DEF ReadingAllows
<1> HIDE DEF new, entry, status, d
<1>11. CommissionTypes'
  BY <1>3, <1>4, <1>6, <1>8, <1>9 DEF CommissionsInv, CommissionTypes
<1>12. DisputesAreMarked'
  BY <1>4, <1>6, <1>7, <1>8 DEF CommissionsInv, CommissionTypes, DisputesAreMarked
<1>13. ConfirmedAsRead'
  <2> SUFFICES ASSUME NEW e \in Driver, NEW s \in commissions'[e], s.status = "confirmed"
               PROVE  \E c \in confirmedAs'[e] :
                        /\ c.by # e
                        /\ s.disputed <=> c.read = "disputed"
                        /\ s.disputed => c.by \in Confirmer
                        /\ ~ s.disputed => c.at >= s.created + DisputeWindow
    BY DEF ConfirmedAsRead
  <2>1. CASE e = d
    <3>1. s = new /\ status = "confirmed" /\ confirmedAs'[e] = {entry}
      BY <1>4, <1>6, <1>8, <2>1 DEF CommissionsInv, CommissionTypes
    <3> QED  BY <1>10, <2>1, <3>1
  <2>2. CASE e # d
    <3>1. s \in commissions[e] /\ confirmedAs'[e] = confirmedAs[e]
      BY <1>4, <1>6, <2>2 DEF CommissionsInv, CommissionTypes
    <3> QED  BY <3>1 DEF CommissionsInv, ConfirmedAsRead
  <2> QED  BY <2>1, <2>2
<1>14. ASSUME NEW q \in Person, NEW s \in review'[q] PROVE ReadingIsPast(s)' /\ ReadingAllows(q, s)
  <2>1. s \in review[q]
    BY <1>3 DEF CommissionsInv, CommissionTypes
  <2>2. ReadingIsPast(s) /\ ReadingAllows(q, s)
    BY <2>1 DEF CommissionsInv
  <2>3. s.driver \in Driver /\ s.row.version \in Nat
    BY <2>1 DEF CommissionsInv, CommissionTypes, ReviewRow, CommissionRow
  <2>4. CASE s.driver = d
    <3>1. PICK t \in commissions[d] : s.row.version <= t.version
      BY <2>2, <2>4 DEF ReadingIsPast
    <3>2. t = row
      BY <1>4, <3>1 DEF CommissionsInv, CommissionTypes, d
    <3>3. commissions'[s.driver] = {new}
      BY <1>4, <1>6, <2>4 DEF CommissionsInv, CommissionTypes
    <3>4. s.row.version <= new.version /\ s.row.version # new.version
      BY <1>4, <1>8, <2>3, <3>1, <3>2
    <3> QED  BY <2>2, <3>3, <3>4 DEF ReadingIsPast
  <2>5. CASE s.driver # d
    <3>1. commissions'[s.driver] = commissions[s.driver]
      BY <1>4, <1>6, <2>3, <2>5 DEF CommissionsInv, CommissionTypes
    <3> QED  BY <2>2, <3>1 DEF ReadingIsPast
  <2> QED  BY <2>4, <2>5
<1> QED  BY <1>11, <1>12, <1>13, <1>14 DEF CommissionsInv, ReadingAllows

LEMMA NextCommissionsKeeps == CommissionsInv /\ [NextCommissions]_commissionVars => CommissionsInv'
<1> SUFFICES ASSUME CommissionsInv, [NextCommissions]_commissionVars PROVE CommissionsInv'
  OBVIOUS
<1>1. ASSUME commissions' = commissions, confirmedAs' = confirmedAs, CommissionTypes',
             \A p \in Person : review'[p] \subseteq review[p]
      PROVE  CommissionsInv'
  <2>1. DisputesAreMarked' /\ ConfirmedAsRead'
    BY <1>1 DEF CommissionsInv, DisputesAreMarked, ConfirmedAsRead
  <2>2. ASSUME NEW p \in Person, NEW r \in review'[p] PROVE ReadingIsPast(r)' /\ ReadingAllows(p, r)
    BY <1>1 DEF CommissionsInv, ReadingIsPast
  <2> QED  BY <1>1, <2>1, <2>2 DEF CommissionsInv, ReadingAllows
<1>2. CASE UNCHANGED commissionVars
  BY <1>1, <1>2 DEF commissionVars, CommissionsInv, CommissionTypes
<1>3. ASSUME NEW d \in Driver, ShipmentAttributed(d) PROVE CommissionsInv'
  <2>1. delivered' \in [Driver -> 0..MaxDelivered]
    <3>1. delivered[d] + 1 \in 0..MaxDelivered
      BY <1>3, CommissionConstants DEF ShipmentAttributed, CommissionsInv, CommissionTypes
    <3> QED  BY <1>3, <3>1 DEF ShipmentAttributed, CommissionsInv, CommissionTypes
  <2> QED  BY <1>1, <1>3, <2>1 DEF ShipmentAttributed, CommissionsInv, CommissionTypes
<1>4. CASE NextHour
  BY <1>1, <1>4, CommissionConstants DEF NextHour, CommissionsInv, CommissionTypes
<1>5. ASSUME NEW p \in Person, AbandonReview(p) PROVE CommissionsInv'
  BY <1>1, <1>5 DEF AbandonReview, CommissionsInv, CommissionTypes
<1> QED
  BY <1>2, <1>3, <1>4, <1>5, CalculateKeeps, ReadCommissionKeeps, UpdateCommissionKeeps DEF NextCommissions

-----------------------------------------------------------------------------
(* Sales quotes (Quotes).                                                  *)

QuoteLine == [price : LinePrice, exception : {e.id : e \in PriceException} \cup {NoException}]

NotOut == {"none", "draft", "commercial_review", "finance_review", "approved"}

(* A line under the floor names an exception, also when that has ended     *)
(* since.                                                                  *)
LinesAllowed(lines) ==
  /\ lines \in Seq(QuoteLine)
  /\ \A i \in DOMAIN lines : lines[i].price < FloorPrice => lines[i].exception # NoException

QuoteRowOK(row) ==
  /\ row = [status |-> row.status, validUntil |-> row.validUntil, lines |-> row.lines,
            discount |-> row.discount, subtotal |-> row.subtotal, margin |-> row.margin,
            frozen |-> row.frozen]
  /\ row.status \in QuoteStatus \cup {"none"}
  /\ row.status \in NotOut => row.frozen = {}
  /\ LinesAllowed(row.lines)

QuoteTypes ==
  /\ DOMAIN quotes = Quote /\ DOMAIN approvedAs = Quote
  /\ \A q \in Quote : QuoteRowOK(quotes[q])
  /\ granted \subseteq PriceException

(* What finance approved is what an approved quote still says, and a       *)
(* general manager approved what only a general manager may.               *)
ApprovedAsIs(row, approvals) ==
  row.status = "approved" =>
    \E a \in approvals :
      /\ a.lines = row.lines /\ a.margin = row.margin /\ a.total = row.subtotal - row.discount
      /\ (\/ \E i \in DOMAIN a.lines : a.lines[i].exception # NoException
          \/ a.margin # NoMargin /\ a.margin < EscalationMargin) => a.role = "GM"

SentAsIs(row, approvals) ==
  \A sent \in row.frozen :
    \E a \in approvals :
      /\ a.lines = sent.lines /\ a.total = sent.total /\ a.margin = sent.margin
      /\ (\/ \E i \in DOMAIN sent.lines : sent.lines[i].price < FloorPrice
          \/ sent.margin # NoMargin /\ sent.margin < EscalationMargin) => a.role = "GM"

QuotesInv ==
  /\ QuoteTypes
  /\ \A q \in Quote : ApprovedAsIs(quotes[q], approvedAs[q]) /\ SentAsIs(quotes[q], approvedAs[q])

LEMMA QuoteEvents ==
  ASSUME QuoteTypes, NEW q \in Quote
  PROVE  /\ CanAdvanceQuote(q, "SUBMIT_FOR_REVIEW") =>
              quotes[q].status = "draft" /\ AdvanceQuote(q, "SUBMIT_FOR_REVIEW") = "commercial_review"
         /\ CanAdvanceQuote(q, "APPROVE_COMMERCIAL") =>
              quotes[q].status = "commercial_review" /\ AdvanceQuote(q, "APPROVE_COMMERCIAL") = "finance_review"
         /\ CanAdvanceQuote(q, "RETURN_TO_DRAFT") =>
              quotes[q].status \in {"commercial_review", "finance_review"} /\ AdvanceQuote(q, "RETURN_TO_DRAFT") = "draft"
         /\ CanAdvanceQuote(q, "APPROVE_FINANCE") =>
              quotes[q].status = "finance_review" /\ AdvanceQuote(q, "APPROVE_FINANCE") = "approved"
         /\ CanAdvanceQuote(q, "SEND_QUOTE") =>
              quotes[q].status = "approved" /\ AdvanceQuote(q, "SEND_QUOTE") = "sent"
         /\ CanAdvanceQuote(q, "RECORD_DECISION_ACCEPTED") =>
              quotes[q].status = "sent" /\ AdvanceQuote(q, "RECORD_DECISION_ACCEPTED") = "accepted"
         /\ CanAdvanceQuote(q, "RECORD_DECISION_REJECTED") =>
              quotes[q].status = "sent" /\ AdvanceQuote(q, "RECORD_DECISION_REJECTED") = "rejected"
BY DEF CanAdvanceQuote, AdvanceQuote, AfterQuoteEvent

LEMMA NoQuoteIsEmpty ==
  /\ NoQuote = [status |-> "none", validUntil |-> 0, lines |-> <<>>, discount |-> 0,
                subtotal |-> 0, margin |-> NoMargin, frozen |-> {}]
  /\ QuoteRowOK(NoQuote) /\ NoQuote.frozen = {}
BY DEF NoQuote, LinesAllowed, QuoteRowOK, NotOut

LEMMA InitQuotesKeeps == InitQuotes => QuotesInv
<1> SUFFICES ASSUME InitQuotes PROVE QuotesInv
  OBVIOUS
<1>1. \A q \in Quote : /\ quotes[q] = NoQuote /\ quotes[q].status = "none"
                       /\ quotes[q].lines = <<>> /\ quotes[q].frozen = {}
  BY NoQuoteIsEmpty DEF InitQuotes
<1>2. QuoteTypes
  BY <1>1, NoQuoteIsEmpty DEF InitQuotes, QuoteTypes
<1> QED  BY <1>1, <1>2 DEF QuotesInv, ApprovedAsIs, SentAsIs

LEMMA AllowedLine ==
  ASSUME QuoteTypes, NEW line \in QuoteLine, PriceExceptionValid(line)
  PROVE  line.price < FloorPrice => line.exception # NoException
<1>1. line.price \in Nat /\ FloorPrice \in Nat
  BY QuoteConstants DEF QuoteLine
<1>2. \A e \in granted : e.id # NoException
  BY QuoteConstants DEF QuoteTypes, NoException
<1> QED  BY <1>1, <1>2 DEF PriceExceptionValid

LEMMA AllowedAppend ==
  ASSUME QuoteTypes, NEW lines, LinesAllowed(lines), NEW line \in QuoteLine, PriceExceptionValid(line)
  PROVE  LinesAllowed(Append(lines, line))
<1>1. /\ Append(lines, line) \in Seq(QuoteLine)
      /\ DOMAIN Append(lines, line) = 1..Len(lines) + 1
      /\ \A i \in 1..Len(lines) : Append(lines, line)[i] = lines[i]
      /\ Append(lines, line)[Len(lines) + 1] = line
      /\ DOMAIN lines = 1..Len(lines) /\ Len(lines) \in Nat
  BY DEF LinesAllowed
<1>2. \A i \in 1..Len(lines) + 1 : i \in 1..Len(lines) \/ i = Len(lines) + 1
  BY <1>1
<1> QED  BY <1>1, <1>2, AllowedLine DEF LinesAllowed

LEMMA OneRowKeeps ==
  ASSUME QuotesInv, NEW q \in Quote, granted' = granted,
         NEW row, quotes' = [quotes EXCEPT ![q] = row], QuoteRowOK(row),
         DOMAIN approvedAs' = Quote, \A p \in Quote \ {q} : approvedAs'[p] = approvedAs[p],
         ApprovedAsIs(row, approvedAs'[q]), SentAsIs(row, approvedAs'[q])
  PROVE  QuotesInv'
<1>1. quotes'[q] = row /\ (\A p \in Quote \ {q} : quotes'[p] = quotes[p]) /\ DOMAIN quotes' = Quote
  BY DEF QuotesInv, QuoteTypes
<1>2. ASSUME NEW p \in Quote
      PROVE  QuoteRowOK(quotes'[p]) /\ ApprovedAsIs(quotes'[p], approvedAs'[p]) /\ SentAsIs(quotes'[p], approvedAs'[p])
  <2>1. CASE p = q
    BY <1>1, <2>1
  <2>2. CASE p # q
    BY <1>1, <2>2 DEF QuotesInv, QuoteTypes
  <2> QED  BY <2>1, <2>2
<1>3. (granted \subseteq PriceException)'
  BY DEF QuotesInv, QuoteTypes
<1> QED  BY <1>1, <1>2, <1>3 DEF QuotesInv, QuoteTypes, QuoteRowOK, ApprovedAsIs, SentAsIs, LinesAllowed, NotOut

LEMMA OtherRow ==
  ASSUME NEW row, QuoteRowOK(row), NEW status \in QuoteStatus, status \in NotOut \/ row.status \notin NotOut
  PROVE  LET new == [row EXCEPT !.status = status] IN
         /\ (status \in NotOut => row.status \in NotOut) => QuoteRowOK(new)
         /\ new.status = status /\ new.lines = row.lines /\ new.frozen = row.frozen
         /\ new.discount = row.discount /\ new.subtotal = row.subtotal /\ new.margin = row.margin
<1>1. row = [status |-> row.status, validUntil |-> row.validUntil, lines |-> row.lines,
            discount |-> row.discount, subtotal |-> row.subtotal, margin |-> row.margin,
            frozen |-> row.frozen]
  BY DEF QuoteRowOK
<1> DEFINE new == [row EXCEPT !.status = status]
<1>2. new = [status |-> status, validUntil |-> row.validUntil, lines |-> row.lines,
             discount |-> row.discount, subtotal |-> row.subtotal, margin |-> row.margin,
             frozen |-> row.frozen]
  BY <1>1
<1> HIDE DEF new
<1>3. /\ new.status = status /\ new.lines = row.lines /\ new.frozen = row.frozen
      /\ new.discount = row.discount /\ new.subtotal = row.subtotal /\ new.margin = row.margin
      /\ new.validUntil = row.validUntil
  BY <1>2
<1>4. (status \in NotOut => row.status \in NotOut) => QuoteRowOK(new)
  BY <1>2, <1>3 DEF QuoteRowOK
<1> QED  BY <1>3, <1>4 DEF new

(* A status set before the quote is sent, and a decision about it.         *)
LEMMA SetStatusKeeps ==
  ASSUME QuotesInv, NEW q \in Quote, NEW event, SetQuoteStatus(q, event),
         event \in {"SUBMIT_FOR_REVIEW", "APPROVE_COMMERCIAL", "RETURN_TO_DRAFT",
                    "RECORD_DECISION_ACCEPTED", "RECORD_DECISION_REJECTED"}
  PROVE  QuotesInv'
<1> DEFINE status == AdvanceQuote(q, event)
           new == [quotes[q] EXCEPT !.status = status]
<1>1. /\ CanAdvanceQuote(q, event) /\ quotes' = [quotes EXCEPT ![q] = new]
      /\ UNCHANGED <<granted, approvedAs>>
  BY DEF SetQuoteStatus, UpdateQuote
<1>2. QuoteRowOK(quotes[q])
  BY DEF QuotesInv, QuoteTypes
<1>3. /\ status \in QuoteStatus \ {"approved"}
      /\ status \in NotOut <=> quotes[q].status \in NotOut
  BY <1>1, QuoteEvents DEF QuotesInv, QuoteStatus, NotOut
<1> HIDE DEF status
<1>4. QuoteRowOK(new) /\ new.status = status /\ new.frozen = quotes[q].frozen
  BY <1>2, <1>3, OtherRow
<1> HIDE DEF new
<1>5. SentAsIs(new, approvedAs[q]) /\ ApprovedAsIs(new, approvedAs[q])
  BY <1>3, <1>4 DEF QuotesInv, SentAsIs, ApprovedAsIs
<1> QED  BY <1>1, <1>4, <1>5, OneRowKeeps DEF QuotesInv, QuoteTypes

(* A draft's row replaces one that is not out.                             *)
LEMMA DraftKeeps ==
  ASSUME QuotesInv, NEW q \in Quote, UNCHANGED <<approvedAs, granted>>,
         NEW row, quotes' = [quotes EXCEPT ![q] = row], QuoteRowOK(row), row.status = "draft"
  PROVE  QuotesInv'
<1>1. ApprovedAsIs(row, approvedAs[q]) /\ SentAsIs(row, approvedAs[q])
  BY DEF ApprovedAsIs, SentAsIs, QuoteRowOK, NotOut
<1> QED  BY <1>1, OneRowKeeps DEF QuotesInv, QuoteTypes

(* The rows CreateQuote and ReviseQuote insert.                            *)
LEMMA NewDrafts ==
  ASSUME NEW row, QuoteRowOK(row), row.frozen = {},
         NEW until, NEW lines, LinesAllowed(lines), NEW margin, NEW subtotal
  PROVE  LET created == [row EXCEPT !.status = "draft", !.validUntil = until]
             revised == [row EXCEPT !.status = "draft", !.lines = lines, !.margin = margin,
                                    !.validUntil = until, !.subtotal = subtotal]
         IN  /\ QuoteRowOK(created) /\ created.status = "draft"
             /\ QuoteRowOK(revised) /\ revised.status = "draft"
<1> DEFINE r1 == [row EXCEPT !.status = "draft"]
           r2 == [r1 EXCEPT !.lines = lines]
           r3 == [r2 EXCEPT !.margin = margin]
           r4 == [r3 EXCEPT !.validUntil = until]
           r5 == [r4 EXCEPT !.subtotal = subtotal]
           created == [r1 EXCEPT !.validUntil = until]
<1>0. row = [status |-> row.status, validUntil |-> row.validUntil, lines |-> row.lines,
             discount |-> row.discount, subtotal |-> row.subtotal, margin |-> row.margin,
             frozen |-> {}]
  BY DEF QuoteRowOK
<1>1. r1 = [status |-> "draft", validUntil |-> row.validUntil, lines |-> row.lines,
            discount |-> row.discount, subtotal |-> row.subtotal, margin |-> row.margin,
            frozen |-> {}]
  BY <1>0
<1> HIDE DEF r1
<1>2. created = [status |-> "draft", validUntil |-> until, lines |-> row.lines,
                 discount |-> row.discount, subtotal |-> row.subtotal, margin |-> row.margin,
                 frozen |-> {}]
  BY <1>1
<1>3. r2 = [status |-> "draft", validUntil |-> row.validUntil, lines |-> lines,
            discount |-> row.discount, subtotal |-> row.subtotal, margin |-> row.margin,
            frozen |-> {}]
  BY <1>1
<1> HIDE DEF r2, created
<1>4. r3 = [status |-> "draft", validUntil |-> row.validUntil, lines |-> lines,
            discount |-> row.discount, subtotal |-> row.subtotal, margin |-> margin,
            frozen |-> {}]
  BY <1>3
<1> HIDE DEF r3
<1>5. r4 = [status |-> "draft", validUntil |-> until, lines |-> lines,
            discount |-> row.discount, subtotal |-> row.subtotal, margin |-> margin,
            frozen |-> {}]
  BY <1>4
<1> HIDE DEF r4
<1>6. r5 = [status |-> "draft", validUntil |-> until, lines |-> lines,
            discount |-> row.discount, subtotal |-> subtotal, margin |-> margin,
            frozen |-> {}]
  BY <1>5
<1> HIDE DEF r5
<1>7. /\ QuoteRowOK(created) /\ created.status = "draft"
      /\ QuoteRowOK(r5) /\ r5.status = "draft"
  BY <1>2, <1>6 DEF QuoteRowOK, QuoteStatus
<1> QED  BY <1>7 DEF r1, r2, r3, r4, r5, created

LEMMA CreateQuoteKeeps == QuotesInv /\ CreateQuote => QuotesInv'
<1> SUFFICES ASSUME QuotesInv, CreateQuote PROVE QuotesInv'
  OBVIOUS
<1>1. PICK q \in Quote, until \in QuoteDay :
        UpdateQuote(q, [NoQuote EXCEPT !.status = "draft", !.validUntil = until]) /\ UNCHANGED approvedAs
  BY DEF CreateQuote
<1> DEFINE new == [NoQuote EXCEPT !.status = "draft", !.validUntil = until]
<1>2. LinesAllowed(<<>>)
  BY DEF LinesAllowed
<1>3. QuoteRowOK(new) /\ new.status = "draft"
  BY <1>2, NewDrafts, NoQuoteIsEmpty
<1>4. quotes' = [quotes EXCEPT ![q] = new] /\ granted' = granted
  BY <1>1 DEF UpdateQuote
<1> HIDE DEF new
<1> QED  BY <1>1, <1>3, <1>4, DraftKeeps

LEMMA UpsertQuoteLineKeeps ==
  ASSUME QuotesInv, NEW q \in Quote, UpsertQuoteLine(q)
  PROVE  QuotesInv'
<1>1. PICK line, discount, subtotal, margin :
        /\ line \in QuoteLine /\ discount \in Discount
        /\ QuoteEditable(quotes[q].status) /\ PriceExceptionValid(line)
        /\ quotes' = [quotes EXCEPT ![q] =
             [quotes[q] EXCEPT !.lines = Append(quotes[q].lines, line), !.discount = discount,
                               !.subtotal = subtotal, !.margin = margin]]
        /\ UNCHANGED <<granted, approvedAs>>
  BY DEF UpsertQuoteLine, UpdateQuote, QuoteLine
<1> DEFINE lines == Append(quotes[q].lines, line)
           new == [quotes[q] EXCEPT !.lines = lines, !.discount = discount,
                                    !.subtotal = subtotal, !.margin = margin]
<1>2. QuoteRowOK(quotes[q]) /\ quotes[q].status = "draft"
  BY <1>1 DEF QuotesInv, QuoteTypes, QuoteEditable
<1>3. LinesAllowed(lines)
  BY <1>1, <1>2, AllowedAppend DEF QuotesInv, QuoteRowOK
<1> HIDE DEF lines
<1>4. new = [status |-> quotes[q].status, validUntil |-> quotes[q].validUntil, lines |-> lines,
             discount |-> discount, subtotal |-> subtotal, margin |-> margin,
             frozen |-> quotes[q].frozen]
  <2>0. quotes[q] = [status |-> quotes[q].status, validUntil |-> quotes[q].validUntil, lines |-> quotes[q].lines,
                     discount |-> quotes[q].discount, subtotal |-> quotes[q].subtotal, margin |-> quotes[q].margin,
                     frozen |-> quotes[q].frozen]
    BY <1>2 DEF QuoteRowOK
  <2> DEFINE r1 == [quotes[q] EXCEPT !.lines = lines]
             r2 == [r1 EXCEPT !.discount = discount]
             r3 == [r2 EXCEPT !.subtotal = subtotal]
             r4 == [r3 EXCEPT !.margin = margin]
  <2>1. r1 = [status |-> quotes[q].status, validUntil |-> quotes[q].validUntil, lines |-> lines,
              discount |-> quotes[q].discount, subtotal |-> quotes[q].subtotal,
              margin |-> quotes[q].margin, frozen |-> quotes[q].frozen]
    BY <2>0
  <2> HIDE DEF r1
  <2>2. r2 = [status |-> quotes[q].status, validUntil |-> quotes[q].validUntil, lines |-> lines,
              discount |-> discount, subtotal |-> quotes[q].subtotal,
              margin |-> quotes[q].margin, frozen |-> quotes[q].frozen]
    BY <2>1
  <2> HIDE DEF r2
  <2>3. r3 = [status |-> quotes[q].status, validUntil |-> quotes[q].validUntil, lines |-> lines,
              discount |-> discount, subtotal |-> subtotal, margin |-> quotes[q].margin,
              frozen |-> quotes[q].frozen]
    BY <2>2
  <2> HIDE DEF r3
  <2>4. r4 = [status |-> quotes[q].status, validUntil |-> quotes[q].validUntil, lines |-> lines,
              discount |-> discount, subtotal |-> subtotal, margin |-> margin,
              frozen |-> quotes[q].frozen]
    BY <2>3
  <2> QED  BY <2>4 DEF r1, r2, r3, r4
<1>5. QuoteRowOK(new) /\ new.status = "draft"
  BY <1>2, <1>3, <1>4 DEF QuoteRowOK
<1>6. quotes' = [quotes EXCEPT ![q] = new]
  BY <1>1 DEF lines
<1> HIDE DEF new
<1> QED  BY <1>1, <1>5, <1>6, DraftKeeps

LEMMA ApproveFinanceKeeps ==
  ASSUME QuotesInv, NEW q \in Quote, ApproveFinance(q)
  PROVE  QuotesInv'
<1>1. PICK role \in {"CFO", "GM"}, margin \in {ComputeEstimatedMarginPct(quotes[q].lines)} :
        /\ CanAdvanceQuote(q, "APPROVE_FINANCE")
        /\ (\/ \E i \in DOMAIN quotes[q].lines : quotes[q].lines[i].exception # NoException
            \/ margin # NoMargin /\ margin < EscalationMargin) => role = "GM"
        /\ quotes' = [quotes EXCEPT ![q] =
             [quotes[q] EXCEPT !.status = AdvanceQuote(q, "APPROVE_FINANCE"), !.margin = margin]]
        /\ approvedAs' = [approvedAs EXCEPT ![q] =
             {[role |-> role, lines |-> quotes[q].lines, margin |-> margin,
               total |-> quotes[q].subtotal - quotes[q].discount]}]
        /\ UNCHANGED granted
  BY DEF ApproveFinance, UpdateQuote, RequiresGm
<1> DEFINE new == [quotes[q] EXCEPT !.status = "approved", !.margin = margin]
           entry == [role |-> role, lines |-> quotes[q].lines, margin |-> margin,
                     total |-> quotes[q].subtotal - quotes[q].discount]
<1>2. QuoteRowOK(quotes[q]) /\ quotes[q].status = "finance_review"
  BY <1>1, QuoteEvents DEF QuotesInv, QuoteTypes
<1>3. quotes' = [quotes EXCEPT ![q] = new] /\ approvedAs' = [approvedAs EXCEPT ![q] = {entry}]
  BY <1>1, QuoteEvents DEF QuotesInv
<1>4. new = [status |-> "approved", validUntil |-> quotes[q].validUntil, lines |-> quotes[q].lines,
             discount |-> quotes[q].discount, subtotal |-> quotes[q].subtotal, margin |-> margin,
             frozen |-> {}]
  <2>0. quotes[q] = [status |-> quotes[q].status, validUntil |-> quotes[q].validUntil, lines |-> quotes[q].lines,
                     discount |-> quotes[q].discount, subtotal |-> quotes[q].subtotal, margin |-> quotes[q].margin,
                     frozen |-> quotes[q].frozen]
    BY <1>2 DEF QuoteRowOK
  <2>9. quotes[q].frozen = {}
    BY <1>2 DEF QuoteRowOK, NotOut
  <2> DEFINE r1 == [quotes[q] EXCEPT !.status = "approved"]
             r2 == [r1 EXCEPT !.margin = margin]
  <2>1. r1 = [status |-> "approved", validUntil |-> quotes[q].validUntil,
              lines |-> quotes[q].lines, discount |-> quotes[q].discount,
              subtotal |-> quotes[q].subtotal, margin |-> quotes[q].margin,
              frozen |-> quotes[q].frozen]
    BY <2>0
  <2> HIDE DEF r1
  <2>2. r2 = [status |-> "approved", validUntil |-> quotes[q].validUntil,
              lines |-> quotes[q].lines, discount |-> quotes[q].discount,
              subtotal |-> quotes[q].subtotal, margin |-> margin, frozen |-> quotes[q].frozen]
    BY <2>1
  <2> QED  BY <2>2, <2>9 DEF r1, r2
<1>5. QuoteRowOK(new) /\ new.frozen = {} /\ new.status = "approved"
  BY <1>2, <1>4 DEF QuoteRowOK, QuoteStatus
<1>6. approvedAs'[q] = {entry} /\ DOMAIN approvedAs' = Quote
      /\ \A p \in Quote \ {q} : approvedAs'[p] = approvedAs[p]
  BY <1>3 DEF QuotesInv, QuoteTypes
<1>7. /\ entry.lines = new.lines /\ entry.margin = new.margin
      /\ entry.total = new.subtotal - new.discount
      /\ (\/ \E i \in DOMAIN entry.lines : entry.lines[i].exception # NoException
          \/ entry.margin # NoMargin /\ entry.margin < EscalationMargin) => entry.role = "GM"
  BY <1>1, <1>4
<1> HIDE DEF new, entry
<1>8. ApprovedAsIs(new, approvedAs'[q]) /\ SentAsIs(new, approvedAs'[q])
  BY <1>5, <1>6, <1>7 DEF ApprovedAsIs, SentAsIs
<1> QED  BY <1>1, <1>3, <1>5, <1>6, <1>8, OneRowKeeps

LEMMA SendQuoteKeeps ==
  ASSUME QuotesInv, NEW q \in Quote, SendQuote(q)
  PROVE  QuotesInv'
<1> DEFINE sent == [lines |-> quotes[q].lines, margin |-> quotes[q].margin,
                    total |-> quotes[q].subtotal - quotes[q].discount]
           new == [quotes[q] EXCEPT !.status = "sent", !.frozen = {sent}]
<1>1. QuoteRowOK(quotes[q]) /\ quotes[q].status = "approved"
  BY QuoteEvents DEF SendQuote, QuotesInv, QuoteTypes
<1>2. quotes' = [quotes EXCEPT ![q] = new] /\ UNCHANGED <<granted, approvedAs>>
  BY QuoteEvents DEF SendQuote, UpdateQuote, QuotesInv
<1>3. new = [status |-> "sent", validUntil |-> quotes[q].validUntil, lines |-> quotes[q].lines,
             discount |-> quotes[q].discount, subtotal |-> quotes[q].subtotal, margin |-> quotes[q].margin,
             frozen |-> {sent}]
  <2>0. quotes[q] = [status |-> quotes[q].status, validUntil |-> quotes[q].validUntil, lines |-> quotes[q].lines,
                     discount |-> quotes[q].discount, subtotal |-> quotes[q].subtotal, margin |-> quotes[q].margin,
                     frozen |-> quotes[q].frozen]
    BY <1>1 DEF QuoteRowOK
  <2> HIDE DEF sent
  <2> DEFINE r1 == [quotes[q] EXCEPT !.status = "sent"]
             r2 == [r1 EXCEPT !.frozen = {sent}]
  <2>1. r1 = [status |-> "sent", validUntil |-> quotes[q].validUntil, lines |-> quotes[q].lines,
              discount |-> quotes[q].discount, subtotal |-> quotes[q].subtotal,
              margin |-> quotes[q].margin, frozen |-> quotes[q].frozen]
    BY <2>0
  <2> HIDE DEF r1
  <2>2. r2 = [status |-> "sent", validUntil |-> quotes[q].validUntil, lines |-> quotes[q].lines,
              discount |-> quotes[q].discount, subtotal |-> quotes[q].subtotal,
              margin |-> quotes[q].margin, frozen |-> {sent}]
    BY <2>1
  <2> QED  BY <2>2 DEF r1, r2
<1>4. QuoteRowOK(new) /\ new.frozen = {sent} /\ new.status = "sent"
  BY <1>1, <1>3 DEF QuoteRowOK, QuoteStatus, NotOut
<1>5. ApprovedAsIs(new, approvedAs[q])
  BY <1>4 DEF ApprovedAsIs
<1>6. SentAsIs(new, approvedAs[q])
  <2>1. PICK a \in approvedAs[q] :
          /\ a.lines = quotes[q].lines /\ a.margin = quotes[q].margin
          /\ a.total = quotes[q].subtotal - quotes[q].discount
          /\ (\/ \E i \in DOMAIN a.lines : a.lines[i].exception # NoException
              \/ a.margin # NoMargin /\ a.margin < EscalationMargin) => a.role = "GM"
    BY <1>1 DEF QuotesInv, ApprovedAsIs
  <2>2. \A i \in DOMAIN quotes[q].lines :
          quotes[q].lines[i].price < FloorPrice => quotes[q].lines[i].exception # NoException
    BY <1>1 DEF QuoteRowOK, LinesAllowed
  <2>3. sent.lines = quotes[q].lines /\ sent.margin = quotes[q].margin
        /\ sent.total = quotes[q].subtotal - quotes[q].discount
    OBVIOUS
  <2> HIDE DEF sent, new
  <2> QED  BY <1>4, <2>1, <2>2, <2>3 DEF SentAsIs
<1> HIDE DEF new
<1> QED  BY <1>2, <1>4, <1>5, <1>6, OneRowKeeps DEF QuotesInv, QuoteTypes

LEMMA ReviseQuoteKeeps ==
  ASSUME QuotesInv, NEW q \in Quote, ReviseQuote(q)
  PROVE  QuotesInv'
<1>1. PICK new \in Quote, subtotal \in {SumPrices(quotes[q].lines)},
           margin \in {ComputeEstimatedMarginPct(quotes[q].lines)} :
        /\ quotes' = [quotes EXCEPT ![new] =
             [NoQuote EXCEPT !.status = "draft", !.lines = quotes[q].lines, !.margin = margin,
                !.validUntil = quotes[q].validUntil, !.subtotal = subtotal]]
        /\ UNCHANGED <<granted, approvedAs>>
  BY DEF ReviseQuote, UpdateQuote
<1> DEFINE row == [NoQuote EXCEPT !.status = "draft", !.lines = quotes[q].lines, !.margin = margin,
                !.validUntil = quotes[q].validUntil, !.subtotal = subtotal]
<1>2. LinesAllowed(quotes[q].lines)
  BY DEF QuotesInv, QuoteTypes, QuoteRowOK
<1>3. QuoteRowOK(row) /\ row.status = "draft"
  BY <1>2, NewDrafts, NoQuoteIsEmpty
<1> HIDE DEF row
<1> QED  BY <1>1, <1>3, DraftKeeps DEF row

LEMMA NextQuotesKeeps == QuotesInv /\ [NextQuotes]_quoteVars => QuotesInv'
<1> SUFFICES ASSUME QuotesInv, [NextQuotes]_quoteVars PROVE QuotesInv'
  OBVIOUS
<1>1. CASE UNCHANGED quoteVars
  BY <1>1 DEF quoteVars, QuotesInv, QuoteTypes, QuoteRowOK, ApprovedAsIs, SentAsIs, LinesAllowed
<1>2. CASE GrantPriceException \/ ChangeCost \/ NextQuoteDay
  <2>1. UNCHANGED <<quotes, approvedAs>> /\ (granted \subseteq PriceException)'
    BY <1>2 DEF GrantPriceException, ChangeCost, NextQuoteDay, QuotesInv, QuoteTypes
  <2> QED  BY <2>1 DEF QuotesInv, QuoteTypes, QuoteRowOK, ApprovedAsIs, SentAsIs, LinesAllowed
<1>3. ASSUME NEW q \in Quote, SubmitForReview(q) \/ ApproveCommercial(q) \/ ReturnToDraft(q) \/ RecordDecision(q)
      PROVE  QuotesInv'
  BY <1>3, SetStatusKeeps DEF SubmitForReview, ApproveCommercial, ReturnToDraft, RecordDecision
<1> QED
  BY <1>1, <1>2, <1>3, CreateQuoteKeeps, UpsertQuoteLineKeeps, ApproveFinanceKeeps, SendQuoteKeeps,
     ReviseQuoteKeeps DEF NextQuotes

LEMMA SentIsApproved == QuotesInv => SentAsApproved
BY DEF QuotesInv, SentAsIs, SentAsApproved

-----------------------------------------------------------------------------
(* Account credit (AccountCredit).                                         *)

CreditTypes ==
  /\ credit \in AccountRow
  /\ officerSaw \in [Officer -> AccountRow]

(* The version counts the updates of the row: what an officer read is no   *)
(* newer than the row, and is the row while the version is the same.       *)
SeenIsPast ==
  \A o \in Officer : /\ officerSaw[o].version <= credit.version
                     /\ officerSaw[o].version = credit.version => officerSaw[o] = credit

CreditInv == CreditTypes /\ SeenIsPast

LEMMA InitCreditKeeps == InitCredit => CreditInv
BY DEF InitCredit, CreditInv, CreditTypes, SeenIsPast, NewAccount, AccountRow, NoLimit

LEMMA CreditRow ==
  ASSUME CreditInv
  PROVE  /\ credit.hold \in BOOLEAN /\ credit.setBy \in SUBSET Officer
         /\ credit.limit \in CreditLimit \cup {NoLimit}
         /\ credit.version + 1 \in Nat \ {0}
         /\ credit = [hold |-> credit.hold, setBy |-> credit.setBy, limit |-> credit.limit,
                      version |-> credit.version]
<1>1. credit \in AccountRow
  BY DEF CreditInv, CreditTypes
<1>2. credit.version \in Nat
  BY <1>1 DEF AccountRow
<1> QED  BY <1>1, <1>2 DEF AccountRow

LEMMA CreditGrows ==
  ASSUME CreditInv, CreditTypes', officerSaw' = officerSaw, credit'.version = credit.version + 1
  PROVE  CreditInv'
<1>1. ASSUME NEW o \in Officer
      PROVE  officerSaw[o].version \in Nat /\ credit.version \in Nat /\ officerSaw[o].version <= credit.version
  BY DEF CreditInv, CreditTypes, AccountRow, SeenIsPast
<1> QED  BY <1>1 DEF CreditInv, SeenIsPast

LEMMA NextCreditKeeps == CreditInv /\ [NextCredit]_creditVars => CreditInv'
<1> SUFFICES ASSUME CreditInv, [NextCredit]_creditVars PROVE CreditInv'
  OBVIOUS
<1>1. CASE UNCHANGED creditVars
  BY <1>1 DEF creditVars, CreditInv, CreditTypes, SeenIsPast
<1>2. ASSUME NEW o \in Officer, ReadAccount(o) PROVE CreditInv'
  <2>1. CreditTypes'
    BY <1>2 DEF ReadAccount, CreditInv, CreditTypes
  <2>2. credit.version \in Nat
    BY DEF CreditInv, CreditTypes, AccountRow
  <2> QED  BY <1>2, <2>1, <2>2 DEF ReadAccount, CreditInv, CreditTypes, SeenIsPast
<1>3. ASSUME NEW o \in Officer, NEW held \in BOOLEAN, UpdateCreditHold(o, held) PROVE CreditInv'
  <2>1. credit' \in AccountRow /\ credit'.version = credit.version + 1
    BY <1>3, CreditRow DEF UpdateCreditHold, AccountRow
  <2>2. CreditTypes'
    BY <1>3, <2>1 DEF UpdateCreditHold, CreditInv, CreditTypes
  <2> QED  BY <1>3, <2>1, <2>2, CreditGrows DEF UpdateCreditHold
<1>4. ASSUME NEW limit \in CreditLimit, UpdateCreditLimit(limit) PROVE CreditInv'
  <2>1. credit' \in AccountRow /\ credit'.version = credit.version + 1
    BY <1>4, CreditRow DEF UpdateCreditLimit, AccountRow
  <2>2. CreditTypes'
    BY <1>4, <2>1 DEF UpdateCreditLimit, CreditInv, CreditTypes
  <2> QED  BY <1>4, <2>1, <2>2, CreditGrows DEF UpdateCreditLimit
<1> QED
  BY <1>1, <1>2, <1>3, <1>4 DEF NextCredit, SetCreditHold, ReleaseCreditHold, SetCreditLimit

LEMMA ReleaseIsSeen == CreditInv /\ [NextCredit]_creditVars => [HoldReleaseSeen]_creditVars
<1> SUFFICES ASSUME CreditInv, NextCredit PROVE HoldReleaseSeen
  OBVIOUS
<1> SUFFICES ASSUME credit.hold, ~ credit'.hold
             PROVE  \E o \in credit'.setBy : officerSaw[o].hold /\ officerSaw[o].setBy = credit.setBy
  BY DEF HoldReleaseSeen
<1>1. PICK o \in Officer : ReleaseCreditHold(o)
  <2>1. ASSUME NEW o \in Officer, ReadAccount(o) \/ SetCreditHold(o) \/ SetCreditLimit(o) PROVE credit'.hold
    BY <2>1 DEF ReadAccount, SetCreditHold, SetCreditLimit, UpdateCreditHold, UpdateCreditLimit,
                CreditInv, CreditTypes, AccountRow
  <2> QED  BY <2>1 DEF NextCredit
<1>2. credit'.setBy = {o} /\ officerSaw[o] = credit
  BY <1>1 DEF ReleaseCreditHold, GetAccountForUpdate, UpdateCreditHold, CreditInv, CreditTypes, AccountRow, SeenIsPast
<1> QED  BY <1>2

-----------------------------------------------------------------------------
(* Contracts (Contracts).                                                  *)

ContractRow ==
  [status : ContractStatus, start : Date, end : Date \cup {NoDate}, list : PriceList \cup {NoPriceList}]

(* The machine reaches "active" through ActivateContract only, and no      *)
(* command takes a list away.                                              *)
ContractsInv ==
  /\ contracts \in [Contract -> {NotCreated} \cup ContractRow]
  /\ \A c \in Contract : contracts[c].status \in {"active", "suspended"} => contracts[c].list # NoPriceList

LEMMA ContractEvents ==
  ASSUME NEW c \in Contract, NEW event \in DOMAIN AfterContractEvent,
         ContractsInv, CanAdvanceContract(c, event)
  PROVE  /\ contracts[c] \in ContractRow
         /\ AdvanceContract(c, event) \in ContractStatus
         /\ event = "SIGN_CONTRACT" => AdvanceContract(c, event) = "signed"
         /\ event \in {"SUSPEND_CONTRACT", "RESUME_CONTRACT", "EXPIRE_CONTRACT"} =>
              contracts[c].status \in {"active", "suspended"}
<1>1. contracts[c].status \in DOMAIN AfterContractEvent[event]
  BY DEF CanAdvanceContract
<1>2. contracts[c].status # "none"
  BY <1>1 DEF AfterContractEvent
<1>3. contracts[c] \in ContractRow
  BY <1>2 DEF ContractsInv, NotCreated
<1>4. AfterContractEvent[event][contracts[c].status] \in ContractStatus
  BY <1>1 DEF AfterContractEvent, ContractStatus
<1>5. event = "SIGN_CONTRACT" => AfterContractEvent[event][contracts[c].status] = "signed"
  BY <1>1 DEF AfterContractEvent
<1>6. event \in {"SUSPEND_CONTRACT", "RESUME_CONTRACT", "EXPIRE_CONTRACT"} =>
        contracts[c].status \in {"active", "suspended"}
  BY <1>1 DEF AfterContractEvent
<1> QED  BY <1>3, <1>4, <1>5, <1>6 DEF AdvanceContract

LEMMA InitContractsKeeps == InitContracts => ContractsInv
BY ContractConstants DEF InitContracts, ContractsInv, NotCreated, Date

LEMMA ContractKeeps ==
  ASSUME ContractsInv, NEW c \in Contract, NEW row \in ContractRow, UpdateContract(c, row),
         row.status \in {"active", "suspended"} => row.list # NoPriceList
  PROVE  ContractsInv'
BY DEF UpdateContract, ContractsInv

LEMMA StatusOfKeeps ==
  ASSUME ContractsInv, NEW c \in Contract, NEW event \in DOMAIN AfterContractEvent, SetStatusOf(c, event),
         event = "ACTIVATE_CONTRACT" => contracts[c].list # NoPriceList
  PROVE  ContractsInv'
<1> DEFINE status == AdvanceContract(c, event)
           row == [contracts[c] EXCEPT !.status = status]
<1>1. CanAdvanceContract(c, event) /\ UpdateContract(c, row)
  BY DEF SetStatusOf
<1>2. /\ contracts[c] \in ContractRow /\ status \in ContractStatus
      /\ event = "SIGN_CONTRACT" => status = "signed"
      /\ event \in {"SUSPEND_CONTRACT", "RESUME_CONTRACT", "EXPIRE_CONTRACT"} =>
           contracts[c].status \in {"active", "suspended"}
  BY <1>1, ContractEvents
<1> HIDE DEF status
<1>3. row \in ContractRow /\ row.status = status /\ row.list = contracts[c].list
  BY <1>2 DEF ContractRow
<1>4. event \in {"SIGN_CONTRACT", "ACTIVATE_CONTRACT", "SUSPEND_CONTRACT", "RESUME_CONTRACT", "EXPIRE_CONTRACT"}
  BY DEF AfterContractEvent
<1>5. row.status \in {"active", "suspended"} => row.list # NoPriceList
  BY <1>2, <1>3, <1>4 DEF ContractsInv
<1> HIDE DEF row
<1> QED  BY <1>1, <1>3, <1>5, ContractKeeps

LEMMA NextContractsKeeps == ContractsInv /\ [NextContracts]_contractVars => ContractsInv'
<1> SUFFICES ASSUME ContractsInv, [NextContracts]_contractVars PROVE ContractsInv'
  OBVIOUS
<1>1. CASE UNCHANGED contractVars \/ ListExpires
  BY <1>1 DEF contractVars, ListExpires, ContractsInv
<1>2. CASE NextDate
  BY <1>2, ContractConstants DEF NextDate, ContractsInv, Date
<1>3. CASE CreateContract
  <2>1. PICK c \in Contract, start \in Date, end \in Date \cup {NoDate} :
          UpdateContract(c, [status |-> "draft", start |-> start, end |-> end, list |-> NoPriceList])
    BY <1>3 DEF CreateContract
  <2>2. [status |-> "draft", start |-> start, end |-> end, list |-> NoPriceList] \in ContractRow
    BY DEF ContractRow, ContractStatus
  <2> QED  BY <2>1, <2>2, ContractKeeps
<1>4. ASSUME NEW c \in Contract,
             \/ SignContract(c) \/ ActivateContract(c) \/ SuspendContract(c) \/ ResumeContract(c)
             \/ ExpireContract(c)
      PROVE  ContractsInv'
  <2>1. PICK event \in DOMAIN AfterContractEvent :
          /\ SetStatusOf(c, event)
          /\ event = "ACTIVATE_CONTRACT" => contracts[c].list # NoPriceList
    BY <1>4 DEF SignContract, ActivateContract, SuspendContract, ResumeContract, ExpireContract, AfterContractEvent
  <2> QED  BY <2>1, StatusOfKeeps
<1>5. ASSUME NEW c \in Contract, SetContractPriceList(c) PROVE ContractsInv'
  <2>1. PICK l \in PriceList :
          /\ HasContractTag(contracts[c].status, "priceListAssignable")
          /\ UpdateContract(c, [contracts[c] EXCEPT !.list = l])
    BY <1>5 DEF SetContractPriceList
  <2>2. contracts[c] \in ContractRow
    BY <2>1 DEF ContractsInv, HasContractTag, ContractTag, NotCreated
  <2>3. [contracts[c] EXCEPT !.list = l] \in ContractRow /\ [contracts[c] EXCEPT !.list = l].list # NoPriceList
    BY <2>2, ContractConstants DEF ContractRow
  <2> QED  BY <2>1, <2>3, ContractKeeps
<1>6. ASSUME NEW c \in Contract, AddContractSla(c) PROVE ContractsInv'
  BY <1>6 DEF AddContractSla, ContractsInv
<1> QED
  BY <1>1, <1>2, <1>3, <1>4, <1>5, <1>6 DEF NextContracts

(* The two queries differ in the columns they test and in their tie-break: *)
(* what the first one finds usable has begun before all that has begun, so *)
(* the second one finds nothing else.                                      *)
LEMMA ContractsAgree == ContractsInv => OrderPricedByItsContract
<1> SUFFICES ASSUME ContractsInv, NEW asOf \in Date,
                    \A c, d \in Begun(asOf) : contracts[c].start = contracts[d].start => c = d,
                    NEW c \in GetContractForOrder(asOf)
             PROVE  /\ FindActiveContract(asOf) = {c}
                    /\ (contracts[c].list \in ListPrices /\ FindActiveException(asOf) = {})
                         => ResolvePrice(asOf) = "contract"
  BY DEF OrderPricedByItsContract
<1> DEFINE running == {d \in Begun(asOf) : /\ contracts[d].status = "active"
                                           /\ contracts[d].end = NoDate \/ contracts[d].end >= asOf
                                           /\ contracts[d].list # NoPriceList}
<1>1. \A d \in Begun(asOf) : d \in Int /\ contracts[d].start \in Int /\ contracts[d].end \in Int
  BY ContractConstants DEF Begun, Contract, ContractsInv, ContractRow, Date, NoDate
<1>2. /\ c \in Begun(asOf)
      /\ \A d \in Begun(asOf) : contracts[c].start >= contracts[d].start
      /\ contracts[c].status = "active"
      /\ contracts[c].end = NoDate \/ contracts[c].end >= asOf
  <2>1. asOf \in Int
    BY ContractConstants DEF Date
  <2> QED  BY <1>1, <2>1 DEF GetContractForOrder, FindContractForAccountEntity, LatestById, HasContractTag,
                             ContractTag, ContractExpirable
<1>3. c \in running
  BY <1>2 DEF ContractsInv, Begun
<1>4. ASSUME NEW d \in running, d # c PROVE contracts[c].start > contracts[d].start
  BY <1>1, <1>2, <1>4
<1>5. LatestByLowestId(running) = {c}
  <2>1. c \in LatestByLowestId(running)
    BY <1>1, <1>3, <1>4 DEF LatestByLowestId
  <2>2. ASSUME NEW d \in LatestByLowestId(running) PROVE d = c
    <3>1. d \in running /\ d \in Begun(asOf)
      BY DEF LatestByLowestId
    <3>2. \/ contracts[d].start > contracts[c].start
          \/ contracts[d].start = contracts[c].start /\ d <= c
      BY <1>3 DEF LatestByLowestId
    <3> HIDE DEF running
    <3> QED  BY <1>1, <1>2, <1>4, <3>1, <3>2
  <2> QED  BY <2>1, <2>2
<1>6. FindActiveContract(asOf) = {c}
  BY <1>5 DEF FindActiveContract
<1>7. ASSUME contracts[c].list \in ListPrices, FindActiveException(asOf) = {}
      PROVE  ResolvePrice(asOf) = "contract"
  BY <1>6, <1>7 DEF ResolvePrice, Prices
<1> QED  BY <1>6, <1>7

-----------------------------------------------------------------------------
(* The outbound checks (OutboundChecks).                                   *)

SkuRows ==
  [owner : {"nobody", "client", "other"}, status : {"active", "blocked"}, minLife : {1, Never}]

CheckTypes ==
  /\ facts \in Fact
  /\ checkDay \in 0..LastCheckDay
  /\ checkRun \in [next : 0..10, asOf : 0..LastCheckDay, sku : SkuRows, skuRead : BOOLEAN,
                   priceLine : {"unread", "yes", "no"}, failing : 0..10,
                   status : {"draft", "checks_pending", "credit_rejected"}]
  /\ factChanges \in Nat
  /\ everHeld \subseteq Conditions /\ everFailed \subseteq Conditions

(* What holds now has held, what does not has failed, and with nobody else *)
(* about nothing has done both.                                            *)
GhostsTell ==
  /\ HoldNow(facts, checkRun.asOf) \subseteq everHeld
  /\ Conditions \ HoldNow(facts, checkRun.asOf) \subseteq everFailed
  /\ factChanges = 0 => /\ everHeld = HoldNow(facts, checkRun.asOf)
                        /\ everFailed = Conditions \ HoldNow(facts, checkRun.asOf)

(* The owner of a SKU never changes, and its status was the one read.      *)
SkuWasSo ==
  checkRun.skuRead =>
    /\ checkRun.sku.owner = facts.skuOwner
    /\ IF checkRun.sku.status = "active" THEN 6 \in everHeld ELSE 6 \in everFailed

(* A price line found was there; where none was, the service had no price  *)
(* then, or has had an exception ever since.                               *)
PriceWasSo ==
  /\ checkRun.priceLine = "yes" => 9 \in everHeld
  /\ checkRun.priceLine = "no" => facts.exception \/ 9 \in everFailed

ProgressIsEarned ==
  /\ checkRun.next = 0 => checkRun = NotRun
  /\ checkRun.next > 2 => checkRun.skuRead
  /\ \A i \in 1..10 : i < checkRun.next => CheckOrder[i] \in everHeld
  /\ checkRun.failing # 0 => /\ checkRun.status = "draft" /\ checkRun.next \in 1..9
                             /\ checkRun.failing = CheckOrder[checkRun.next]
                             /\ checkRun.failing \in everFailed
  /\ checkRun.status = "checks_pending" => checkRun.next = 10 /\ 2 \in everHeld
  /\ checkRun.status = "credit_rejected" => checkRun.next = 10 /\ 2 \in everFailed

ChecksInv ==
  CheckTypes /\ SkuWasSo /\ PriceWasSo /\ ProgressIsEarned /\ (checkRun.next # 0 => GhostsTell)

LEMMA CheckOrderIs ==
  /\ CheckOrder \in [1..10 -> Conditions]
  /\ \A i, j \in 1..10 : CheckOrder[i] = CheckOrder[j] => i = j
  /\ \A c \in Conditions : \E i \in 1..10 : CheckOrder[i] = c
  /\ \A i \in 1..10 : CheckOrder[i] = 2 <=> i = 10
  /\ \A i \in 1..10 : CheckOrder[i] \in {4, 5, 6} => i > 2
  /\ \A i \in 1..10 : CheckOrder[i] = 9 => i = 8
<1>1. /\ CheckOrder[1] = 1 /\ CheckOrder[2] = 3 /\ CheckOrder[3] = 4 /\ CheckOrder[4] = 5 /\ CheckOrder[5] = 6
      /\ CheckOrder[6] = 7 /\ CheckOrder[7] = 8 /\ CheckOrder[8] = 9 /\ CheckOrder[9] = 10 /\ CheckOrder[10] = 2
      /\ DOMAIN CheckOrder = 1..10
      /\ CheckOrder = [i \in 1..10 |-> CheckOrder[i]]
  BY DEF CheckOrder
<1>2. \A i \in 1..10 : i \in {1, 2, 3, 4, 5, 6, 7, 8, 9, 10}
  OBVIOUS
<1>3. \A c \in Conditions : c \in {1, 2, 3, 4, 5, 6, 7, 8, 9, 10}
  BY DEF Conditions
<1>4. \A i \in 1..10 : CheckOrder[i] \in Conditions
  BY <1>1, <1>2 DEF Conditions
<1> QED  BY <1>1, <1>2, <1>3, <1>4

LEMMA LotOf ==
  ASSUME NEW f \in Fact, NEW s \in Slot
  PROVE  /\ f.lot[s].qty \in 0..1 /\ f.lot[s].blocked \in BOOLEAN
         /\ f.lot[s].expires \in 0..LastCheckDay + 1 \cup {Never}
BY DEF Fact

(* A sum of stock is one or more when some place of it has stock.          *)
LEMMA SomeStock ==
  ASSUME NEW f \in Fact, NEW places \in SUBSET Slot
  PROVE  StockOf(f, places) >= Ordered <=> \E s \in places : f.lot[s].qty > 0
<1> DEFINE qty == [s \in Slot |-> f.lot[s].qty]
           total == SumFunctionOnSet(qty, places)
<1>1. IsFiniteSet(places)
  BY CheckConstants, FS_Subset
<1>2. \A s \in places : qty[s] = f.lot[s].qty /\ qty[s] \in Int /\ 0 <= qty[s] /\ f.lot[s].qty \in 0..1
  BY LotOf
<1>3. StockOf(f, places) = total /\ total \in Int
  <2>1. StockOf(f, places) = total
    BY DEF StockOf
  <2> HIDE DEF qty
  <2> QED  BY <1>1, <1>2, <2>1, SumIsInt
<1>4. ASSUME NEW s \in places, f.lot[s].qty > 0 PROVE total >= 1
  <2> HIDE DEF qty
  <2>1. total = qty[s] + SumFunctionOnSet(qty, places \ {s})
    BY <1>1, <1>2, SumTakesOne
  <2>2. SumFunctionOnSet(qty, {}) <= SumFunctionOnSet(qty, places \ {s})
    <3>1. IsFiniteSet(places \ {s}) /\ {} \in SUBSET (places \ {s})
      BY <1>1, FS_Subset
    <3> QED  BY <1>2, <3>1, SumOfPart
  <2>3. SumFunctionOnSet(qty, {}) = 0
    BY SumOfNone
  <2>4. SumFunctionOnSet(qty, places \ {s}) \in Int
    <3>1. IsFiniteSet(places \ {s})
      BY <1>1, FS_Subset
    <3> QED  BY <1>2, <3>1, SumIsInt
  <2>5. qty[s] >= 1 /\ qty[s] \in Int
    BY <1>2, <1>4
  <2> HIDE DEF total
  <2> QED  BY <2>1, <2>2, <2>3, <2>4, <2>5
<1>5. ASSUME \A s \in places : ~(f.lot[s].qty > 0) PROVE total = 0
  <2>1. \A s \in places : qty[s] = 0
    BY <1>2, <1>5
  <2> HIDE DEF qty
  <2> QED  BY <1>1, <2>1, SumOfZeroes
<1> HIDE DEF total
<1> QED  BY <1>3, <1>4, <1>5 DEF Ordered

(* Each statement finds of its condition what is so of the facts, or for   *)
(* the SKU row what was so when the row was read.                          *)
LEMMA FindsWhatWasSo ==
  ASSUME ChecksInv, checkRun.next # 0, NEW c \in Conditions, c \in {4, 5, 6} => checkRun.skuRead,
         c = 9 => checkRun.priceLine # "unread"
  PROVE  IF Finds(c) THEN c \in everHeld ELSE c \in everFailed
<1> DEFINE asOf == checkRun.asOf
           least == MinLife(facts)
<1>1. facts \in Fact /\ asOf \in 0..LastCheckDay /\ LastCheckDay \in Nat /\ LastCheckDay < 99
  BY CheckConstants DEF ChecksInv, CheckTypes, Never
<1>2. /\ Holds(c, facts, least, asOf) => c \in everHeld
      /\ ~ Holds(c, facts, least, asOf) => c \in everFailed
  BY DEF ChecksInv, GhostsTell, HoldNow
<1>3. CASE c = 1
  <2>1. facts.ends \in Int
    BY <1>1 DEF Fact, Never
  <2>2. Finds(1) <=> facts.contract = "active" /\ facts.ends >= asOf
    BY DEF Finds, ContractActive
  <2>3. Holds(1, facts, least, asOf) <=> facts.contract = "active" /\ asOf <= facts.ends
    BY DEF Holds
  <2>4. facts.ends >= asOf <=> asOf <= facts.ends
    BY <1>1, <2>1
  <2> QED  BY <1>2, <1>3, <2>2, <2>3, <2>4
<1>4. CASE c = 2
  BY <1>2, <1>4 DEF Finds, Holds
<1>5. CASE c = 3
  <2>1. Finds(3) <=> \E s \in Slot : facts.lot[s].qty > 0
    BY <1>1, SomeStock DEF Finds, StockCovers
  <2>2. Holds(3, facts, least, asOf) <=> \E s \in Slot : facts.lot[s].qty > 0
    <3> DEFINE places == {s \in Slot : facts.lot[s].qty > 0}
    <3>1. Holds(3, facts, least, asOf) <=> {facts.lot[s] : s \in places} # {}
      BY DEF Holds
    <3>2. {facts.lot[s] : s \in places} # {} <=> places # {}
      <4> HIDE DEF places
      <4> QED  OBVIOUS
    <3> QED  BY <3>1, <3>2
  <2> QED  BY <1>2, <1>5, <2>1, <2>2
<1>6. CASE c = 4
  <2>1. Finds(4) <=> facts.skuOwner = "client"
    BY <1>6 DEF Finds, SkuIsClients, ChecksInv, SkuWasSo
  <2>2. Holds(4, facts, least, asOf) <=> facts.skuOwner = "client"
    BY DEF Holds, SkuRow
  <2> QED  BY <1>2, <1>6, <2>1, <2>2
<1>7. CASE c = 5
  <2>1. Finds(5) <=> (least # Never =>
                        \A s \in StockLots(facts) : \/ facts.lot[s].expires = Never
                                                    \/ facts.lot[s].expires - asOf >= least)
    BY <1>7 DEF Finds, ShelfLifeSuffices, MinLife
  <2>4. least \in {1, Never}
    BY <1>7 DEF MinLife, ChecksInv, CheckTypes, SkuRows
  <2>2. Holds(5, facts, least, asOf) <=> (least = Never \/
                        \A s \in StockLots(facts) : asOf + least <= facts.lot[s].expires)
    BY DEF Holds, SkuRow, StockLots
  <2>3. ASSUME NEW s \in StockLots(facts), least # Never
        PROVE  (\/ facts.lot[s].expires = Never \/ facts.lot[s].expires - asOf >= least)
                 <=> asOf + least <= facts.lot[s].expires
    <3>1. least = 1
      BY <2>3, <2>4
    <3>2. facts.lot[s].expires \in 0..LastCheckDay + 1 \cup {Never}
      BY <1>1, LotOf DEF StockLots
    <3>3. CASE facts.lot[s].expires = Never
      BY <1>1, <3>1, <3>3 DEF Never
    <3>4. CASE facts.lot[s].expires \in 0..LastCheckDay + 1 /\ facts.lot[s].expires # Never
      BY <1>1, <3>1, <3>4
    <3> QED  BY <3>2, <3>3, <3>4
  <2> HIDE DEF asOf, least
  <2> QED  BY <1>2, <1>7, <2>1, <2>2, <2>3
<1>8. CASE c = 6
  <2>1. Finds(6) <=> checkRun.sku.status = "active"
    BY DEF Finds, SkuIsActive
  <2> QED  BY <1>8, <2>1 DEF ChecksInv, SkuWasSo
<1>9. CASE c = 7
  <2>1. OpenPlaces(facts) \in SUBSET Slot
    BY DEF OpenPlaces, StockLots
  <2>2. Finds(7) <=> \E s \in OpenPlaces(facts) : facts.lot[s].qty > 0
    BY <1>1, <2>1, SomeStock DEF Finds, OpenPlacesCover
  <2>3. Holds(7, facts, least, asOf) <=> \E s \in Slot : facts.lot[s].qty > 0 /\ ~ facts.lot[s].blocked
    BY DEF Holds
  <2> QED  BY <1>2, <1>9, <2>2, <2>3 DEF OpenPlaces, StockLots
<1>10. CASE c = 8
  BY <1>2, <1>10 DEF Finds, Holds
<1>11. CASE c = 9
  <2>1. Finds(9) <=> checkRun.priceLine = "yes" \/ facts.exception
    BY DEF Finds, ServicePriced
  <2>2. facts.exception => 9 \in everHeld
    BY <1>2, <1>11 DEF Holds
  <2>3. checkRun.priceLine \in {"yes", "no"}
    BY <1>11 DEF ChecksInv, CheckTypes
  <2> QED  BY <1>11, <2>1, <2>2, <2>3 DEF ChecksInv, PriceWasSo
<1>12. CASE c = 10
  <2>1. Finds(10) <=> (facts.limit = Never \/ 1 <= facts.limit)
    BY DEF Finds, WithinLimit, Ordered
  <2>2. Holds(10, facts, least, asOf) <=> (facts.limit = Never \/ 1 <= facts.limit)
    BY DEF Holds
  <2> QED  BY <1>2, <1>12, <2>1, <2>2
<1>13. c \in {1, 2, 3, 4, 5, 6, 7, 8, 9, 10}
  BY DEF Conditions
<1> QED  BY <1>3, <1>4, <1>5, <1>6, <1>7, <1>8, <1>9, <1>10, <1>11, <1>12, <1>13

LEMMA InitChecksKeeps == InitChecks => ChecksInv
<1> SUFFICES ASSUME InitChecks PROVE ChecksInv
  OBVIOUS
<1>1. HoldNow(facts, checkDay) \subseteq Conditions
  BY DEF HoldNow
<1>2. /\ checkRun.next = 0 /\ checkRun.failing = 0 /\ checkRun.status = "draft" /\ ~ checkRun.skuRead
      /\ checkRun.priceLine = "unread"
  BY DEF InitChecks, NotRun
<1>3. CheckTypes
  BY <1>1, CheckConstants DEF InitChecks, CheckTypes, NotRun, NoSku, SkuRows
<1>4. SkuWasSo /\ PriceWasSo /\ ProgressIsEarned
  BY <1>2 DEF SkuWasSo, PriceWasSo, ProgressIsEarned, InitChecks
<1> QED  BY <1>2, <1>3, <1>4 DEF ChecksInv

LEMMA BeginChecksKeeps == ChecksInv /\ BeginChecks => ChecksInv'
<1> SUFFICES ASSUME ChecksInv, BeginChecks PROVE ChecksInv'
  OBVIOUS
<1>1. /\ checkRun = NotRun /\ checkRun' = [NotRun EXCEPT !.next = 1, !.asOf = checkDay]
      /\ everHeld' = HoldNow(facts, checkDay) /\ everFailed' = Conditions \ HoldNow(facts, checkDay)
      /\ UNCHANGED <<facts, checkDay, factChanges>>
  BY DEF BeginChecks
<1>2. HoldNow(facts, checkDay) \subseteq Conditions
  BY DEF HoldNow
<1>3. checkRun' = [next |-> 1, asOf |-> checkDay, sku |-> NoSku, skuRead |-> FALSE,
                   priceLine |-> "unread", status |-> "draft", failing |-> 0]
  BY <1>1 DEF NotRun
<1>4. CheckTypes'
  <2>1. NoSku \in SkuRows /\ checkDay \in 0..LastCheckDay
    BY DEF NoSku, SkuRows, ChecksInv, CheckTypes
  <2>2. ASSUME NEW n \in 0..10, NEW k \in 0..10
        PROVE  [next |-> n, asOf |-> checkDay, sku |-> NoSku, skuRead |-> FALSE,
                  priceLine |-> "unread", status |-> "draft", failing |-> k]
                 \in [next : 0..10, asOf : 0..LastCheckDay, sku : SkuRows, skuRead : BOOLEAN,
                      priceLine : {"unread", "yes", "no"}, failing : 0..10,
                      status : {"draft", "checks_pending", "credit_rejected"}]
    BY <2>1
  <2>3. 1 \in 0..10 /\ 0 \in 0..10
    OBVIOUS
  <2>4. checkRun' \in [next : 0..10, asOf : 0..LastCheckDay, sku : SkuRows, skuRead : BOOLEAN,
                       priceLine : {"unread", "yes", "no"}, failing : 0..10,
                       status : {"draft", "checks_pending", "credit_rejected"}]
    BY <1>3, <2>2, <2>3
  <2> QED  BY <1>1, <1>2, <2>4 DEF ChecksInv, CheckTypes
<1>5. SkuWasSo' /\ PriceWasSo' /\ ProgressIsEarned'
  BY <1>3 DEF SkuWasSo, PriceWasSo, ProgressIsEarned
<1>6. GhostsTell'
  <2>1. MinLife(facts)' = MinLife(facts)
    BY <1>1, <1>3 DEF MinLife, NotRun
  <2>2. HoldNow(facts, checkRun.asOf)' = HoldNow(facts, checkDay)
    BY <1>1, <1>3, <2>1 DEF HoldNow
  <2> QED  BY <1>1, <2>2 DEF GhostsTell
<1> QED  BY <1>4, <1>5, <1>6 DEF ChecksInv

(* A step that leaves the facts alone and the minimum life that counts.    *)
LEMMA SameGhosts ==
  ASSUME GhostsTell, MinLife(facts)' = MinLife(facts), checkRun'.asOf = checkRun.asOf,
         UNCHANGED <<facts, factChanges, everHeld, everFailed>>
  PROVE  GhostsTell'
<1>1. HoldNow(facts, checkRun.asOf)' = HoldNow(facts, checkRun.asOf)
  BY DEF HoldNow
<1> QED  BY <1>1 DEF GhostsTell

LEMMA ReadSkusKeeps == ChecksInv /\ ReadSkus => ChecksInv'
<1> SUFFICES ASSUME ChecksInv, ReadSkus PROVE ChecksInv'
  OBVIOUS
<1> DEFINE sku == SkuRow(facts)
<1>1. /\ checkRun.next = 2 /\ checkRun' = [checkRun EXCEPT !.sku = sku, !.skuRead = TRUE]
      /\ UNCHANGED <<facts, checkDay, factChanges, everHeld, everFailed>>
  BY DEF ReadSkus
<1>2. sku \in SkuRows /\ sku.owner = facts.skuOwner /\ sku.status = facts.skuStatus /\ sku.minLife = facts.minLife
  BY DEF SkuRow, SkuRows, ChecksInv, CheckTypes, Fact
<1>3. IF facts.skuStatus = "active" THEN 6 \in everHeld ELSE 6 \in everFailed
  <2>1. Holds(6, facts, MinLife(facts), checkRun.asOf) <=> facts.skuStatus = "active"
    BY DEF Holds
  <2>2. 6 \in Conditions
    BY DEF Conditions
  <2> QED  BY <1>1, <2>1, <2>2 DEF ChecksInv, GhostsTell, HoldNow
<1> HIDE DEF sku
<1>4. /\ checkRun'.next = checkRun.next /\ checkRun'.asOf = checkRun.asOf /\ checkRun'.status = checkRun.status
      /\ checkRun'.failing = checkRun.failing /\ checkRun'.sku = sku /\ checkRun'.skuRead
      /\ checkRun'.priceLine = checkRun.priceLine
  BY <1>1 DEF ChecksInv, CheckTypes
<1>5. CheckTypes'
  BY <1>1, <1>2 DEF ChecksInv, CheckTypes
<1>6. SkuWasSo' /\ PriceWasSo'
  BY <1>1, <1>2, <1>3, <1>4 DEF SkuWasSo, PriceWasSo, ChecksInv
<1>7. ProgressIsEarned'
  BY <1>1, <1>4 DEF ChecksInv, ProgressIsEarned
<1>8. GhostsTell'
  <2>1. MinLife(facts)' = MinLife(facts)
    BY <1>1, <1>2, <1>4 DEF MinLife, ReadSkus
  <2> QED  BY <1>1, <1>4, <2>1, SameGhosts DEF ChecksInv
<1> QED  BY <1>5, <1>6, <1>7, <1>8 DEF ChecksInv

LEMMA ReadPriceLineKeeps == ChecksInv /\ ReadPriceLine => ChecksInv'
<1> SUFFICES ASSUME ChecksInv, ReadPriceLine PROVE ChecksInv'
  OBVIOUS
<1> DEFINE found == IF facts.priceLine THEN "yes" ELSE "no"
<1>1. /\ checkRun.next = 8 /\ checkRun' = [checkRun EXCEPT !.priceLine = found]
      /\ UNCHANGED <<facts, checkDay, factChanges, everHeld, everFailed>>
  BY DEF ReadPriceLine
<1>2. /\ found = "yes" => 9 \in everHeld
      /\ found = "no" => facts.exception \/ 9 \in everFailed
      /\ found \in {"unread", "yes", "no"}
  <2>1. Holds(9, facts, MinLife(facts), checkRun.asOf) <=> facts.priceLine \/ facts.exception
    BY DEF Holds
  <2>2. 9 \in Conditions
    BY DEF Conditions
  <2> QED  BY <1>1, <2>1, <2>2 DEF ChecksInv, GhostsTell, HoldNow
<1> HIDE DEF found
<1>3. /\ checkRun'.next = checkRun.next /\ checkRun'.asOf = checkRun.asOf /\ checkRun'.status = checkRun.status
      /\ checkRun'.failing = checkRun.failing /\ checkRun'.sku = checkRun.sku
      /\ checkRun'.skuRead = checkRun.skuRead /\ checkRun'.priceLine = found
  BY <1>1 DEF ChecksInv, CheckTypes
<1>4. CheckTypes'
  BY <1>1, <1>2 DEF ChecksInv, CheckTypes
<1>5. SkuWasSo' /\ PriceWasSo'
  BY <1>1, <1>2, <1>3 DEF SkuWasSo, PriceWasSo, ChecksInv
<1>6. ProgressIsEarned'
  BY <1>1, <1>3 DEF ChecksInv, ProgressIsEarned
<1>7. GhostsTell'
  <2>1. MinLife(facts)' = MinLife(facts)
    BY <1>1, <1>3 DEF MinLife
  <2> QED  BY <1>1, <1>3, <2>1, SameGhosts DEF ChecksInv
<1> QED  BY <1>4, <1>5, <1>6, <1>7 DEF ChecksInv

LEMMA CheckConditionKeeps == ChecksInv /\ CheckCondition => ChecksInv'
<1> SUFFICES ASSUME ChecksInv, CheckCondition PROVE ChecksInv'
  OBVIOUS
<1>1. /\ checkRun.next \in 1..10 /\ checkRun.status = "draft" /\ checkRun.failing = 0
      /\ checkRun.next = 2 => checkRun.skuRead
      /\ checkRun.next = 8 => checkRun.priceLine # "unread"
      /\ UNCHANGED <<facts, checkDay, factChanges, everHeld, everFailed>>
  BY DEF CheckCondition, Judged
<1>2. PICK c \in Conditions : c = CheckOrder[checkRun.next]
  BY <1>1, CheckOrderIs
<1>3. /\ c = 2 <=> checkRun.next = 10
      /\ c \in {4, 5, 6} => checkRun.skuRead
      /\ c = 9 => checkRun.priceLine # "unread"
  BY <1>1, <1>2, CheckOrderIs DEF ChecksInv, ProgressIsEarned
<1>4. /\ Finds(c) => c \in everHeld
      /\ ~ Finds(c) => c \in everFailed
  BY <1>1, <1>3, FindsWhatWasSo
<1>5. /\ Finds(c) /\ c # 2   => checkRun' = [checkRun EXCEPT !.next = checkRun.next + 1]
      /\ Finds(c) /\ c = 2   => checkRun' = [checkRun EXCEPT !.status = "checks_pending"]
      /\ ~ Finds(c) /\ c = 2 => checkRun' = [checkRun EXCEPT !.status = "credit_rejected"]
      /\ ~ Finds(c) /\ c # 2 => checkRun' = [checkRun EXCEPT !.failing = c]
  BY <1>2 DEF CheckCondition
<1>6. /\ checkRun'.asOf = checkRun.asOf /\ checkRun'.sku = checkRun.sku /\ checkRun'.skuRead = checkRun.skuRead
      /\ checkRun'.priceLine = checkRun.priceLine
  BY <1>5 DEF ChecksInv, CheckTypes
<1>7. CheckTypes'
  <2>1. c \in 0..10 /\ (c # 2 => checkRun.next + 1 \in 0..10)
    BY <1>1, <1>3 DEF Conditions
  <2>2. checkRun' \in [next : 0..10, asOf : 0..LastCheckDay, sku : SkuRows, skuRead : BOOLEAN,
                       priceLine : {"unread", "yes", "no"}, failing : 0..10,
                       status : {"draft", "checks_pending", "credit_rejected"}]
    BY <1>5, <2>1 DEF ChecksInv, CheckTypes
  <2> QED  BY <1>1, <2>2 DEF ChecksInv, CheckTypes
<1>8. SkuWasSo' /\ PriceWasSo'
  BY <1>1, <1>6 DEF ChecksInv, SkuWasSo, PriceWasSo
<1>9. GhostsTell'
  <2>1. MinLife(facts)' = MinLife(facts) /\ checkRun.next # 0
    BY <1>1, <1>6 DEF MinLife
  <2> QED  BY <1>1, <1>6, <2>1, SameGhosts DEF ChecksInv
<1>10. ProgressIsEarned'
  <2>1. CASE Finds(c) /\ c # 2
    <3>1. checkRun'.next = checkRun.next + 1 /\ checkRun'.status = "draft" /\ checkRun'.failing = 0
      BY <1>1, <1>5, <2>1 DEF ChecksInv, CheckTypes
    <3>2. checkRun'.next > 2 => checkRun'.skuRead
      BY <1>1, <1>6, <3>1 DEF ChecksInv, ProgressIsEarned
    <3>3. ASSUME NEW i \in 1..10, i < checkRun'.next PROVE CheckOrder[i] \in everHeld
      <4>1. i < checkRun.next \/ i = checkRun.next
        BY <1>1, <3>1, <3>3
      <4> QED  BY <1>2, <1>4, <2>1, <4>1 DEF ChecksInv, ProgressIsEarned
    <3>4. checkRun'.next # 0
      BY <1>1, <3>1
    <3> QED  BY <1>1, <3>1, <3>2, <3>3, <3>4 DEF ProgressIsEarned
  <2>2. CASE c = 2
    <3>1. /\ checkRun'.next = 10 /\ checkRun'.failing = 0
          /\ checkRun'.status = IF Finds(c) THEN "checks_pending" ELSE "credit_rejected"
      BY <1>1, <1>3, <1>5, <2>2 DEF ChecksInv, CheckTypes
    <3> QED  BY <1>1, <1>3, <1>4, <1>6, <2>2, <3>1 DEF ChecksInv, ProgressIsEarned
  <2>3. CASE ~ Finds(c) /\ c # 2
    <3>1. checkRun'.next = checkRun.next /\ checkRun'.status = "draft" /\ checkRun'.failing = c
      BY <1>1, <1>5, <2>3 DEF ChecksInv, CheckTypes
    <3>2. checkRun.next \in 1..9
      BY <1>1, <1>3, <2>3
    <3> QED  BY <1>1, <1>2, <1>4, <1>6, <2>3, <3>1, <3>2 DEF ChecksInv, ProgressIsEarned
  <2> QED  BY <2>1, <2>2, <2>3
<1> QED  BY <1>7, <1>8, <1>9, <1>10 DEF ChecksInv

(* What others may change: never whose SKU it is, and no exception ends.   *)
LEMMA FactChangesAre ==
  ASSUME facts \in Fact, NEW f \in FactChange
  PROVE  f \in Fact /\ f.skuOwner = facts.skuOwner /\ (facts.exception => f.exception)
<1>1. CASE f \in {[facts EXCEPT !.contract = "none"], [facts EXCEPT !.skuStatus = "blocked"],
                  [facts EXCEPT !.skuStatus = "active"], [facts EXCEPT !.creditHold = ~@],
                  [facts EXCEPT !.exception = TRUE], [facts EXCEPT !.limit = 0],
                  [facts EXCEPT !.priceLine = ~@]}
  <2>1. CASE f \in {[facts EXCEPT !.contract = "none"], [facts EXCEPT !.skuStatus = "blocked"],
                    [facts EXCEPT !.skuStatus = "active"]}
    BY <2>1 DEF Fact
  <2>2. CASE f \in {[facts EXCEPT !.creditHold = ~@], [facts EXCEPT !.exception = TRUE]}
    BY <2>2 DEF Fact
  <2>3. CASE f \in {[facts EXCEPT !.limit = 0], [facts EXCEPT !.priceLine = ~@]}
    BY <2>3 DEF Fact
  <2> QED  BY <1>1, <2>1, <2>2, <2>3
<1>2. ASSUME NEW day \in 0..LastCheckDay \cup {Never}, f = [facts EXCEPT !.ends = day]
      PROVE  f \in Fact /\ f.skuOwner = facts.skuOwner /\ (facts.exception => f.exception)
  BY <1>2 DEF Fact
<1>3. ASSUME NEW days \in {1, Never}, f = [facts EXCEPT !.minLife = days]
      PROVE  f \in Fact /\ f.skuOwner = facts.skuOwner /\ (facts.exception => f.exception)
  BY <1>3 DEF Fact
<1>4. ASSUME NEW lot \in [Slot -> [qty : 0..1, expires : 0..LastCheckDay + 1 \cup {Never}, blocked : BOOLEAN]],
             f = [facts EXCEPT !.lot = lot]
      PROVE  f \in Fact /\ f.skuOwner = facts.skuOwner /\ (facts.exception => f.exception)
  BY <1>4 DEF Fact
<1> DEFINE Lot == [qty : 0..1, expires : 0..LastCheckDay + 1 \cup {Never}, blocked : BOOLEAN]
<1>5. facts.lot \in [Slot -> Lot]
  BY DEF Fact
<1>6. ASSUME NEW s \in Slot, f = BlockChanged(s)
      PROVE  f \in Fact /\ f.skuOwner = facts.skuOwner /\ (facts.exception => f.exception)
  <2> DEFINE lot == [facts.lot EXCEPT ![s].blocked = ~ facts.lot[s].blocked]
  <2>1. f = [facts EXCEPT !.lot = lot]
    BY <1>6 DEF BlockChanged
  <2>2. lot \in [Slot -> Lot]
    BY <1>5
  <2> QED  BY <1>4, <2>1, <2>2
<1>7. ASSUME NEW s \in Slot, f = StockPosted(s)
      PROVE  f \in Fact /\ f.skuOwner = facts.skuOwner /\ (facts.exception => f.exception)
  <2> DEFINE lot == [facts.lot EXCEPT ![s].qty = 1 - facts.lot[s].qty]
  <2>1. f = [facts EXCEPT !.lot = lot]
    BY <1>7 DEF StockPosted
  <2>2. 1 - facts.lot[s].qty \in 0..1
    BY <1>5
  <2>3. lot \in [Slot -> Lot]
    BY <1>5, <2>2
  <2> QED  BY <1>4, <2>1, <2>3
<1>8. ASSUME NEW s \in Slot, NEW t \in Slot, f = StockMoved(s, t)
      PROVE  f \in Fact /\ f.skuOwner = facts.skuOwner /\ (facts.exception => f.exception)
  <2> DEFINE lot1 == [facts.lot EXCEPT ![s].qty = facts.lot[t].qty]
             lot == [lot1 EXCEPT ![t].qty = facts.lot[s].qty]
  <2>1. f = [facts EXCEPT !.lot = lot]
    BY <1>8 DEF StockMoved
  <2>2. lot1 \in [Slot -> Lot]
    BY <1>5
  <2>3. lot \in [Slot -> Lot]
    <3> HIDE DEF lot1
    <3> QED  BY <1>5, <2>2
  <2> HIDE DEF lot
  <2> QED  BY <1>4, <2>1, <2>3
<1>9. \/ f \in {[facts EXCEPT !.contract = "none"], [facts EXCEPT !.skuStatus = "blocked"],
               [facts EXCEPT !.skuStatus = "active"], [facts EXCEPT !.creditHold = ~@],
               [facts EXCEPT !.exception = TRUE], [facts EXCEPT !.limit = 0],
               [facts EXCEPT !.priceLine = ~@]}
      \/ \E day \in 0..LastCheckDay \cup {Never} : f = [facts EXCEPT !.ends = day]
      \/ \E days \in {1, Never} : f = [facts EXCEPT !.minLife = days]
      \/ \E s \in Slot : f = BlockChanged(s) \/ f = StockPosted(s)
      \/ \E s \in Slot, t \in Slot : f = StockMoved(s, t)
  BY DEF FactChange
<1> QED  BY <1>1, <1>2, <1>3, <1>6, <1>7, <1>8, <1>9

LEMMA ChangeFactsKeeps ==
  ASSUME ChecksInv, NEW f \in FactChange, ChangeFacts(f)
  PROVE  ChecksInv'
<1>1. /\ facts' = f /\ factChanges' = factChanges + 1 /\ UNCHANGED <<checkDay, checkRun>>
      /\ everHeld' = everHeld \cup HoldNow(f, checkRun.asOf)
      /\ everFailed' = everFailed \cup (Conditions \ HoldNow(f, checkRun.asOf))
  BY DEF ChangeFacts, Remember
<1>2. f \in Fact /\ f.skuOwner = facts.skuOwner /\ (facts.exception => f.exception)
  BY FactChangesAre DEF ChecksInv, CheckTypes
<1>3. HoldNow(f, checkRun.asOf) \subseteq Conditions
  BY DEF HoldNow
<1>4. CheckTypes'
  BY <1>1, <1>2, <1>3 DEF ChecksInv, CheckTypes
<1>5. SkuWasSo' /\ PriceWasSo' /\ ProgressIsEarned'
  BY <1>1, <1>2 DEF ChecksInv, SkuWasSo, PriceWasSo, ProgressIsEarned
<1>6. factChanges' # 0
  BY <1>1 DEF ChecksInv, CheckTypes
<1>7. GhostsTell'
  <2>1. HoldNow(facts, checkRun.asOf)' = HoldNow(f, checkRun.asOf)
    BY <1>1 DEF HoldNow, MinLife
  <2> QED  BY <1>1, <1>6, <2>1 DEF GhostsTell
<1> QED  BY <1>4, <1>5, <1>7 DEF ChecksInv

LEMMA NextChecksKeeps == ChecksInv /\ [NextChecks]_checkVars => ChecksInv'
<1> SUFFICES ASSUME ChecksInv, [NextChecks]_checkVars PROVE ChecksInv'
  OBVIOUS
<1>1. CASE UNCHANGED checkVars
  BY <1>1 DEF checkVars, ChecksInv, CheckTypes, SkuWasSo, PriceWasSo, ProgressIsEarned, GhostsTell,
                    HoldNow, MinLife
<1>2. CASE NextCheckDay
  <2>1. UNCHANGED <<facts, checkRun, factChanges, everHeld, everFailed>> /\ checkDay' \in 0..LastCheckDay
    BY <1>2, CheckConstants DEF NextCheckDay, ChecksInv, CheckTypes
  <2> QED  BY <2>1 DEF ChecksInv, CheckTypes, SkuWasSo, PriceWasSo, ProgressIsEarned, GhostsTell,
                         HoldNow, MinLife
<1> QED
  BY <1>1, <1>2, BeginChecksKeeps, ReadSkusKeeps, ReadPriceLineKeeps, CheckConditionKeeps,
     ChangeFactsKeeps DEF NextChecks

LEMMA ChecksTellTruly == ChecksInv => VerdictIsTrue
<1> SUFFICES ASSUME ChecksInv, Judged PROVE VerdictIsTrue
  BY DEF VerdictIsTrue
<1> DEFINE n == checkRun.next
           F == FailingAt(facts, checkRun.asOf)
<1>1. n # 0 /\ n \in 0..10
  BY DEF Judged, ChecksInv, CheckTypes, ProgressIsEarned, NotRun
<1>2. \A i \in 1..10 : i < n => CheckOrder[i] \in everHeld
  BY DEF ChecksInv, ProgressIsEarned
<1>3. /\ checkRun.failing # 0 => /\ checkRun.status = "draft" /\ n \in 1..9
                                 /\ checkRun.failing = CheckOrder[n] /\ checkRun.failing \in everFailed
      /\ checkRun.status = "checks_pending" => n = 10 /\ 2 \in everHeld
      /\ checkRun.status = "credit_rejected" => n = 10 /\ 2 \in everFailed
      /\ checkRun.status \in {"draft", "checks_pending", "credit_rejected"}
      /\ checkRun.failing \in Int
  BY DEF ChecksInv, CheckTypes, ProgressIsEarned
<1>4. everHeld \subseteq Conditions /\ everFailed \subseteq Conditions
  BY DEF ChecksInv, CheckTypes
<1>5. checkRun.failing # 0 \/ checkRun.status # "draft"
  BY DEF Judged
<1>6. ASSUME factChanges = 0
      PROVE  CASE F = {}   -> checkRun.status = "checks_pending"
               [] F = {10} -> checkRun.status = "credit_rejected"
               [] OTHER    -> checkRun.failing = CheckOrder[Min(F)]
  <2>1. \A i \in 1..10 : i \in F <=> CheckOrder[i] \in everFailed
    <3>1. everFailed = {c \in Conditions : ~ Holds(c, facts, MinLife(facts), checkRun.asOf)}
      BY <1>1, <1>6 DEF ChecksInv, GhostsTell, HoldNow
    <3>2. \A i \in 1..10 : i \in F <=> ~ Holds(CheckOrder[i], facts, MinLife(facts), checkRun.asOf)
      BY CheckOrderIs DEF FailingAt, HoldNow
    <3> QED  BY <3>1, <3>2, CheckOrderIs
  <2>2. F \subseteq 1..10 /\ everHeld \cap everFailed = {}
    BY <1>1, <1>6 DEF FailingAt, ChecksInv, GhostsTell, HoldNow
  <2>3. \A i \in 1..10 : i < n => i \notin F
    BY <1>2, <2>1, <2>2
  <2>4. CheckOrder[10] = 2
    BY CheckOrderIs
  <2> HIDE DEF F
  <2>5. CASE checkRun.failing # 0
    <3>1. n \in F /\ n \in 1..9
      BY <1>3, <2>1, <2>5
    <3>2. F # {} /\ F # {10}
      BY <3>1
    <3>3. Min(F) = n
      <4>1. \A k \in F : n <= k
        BY <2>2, <2>3, <3>1
      <4>2. PICK m : m = Min(F)
        OBVIOUS
      <4>3. m \in F /\ \A k \in F : m <= k
        BY <3>1, <4>1, <4>2 DEF Min
      <4> QED  BY <2>2, <3>1, <4>1, <4>2, <4>3
    <3> QED  BY <1>3, <2>5, <3>2, <3>3
  <2>6. CASE checkRun.status = "checks_pending"
    <3>1. F = {}
      <4>1. ASSUME NEW i \in 1..10, i \in F PROVE FALSE
        <5>1. i = 10
          BY <1>3, <2>3, <2>6, <4>1
        <5> QED  BY <1>3, <2>1, <2>2, <2>4, <2>6, <4>1, <5>1
      <4> QED  BY <2>2, <4>1
    <3> QED  BY <2>6, <3>1
  <2>7. CASE checkRun.status = "credit_rejected"
    <3>1. 10 \in F
      BY <1>3, <2>1, <2>4, <2>7
    <3>2. \A i \in F : i = 10
      BY <1>3, <2>2, <2>3, <2>7
    <3>3. F = {10}
      BY <3>1, <3>2
    <3> QED  BY <2>7, <3>3
  <2> QED  BY <1>3, <1>5, <2>5, <2>6, <2>7
<1>7. ASSUME checkRun.failing # 0
      PROVE  checkRun.failing \in everFailed /\ Earlier(checkRun.failing) \subseteq everHeld
  <2>1. n \in 1..10 /\ checkRun.failing = CheckOrder[n]
    BY <1>3, <1>7
  <2>2. (CHOOSE k \in 1..10 : CheckOrder[k] = checkRun.failing) = n
    BY <2>1, CheckOrderIs
  <2>3. \A i \in 1..(n - 1) : i \in 1..10 /\ i < n
    BY <2>1
  <2> QED  BY <1>2, <1>3, <1>7, <2>2, <2>3 DEF Earlier
<1>8. n = 10 => Conditions \ {2} \subseteq everHeld
  <2> SUFFICES ASSUME n = 10, NEW c \in Conditions \ {2} PROVE c \in everHeld
    OBVIOUS
  <2>1. PICK i \in 1..10 : CheckOrder[i] = c
    BY CheckOrderIs
  <2>2. i # 10
    BY <2>1, CheckOrderIs
  <2> QED  BY <1>2, <2>1, <2>2
<1> HIDE DEF n, F
<1>9. /\ checkRun.status = "checks_pending" => everHeld = Conditions
      /\ checkRun.status = "credit_rejected" => 2 \in everFailed /\ Conditions \ {2} \subseteq everHeld
  BY <1>3, <1>4, <1>8
<1> QED  BY <1>6, <1>7, <1>9 DEF VerdictIsTrue, F

-----------------------------------------------------------------------------
(* The interval between two codes (LoginCodes), and the lock that keeps it. *)

(* Who has cleared a request holds the advisory lock of the address, so    *)
(* what it found of the codes issued before stays so until it inserts.     *)
RequestsAreHeld ==
  \A c \in LoginCall : loginCall[c].step = "cleared" => requestLock = c /\ MayIssue(loginCall[c].at)

IssueInstants == \A i \in 1..Len(codes) : codes[i].expires = codes[i].issued + ExpiryMinutes

SpacedInv == RequestsAreHeld /\ IssueInstants /\ RequestsAreSpaced

LEMMA InitLoginSpaced == InitLogin => SpacedInv
BY DEF InitLogin, SpacedInv, RequestsAreHeld, IssueInstants, RequestsAreSpaced, NoLoginCall

(* The codes keep their instants, and nobody clears a request.             *)
LEMMA SpacingStays ==
  ASSUME LoginInv, SpacedInv, Len(codes') = Len(codes),
         \A i \in 1..Len(codes) : codes'[i].issued = codes[i].issued /\ codes'[i].expires = codes[i].expires,
         \A c \in LoginCall : loginCall'[c].step = "cleared" =>
           loginCall'[c] = loginCall[c] /\ (requestLock = c => requestLock' = c)
  PROVE  SpacedInv'
<1>1. \A m : IssuedAfter(m)' = IssuedAfter(m)
  BY DEF IssuedAfter
<1>2. RequestsAreHeld'
  BY <1>1 DEF SpacedInv, RequestsAreHeld, MayIssue
<1>3. IssueInstants' /\ RequestsAreSpaced'
  BY DEF SpacedInv, IssueInstants, RequestsAreSpaced
<1> QED  BY <1>2, <1>3 DEF SpacedInv

(* The locks of a call that ends are not those of another.                 *)
LEMMA EndedIsNotCleared ==
  ASSUME LoginInv, NEW c \in LoginCall, EndCall(c), NEW d \in LoginCall, loginCall'[d].step = "cleared"
  PROVE  loginCall'[d] = loginCall[d] /\ (requestLock = d => requestLock' = d)
BY NoCallIsACall, EndedCall DEF LoginInv, EndCall

LEMMA ClearRequestSpaced ==
  ASSUME LoginInv, SpacedInv, NEW c \in LoginCall, ClearRequest(c)
  PROVE  SpacedInv'
<1>1. /\ MayIssue(minute) /\ requestLock \in {"none", c} /\ requestLock' = c
      /\ loginCall' = [loginCall EXCEPT ![c].step = "cleared", ![c].at = minute]
      /\ UNCHANGED <<codes, minute>>
  BY DEF ClearRequest, RequestLockFree
<1>2. loginCall'[c].at = minute /\ \A d \in LoginCall : d # c => loginCall'[d] = loginCall[d]
  BY <1>1 DEF LoginInv, LoginTypes, CallState
<1>3. \A m : IssuedAfter(m)' = IssuedAfter(m)
  BY <1>1 DEF IssuedAfter
<1>4. \A d \in LoginCall : d # c => loginCall[d].step # "cleared"
  BY <1>1, LoginAssumption DEF SpacedInv, RequestsAreHeld
<1>5. RequestsAreHeld'
  BY <1>1, <1>2, <1>3, <1>4 DEF RequestsAreHeld, MayIssue
<1> QED  BY <1>1, <1>5 DEF SpacedInv, IssueInstants, RequestsAreSpaced

LEMMA IssueCodeSpaced ==
  ASSUME LoginInv, SpacedInv, NEW c \in LoginCall, IssueCode(c)
  PROVE  SpacedInv'
<1> DEFINE n == Len(codes)
           at == loginCall[c].at
           new == [expires |-> at + ExpiryMinutes, consumed |-> FALSE,
                   attempts |-> 0, issued |-> at, refusals |-> 0]
<1>1. /\ codes \in Seq(CodeRow) /\ n \in Nat /\ at \in Nat
      /\ {ExpiryMinutes, ResendAfter, RequestsPerHour, HourLength} \subseteq Nat
      /\ \A i \in 1..n : codes[i].issued \in Nat /\ codes[i].expires = codes[i].issued + ExpiryMinutes
  <2>1. codes \in Seq(CodeRow) /\ at \in Nat
    BY DEF LoginInv, LoginTypes, CallState
  <2>2. \A i \in 1..n : codes[i] \in CodeRow
    BY <2>1
  <2>3. \A i \in 1..n : codes[i].issued \in Nat /\ codes[i].expires = codes[i].issued + ExpiryMinutes
    BY <2>2 DEF CodeRow, SpacedInv, IssueInstants
  <2>4. n \in Nat
    BY <2>1
  <2> QED  BY <2>1, <2>3, <2>4, LoginAssumption
<1>2. /\ Len(codes') = n + 1 /\ codes'[n + 1].issued = at /\ codes'[n + 1].expires = at + ExpiryMinutes
      /\ \A i \in 1..n : codes'[i].issued = codes[i].issued /\ codes'[i].expires = codes[i].expires
  <2> DEFINE Ended(i) == [codes[i] EXCEPT !.consumed = TRUE]
  <2>1. \A i \in 1..n : codes[i] \in CodeRow
    BY <1>1
  <2>2. \A i \in 1..n : Ended(i) \in CodeRow /\ Ended(i).issued = codes[i].issued /\ Ended(i).expires = codes[i].expires
    BY <2>1 DEF CodeRow
  <2>3. Superseded = [i \in 1..n |-> Ended(i)]
    BY DEF Superseded
  <2>4. new \in CodeRow /\ new.issued = at /\ new.expires = at + ExpiryMinutes
    BY <1>1 DEF CodeRow
  <2>5. codes' = Append(Superseded, new)
    BY DEF IssueCode
  <2> HIDE DEF Ended, n, new, at
  <2>6. Superseded \in Seq(CodeRow) /\ Len(Superseded) = n
    BY <1>1, <2>2, <2>3
  <2>7. Len(codes') = n + 1 /\ codes'[n + 1] = new /\ \A i \in 1..n : codes'[i] = Superseded[i]
    BY <1>1, <2>4, <2>5, <2>6
  <2> QED  BY <2>2, <2>3, <2>4, <2>7
<1>3. MayIssue(at) /\ requestLock = c
  BY DEF SpacedInv, RequestsAreHeld, IssueCode
<1>4. \A d \in LoginCall : loginCall'[d].step # "cleared"
  <2>1. EndCall(c) /\ loginCall'[c].step = "idle" /\ \A d \in LoginCall : d # c => loginCall'[d] = loginCall[d]
    BY EndedCall DEF LoginInv, IssueCode
  <2> QED  BY <1>3, <2>1 DEF SpacedInv, RequestsAreHeld
<1> HIDE DEF new, at, n
<1>5. \A i \in 1..n : codes[i].issued + ResendAfter <= at
  <2> SUFFICES ASSUME NEW i \in 1..n PROVE codes[i].issued + ResendAfter <= at
    OBVIOUS
  <2>1. ~ (codes[i].expires - ExpiryMinutes > at - ResendAfter)
    BY <1>3 DEF MayIssue, IssuedAfter, n
  <2>2. codes[i].issued \in Nat /\ codes[i].expires = codes[i].issued + ExpiryMinutes
        /\ ExpiryMinutes \in Nat /\ ResendAfter \in Nat
    BY <1>1
  <2> QED  BY <1>1, <2>1, <2>2
<1>6. ASSUME NEW i \in 1..n, n + 1 - i >= RequestsPerHour
      PROVE  codes[i].issued + HourLength <= at
  <2> SUFFICES ASSUME codes[i].issued + HourLength > at PROVE FALSE
    <3>1. codes[i].issued \in Nat /\ HourLength \in Nat
      BY <1>1
    <3> QED  BY <1>1, <3>1
  <2> DEFINE late == IssuedAfter(at - HourLength)
  <2>1. ASSUME NEW k \in i..n PROVE k \in late
    <3>1. k \in 1..n /\ i <= k
      BY <1>1
    <3>2. codes[i].issued <= codes[k].issued
      <4>1. codes[i].issued \in Nat /\ ResendAfter \in Nat /\ codes[k].issued \in Nat
        BY <1>1, <3>1
      <4>2. CASE i = k
        BY <4>1, <4>2
      <4>3. CASE i < k
        <5>1. codes[i].issued + ResendAfter <= codes[k].issued
          BY <3>1, <4>3 DEF SpacedInv, RequestsAreSpaced, n
        <5> QED  BY <4>1, <5>1
      <4> QED  BY <1>1, <3>1, <4>2, <4>3
    <3>3. codes[k].expires - ExpiryMinutes > at - HourLength
      <4>1. /\ codes[i].issued \in Nat /\ codes[k].issued \in Nat /\ HourLength \in Nat /\ ExpiryMinutes \in Nat
            /\ codes[k].expires = codes[k].issued + ExpiryMinutes
        BY <1>1, <3>1
      <4> QED  BY <1>1, <3>2, <4>1, SMTT(30)
    <3> QED  BY <3>1, <3>3 DEF IssuedAfter, n
  <2>2. Cardinality(late) < RequestsPerHour
    BY <1>3 DEF MayIssue
  <2>3. IsFiniteSet(1..n) /\ late \subseteq 1..n
    <3>1. 1 \in Int /\ n \in Int
      BY <1>1
    <3>2. IsFiniteSet(1..n)
      BY <3>1, FS_Interval
    <3> QED  BY <3>2 DEF IssuedAfter, n
  <2>4. IsFiniteSet(late)
    BY <2>3, FS_Subset
  <2> HIDE DEF late
  <2>5. i..n \subseteq late
    BY <2>1
  <2>6. Cardinality(i..n) = n - i + 1
    <3>1. i \in Int /\ n \in Int /\ i <= n
      BY <1>1
    <3>2. Cardinality(i..n) = IF i > n THEN 0 ELSE n - i + 1
      BY <3>1, FS_Interval
    <3> QED  BY <3>1, <3>2
  <2>7. Cardinality(i..n) <= Cardinality(late)
    BY <2>4, <2>5, FS_Subset
  <2>8. Cardinality(late) \in Nat
    BY <2>4, FS_CardinalityType
  <2> QED  BY <1>1, <1>6, <2>2, <2>6, <2>7, <2>8
<1>7. RequestsAreSpaced'
  <2> SUFFICES ASSUME NEW i \in 1..(n + 1), NEW j \in 1..(n + 1), i < j
               PROVE  /\ codes'[i].issued + ResendAfter <= codes'[j].issued
                      /\ j - i >= RequestsPerHour => codes'[i].issued + HourLength <= codes'[j].issued
    BY <1>2 DEF RequestsAreSpaced
  <2>1. i \in 1..n
    BY <1>1
  <2>2. CASE j = n + 1
    <3>1. codes'[i].issued = codes[i].issued /\ codes'[j].issued = at
      BY <1>2, <2>1, <2>2
    <3>2. codes[i].issued + ResendAfter <= at
      BY <1>5, <2>1
    <3>3. n + 1 - i >= RequestsPerHour => codes[i].issued + HourLength <= at
      BY <1>6, <2>1
    <3>4. j - i = n + 1 - i
      BY <1>1, <2>1, <2>2
    <3> QED  BY <3>1, <3>2, <3>3, <3>4
  <2>3. CASE j \in 1..n
    BY <1>2, <2>1, <2>3 DEF SpacedInv, RequestsAreSpaced, n
  <2> QED  BY <1>1, <2>2, <2>3
<1>8. IssueInstants'
  <2> SUFFICES ASSUME NEW i \in 1..(n + 1) PROVE codes'[i].expires = codes'[i].issued + ExpiryMinutes
    BY <1>2 DEF IssueInstants
  <2>1. i \in 1..n \/ i = n + 1
    BY <1>1
  <2> QED  BY <1>1, <1>2, <2>1
<1> QED  BY <1>4, <1>7, <1>8 DEF SpacedInv, RequestsAreHeld

LEMMA ComparedCodesSpaced ==
  ASSUME LoginInv, SpacedInv, NEW c \in LoginCall, RefuseCode(c) \/ AcceptCode(c)
  PROVE  SpacedInv'
<1>1. /\ codes \in Seq(CodeRow) /\ EndCall(c)
      /\ \A i \in 1..Len(codes) : codes[i] \in CodeRow
  <2>1. codes \in Seq(CodeRow)
    BY DEF LoginInv, LoginTypes
  <2>2. EndCall(c)
    BY DEF RefuseCode, AcceptCode
  <2> QED  BY <2>1, <2>2
<1>2. /\ Len(codes') = Len(codes)
      /\ \A i \in 1..Len(codes) : codes'[i].issued = codes[i].issued /\ codes'[i].expires = codes[i].expires
  <2>1. CASE RefuseCode(c)
    <3> DEFINE Counted(i) == [codes[i] EXCEPT !.attempts = @ + 1, !.refusals = @ + 1]
               Kept(i) == IF i \in loginCall[c].rows THEN Counted(i) ELSE codes[i]
    <3>1. codes' = [i \in 1..Len(codes) |-> Kept(i)]
      BY <2>1 DEF RefuseCode
    <3>2. \A i \in 1..Len(codes) : /\ Counted(i) \in CodeRow
                                   /\ Counted(i).issued = codes[i].issued /\ Counted(i).expires = codes[i].expires
      <4> SUFFICES ASSUME NEW i \in 1..Len(codes)
                   PROVE  /\ Counted(i) \in CodeRow
                          /\ Counted(i).issued = codes[i].issued /\ Counted(i).expires = codes[i].expires
        OBVIOUS
      <4>1. codes[i] \in CodeRow /\ codes[i].attempts + 1 \in Nat /\ codes[i].refusals + 1 \in Nat
        BY <1>1 DEF CodeRow
      <4> QED  BY <4>1 DEF CodeRow
    <3> HIDE DEF Counted
    <3>3. \A i \in 1..Len(codes) : Kept(i).issued = codes[i].issued /\ Kept(i).expires = codes[i].expires
      BY <3>2
    <3> HIDE DEF Kept
    <3>4. Len(codes') = Len(codes)
      BY <1>1, <3>1
    <3> QED  BY <3>1, <3>3, <3>4
  <2>2. CASE AcceptCode(c)
    <3> DEFINE g == loginCall[c].guess
               used == [codes[g] EXCEPT !.consumed = TRUE]
    <3>1. g \in 1..Len(codes)
      BY <2>2 DEF AcceptCode, LoginInv, RowsAreHeld
    <3>2. codes' = codes \/ codes' = [codes EXCEPT ![g] = used]
      BY <2>2 DEF AcceptCode
    <3>3. used \in CodeRow /\ used.issued = codes[g].issued /\ used.expires = codes[g].expires
      BY <1>1, <3>1 DEF CodeRow
    <3> HIDE DEF used, g
    <3> QED  BY <1>1, <3>1, <3>2, <3>3
  <2> QED  BY <2>1, <2>2
<1> QED  BY <1>1, <1>2, EndedIsNotCleared, SpacingStays

LEMMA NextLoginSpaced == LoginInv /\ SpacedInv /\ [NextLogin]_loginVars => SpacedInv'
<1> SUFFICES ASSUME LoginInv, SpacedInv, [NextLogin]_loginVars PROVE SpacedInv'
  OBVIOUS
<1>1. ASSUME UNCHANGED <<codes, loginCall, requestLock>> PROVE SpacedInv'
  BY <1>1, SpacingStays
<1>2. CASE UNCHANGED loginVars
  BY <1>1, <1>2 DEF loginVars
<1>3. CASE SetUserActive \/ NextMinute \/ \E t \in 1..Len(tokens) : RevokeSession(t)
  BY <1>1, <1>3 DEF SetUserActive, NextMinute, RevokeSession
<1>4. ASSUME NEW c \in LoginCall, codes' = codes, EndCall(c) PROVE SpacedInv'
  BY <1>4, EndedIsNotCleared, SpacingStays
<1>5. ASSUME NEW c \in LoginCall, codes' = codes, requestLock' = requestLock,
             loginCall'[c].step # "cleared", \A d \in LoginCall : d # c => loginCall'[d] = loginCall[d]
      PROVE  SpacedInv'
  BY <1>5, SpacingStays
<1>6. ASSUME NEW c \in LoginCall, RequestLoginOtp(c) \/ \E guess \in 0..Len(codes) : VerifyLoginOtp(c, guess)
      PROVE  SpacedInv'
  BY <1>5, <1>6, NoCallIsACall DEF RequestLoginOtp, VerifyLoginOtp, NoLoginCall, LoginInv, LoginTypes, CallState
<1>7. ASSUME NEW c \in LoginCall, LockCandidates(c) PROVE SpacedInv'
  <2>1. CASE EndCall(c)
    BY <1>4, <1>7, <2>1 DEF LockCandidates
  <2>2. CASE ~ EndCall(c)
    BY <1>5, <1>7, <2>2 DEF LockCandidates, LoginInv, LoginTypes, CallState
  <2> QED  BY <2>1, <2>2
<1>8. ASSUME NEW c \in LoginCall, AbandonCall(c) PROVE SpacedInv'
  BY <1>4, <1>8 DEF AbandonCall
<1> QED
  BY <1>2, <1>3, <1>6, <1>7, <1>8, ClearRequestSpaced, IssueCodeSpaced, ComparedCodesSpaced DEF NextLogin

-----------------------------------------------------------------------------
(* What the host answers (ApiHost).                                        *)

(* A class of error that the handlers file of a use case names.            *)
NamesClass(api, class) == \E answer \in api.answers : answer[1] = class

AnswersAll(api, classes) == \A class \in classes : NamesClass(api, class)

LEMMA SharedAnswers ==
  ASSUME NEW api
  PROVE  /\ Named \subseteq api.answers => NamesClass(api, "rule")
         /\ Stale \subseteq api.answers => NamesClass(api, "stale")
         /\ Roles \subseteq api.answers => NamesClass(api, "role")
         /\ Absent \subseteq api.answers => NamesClass(api, "missing")
         /\ Taken \subseteq api.answers => NamesClass(api, "taken")
BY DEF Named, Stale, Roles, Absent, Taken, NamesClass

(* What every module throws, in one table.                                 *)
Thrown == BillingThrows \cup CatalogThrows \cup FleetThrows \cup HrThrows \cup ImileThrows
            \cup PlatformThrows \cup SalesThrows \cup TmsThrows \cup WmsThrows

LEMMA ThrownRows ==
  ASSUME NEW t \in Thrown
  PROVE  \/ /\ t.paths = {"accounting-periods", "post-journal"}
            /\ t.classes = {"stale", "role", "missing", "rule"}
         \/ t.paths = {"maintain-price-list"} /\ t.classes = {"stale", "role", "missing", "taken", "rule"}
         \/ t.paths = {"register-vehicle"} /\ t.classes = {"taken", "rule"}
         \/ t.paths = {"assert-vehicle-assignable"} /\ t.classes = {"missing", "rule"}
         \/ /\ t.paths = {"maintain-shift", "register-employee"}
            /\ t.classes = {"stale", "role", "missing", "taken", "rule"}
         \/ t.paths = {"calculate-daily-commission"} /\ t.classes = {"taken", "rule"}
         \/ /\ t.paths = {"confirm-commission", "dispute-commission"}
            /\ t.classes = {"stale", "role", "window", "rule"}
         \/ t.paths = {"assign-driver-id"} /\ t.classes = {"taken", "rule"}
         \/ t.paths = {"pull-shipments"} /\ t.classes = {"stale", "rule"}
         \/ t.paths = {"evaluate-dtl-problem", "report-agent-health"} /\ t.classes = {"rule"}
         \/ /\ t.paths = {"evaluate-alerts"}
            /\ t.classes = {"stale", "taken", "role", "missing", "link", "rule"}
         \/ t.paths = {"maintain-site"} /\ t.classes = {"stale", "role", "missing", "rule"}
         \/ /\ t.paths = {"manage-account-credit", "manage-contract", "manage-quote"}
            /\ t.classes = {"stale", "role", "missing", "rule"}
         \/ t.paths = {"create-delivery-task"} /\ t.classes = {"stale", "missing", "taken", "rule"}
         \/ /\ t.paths = {"count-inventory", "process-outbound", "receive-inbound", "schedule-inbound"}
            /\ t.classes = {"stale", "role", "missing", "rule"}
         \/ t.paths = {"manage-space"} /\ t.classes = {"role", "rule"}
         \/ t.paths = {"take-occupancy-snapshot"} /\ t.classes = {"role", "missing", "rule"}
BY DEF Thrown, BillingThrows, CatalogThrows, FleetThrows, HrThrows, ImileThrows, PlatformThrows,
       SalesThrows, TmsThrows, WmsThrows, Throws

(* Module by module, the path of each use case, what its handlers file     *)
(* names, and that the commands throw nothing else.                        *)
LEMMA BillingRefusalsNamed ==
  \A api \in {AccountingPeriodsApi, PostJournalApi} :
    \A t \in Thrown : api.path \in t.paths => AnswersAll(api, t.classes)
<1>1. /\ AccountingPeriodsApi.path = "accounting-periods"
      /\ Stale \cup Absent \cup Named \subseteq AccountingPeriodsApi.answers
      /\ {<<"role", 403>>} \subseteq AccountingPeriodsApi.answers
  BY DEF AccountingPeriodsApi, Api
<1>2. AnswersAll(AccountingPeriodsApi, {"stale", "role", "missing", "rule"})
  BY <1>1, SharedAnswers DEF AnswersAll, NamesClass
<1>3. \A t \in Thrown : AccountingPeriodsApi.path \in t.paths => AnswersAll(AccountingPeriodsApi, t.classes)
  BY <1>1, <1>2, ThrownRows DEF AnswersAll
<1>4. /\ PostJournalApi.path = "post-journal"
      /\ Stale \cup Roles \cup Absent \cup Named \subseteq PostJournalApi.answers
  BY DEF PostJournalApi, Api
<1>5. AnswersAll(PostJournalApi, {"stale", "role", "missing", "rule"})
  BY <1>4, SharedAnswers DEF AnswersAll
<1>6. \A t \in Thrown : PostJournalApi.path \in t.paths => AnswersAll(PostJournalApi, t.classes)
  BY <1>4, <1>5, ThrownRows DEF AnswersAll
<1> QED  BY <1>3, <1>6

LEMMA CatalogRefusalsNamed ==
  \A api \in {MaintainPriceListApi} :
    \A t \in Thrown : api.path \in t.paths => AnswersAll(api, t.classes)
<1>1. /\ MaintainPriceListApi.path = "maintain-price-list"
      /\ Stale \cup Roles \cup Absent \cup Named \subseteq MaintainPriceListApi.answers
      /\ {<<"taken", 422>>} \subseteq MaintainPriceListApi.answers
  BY DEF MaintainPriceListApi, Api
<1>2. AnswersAll(MaintainPriceListApi, {"stale", "role", "missing", "taken", "rule"})
  BY <1>1, SharedAnswers DEF AnswersAll, NamesClass
<1>3. \A t \in Thrown : MaintainPriceListApi.path \in t.paths => AnswersAll(MaintainPriceListApi, t.classes)
  BY <1>1, <1>2, ThrownRows DEF AnswersAll
<1> QED  BY <1>3

LEMMA FleetRefusalsNamed ==
  \A api \in {RegisterVehicleApi, AssertVehicleApi} :
    \A t \in Thrown : api.path \in t.paths => AnswersAll(api, t.classes)
<1>1. /\ RegisterVehicleApi.path = "register-vehicle"
      /\ Taken \cup Named \subseteq RegisterVehicleApi.answers
  BY DEF RegisterVehicleApi, Api
<1>2. AnswersAll(RegisterVehicleApi, {"taken", "rule"})
  BY <1>1, SharedAnswers DEF AnswersAll
<1>3. \A t \in Thrown : RegisterVehicleApi.path \in t.paths => AnswersAll(RegisterVehicleApi, t.classes)
  BY <1>1, <1>2, ThrownRows DEF AnswersAll
<1>4. /\ AssertVehicleApi.path = "assert-vehicle-assignable"
      /\ {<<"missing", 404>>, <<"rule", 422>>} \subseteq AssertVehicleApi.answers
  BY DEF AssertVehicleApi, ApiWithRead
<1>5. AnswersAll(AssertVehicleApi, {"missing", "rule"})
  BY <1>4, SharedAnswers DEF AnswersAll, NamesClass
<1>6. \A t \in Thrown : AssertVehicleApi.path \in t.paths => AnswersAll(AssertVehicleApi, t.classes)
  BY <1>4, <1>5, ThrownRows DEF AnswersAll
<1> QED  BY <1>3, <1>6

LEMMA HrRefusalsNamed ==
  \A api \in {MaintainShiftApi, RegisterEmployeeApi, CalculateDailyApi, ConfirmCommissionApi,
              DisputeCommissionApi} :
    \A t \in Thrown : api.path \in t.paths => AnswersAll(api, t.classes)
<1>1. /\ MaintainShiftApi.path = "maintain-shift"
      /\ Stale \cup Roles \cup Absent \cup Taken \cup Named \subseteq MaintainShiftApi.answers
  BY DEF MaintainShiftApi, Api
<1>2. AnswersAll(MaintainShiftApi, {"stale", "role", "missing", "taken", "rule"})
  BY <1>1, SharedAnswers DEF AnswersAll
<1>3. \A t \in Thrown : MaintainShiftApi.path \in t.paths => AnswersAll(MaintainShiftApi, t.classes)
  BY <1>1, <1>2, ThrownRows DEF AnswersAll
<1>4. /\ RegisterEmployeeApi.path = "register-employee"
      /\ Stale \cup Roles \cup Absent \cup Taken \cup Named \subseteq RegisterEmployeeApi.answers
  BY DEF RegisterEmployeeApi, ApiWithRead
<1>5. AnswersAll(RegisterEmployeeApi, {"stale", "role", "missing", "taken", "rule"})
  BY <1>4, SharedAnswers DEF AnswersAll
<1>6. \A t \in Thrown : RegisterEmployeeApi.path \in t.paths => AnswersAll(RegisterEmployeeApi, t.classes)
  BY <1>4, <1>5, ThrownRows DEF AnswersAll
<1>7. /\ CalculateDailyApi.path = "calculate-daily-commission"
      /\ Taken \cup Named \subseteq CalculateDailyApi.answers
  BY DEF CalculateDailyApi, Api
<1>8. AnswersAll(CalculateDailyApi, {"taken", "rule"})
  BY <1>7, SharedAnswers DEF AnswersAll
<1>9. \A t \in Thrown : CalculateDailyApi.path \in t.paths => AnswersAll(CalculateDailyApi, t.classes)
  BY <1>7, <1>8, ThrownRows DEF AnswersAll
<1>10. /\ ConfirmCommissionApi.path = "confirm-commission"
      /\ Stale \cup Named \subseteq ConfirmCommissionApi.answers
      /\ {<<"role", 403>>, <<"window", 409>>} \subseteq ConfirmCommissionApi.answers
  BY DEF ConfirmCommissionApi, Api
<1>11. AnswersAll(ConfirmCommissionApi, {"stale", "role", "window", "rule"})
  BY <1>10, SharedAnswers DEF AnswersAll, NamesClass
<1>12. \A t \in Thrown : ConfirmCommissionApi.path \in t.paths => AnswersAll(ConfirmCommissionApi, t.classes)
  BY <1>10, <1>11, ThrownRows DEF AnswersAll
<1>13. /\ DisputeCommissionApi.path = "dispute-commission"
      /\ Stale \cup Named \subseteq DisputeCommissionApi.answers
      /\ {<<"role", 403>>, <<"window", 409>>} \subseteq DisputeCommissionApi.answers
  BY DEF DisputeCommissionApi, Api
<1>14. AnswersAll(DisputeCommissionApi, {"stale", "role", "window", "rule"})
  BY <1>13, SharedAnswers DEF AnswersAll, NamesClass
<1>15. \A t \in Thrown : DisputeCommissionApi.path \in t.paths => AnswersAll(DisputeCommissionApi, t.classes)
  BY <1>13, <1>14, ThrownRows DEF AnswersAll
<1> QED  BY <1>3, <1>6, <1>9, <1>12, <1>15

LEMMA ImileRefusalsNamed ==
  \A api \in {AssignDriverIdApi, PullShipmentsApi, EvaluateDtlApi, ReportAgentHealthApi} :
    \A t \in Thrown : api.path \in t.paths => AnswersAll(api, t.classes)
<1>1. /\ AssignDriverIdApi.path = "assign-driver-id"
      /\ Taken \cup Named \subseteq AssignDriverIdApi.answers
  BY DEF AssignDriverIdApi, Api
<1>2. AnswersAll(AssignDriverIdApi, {"taken", "rule"})
  BY <1>1, SharedAnswers DEF AnswersAll
<1>3. \A t \in Thrown : AssignDriverIdApi.path \in t.paths => AnswersAll(AssignDriverIdApi, t.classes)
  BY <1>1, <1>2, ThrownRows DEF AnswersAll
<1>4. /\ PullShipmentsApi.path = "pull-shipments"
      /\ Stale \cup Named \subseteq PullShipmentsApi.answers
  BY DEF PullShipmentsApi, Api
<1>5. AnswersAll(PullShipmentsApi, {"stale", "rule"})
  BY <1>4, SharedAnswers DEF AnswersAll
<1>6. \A t \in Thrown : PullShipmentsApi.path \in t.paths => AnswersAll(PullShipmentsApi, t.classes)
  BY <1>4, <1>5, ThrownRows DEF AnswersAll
<1>7. /\ EvaluateDtlApi.path = "evaluate-dtl-problem"
      /\ Named \subseteq EvaluateDtlApi.answers
  BY DEF EvaluateDtlApi, Api
<1>8. AnswersAll(EvaluateDtlApi, {"rule"})
  BY <1>7, SharedAnswers DEF AnswersAll
<1>9. \A t \in Thrown : EvaluateDtlApi.path \in t.paths => AnswersAll(EvaluateDtlApi, t.classes)
  BY <1>7, <1>8, ThrownRows DEF AnswersAll
<1>10. /\ ReportAgentHealthApi.path = "report-agent-health"
      /\ Named \subseteq ReportAgentHealthApi.answers
  BY DEF ReportAgentHealthApi, Api
<1>11. AnswersAll(ReportAgentHealthApi, {"rule"})
  BY <1>10, SharedAnswers DEF AnswersAll
<1>12. \A t \in Thrown : ReportAgentHealthApi.path \in t.paths => AnswersAll(ReportAgentHealthApi, t.classes)
  BY <1>10, <1>11, ThrownRows DEF AnswersAll
<1> QED  BY <1>3, <1>6, <1>9, <1>12

LEMMA PlatformRefusalsNamed ==
  \A api \in {EvaluateAlertsApi, MaintainSiteApi} :
    \A t \in Thrown : api.path \in t.paths => AnswersAll(api, t.classes)
<1>1. /\ EvaluateAlertsApi.path = "evaluate-alerts"
      /\ Stale \cup Taken \cup Named \subseteq EvaluateAlertsApi.answers
      /\ {<<"role", 403>>, <<"missing", 404>>, <<"link", 400>>} \subseteq EvaluateAlertsApi.answers
  BY DEF EvaluateAlertsApi, Api
<1>2. AnswersAll(EvaluateAlertsApi, {"stale", "taken", "role", "missing", "link", "rule"})
  BY <1>1, SharedAnswers DEF AnswersAll, NamesClass
<1>3. \A t \in Thrown : EvaluateAlertsApi.path \in t.paths => AnswersAll(EvaluateAlertsApi, t.classes)
  BY <1>1, <1>2, ThrownRows DEF AnswersAll
<1>4. /\ MaintainSiteApi.path = "maintain-site"
      /\ Stale \cup Roles \cup Absent \cup Named \subseteq MaintainSiteApi.answers
  BY DEF MaintainSiteApi, Api
<1>5. AnswersAll(MaintainSiteApi, {"stale", "role", "missing", "rule"})
  BY <1>4, SharedAnswers DEF AnswersAll
<1>6. \A t \in Thrown : MaintainSiteApi.path \in t.paths => AnswersAll(MaintainSiteApi, t.classes)
  BY <1>4, <1>5, ThrownRows DEF AnswersAll
<1> QED  BY <1>3, <1>6

LEMMA SalesRefusalsNamed ==
  \A api \in {ManageCreditApi, ManageContractApi, ManageQuoteApi} :
    \A t \in Thrown : api.path \in t.paths => AnswersAll(api, t.classes)
<1>1. /\ ManageCreditApi.path = "manage-account-credit"
      /\ Stale \cup Roles \cup Absent \cup Named \subseteq ManageCreditApi.answers
  BY DEF ManageCreditApi, Api
<1>2. AnswersAll(ManageCreditApi, {"stale", "role", "missing", "rule"})
  BY <1>1, SharedAnswers DEF AnswersAll
<1>3. \A t \in Thrown : ManageCreditApi.path \in t.paths => AnswersAll(ManageCreditApi, t.classes)
  BY <1>1, <1>2, ThrownRows DEF AnswersAll
<1>4. /\ ManageContractApi.path = "manage-contract"
      /\ Stale \cup Roles \cup Absent \cup Named \subseteq ManageContractApi.answers
  BY DEF ManageContractApi, Api
<1>5. AnswersAll(ManageContractApi, {"stale", "role", "missing", "rule"})
  BY <1>4, SharedAnswers DEF AnswersAll
<1>6. \A t \in Thrown : ManageContractApi.path \in t.paths => AnswersAll(ManageContractApi, t.classes)
  BY <1>4, <1>5, ThrownRows DEF AnswersAll
<1>7. /\ ManageQuoteApi.path = "manage-quote"
      /\ Stale \cup Roles \cup Absent \cup Named \subseteq ManageQuoteApi.answers
  BY DEF ManageQuoteApi, Api
<1>8. AnswersAll(ManageQuoteApi, {"stale", "role", "missing", "rule"})
  BY <1>7, SharedAnswers DEF AnswersAll
<1>9. \A t \in Thrown : ManageQuoteApi.path \in t.paths => AnswersAll(ManageQuoteApi, t.classes)
  BY <1>7, <1>8, ThrownRows DEF AnswersAll
<1> QED  BY <1>3, <1>6, <1>9

LEMMA TmsRefusalsNamed ==
  \A api \in {CreateTaskApi} :
    \A t \in Thrown : api.path \in t.paths => AnswersAll(api, t.classes)
<1>1. /\ CreateTaskApi.path = "create-delivery-task"
      /\ Stale \cup Absent \cup Taken \cup Named \subseteq CreateTaskApi.answers
  BY DEF CreateTaskApi, Api
<1>2. AnswersAll(CreateTaskApi, {"stale", "missing", "taken", "rule"})
  BY <1>1, SharedAnswers DEF AnswersAll
<1>3. \A t \in Thrown : CreateTaskApi.path \in t.paths => AnswersAll(CreateTaskApi, t.classes)
  BY <1>1, <1>2, ThrownRows DEF AnswersAll
<1> QED  BY <1>3

LEMMA WmsRefusalsNamed ==
  \A api \in {CountInventoryApi, ProcessOutboundApi, ReceiveInboundApi, ScheduleInboundApi, ManageSpaceApi,
              TakeSnapshotApi} :
    \A t \in Thrown : api.path \in t.paths => AnswersAll(api, t.classes)
<1>1. /\ CountInventoryApi.path = "count-inventory"
      /\ Stale \cup Roles \cup Absent \cup Named \subseteq CountInventoryApi.answers
  BY DEF CountInventoryApi, Api
<1>2. AnswersAll(CountInventoryApi, {"stale", "role", "missing", "rule"})
  BY <1>1, SharedAnswers DEF AnswersAll
<1>3. \A t \in Thrown : CountInventoryApi.path \in t.paths => AnswersAll(CountInventoryApi, t.classes)
  BY <1>1, <1>2, ThrownRows DEF AnswersAll
<1>4. /\ ProcessOutboundApi.path = "process-outbound"
      /\ Stale \cup Roles \cup Absent \cup Named \subseteq ProcessOutboundApi.answers
  BY DEF ProcessOutboundApi, ApiWithRead
<1>5. AnswersAll(ProcessOutboundApi, {"stale", "role", "missing", "rule"})
  BY <1>4, SharedAnswers DEF AnswersAll
<1>6. \A t \in Thrown : ProcessOutboundApi.path \in t.paths => AnswersAll(ProcessOutboundApi, t.classes)
  BY <1>4, <1>5, ThrownRows DEF AnswersAll
<1>7. /\ ReceiveInboundApi.path = "receive-inbound"
      /\ Stale \cup Roles \cup Absent \cup Named \subseteq ReceiveInboundApi.answers
  BY DEF ReceiveInboundApi, ApiWithRead
<1>8. AnswersAll(ReceiveInboundApi, {"stale", "role", "missing", "rule"})
  BY <1>7, SharedAnswers DEF AnswersAll
<1>9. \A t \in Thrown : ReceiveInboundApi.path \in t.paths => AnswersAll(ReceiveInboundApi, t.classes)
  BY <1>7, <1>8, ThrownRows DEF AnswersAll
<1>10. /\ ScheduleInboundApi.path = "schedule-inbound"
      /\ Stale \cup Roles \cup Absent \cup Named \subseteq ScheduleInboundApi.answers
  BY DEF ScheduleInboundApi, Api
<1>11. AnswersAll(ScheduleInboundApi, {"stale", "role", "missing", "rule"})
  BY <1>10, SharedAnswers DEF AnswersAll
<1>12. \A t \in Thrown : ScheduleInboundApi.path \in t.paths => AnswersAll(ScheduleInboundApi, t.classes)
  BY <1>10, <1>11, ThrownRows DEF AnswersAll
<1>13. /\ ManageSpaceApi.path = "manage-space"
      /\ Roles \cup Named \subseteq ManageSpaceApi.answers
  BY DEF ManageSpaceApi, Api
<1>14. AnswersAll(ManageSpaceApi, {"role", "rule"})
  BY <1>13, SharedAnswers DEF AnswersAll
<1>15. \A t \in Thrown : ManageSpaceApi.path \in t.paths => AnswersAll(ManageSpaceApi, t.classes)
  BY <1>13, <1>14, ThrownRows DEF AnswersAll
<1>16. /\ TakeSnapshotApi.path = "take-occupancy-snapshot"
      /\ Roles \cup Absent \cup Named \subseteq TakeSnapshotApi.answers
  BY DEF TakeSnapshotApi, Api
<1>17. AnswersAll(TakeSnapshotApi, {"role", "missing", "rule"})
  BY <1>16, SharedAnswers DEF AnswersAll
<1>18. \A t \in Thrown : TakeSnapshotApi.path \in t.paths => AnswersAll(TakeSnapshotApi, t.classes)
  BY <1>16, <1>17, ThrownRows DEF AnswersAll
<1> QED  BY <1>3, <1>6, <1>9, <1>12, <1>15, <1>18
(* A status the handlers file names is one of a refusal.                   *)
LEMMA AnswersRefuse ==
  ASSUME NEW api \in Mounted \cup NotBuilt
  PROVE  \A answer \in api.answers : answer[2] \in {400, 403, 404, 409, 422}
<1>1. \A answer \in Named \cup Stale \cup Roles \cup Absent \cup Taken : answer[2] \in {400, 403, 404, 409, 422}
  BY DEF Named, Stale, Roles, Absent, Taken
<1>2. CASE api \in {PostJournalApi, MaintainPriceListApi, RegisterVehicleApi, CalculateDailyApi,
                    MaintainShiftApi, RegisterEmployeeApi, AssignDriverIdApi, EvaluateDtlApi}
  BY <1>1, <1>2 DEF PostJournalApi, MaintainPriceListApi, RegisterVehicleApi, CalculateDailyApi, MaintainShiftApi,
                    RegisterEmployeeApi, AssignDriverIdApi, EvaluateDtlApi, Api, ApiWithRead
<1>3. CASE api \in {PullShipmentsApi, ReportAgentHealthApi, MaintainSiteApi, ManageCreditApi,
                    ManageContractApi, ManageQuoteApi, CreateTaskApi, CountInventoryApi}
  BY <1>1, <1>3 DEF PullShipmentsApi, ReportAgentHealthApi, MaintainSiteApi, ManageCreditApi, ManageContractApi,
                    ManageQuoteApi, CreateTaskApi, CountInventoryApi, Api
<1>4. CASE api \in {ManageSpaceApi, ProcessOutboundApi, ReceiveInboundApi, ScheduleInboundApi, TakeSnapshotApi}
  BY <1>1, <1>4 DEF ManageSpaceApi, ProcessOutboundApi, ReceiveInboundApi, ScheduleInboundApi, TakeSnapshotApi,
                    Api, ApiWithRead
<1>5. CASE api \in {AccountingPeriodsApi, AssertVehicleApi, ConfirmCommissionApi, DisputeCommissionApi,
                    EvaluateAlertsApi}
  BY <1>1, <1>5 DEF AccountingPeriodsApi, AssertVehicleApi, ConfirmCommissionApi, DisputeCommissionApi,
                    EvaluateAlertsApi, Api, ApiWithRead
<1>6. CASE api \in NotBuilt
  BY <1>6 DEF NotBuilt, OtpLoginApi, CreateDimensionApi, Api
<1> QED  BY <1>2, <1>3, <1>4, <1>5, <1>6 DEF Mounted

LEMMA NotBuiltThrowsNothing == \A api \in NotBuilt : \A t \in Thrown : api.path \notin t.paths
<1>1. OtpLoginApi.path = "otp-login" /\ CreateDimensionApi.path = "create-dimension-value"
  BY DEF OtpLoginApi, CreateDimensionApi, Api
<1>2. \A t \in Thrown : "otp-login" \notin t.paths
  BY ThrownRows
<1>3. \A t \in Thrown : "create-dimension-value" \notin t.paths
  BY ThrownRows
<1> QED  BY <1>1, <1>2, <1>3 DEF NotBuilt

(* What a command throws of its own is named by its handlers file.         *)
LEMMA OwnErrorsAreNamed ==
  ASSUME NEW api \in Mounted \cup NotBuilt, NEW class \in OwnErrors(api)
  PROVE  NamesClass(api, class)
<1>1. PICK t \in Thrown : api.path \in t.paths /\ class \in t.classes
  BY DEF OwnErrors, Thrown
<1>2. api \in Mounted
  BY <1>1, NotBuiltThrowsNothing
<1>3. AnswersAll(api, t.classes)
  <2>1. CASE api \in {AccountingPeriodsApi, PostJournalApi, MaintainPriceListApi, RegisterVehicleApi,
                      AssertVehicleApi}
    BY <1>1, <2>1, BillingRefusalsNamed, CatalogRefusalsNamed, FleetRefusalsNamed
  <2>2. CASE api \in {MaintainShiftApi, RegisterEmployeeApi, CalculateDailyApi, ConfirmCommissionApi,
                      DisputeCommissionApi, AssignDriverIdApi, PullShipmentsApi, EvaluateDtlApi,
                      ReportAgentHealthApi}
    BY <1>1, <2>2, HrRefusalsNamed, ImileRefusalsNamed
  <2>3. CASE api \in {EvaluateAlertsApi, MaintainSiteApi, ManageCreditApi, ManageContractApi, ManageQuoteApi}
    BY <1>1, <2>3, PlatformRefusalsNamed, SalesRefusalsNamed
  <2>4. CASE api \in {CreateTaskApi, CountInventoryApi, ProcessOutboundApi, ReceiveInboundApi,
                      ScheduleInboundApi, ManageSpaceApi, TakeSnapshotApi}
    BY <1>1, <2>4, TmsRefusalsNamed, WmsRefusalsNamed
  <2> QED  BY <1>2, <2>1, <2>2, <2>3, <2>4 DEF Mounted
<1> QED  BY <1>1, <1>3 DEF AnswersAll

LEMMA StatusesRefuse ==
  ASSUME NEW api \in Mounted \cup NotBuilt, NEW class
  PROVE  /\ StatusOf(api, class) \in {400, 403, 404, 409, 422, 500}
         /\ NamesClass(api, class) => StatusOf(api, class) # 500
<1> DEFINE named == {answer \in api.answers : answer[1] = class}
<1>1. CASE named = {}
  BY <1>1 DEF StatusOf, NamesClass
<1>2. CASE named # {}
  <2>1. (CHOOSE answer \in named : TRUE) \in named
    BY <1>2
  <2>2. StatusOf(api, class) = (CHOOSE answer \in named : TRUE)[2]
    BY <1>2 DEF StatusOf
  <2> QED  BY <2>1, <2>2, AnswersRefuse
<1> QED  BY <1>1, <1>2

(* A key that is answered was answered by a command; what is answered 200  *)
(* was done; and a class is given with the answer it has.                  *)
RepliesTell ==
  /\ request.op = "write" /\ keyRow => commands # {}
  /\ \A a \in Attempt : /\ attempts[a].reply = 200 /\ request.op = "write" => commands # {}
                        /\ attempts[a].step # "over" => attempts[a].class = "none"
                        /\ attempts[a].class \notin {"none", "negative"} => attempts[a].reply # 500

LEMMA InitRepliesTell == InitApi => RepliesTell
BY DEF InitApi, RepliesTell, Waiting, NoReply

LEMMA AttemptTells ==
  ASSUME ApiInv, RepliesTell, NEW a \in Attempt, NEW state,
         attempts' = [attempts EXCEPT ![a] = state], UNCHANGED request,
         request.op = "write" => (commands # {} => commands' # {}) /\ (keyRow' => commands' # {}),
         state.reply = 200 /\ request.op = "write" => commands' # {},
         state.step # "over" => state.class = "none",
         state.class \notin {"none", "negative"} => state.reply # 500
  PROVE  RepliesTell'
<1>1. attempts'[a] = state /\ \A b \in Attempt : b # a => attempts'[b] = attempts[b]
  BY DEF ApiInv, ApiTypes
<1> QED  BY <1>1 DEF RepliesTell

LEMMA ReplyTells ==
  ASSUME ApiInv, RepliesTell, NEW a \in Attempt, NEW status, Reply(a, status), attempts[a].step # "over",
         UNCHANGED request,
         request.op = "write" => (commands # {} => commands' # {}) /\ (keyRow' => commands' # {}),
         status = 200 /\ request.op = "write" => commands' # {}
  PROVE  RepliesTell'
<1> DEFINE state == [attempts[a] EXCEPT !.step = "over", !.reply = status]
<1>1. attempts[a] \in AttemptState
  BY DEF ApiInv, ApiTypes
<1>2. state.step = "over" /\ state.reply = status /\ state.class = attempts[a].class
  BY <1>1 DEF AttemptState
<1>3. attempts' = [attempts EXCEPT ![a] = state]
  BY DEF Reply
<1>4. attempts[a].class = "none"
  BY DEF RepliesTell
<1> HIDE DEF state
<1> QED  BY <1>2, <1>3, <1>4, AttemptTells

LEMMA ReceiveTells ==
  ASSUME ApiInv, RepliesTell, NEW a \in Attempt, Receive(a)
  PROVE  RepliesTell'
<1>0. /\ attempts[a] \in AttemptState /\ attempts[a].step = "out" /\ attempts[a].reply = NoReply
      /\ attempts[a].class = "none" /\ UNCHANGED <<request, keyRow, commands>>
  BY DEF ApiInv, ApiTypes, Receive, RepliesTell
<1>1. CASE ~Vouched
  <2>1. Reply(a, 401)
    BY <1>1 DEF Receive
  <2> QED  BY <1>0, <2>1, ReplyTells DEF RepliesTell
<1>2. CASE Vouched
  <2> DEFINE known == [attempts[a] EXCEPT !.vouched = session /\ subject.internal /\ subject.active]
             over(status) == [known EXCEPT !.step = "over", !.reply = status]
             next == [known EXCEPT !.step = "known"]
  <2>1. session /\ subject.internal /\ subject.active
    BY <1>2 DEF Vouched
  <2>2. known \in AttemptState /\ known.class = "none" /\ known.reply = NoReply
    BY <1>0, <2>1 DEF AttemptState
  <2>3. \/ attempts' = [attempts EXCEPT ![a] = next]
        \/ \E status \in {400, 413, 415, 501} : attempts' = [attempts EXCEPT ![a] = over(status)]
    BY <1>2 DEF Receive
  <2> HIDE DEF known
  <2>4. next.class = "none" /\ next.reply = NoReply
    BY <2>2 DEF AttemptState
  <2>5. \A status \in {400, 413, 415, 501} : over(status).class = "none" /\ over(status).reply = status
                                             /\ over(status).step = "over"
    BY <2>2 DEF AttemptState
  <2> HIDE DEF next, over
  <2>6. CASE attempts' = [attempts EXCEPT ![a] = next]
    BY <1>0, <2>4, <2>6, AttemptTells DEF RepliesTell, NoReply
  <2>7. ASSUME NEW status \in {400, 413, 415, 501}, attempts' = [attempts EXCEPT ![a] = over(status)]
        PROVE  RepliesTell'
    <3>1. over(status).reply # 200
      BY <2>5
    <3> QED  BY <1>0, <2>5, <2>7, <3>1, AttemptTells DEF RepliesTell
  <2> QED  BY <2>3, <2>6, <2>7
<1> QED  BY <1>1, <1>2

LEMMA ResolveTells ==
  ASSUME ApiInv, RepliesTell, NEW a \in Attempt, ResolveEntity(a)
  PROVE  RepliesTell'
<1>0. /\ attempts[a] \in AttemptState /\ attempts[a].step = "known" /\ attempts[a].reply = NoReply
      /\ attempts[a].class = "none" /\ UNCHANGED <<request, keyRow, commands>>
  BY DEF ApiInv, ApiTypes, StepsAreEarned, ResolveEntity, RepliesTell
<1>1. ASSUME NEW status \in {400, 403, 422}, Reply(a, status)
      PROVE  RepliesTell'
  <2>1. status # 200
    OBVIOUS
  <2> QED  BY <1>0, <1>1, <2>1, ReplyTells DEF RepliesTell
<1>2. ASSUME NEW e, attempts' = [attempts EXCEPT ![a].step = "scoped", ![a].entity = e]
      PROVE  RepliesTell'
  <2> DEFINE state == [attempts[a] EXCEPT !.step = "scoped", !.entity = e]
  <2>1. attempts' = [attempts EXCEPT ![a] = state]
    BY <1>2
  <2>2. state.class = "none" /\ state.reply = NoReply
    BY <1>0 DEF AttemptState
  <2> HIDE DEF state
  <2> QED  BY <1>0, <2>1, <2>2, AttemptTells DEF RepliesTell, NoReply
<1> QED  BY <1>1, <1>2 DEF ResolveEntity

LEMMA BeginTells ==
  ASSUME ApiInv, RepliesTell, NEW a \in Attempt, BeginCommand(a)
  PROVE  RepliesTell'
<1>0. /\ attempts[a] \in AttemptState /\ attempts[a].step = "scoped" /\ attempts[a].reply = NoReply
      /\ attempts[a].class = "none" /\ UNCHANGED <<request, keyRow, commands>>
      /\ request.op \in {"write", "read"} /\ request.api \in Mounted \cup NotBuilt
  BY DEF ApiInv, ApiTypes, BeginCommand, ApiRequest, RepliesTell
<1>1. CASE Reply(a, StatusOf(request.api, "key"))
  <2>1. StatusOf(request.api, "key") # 200
    BY <1>0, StatusesRefuse
  <2> QED  BY <1>0, <1>1, <2>1, ReplyTells DEF RepliesTell
<1>2. CASE keyRow /\ Reply(a, 200)
  BY <1>0, <1>2, ReplyTells DEF RepliesTell
<1>3. CASE attempts' = [attempts EXCEPT ![a].step = "working"]
  <2> DEFINE state == [attempts[a] EXCEPT !.step = "working"]
  <2>1. attempts' = [attempts EXCEPT ![a] = state]
    BY <1>3
  <2>2. state.class = "none" /\ state.reply = NoReply
    BY <1>0 DEF AttemptState
  <2> HIDE DEF state
  <2> QED  BY <1>0, <2>1, <2>2, AttemptTells DEF RepliesTell, NoReply
<1>4. \/ keyRow /\ Reply(a, 200)
      \/ Reply(a, StatusOf(request.api, "key"))
      \/ attempts' = [attempts EXCEPT ![a].step = "working"]
  <2>1. CASE request.op = "read"
    BY <2>1 DEF BeginCommand
  <2>2. CASE request.op = "write" /\ KeyInFlight(a)
    BY <2>2 DEF BeginCommand
  <2>3. CASE request.op = "write" /\ ~KeyInFlight(a) /\ keyRow
    BY <2>3 DEF BeginCommand
  <2>4. CASE request.op = "write" /\ ~KeyInFlight(a) /\ ~keyRow
    BY <2>4 DEF BeginCommand
  <2> QED  BY <1>0, <2>1, <2>2, <2>3, <2>4
<1> QED  BY <1>1, <1>2, <1>3, <1>4

LEMMA EndsTell ==
  ASSUME ApiInv, RepliesTell, NEW a \in Attempt,
         \/ FailAttempt(a)
         \/ \E class \in OwnErrors(request.api) \cup LedgerErrors(request.api) : RefuseCommand(a, class)
  PROVE  RepliesTell'
<1>1. ASSUME NEW status \in {500, NoReply}, FailAttempt(a), Reply(a, status)
      PROVE  RepliesTell'
  <2>1. status # 200 /\ attempts[a].step # "over" /\ UNCHANGED <<request, keyRow, commands>>
    BY <1>1 DEF NoReply, FailAttempt
  <2> QED  BY <1>1, <2>1, ReplyTells DEF RepliesTell
<1>2. ASSUME NEW class \in OwnErrors(request.api) \cup LedgerErrors(request.api), RefuseCommand(a, class)
      PROVE  RepliesTell'
  <2> DEFINE status == StatusOf(request.api, class)
             state  == [attempts[a] EXCEPT !.step = "over", !.class = class, !.reply = status]
  <2>0. /\ attempts[a] \in AttemptState /\ UNCHANGED <<request, keyRow, commands>>
        /\ request.api \in Mounted \cup NotBuilt
    BY <1>2 DEF ApiInv, ApiTypes, ApiRequest, RefuseCommand
  <2>1. attempts' = [attempts EXCEPT ![a] = state]
    BY <1>2 DEF RefuseCommand
  <2>2. status # 200
    BY <2>0, StatusesRefuse
  <2>3. class # "negative" => status # 500
    <3>1. class # "negative" => class \in OwnErrors(request.api)
      BY <1>2 DEF LedgerErrors
    <3> QED  BY <2>0, <3>1, OwnErrorsAreNamed, StatusesRefuse
  <2> HIDE DEF status
  <2>4. state.step = "over" /\ state.class = class /\ state.reply = status
    BY <2>0 DEF AttemptState
  <2> HIDE DEF state
  <2> QED  BY <2>0, <2>1, <2>2, <2>3, <2>4, AttemptTells DEF RepliesTell
<1> QED  BY <1>1, <1>2 DEF FailAttempt

LEMMA CommitTells ==
  ASSUME ApiInv, RepliesTell, NEW a \in Attempt, CommitCommand(a)
  PROVE  RepliesTell'
<1>1. PICK status \in {200, 500, NoReply} : Reply(a, status)
  BY DEF CommitCommand
<1>2. attempts[a].step # "over" /\ UNCHANGED request
  BY DEF CommitCommand
<1>3. request.op = "write" => commands' # {}
  BY DEF CommitCommand
<1> QED  BY <1>1, <1>2, <1>3, ReplyTells

LEMMA NextRepliesTell == ApiInv /\ RepliesTell /\ [NextApi]_apiVars => RepliesTell'
<1> SUFFICES ASSUME ApiInv, RepliesTell, [NextApi]_apiVars PROVE RepliesTell'
  OBVIOUS
<1>1. CASE UNCHANGED <<request, attempts, keyRow, commands>>
  BY <1>1 DEF RepliesTell
<1>2. CASE NextApi
  BY <1>1, <1>2, ReceiveTells, ResolveTells, BeginTells, EndsTell, CommitTells
     DEF NextApi, EndSession, DeactivateUser, ChangeScope
<1> QED  BY <1>1, <1>2 DEF apiVars

(* What the host answers can be acted on: what is answered 200 was done,   *)
(* what is refused was not, nothing is said to whoever is not let in, and  *)
(* no refusal a command knows of is told as the host's own failure.        *)
LEMMA AnswersAreTrue == ApiInv /\ RepliesTell => ApiAnswersTruly
BY OneCommand DEF RepliesTell, ApiAnswersTruly, RepliesTellWhatHappened, RefusalsAreNamed

-----------------------------------------------------------------------------
(* What the services promise together (ServicePromises).                   *)

(* The version each decision compares, and the reading it keeps of the     *)
(* row: whatever the other sessions do in between, an adjusted count, a    *)
(* confirmed commission, a sent quote and a released hold are as those who *)
(* decided had them on the screen.                                         *)
THEOREM DecidedOnTheRow ==
  SpecCounts /\ SpecCommissions /\ SpecQuotes /\ SpecCredit => DecidedAsRead
<1>1. CountsInv /\ CountsInv' /\ [NextCounts]_countVars /\ CommissionsInv' /\ QuotesInv'
        /\ CreditInv /\ [NextCredit]_creditVars
      => [ /\ AdjustedAsRead' /\ AdjustsQuietLines
           /\ ConfirmedAsRead' /\ SentAsApproved'
           /\ HoldReleaseSeen ]_decisionVars
  <2> SUFFICES ASSUME CountsInv, CountsInv', [NextCounts]_countVars, CommissionsInv', QuotesInv',
                      CreditInv, [NextCredit]_creditVars
               PROVE  /\ AdjustedAsRead' /\ AdjustsQuietLines
                      /\ ConfirmedAsRead' /\ SentAsApproved'
                      /\ HoldReleaseSeen
    OBVIOUS
  <2>1. AdjustedAsRead' /\ ConfirmedAsRead'
    BY DEF CountsInv, CommissionsInv
  <2>2. SentAsApproved'
    BY SentIsApproved, PTL
  <2>3. AdjustsQuietLines
    BY QuietLinesAdjusted
  <2>4. HoldReleaseSeen
    BY ReleaseIsSeen DEF creditVars, HoldReleaseSeen
  <2> QED  BY <2>1, <2>2, <2>3, <2>4
<1> QED
  BY <1>1, InitCountsKeeps, NextCountsKeeps, InitCommissionsKeeps, NextCommissionsKeeps,
     InitQuotesKeeps, NextQuotesKeeps, InitCreditKeeps, NextCreditKeeps, PTL
     DEF SpecCounts, SpecCommissions, SpecQuotes, SpecCredit, DecidedAsRead

(* Whoever asks while the rest goes on: no one is on two shifts on a day,  *)
(* a driver id is where its history says, and a checked order has its one  *)
(* delivery task, on a vehicle whose documents were valid.                 *)
THEOREM FieldWorkAgrees ==
  SpecShifts /\ SpecStaff /\ SpecTasks => []FieldWorkIsConsistent
<1> QED  BY ShiftsDisjoint, IdsFollow, TasksFollow, PTL DEF FieldWorkIsConsistent

(* A price an order was given is that of the contract in force on its day, *)
(* and a verdict on an order names a condition that failed when it was     *)
(* looked at, after those before it held.                                  *)
THEOREM OrdersPricedAndChecked ==
  SpecContracts /\ SpecChecks => []OrdersFollowTheContract
<1> QED
  BY InitContractsKeeps, NextContractsKeeps, ContractsAgree, InitChecksKeeps, NextChecksKeeps, ChecksTellTruly, PTL
     DEF SpecContracts, SpecChecks, OrdersFollowTheContract

(* The two ways in: a session is earned by a code that was sent, spaced    *)
(* from the others, and used up; and a request is answered by what became  *)
(* of it, within the entities its caller has.                              *)
THEOREM AccessIsEarned ==
  SpecLogin /\ SpecApi => []AccessIsBounded
<1>1. LoginInv /\ SpacedInv => LoginIsBounded
  BY LastIsOutstanding DEF LoginInv, RefusalsCounted, GuessesAreCounted, SpacedInv, LoginIsBounded
<1>2. LoginIsBounded /\ ApiAnswersTruly => AccessIsBounded
  BY DEF AccessIsBounded
<1> QED
  BY <1>1, <1>2, InitLoginKeeps, NextLoginKeeps, InitLoginSpaced, NextLoginSpaced,
     InitApiKeeps, NextApiKeeps, InitRepliesTell, NextRepliesTell, AnswersAreTrue, PTL
     DEF SpecLogin, SpecApi
=============================================================================
