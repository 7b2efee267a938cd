------------------------------ MODULE StockBook ------------------------------
(***************************************************************************)
(* What the stock ledger promises to a reader of its committed tables:     *)
(* a set of movements is booked as one step that meets every rule at the   *)
(* moment it becomes visible, the balance is always the fold of the ledger *)
(* and nothing else ever changes them.  StockLedger implements it.         *)
(***************************************************************************)
EXTENDS Integers, FiniteSets, Functions

CONSTANTS Sku, Location, Batch, NoExpiry, Weight, Capacity, NoLimit, Open

VARIABLES ledger, onHand, expiry

Key == Sku \X Location \X Batch

Balance(rows, k) == SumFunctionOnSet([m \in rows |-> m.qty], {m \in rows : m.key = k})

Load(balance, l) ==
  SumFunctionOnSet([k \in Key |-> balance[k] * Weight[k[1]]], {k \in Key : k[2] = l})

Init ==
  /\ ledger = {}
  /\ onHand = [k \in Key |-> 0]
  /\ expiry = [k \in Key |-> NoExpiry]

(* Every location the rows bring stock to is open and within its limit. *)
Admissible(rows) ==
  \A m \in rows : m.qty > 0 =>
    /\ m.key[2] \in Open
    /\ Capacity[m.key[2]] # NoLimit => Load(onHand', m.key[2]) <= Capacity[m.key[2]]

(* The expiry of a row is kept once known; a row without one takes that of *)
(* the booked movement, which no row of the batch contradicts.             *)
ExpiryBooked(rows) ==
  /\ \A k \in Key : \/ expiry'[k] = expiry[k]
                    \/ expiry[k] = NoExpiry /\ \E m \in rows : m.key = k /\ m.exp = expiry'[k]
  /\ \A m \in rows : m.exp # NoExpiry =>
       \A k \in Key : k[1] = m.key[1] /\ k[3] = m.key[3] => expiry'[k] \in {NoExpiry, m.exp}

(* One row; the two rows of a transfer; or the lines of a count. *)
Wellformed(rows) ==
  \/ Cardinality(rows) = 1
  \/ \E m, n \in rows : rows = {m, n} /\ m.qty = -n.qty
  \/ \A m, n \in rows : m.key = n.key => m = n

Book(rows) ==
  /\ rows # {} /\ rows \cap ledger = {} /\ Wellformed(rows)
  /\ ledger' = ledger \cup rows
  /\ onHand' = [k \in Key |-> Balance(ledger', k)]
  /\ \A k \in Key : onHand'[k] >= 0
  /\ ExpiryBooked(rows)
  /\ Admissible(rows)

Next == Book(ledger' \ ledger)

Spec == Init /\ [][Next]_<<ledger, onHand, expiry>>

=============================================================================
