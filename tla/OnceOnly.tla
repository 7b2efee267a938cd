------------------------------ MODULE OnceOnly -------------------------------
(***************************************************************************)
(* What withIdempotentContext promises its callers: a key stores the       *)
(* answer of the one request it was used for, the command behind a key     *)
(* takes effect once in the lifetime of the key, and effect and stored     *)
(* answer appear in the same step.                                         *)
(***************************************************************************)
EXTENDS Integers, Sequences

CONSTANTS Key, Request, Result, NoRow, TTL

VARIABLES
  clock,    \* time
  stored,   \* [Key -> the stored answer, or NoRow]
  effects   \* [Key -> the effects its commands had, oldest first]

Live(k) == stored[k] # NoRow /\ clock < stored[k].expires

Init ==
  /\ clock = 0
  /\ stored = [k \in Key |-> NoRow]
  /\ effects = [k \in Key |-> <<>>]

Apply(k) ==
  /\ ~Live(k)
  /\ \E q \in Request, r \in Result, began \in 0..clock :
       LET row == [request |-> q, response |-> r, expires |-> began + TTL] IN
       /\ stored' = [stored EXCEPT ![k] = row]
       /\ effects' = [effects EXCEPT ![k] = Append(@, row)]
  /\ UNCHANGED clock

Forget(k) ==
  /\ stored[k] # NoRow /\ ~Live(k)
  /\ stored' = [stored EXCEPT ![k] = NoRow]
  /\ UNCHANGED <<clock, effects>>

Pass == clock' = clock + 1 /\ UNCHANGED <<stored, effects>>

Next == Pass \/ \E k \in Key : Apply(k) \/ Forget(k)

Spec == Init /\ [][Next]_<<clock, stored, effects>>

=============================================================================
