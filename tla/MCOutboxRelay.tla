----------------------------- MODULE MCOutboxRelay -----------------------------
(***************************************************************************)
(* The two ends of the system that no user waits for, and the handheld     *)
(* that has to wait for itself: the relay of the outbox, the evaluations   *)
(* of the alert rules and the queue of the handheld.  They share no state: *)
(* each behaviour chooses the one that is live, the others rest in their   *)
(* initial states.                                                         *)
(***************************************************************************)
EXTENDS OutboxRelay, Alerts, Handheld, TLC

CONSTANTS w1

VARIABLE live

RanksOfCodes == [r \in AlertRule |-> IF r = "r1" THEN 1 ELSE 2]
FirstRuleDedupes == [r \in AlertRule |-> IF r = "r1" THEN 1 ELSE 0]
NothingMuted == [r \in AlertRule |-> 0]
OneShelfEach == [g \in Goods |-> IF g = "g1" THEN {"a"} ELSE {"b"}]

InitEnds ==
  /\ live \in {"relay", "alerts", "handheld"}
  /\ Init /\ InitAlerts /\ InitHandheld
  /\ IF live = "handheld" THEN TRUE ELSE placing = Asked("g1")
NextEnds ==
  \/ live = "relay"    /\ UNCHANGED <<live, alertVars, pdaVars>> /\ Next
  \/ live = "alerts"   /\ UNCHANGED <<live, vars, pdaVars>>      /\ NextAlerts
  \/ live = "handheld" /\ UNCHANGED <<live, vars, alertVars>>    /\ NextHandheld
SpecEnds == InitEnds /\ [][NextEnds]_<<live, vars, alertVars, pdaVars>> /\ Fairness
=============================================================================
