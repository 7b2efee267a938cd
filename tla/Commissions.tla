---------------------------- MODULE Commissions -------------------------------
(***************************************************************************)
(* Daily commissions of drivers: hr.commission_daily for one work date,    *)
(* the commands of modules/hr/application/calculate-, dispute- and         *)
(* confirm-daily-commission, and the trigger that guards the status.       *)
(*                                                                         *)
(* Dispute and confirm take no row lock: they read the row, decide, and    *)
(* update it where the version is still the one they read.  Each is two    *)
(* steps, and the clock each judges the window by is the one it began at.  *)
(***************************************************************************)
EXTENDS Integers, FiniteSets

CONSTANTS
  Person,          \* users
  Driver,          \* those linked to an employee who delivers
  Confirmer,       \* those with the permission hr.commission.confirm
  CommissionRule,  \* [from, to, rate, min] rows of hr.commission_rules that apply that day
  MaxDelivered,    \* bound: shipments delivered by one driver
  DisputeWindow,   \* platform.thresholds 'hr.commission.dispute_window_hours'
  LastHour         \* bound: the clock

ASSUME CommissionConstants ==
  /\ Driver \subseteq Person /\ Confirmer \subseteq Person
  /\ CommissionRule \subseteq [from : Nat, to : Nat \cup {-1}, rate : Nat, min : Nat]
  /\ MaxDelivered \in Nat /\ DisputeWindow \in Nat /\ LastHour \in Nat

VARIABLES
  delivered,     \* shipments attributed to each driver as delivered that day
  commissions,   \* the driver's commission_daily row, or none
  confirmedAs,   \* ghost: by whom, on which reading and when each row was confirmed
  review,        \* the row each user's open transaction read, or none
  hour           \* the clock

commissionVars == <<delivered, commissions, confirmedAs, review, hour>>

CommissionStatus == {"calculated", "disputed", "confirmed"}

CommissionRow ==
  [status : CommissionStatus, delivered : 0..MaxDelivered, gross : Nat, created : 0..LastHour,
   disputed : BOOLEAN, version : Nat \ {0}]

AfterCommissionEvent ==
  [DISPUTE |-> [calculated |-> "disputed"],
   CONFIRM |-> [calculated |-> "confirmed", disputed |-> "confirmed"]]

CanChangeCommission(status, event) == status \in DOMAIN AfterCommissionEvent[event]

MatchesTier(rule, count) == count >= rule.from /\ (rule.to = -1 \/ count < rule.to)

(* selectCommissionRule: no rule or several of them is an error. *)
SelectCommissionRule(count) ==
  LET matching == {r \in CommissionRule : MatchesTier(r, count)}
  IN  IF Cardinality(matching) = 1 THEN matching ELSE {}

ComputeGrossCommission(rule, count) ==
  IF rule.rate * count >= rule.min THEN rule.rate * count ELSE rule.min

IsWithinDisputeWindow(row, now) == now - row.created < DisputeWindow

InitCommissions ==
  /\ delivered = [d \in Driver |-> 0]
  /\ commissions = [d \in Driver |-> {}]
  /\ confirmedAs = [d \in Driver |-> {}]
  /\ review = [p \in Person |-> {}]
  /\ hour = 0

(* One row per employee and day; what is delivered later never corrects it. *)
CalculateDailyCommission(d) ==
  \E rule \in SelectCommissionRule(delivered[d]) :
    /\ commissions[d] = {}
    /\ commissions' = [commissions EXCEPT ![d] =
         {[status |-> "calculated", delivered |-> delivered[d],
           gross |-> ComputeGrossCommission(rule, delivered[d]),
           created |-> hour, disputed |-> FALSE, version |-> 1]}]
    /\ UNCHANGED <<delivered, confirmedAs, review, hour>>

(* getCommissionDailyById: an unlocked read, and what the command decides on it. *)
GetCommissionDailyById(p, d, event, row) ==
  /\ review[p] = {}
  /\ row \in commissions[d]
  /\ CanChangeCommission(row.status, event)
  /\ review' = [review EXCEPT ![p] = {[driver |-> d, event |-> event, row |-> row, at |-> hour]}]
  /\ UNCHANGED <<delivered, commissions, confirmedAs, hour>>

(* Only one's own row, inside the window. *)
DisputeCommission(p) ==
  /\ p \in Driver
  /\ \E row \in commissions[p] :
       /\ IsWithinDisputeWindow(row, hour)
       /\ GetCommissionDailyById(p, p, "DISPUTE", row)

(* Never one's own; a dispute needs the permission, anything else the window. *)
ConfirmCommission(p) ==
  \E d \in Driver \ {p} : \E row \in commissions[d] :
    /\ row.status = "disputed" => p \in Confirmer
    /\ row.status = "calculated" => ~ IsWithinDisputeWindow(row, hour)
    /\ GetCommissionDailyById(p, d, "CONFIRM", row)

(* hr.guard_commission_daily_status, on the row as it is when it is updated. *)
GuardCommissionStatus(p, d, old, status) ==
  /\ old.status = "calculated" => status \in {"disputed", "confirmed"}
  /\ old.status = "disputed" => status = "confirmed"
  /\ old.status # "confirmed"
  /\ status = "disputed" => p = d
  /\ status = "confirmed" => p # d
  /\ (status = "confirmed" /\ old.status = "disputed") => p \in Confirmer

(* "where id = ... and version = ..." *)
RowAsRead(r, row) == row.version = r.row.version

UpdateCommission(p) ==
  \E r \in review[p] : \E row \in commissions[r.driver] :
    LET status == AfterCommissionEvent[r.event][r.row.status]
    IN  /\ RowAsRead(r, row)
        /\ GuardCommissionStatus(p, r.driver, row, status)
        /\ commissions' = [commissions EXCEPT ![r.driver] =
             {[row EXCEPT !.status = status, !.disputed = @ \/ status = "disputed",
                          !.version = @ + 1]}]
        /\ confirmedAs' = [confirmedAs EXCEPT ![r.driver] =
             IF status = "confirmed" THEN {[by |-> p, read |-> r.row.status, at |-> r.at]} ELSE @]
        /\ review' = [review EXCEPT ![p] = {}]
        /\ UNCHANGED <<delivered, hour>>

(* No row was updated, or the transaction is lost: nothing is written. *)
AbandonReview(p) ==
  /\ review[p] # {}
  /\ review' = [review EXCEPT ![p] = {}]
  /\ UNCHANGED <<delivered, commissions, confirmedAs, hour>>

(* imile.shipments_attributed gains a delivered shipment. *)
ShipmentAttributed(d) ==
  /\ delivered[d] < MaxDelivered
  /\ delivered' = [delivered EXCEPT ![d] = @ + 1]
  /\ UNCHANGED <<commissions, confirmedAs, review, hour>>

NextHour ==
  /\ hour < LastHour
  /\ hour' = hour + 1
  /\ UNCHANGED <<delivered, commissions, confirmedAs, review>>

NextCommissions ==
  \/ NextHour
  \/ \E d \in Driver : CalculateDailyCommission(d) \/ ShipmentAttributed(d)
  \/ \E p \in Person :
       DisputeCommission(p) \/ ConfirmCommission(p) \/ UpdateCommission(p) \/ AbandonReview(p)

SpecCommissions == InitCommissions /\ [][NextCommissions]_commissionVars

-----------------------------------------------------------------------------
CommissionsTypeOK ==
  /\ delivered \in [Driver -> 0..MaxDelivered]
  /\ \A d \in Driver : commissions[d] \subseteq CommissionRow /\ Cardinality(commissions[d]) <= 1
  /\ \A p \in Person : \A r \in review[p] : r.driver \in Driver /\ r.row \in CommissionRow
  /\ hour \in 0..LastHour

(* A commission is never confirmed by its own driver, nor past a dispute     *)
(* nobody read: a disputed row was confirmed by someone with the permission  *)
(* who read it disputed, any other after the whole window had passed.        *)
ConfirmedAsRead ==
  \A d \in Driver : \A row \in commissions[d] : row.status = "confirmed" =>
    \E c \in confirmedAs[d] :
      /\ c.by # d
      /\ row.disputed <=> c.read = "disputed"
      /\ row.disputed => c.by \in Confirmer
      /\ ~ row.disputed => c.at >= row.created + DisputeWindow
=============================================================================
