-------------------------------- MODULE Alerts --------------------------------
(***************************************************************************)
(* Alert rules and the alert log (modules/platform, EvaluateAlerts).       *)
(*                                                                         *)
(* An evaluation is one READ COMMITTED transaction over the rules in the   *)
(* order of their codes; a rule writes under a savepoint, so one that      *)
(* fails is undone alone.  For every entity its query names, a rule looks  *)
(* up when it last fired for it and writes an alert unless that is within  *)
(* the dedupe window.  The audit row of an alert takes the lock of the     *)
(* audit chain (module AuditChain), which is held to the commit.           *)
(*                                                                         *)
(* Abstracted: what a query returns is any set of entities; recipients,    *)
(* channels and links are left out; rules do not change; hours are counted *)
(* from 0 and QuietHour names those of the night.                          *)
(***************************************************************************)
EXTENDS Integers, Sequences, FiniteSets

CONSTANTS Evaluation, AlertRule, AlertRef,
          CodeRank,        \* [AlertRule -> Nat]: the order of their codes
          DedupeWindow,    \* [AlertRule -> hours], 0: no suppression
          QuietRule,       \* the rules that rest in quiet hours
          QuietHour,       \* the hours of the clock between 22:00 and 07:00
          MutedUntil,      \* [AlertRule -> hour]
          Acknowledger,
          MaxAlerts, LastAlertHour   \* bounds: alerts in the log, hours on the clock

ASSUME AlertsAssumption ==
    /\ CodeRank \in [AlertRule -> Nat] /\ QuietRule \subseteq AlertRule
    /\ DedupeWindow \in [AlertRule -> Nat] /\ MutedUntil \in [AlertRule -> Nat]
    /\ {MaxAlerts, LastAlertHour} \subseteq Nat
    /\ "none" \notin Evaluation \cup AlertRef \cup AlertRule

VARIABLES alertLog,    \* platform.alert_log: Seq of rows, see AlertRows
          evaluation,  \* what each evaluation has read and written
          chainHolder, \* the evaluation that holds the audit chain's lock, or "none"
          readAlert,   \* the version an acknowledger has read: [Acknowledger -> [id, version]]
          alertHour
alertVars == <<alertLog, evaluation, chainHolder, readAlert, alertHour>>

(* 'knew' and 'acks' are ghosts: the alerts in the log when the rule       *)
(* looked, and the acknowledgements accepted.                              *)
AlertRows == [rule : AlertRule, ref : AlertRef, firedAt : Nat, version : Nat,
              acknowledged : BOOLEAN, knew : SUBSET (1..MaxAlerts), acks : Nat]

(* An evaluation: the time it read, the rules it has not come to, the one  *)
(* it is at with the entities left and the entity it fires for, its rows   *)
(* before that rule and now, what was known when it looked, what failed.   *)
NotRunning == [step |-> "idle", now |-> 0, rules |-> {}, rule |-> "none", refs |-> {}, ref |-> "none",
               saved |-> <<>>, wrote |-> <<>>, knew |-> {}, failed |-> {}]

AlertsTypeOK ==
    /\ alertLog \in Seq(AlertRows)
    /\ \A e \in Evaluation : /\ evaluation[e].step \in {"idle", "rules", "refs", "firing"}
                             /\ evaluation[e].wrote \in Seq(AlertRows)
                             /\ evaluation[e].failed \subseteq AlertRule
    /\ chainHolder \in Evaluation \cup {"none"}
    /\ alertHour \in 0..LastAlertHour

InitAlerts ==
    /\ alertLog = <<>> /\ chainHolder = "none" /\ alertHour = 0
    /\ evaluation = [e \in Evaluation |-> NotRunning]
    /\ readAlert = [a \in Acknowledger |-> [id |-> 0, version |-> 0]]

-----------------------------------------------------------------------------
(* shouldEvaluate and the quiet hours; an inactive rule is muted for ever. *)
ShouldEvaluate(rule, now) ==
    MutedUntil[rule] <= now /\ ~(rule \in QuietRule /\ now \in QuietHour)

(* EvaluateAlertRules: the clock is read once; all the rules, or one.      *)
EvaluateAlertRules(e, rules) ==
    /\ evaluation[e].step = "idle"
    /\ evaluation' = [evaluation EXCEPT ![e] = [NotRunning EXCEPT
          !.step = "rules", !.now = alertHour,
          !.rules = {r \in rules : ShouldEvaluate(r, alertHour)}]]
    /\ UNCHANGED <<alertLog, chainHolder, readAlert, alertHour>>

(* runSourceQueryReadOnly, then the rule's savepoint.  A query that fails  *)
(* is rolled back to its own savepoint and the rule is reported.           *)
RunSourceQuery(e) ==
    LET ev == evaluation[e]
    IN /\ ev.step = "rules"
       /\ \E rule \in ev.rules :
            /\ \A other \in ev.rules : CodeRank[rule] <= CodeRank[other]
            /\ \/ \E refs \in SUBSET AlertRef :
                    evaluation' = [evaluation EXCEPT ![e] =
                      [ev EXCEPT !.step = "refs", !.rules = @ \ {rule}, !.rule = rule, !.refs = refs,
                                 !.saved = ev.wrote]]
               \/ evaluation' = [evaluation EXCEPT ![e] =
                      [ev EXCEPT !.rules = @ \ {rule}, !.failed = @ \cup {rule}]]
       /\ UNCHANGED <<alertLog, chainHolder, readAlert, alertHour>>

(* getLastFiredAt, as the set of no hour or one.                           *)
LastFired(rows, rule, ref) ==
    LET hours == {rows[i].firedAt : i \in {j \in 1..Len(rows) : rows[j].rule = rule /\ rows[j].ref = ref}}
    IN {h \in hours : \A k \in hours : k <= h}

(* isDeduped: the window of a rule without suppression is 0.               *)
IsDeduped(rule, last, now) ==
    DedupeWindow[rule] # 0 /\ \E h \in last : now - h < DedupeWindow[rule]

(* The next entity of the query is looked up, in the log and in what this  *)
(* transaction has written.                                                *)
LookUpAlert(e) ==
    LET ev == evaluation[e]
    IN /\ ev.step = "refs"
       /\ \E ref \in ev.refs :
            evaluation' = [evaluation EXCEPT ![e] =
              IF IsDeduped(ev.rule, LastFired(alertLog \o ev.wrote, ev.rule, ref), ev.now)
              THEN [ev EXCEPT !.refs = @ \ {ref}]
              ELSE [ev EXCEPT !.refs = @ \ {ref}, !.step = "firing", !.ref = ref,
                              !.knew = 1..Len(alertLog)]]
       /\ UNCHANGED <<alertLog, chainHolder, readAlert, alertHour>>

(* insertAlertLog, the outbox event, the audit row: the last one waits for *)
(* the chain's lock.                                                       *)
FireAlert(e) ==
    LET ev == evaluation[e]
    IN /\ ev.step = "firing" /\ chainHolder \in {"none", e}
       /\ Len(alertLog) + Len(ev.wrote) < MaxAlerts
       /\ chainHolder' = e
       /\ evaluation' = [evaluation EXCEPT ![e] =
            [ev EXCEPT !.step = "refs", !.ref = "none",
                       !.wrote = Append(@, [rule |-> ev.rule, ref |-> ev.ref, firedAt |-> ev.now, version |-> 1,
                                            acknowledged |-> FALSE, knew |-> ev.knew, acks |-> 0])]]
       /\ UNCHANGED <<alertLog, readAlert, alertHour>>

(* A rule whose entities are done releases its savepoint.                  *)
RuleDone(e) ==
    /\ evaluation[e].step = "refs" /\ evaluation[e].refs = {}
    /\ evaluation' = [evaluation EXCEPT ![e] =
         [evaluation[e] EXCEPT !.step = "rules", !.rule = "none", !.saved = <<>>, !.knew = {}]]
    /\ UNCHANGED <<alertLog, chainHolder, readAlert, alertHour>>

RolledBack(ev) == ev.saved

(* A statement of a rule fails: back to its savepoint, on to the next      *)
(* rule.  The chain's lock goes with the savepoint that took it.           *)
RuleFails(e) ==
    LET ev == evaluation[e]
    IN /\ ev.step \in {"refs", "firing"}
       /\ evaluation' = [evaluation EXCEPT ![e] =
            [ev EXCEPT !.step = "rules", !.rule = "none", !.refs = {}, !.ref = "none", !.knew = {},
                       !.saved = <<>>, !.wrote = RolledBack(ev), !.failed = @ \cup {ev.rule}]]
       /\ chainHolder' = IF chainHolder = e /\ ev.saved = <<>> THEN "none" ELSE chainHolder
       /\ UNCHANGED <<alertLog, readAlert, alertHour>>

(* The commit; a transaction that dies instead leaves nothing.             *)
EndEvaluation(e) ==
    LET ev == evaluation[e]
    IN /\ \/ ev.step = "rules" /\ ev.rules = {} /\ alertLog' = alertLog \o ev.wrote
          \/ ev.step # "idle" /\ alertLog' = alertLog
       /\ evaluation' = [evaluation EXCEPT ![e] = NotRunning]
       /\ chainHolder' = IF chainHolder = e THEN "none" ELSE chainHolder
       /\ UNCHANGED <<readAlert, alertHour>>
-----------------------------------------------------------------------------
(* A user opens an alert and keeps its version.                            *)
ReadAlert(a) ==
    \E id \in 1..Len(alertLog) :
        /\ readAlert' = [readAlert EXCEPT ![a] = [id |-> id, version |-> alertLog[id].version]]
        /\ UNCHANGED <<alertLog, evaluation, chainHolder, alertHour>>

(* A mutant of MayAcknowledge: nothing is compared.                        *)
AnyAlert(row, version) == TRUE
(* The version, and alertLogMachine: 'fired' alone takes ACKNOWLEDGE.      *)
MayAcknowledge(row, version) == row.version = version /\ ~row.acknowledged

(* AcknowledgeAlert, under the lock of the row; its audit row waits for    *)
(* the chain's lock, too.                                                  *)
AcknowledgeAlert(a) ==
    LET id == readAlert[a].id
    IN /\ id # 0 /\ chainHolder = "none"
       /\ MayAcknowledge(alertLog[id], readAlert[a].version)
       /\ alertLog' = [alertLog EXCEPT ![id].acknowledged = TRUE, ![id].version = @ + 1, ![id].acks = @ + 1]
       /\ UNCHANGED <<evaluation, chainHolder, readAlert, alertHour>>

NextAlertHour ==
    /\ alertHour < LastAlertHour /\ alertHour' = alertHour + 1
    /\ UNCHANGED <<alertLog, evaluation, chainHolder, readAlert>>

NextAlerts ==
    \/ \E e \in Evaluation :
         \/ EvaluateAlertRules(e, AlertRule)
         \/ \E rule \in AlertRule : EvaluateAlertRules(e, {rule})
         \/ RunSourceQuery(e) \/ LookUpAlert(e) \/ FireAlert(e) \/ RuleDone(e) \/ RuleFails(e)
         \/ EndEvaluation(e)
    \/ \E a \in Acknowledger : ReadAlert(a) \/ AcknowledgeAlert(a)
    \/ NextAlertHour
SpecAlerts == InitAlerts /\ [][NextAlerts]_alertVars

-----------------------------------------------------------------------------
(* An alert is repeated within the dedupe window of its rule only by an    *)
(* evaluation that looked before the earlier one was committed: two that   *)
(* overlap may fire twice, two that follow one another never.              *)
RepeatsOverlapped ==
    \A i, j \in 1..Len(alertLog) :
        LET earlier == alertLog[i]  later == alertLog[j]
        IN earlier.rule = later.rule /\ earlier.ref = later.ref /\ i \in later.knew
             => \/ later.firedAt - earlier.firedAt >= DedupeWindow[earlier.rule]
                \/ DedupeWindow[earlier.rule] = 0
(* What a failed rule wrote is gone, what the rules before it wrote stays. *)
FailedRulesLeaveNothing ==
    \A e \in Evaluation : \A i \in 1..Len(evaluation[e].wrote) :
        evaluation[e].wrote[i].rule \notin evaluation[e].failed
(* An alert is acknowledged once, whoever has it open.                     *)
AcknowledgedOnce == \A i \in 1..Len(alertLog) : alertLog[i].acks <= 1

AlertsAreSound == RepeatsOverlapped /\ FailedRulesLeaveNothing /\ AcknowledgedOnce
=============================================================================
