------------------------------- MODULE ApiHost -------------------------------
(***************************************************************************)
(* The HTTP host (apps/api, packages/api-kit, modules/*/api): one request  *)
(* of one user, sent once or twice (a client that heard nothing sends it   *)
(* again, under the same idempotency key), from the session check to the   *)
(* reply, while the session ends, the user is deactivated and entities are *)
(* granted and withdrawn.                                                  *)
(*                                                                         *)
(* The session, the entities and the command are three transactions; what  *)
(* the host does between them is one step with the read before it.         *)
(* Attempts whose bodies differ are module Idempotency's subject.          *)
(*                                                                         *)
(* Abstracted: the operations of a use case are 'write' and 'read'; typed  *)
(* errors are classes (stale version, taken code, missing row, role, ...). *)
(***************************************************************************)
EXTENDS Integers, FiniteSets

CONSTANTS Attempt, Entity,
          Requests(_),       \* bound: the requests that are sent, of those there are
          MaxScopeChanges    \* bound: entities granted and withdrawn

ASSUME ApiAssumption == MaxScopeChanges \in Nat

VARIABLES request,          \* the request: [api, op, header, keyed, body]
          attempts,      \* what the host holds of each attempt, and its reply
          session,       \* identity.sessions: is the row neither revoked nor expired
          subject,       \* identity.users: [internal, active]
          members,       \* platform.allowed_entities() of the user, no active entity set
          scopeChanges,  \* entities granted and withdrawn so far
          keyRow,        \* platform.idempotency_keys: is the answer of the key stored
          commands        \* ghost: [by, entity, held] of every committed command
apiVars == <<request, attempts, session, subject, members, scopeChanges, keyRow, commands>>

-----------------------------------------------------------------------------
(* One record per handlers file: the status its errorToApiFailure gives    *)
(* each class of error it names, and whether it has an operation that asks *)
(* for no key (GET).  What it does not name is answered 500.               *)
Api(path, answers)         == [path |-> path, answers |-> answers, reads |-> FALSE]
ApiWithRead(path, answers) == [path |-> path, answers |-> answers, reads |-> TRUE]
Named  == {<<"body", 400>>, <<"key", 409>>, <<"rule", 422>>}
Stale  == {<<"stale", 409>>}
Roles  == {<<"role", 422>>}
Absent == {<<"missing", 422>>}
Taken  == {<<"taken", 409>>}

AccountingPeriodsApi == Api("accounting-periods", Named \cup Stale \cup Absent \cup {<<"role", 403>>})
PostJournalApi       == Api("post-journal", Named \cup Stale \cup Roles \cup Absent)
MaintainPriceListApi == Api("maintain-price-list",
                         Named \cup Stale \cup Roles \cup Absent \cup {<<"taken", 422>>})
AssertVehicleApi     == ApiWithRead("assert-vehicle-assignable",
                                 {<<"body", 400>>, <<"rule", 422>>, <<"missing", 404>>})
RegisterVehicleApi   == Api("register-vehicle", Named \cup Taken)
CalculateDailyApi    == Api("calculate-daily-commission", Named \cup Taken)
ConfirmCommissionApi == Api("confirm-commission", Named \cup Stale \cup {<<"role", 403>>, <<"window", 409>>})
DisputeCommissionApi == Api("dispute-commission", Named \cup Stale \cup {<<"role", 403>>, <<"window", 409>>})
MaintainShiftApi     == Api("maintain-shift", Named \cup Stale \cup Roles \cup Absent \cup Taken)
RegisterEmployeeApi  == ApiWithRead("register-employee", Named \cup Stale \cup Roles \cup Absent \cup Taken)
AssignDriverIdApi    == Api("assign-driver-id", Named \cup Taken)
EvaluateDtlApi       == Api("evaluate-dtl-problem", Named)
PullShipmentsApi     == Api("pull-shipments", Named \cup Stale)
ReportAgentHealthApi == Api("report-agent-health", Named)
EvaluateAlertsApi    == Api("evaluate-alerts",
                         Named \cup Stale \cup Taken \cup {<<"role", 403>>, <<"missing", 404>>, <<"link", 400>>})
MaintainSiteApi      == Api("maintain-site", Named \cup Stale \cup Roles \cup Absent)
ManageCreditApi      == Api("manage-account-credit", Named \cup Stale \cup Roles \cup Absent)
ManageContractApi    == Api("manage-contract", Named \cup Stale \cup Roles \cup Absent)
ManageQuoteApi       == Api("manage-quote", Named \cup Stale \cup Roles \cup Absent)
CreateTaskApi        == Api("create-delivery-task", Named \cup Stale \cup Absent \cup Taken)
CountInventoryApi    == Api("count-inventory",
                         Named \cup Stale \cup Roles \cup Absent \cup {<<"negative", 422>>})
ManageSpaceApi       == Api("manage-space", Named \cup Roles)
ProcessOutboundApi   == ApiWithRead("process-outbound", Named \cup Stale \cup Roles \cup Absent)
ReceiveInboundApi    == ApiWithRead("receive-inbound", Named \cup Stale \cup Roles \cup Absent)
ScheduleInboundApi   == Api("schedule-inbound", Named \cup Stale \cup Roles \cup Absent)
TakeSnapshotApi      == Api("take-occupancy-snapshot", Named \cup Roles \cup Absent)
OtpLoginApi          == Api("otp-login", {<<"body", 400>>, <<"rule", 422>>})
CreateDimensionApi   == Api("create-dimension-value", {})         \* no handlers file yet

(* buildRouteTable: what is registered without a handler, or not to be     *)
(* mounted yet, is answered 501.                                           *)
NotBuilt == {CreateDimensionApi, OtpLoginApi}
Mounted ==
    {AccountingPeriodsApi, PostJournalApi, MaintainPriceListApi, AssertVehicleApi,
     RegisterVehicleApi, CalculateDailyApi, ConfirmCommissionApi, DisputeCommissionApi,
     MaintainShiftApi, RegisterEmployeeApi, AssignDriverIdApi, EvaluateDtlApi,
     PullShipmentsApi, ReportAgentHealthApi, EvaluateAlertsApi, MaintainSiteApi,
     ManageCreditApi, ManageContractApi, ManageQuoteApi, CreateTaskApi, CountInventoryApi,
     ManageSpaceApi, ProcessOutboundApi, ReceiveInboundApi, ScheduleInboundApi,
     TakeSnapshotApi}

(* The classes of error the commands of a use case throw, by module.       *)
Throws(paths, classes) == [paths |-> paths, classes |-> classes]
BillingThrows  == {Throws({"accounting-periods", "post-journal"},
                          {"stale", "role", "missing", "rule"})}
CatalogThrows  == {Throws({"maintain-price-list"}, {"stale", "role", "missing", "taken", "rule"})}
FleetThrows    == {Throws({"register-vehicle"}, {"taken", "rule"}),
                   Throws({"assert-vehicle-assignable"}, {"missing", "rule"})}
HrThrows       == {Throws({"maintain-shift", "register-employee"},
                          {"stale", "role", "missing", "taken", "rule"}),
                   Throws({"calculate-daily-commission"}, {"taken", "rule"}),
                   Throws({"confirm-commission", "dispute-commission"},
                          {"stale", "role", "window", "rule"})}
ImileThrows    == {Throws({"assign-driver-id"}, {"taken", "rule"}),
                   Throws({"pull-shipments"}, {"stale", "rule"}),
                   Throws({"evaluate-dtl-problem", "report-agent-health"}, {"rule"})}
PlatformThrows == {Throws({"evaluate-alerts"}, {"stale", "taken", "role", "missing", "link", "rule"}),
                   Throws({"maintain-site"}, {"stale", "role", "missing", "rule"})}
SalesThrows    == {Throws({"manage-account-credit", "manage-contract", "manage-quote"},
                          {"stale", "role", "missing", "rule"})}
TmsThrows      == {Throws({"create-delivery-task"}, {"stale", "missing", "taken", "rule"})}
WmsThrows      == {Throws({"count-inventory", "process-outbound", "receive-inbound",
                           "schedule-inbound"},
                          {"stale", "role", "missing", "rule"}),
                   Throws({"manage-space"}, {"role", "rule"}),
                   Throws({"take-occupancy-snapshot"}, {"role", "missing", "rule"})}
OwnErrors(api) ==
    LET thrown == {t \in BillingThrows \cup CatalogThrows \cup FleetThrows \cup HrThrows
                            \cup ImileThrows \cup PlatformThrows \cup SalesThrows
                            \cup TmsThrows \cup WmsThrows : api.path \in t.paths}
    IN  UNION {t.classes : t \in thrown}
(* postPick, postTransfer, postAdjustment: the ledger's no_negative_stock. *)
LedgerErrors(api) ==
    IF api \in {CountInventoryApi, ProcessOutboundApi, ReceiveInboundApi} THEN {"negative"} ELSE {}

(* errorToApiFailure *)
StatusOf(api, class) ==
    LET named == {answer \in api.answers : answer[1] = class}
    IN  IF named = {} THEN 500 ELSE (CHOOSE answer \in named : TRUE)[2]

-----------------------------------------------------------------------------
NoReply == 0
Waiting == [step |-> "out", entity |-> "none", reply |-> NoReply,
            vouched |-> FALSE, class |-> "none"]
ApiRequest == [api : Mounted \cup NotBuilt, op : {"write", "read"},
               header : Entity \cup {"absent", "malformed"},
               keyed : BOOLEAN, body : {"good", "invalid", "unreadable"}]
Refused4xx == {400, 401, 403, 404, 409, 413, 415, 422, 501}

ApiTypeOK ==
    /\ request \in ApiRequest
    /\ attempts \in [Attempt -> [step : {"out", "known", "scoped", "working", "over"},
                                 entity : Entity \cup {"none"},
                                 reply : Refused4xx \cup {NoReply, 200, 500},
                                 vouched : BOOLEAN,
                                 class : {"none", "stale", "role", "missing", "taken", "rule",
                                          "window", "link", "negative"}]]
    /\ {session, keyRow} \subseteq BOOLEAN
    /\ subject \in [internal : BOOLEAN, active : BOOLEAN]
    /\ members \subseteq Entity /\ scopeChanges \in 0..MaxScopeChanges
    /\ commands \subseteq [by : Attempt, entity : Entity, held : SUBSET Entity]

InitApi ==
    /\ request \in {r \in ApiRequest :
                   /\ Requests(r)
                   /\ IF r.op = "read" THEN r.api.reads /\ ~r.keyed /\ r.body # "unreadable"
                                       ELSE r.api # AssertVehicleApi}
    /\ attempts = [a \in Attempt |-> Waiting]
    /\ session \in BOOLEAN /\ subject \in [internal : BOOLEAN, active : BOOLEAN]
    /\ members \in SUBSET Entity
    /\ scopeChanges = 0 /\ keyRow = FALSE /\ commands = {}

Reply(a, status) ==
    attempts' = [attempts EXCEPT ![a].step = "over", ![a].reply = status]

-----------------------------------------------------------------------------
(* A mutant of Vouched: the deactivated keep their sessions.               *)
VouchedByToken == session /\ subject.internal
(* authenticate: one statement over the session and its user.              *)
Vouched == session /\ subject.internal /\ subject.active

(* onRequest, before the body is parsed; then the parser, then the mark of *)
(* a route that has no handler.                                            *)
Receive(a) ==
    /\ attempts[a].step = "out"
    /\ IF ~Vouched THEN Reply(a, 401)
       ELSE LET known == [attempts[a] EXCEPT !.vouched =
                                        session /\ subject.internal /\ subject.active]
                Over(status) == [known EXCEPT !.step = "over", !.reply = status]
            IN \/ /\ request.body = "unreadable"
                  /\ \E status \in {400, 413, 415} :
                       attempts' = [attempts EXCEPT ![a] = Over(status)]
               \/ /\ request.body # "unreadable"
                  /\ attempts' = [attempts EXCEPT ![a] =
                       IF request.api \in NotBuilt THEN Over(501)
                       ELSE [known EXCEPT !.step = "known"]]
    /\ UNCHANGED <<request, session, subject, members, scopeChanges, keyRow, commands>>

(* resolveActiveEntityId: the header must name one of the user's entities; *)
(* without it there must be exactly one.                                   *)
ChosenEntities(header) ==
    IF header = "absent" THEN {e \in Entity : members = {e}} ELSE members \cap {header}

(* requireIdempotencyKey, then the schema, before the command runs.        *)
HandlerRefusal == (request.op = "write" /\ ~request.keyed) \/ request.body = "invalid"

ResolveEntity(a) ==
    /\ attempts[a].step = "known"
    /\ IF ChosenEntities(request.header) = {}
       THEN Reply(a, IF request.header = "absent" THEN 422 ELSE 403)
       ELSE IF HandlerRefusal THEN Reply(a, 400)
       ELSE \E e \in ChosenEntities(request.header) :
              attempts' = [attempts EXCEPT ![a].step = "scoped", ![a].entity = e]
    /\ UNCHANGED <<request, session, subject, members, scopeChanges, keyRow, commands>>

-----------------------------------------------------------------------------
(* withIdempotentContext: the key is in flight, is answered, or is ours.   *)
KeyInFlight(a) == \E b \in Attempt \ {a} : attempts[b].step = "working"
BeginCommand(a) ==
    /\ attempts[a].step = "scoped"
    /\ CASE request.op = "read" -> attempts' = [attempts EXCEPT ![a].step = "working"]
         [] request.op = "write" /\ KeyInFlight(a) -> Reply(a, StatusOf(request.api, "key"))
         [] request.op = "write" /\ ~KeyInFlight(a) /\ keyRow -> Reply(a, 200)
         [] OTHER -> attempts' = [attempts EXCEPT ![a].step = "working"]
    /\ UNCHANGED <<request, session, subject, members, scopeChanges, keyRow, commands>>

(* A mutant of ScopeAllows: the policies follow app.entity_id alone.       *)
AnyScope(e) == TRUE
(* platform.allowed_entities() under app.entity_id, at the statement: the  *)
(* active entity if the user is still its member.                          *)
ScopeAllows(e) == e \in members

(* The command commits, with its answer under the key.  The answer may be  *)
(* lost on its way, and a commit that was not heard of is answered 500.    *)
CommitCommand(a) ==
    /\ attempts[a].step = "working" /\ ScopeAllows(attempts[a].entity)
    /\ \E status \in {200, 500, NoReply} : Reply(a, status)
    /\ IF request.op = "read" THEN UNCHANGED <<keyRow, commands>>
       ELSE /\ keyRow' = TRUE
            /\ commands' = commands
                 \cup {[by |-> a, entity |-> attempts[a].entity, held |-> members]}
    /\ UNCHANGED <<request, session, subject, members, scopeChanges>>

(* The command refuses: rolled back, and answered by the class.            *)
RefuseCommand(a, class) ==
    /\ attempts[a].step = "working"
    /\ attempts' = [attempts EXCEPT ![a].step = "over", ![a].class = class,
                                    ![a].reply = StatusOf(request.api, class)]
    /\ UNCHANGED <<request, session, subject, members, scopeChanges, keyRow, commands>>

(* An error nobody named, or the process dies with the request.            *)
FailAttempt(a) ==
    /\ attempts[a].step \in {"known", "scoped", "working"}
    /\ \E status \in {500, NoReply} : Reply(a, status)
    /\ UNCHANGED <<request, session, subject, members, scopeChanges, keyRow, commands>>

-----------------------------------------------------------------------------
(* Revoked or expired; never good again.                                   *)
EndSession ==
    /\ session /\ session' = FALSE
    /\ UNCHANGED <<request, attempts, subject, members, scopeChanges, keyRow, commands>>
DeactivateUser ==
    /\ subject.active /\ subject' = [subject EXCEPT !.active = FALSE]
    /\ UNCHANGED <<request, attempts, session, members, scopeChanges, keyRow, commands>>
ChangeScope(e) ==
    /\ scopeChanges < MaxScopeChanges /\ scopeChanges' = scopeChanges + 1
    /\ members' = IF e \in members THEN members \ {e} ELSE members \cup {e}
    /\ UNCHANGED <<request, attempts, session, subject, keyRow, commands>>

NextApi ==
    \/ \E a \in Attempt :
         \/ Receive(a) \/ ResolveEntity(a) \/ BeginCommand(a) \/ CommitCommand(a) \/ FailAttempt(a)
         \/ \E class \in OwnErrors(request.api) \cup LedgerErrors(request.api) :
              RefuseCommand(a, class)
    \/ EndSession \/ DeactivateUser \/ \E e \in Entity : ChangeScope(e)
SpecApi == InitApi /\ [][NextApi]_apiVars

-----------------------------------------------------------------------------
(* A request is done once at most and answered from then on, so one the    *)
(* client did not hear of, or that was answered 500, may be sent again;    *)
(* an attempt that was refused has not done it.                            *)
RequestDoneOnce ==
    /\ Cardinality(commands) <= 1 /\ (commands # {} => keyRow)
    /\ \A a \in Attempt : attempts[a].reply \in Refused4xx => \A d \in commands : d.by # a
(* Whatever the client hears can be acted on: what is answered 200 was     *)
(* done, too.                                                              *)
RepliesTellWhatHappened ==
    /\ RequestDoneOnce
    /\ \A a \in Attempt :
         attempts[a].reply = 200 /\ request.op = "write" => commands # {}
(* Nothing but 401 is said to whoever holds no session of an active        *)
(* internal user, and what is done is done in the entity the client named, *)
(* or the only one it has, and of which it is a member when it is done.    *)
RequestsStayInScope ==
    /\ \A a \in Attempt : attempts[a].reply \notin {NoReply, 401} => attempts[a].vouched
    /\ \A d \in commands : d.entity \in d.held /\ request.header \in {"absent", d.entity}
(* A command's own refusal is never the host's 500: a client does not send *)
(* again and again what is refused for good.                               *)
RefusalsAreNamed ==
    \A a \in Attempt : attempts[a].class \notin {"none", "negative"} => attempts[a].reply # 500

ApiAnswersTruly == RepliesTellWhatHappened /\ RequestsStayInScope /\ RefusalsAreNamed
=============================================================================
