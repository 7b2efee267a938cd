------------------------------ MODULE MCServices ------------------------------
(***************************************************************************)
(* One run for the components that share no state: each behaviour chooses  *)
(* the component that is live, the others rest in their initial states.    *)
(* The behaviours of the run are exactly those of the seventeen            *)
(* specifications, one after another, so a property of one is checked on   *)
(* all of its own states and trivially kept by the others.                 *)
(***************************************************************************)
EXTENDS ServicePromises, AuditChain, CommandEvents, SpaceBlocks, OccupancyBilling, PriceLists,
        PortalPulls

VARIABLE live

-----------------------------------------------------------------------------
(* Values of the constants. *)

SharedLock == [k \in Key |-> 1]     \* every key hashes to the same advisory lock

FloorOfOne == [s \in Service |-> 1]
KwdLine(s, from, to, free, price) ==
  [service |-> s, from |-> from, to |-> to, free |-> free, price |-> price, currency |-> "KWD"]
SampleLines ==
  {KwdLine("s1", -1, -1, 1, 1), KwdLine("s1", -1, -1, 0, 2), KwdLine("s1", 0, -1, 0, 1),
   KwdLine("s1", 0, 2, 0, 1),   KwdLine("s1", 0, 2, 1, 2),   KwdLine("s1", 2, -1, 1, 3),
   KwdLine("s1", 2, 3, 0, 3),   KwdLine("s1", 3, -1, 0, 1),  KwdLine("s1", 1, -1, 0, 1),
   KwdLine("s2", 0, -1, 0, 0),  KwdLine("s2", 0, 1, 1, 2),   KwdLine("s2", 1, -1, 1, 2),
   KwdLine("s2", -1, -1, -1, 1), KwdLine("s2", -1, 2, 0, 1),
   [KwdLine("s2", -1, -1, 0, 1) EXCEPT !.currency = "USD"]}

OneListOfEach == [l1 |-> "client", l2 |-> "standard", l3 |-> "segment"]
FromDayOne == [l \in PriceList |-> 1]
SecondDay == {[from |-> 2, to |-> 2]}

OneException == {[id |-> 1, from |-> 1, to |-> 1, price |-> 1]}

TwoBands == {[from |-> 0, to |-> 1, rate |-> 1, min |-> 1],
             [from |-> 1, to |-> -1, rate |-> 2, min |-> 1]}

AllInOne == [x \in Clerk \cup TaskOrder |-> "e1"]

(* Every kind of request of three use cases by every user, the plain ones  *)
(* of the others by a user who is allowed them at first; the entities are  *)
(* alike, so no header names the second.                                   *)
SampledApis == {ReportAgentHealthApi, AssertVehicleApi, OtpLoginApi}
PlainOrSampled(r) ==
  \/ r.header = "absent" /\ r.body = "good" /\ r.keyed = (r.op = "write")
  \/ r.api \in SampledApis /\ r.header # "e2"

(* An order that passes, and every one or two things that can be wrong.    *)
Lot(qty, expires, blocked) == [qty |-> qty, expires |-> expires, blocked |-> blocked]
Sound ==
  [contract |-> "active", ends |-> Never, skuOwner |-> "client", skuStatus |-> "active",
   minLife |-> 1, address |-> TRUE, priceLine |-> TRUE, exception |-> FALSE, limit |-> Never,
   creditHold |-> FALSE,
   lot |-> [s \in Slot |-> IF s = "a" THEN Lot(1, 2, FALSE) ELSE Lot(0, 0, TRUE)]]
Defects ==
  {[Sound EXCEPT !.contract = "none"], [Sound EXCEPT !.ends = 0],
   [Sound EXCEPT !.skuOwner = "other"], [Sound EXCEPT !.skuOwner = "nobody"],
   [Sound EXCEPT !.skuStatus = "blocked"], [Sound EXCEPT !.minLife = Never],
   [Sound EXCEPT !.lot["a"] = Lot(1, 1, FALSE)], [Sound EXCEPT !.lot["a"] = Lot(1, Never, TRUE)],
   [Sound EXCEPT !.lot["a"] = Lot(0, 0, FALSE)], [Sound EXCEPT !.lot["b"] = Lot(1, 0, FALSE)],
   [Sound EXCEPT !.address = FALSE], [Sound EXCEPT !.priceLine = FALSE],
   [Sound EXCEPT !.limit = 0], [Sound EXCEPT !.creditHold = TRUE]}
Both(d, e) == [k \in DOMAIN Sound |-> IF d[k] # Sound[k] THEN d[k] ELSE e[k]]
UpToTwoDefects == {Sound} \cup {Both(d, e) : d, e \in Defects}

-----------------------------------------------------------------------------
Components == {"chain", "keys", "counts", "space", "occupancy", "prices", "contracts", "credit",
               "quotes", "commissions", "login", "pulls", "shifts", "staff",
               "api", "checks", "tasks"}

PlainRequest ==
  [api |-> ProcessOutboundApi, op |-> "write", header |-> "absent", keyed |-> TRUE, body |-> "good"]

(* The user of a plain request, before sessions end and scopes change.     *)
PlainCaller ==
  request.api \in SampledApis
    \/ (session /\ subject = [internal |-> TRUE, active |-> TRUE] /\ members = {"e1"})

(* A component that rests starts in one of its initial states, not in all. *)
Resting(component, value, initial) ==
  IF live = component THEN TRUE ELSE value = CHOOSE v \in initial : TRUE

InitServices ==
  /\ live \in Components
  /\ InitChain
  /\ Resting("keys", call, [Session -> Call]) /\ InitEvents
  /\ Resting("counts", stock, [Place -> CountQty]) /\ InitCounts
  /\ InitSpace
  /\ Resting("occupancy", occupied, [Group -> Pallets])
  /\ Resting("occupancy", contracted, [Group -> Pallets]) /\ InitOccupancy
  /\ InitPrices /\ InitContracts /\ InitCredit
  /\ Resting("quotes", cost, ServiceCost) /\ InitQuotes
  /\ InitCommissions
  /\ Resting("login", userActive, BOOLEAN) /\ InitLogin
  /\ InitPulls
  /\ InitShifts /\ InitStaff
  /\ Resting("api", request, {PlainRequest}) /\ Resting("api", session, {TRUE})
  /\ Resting("api", subject, {[internal |-> TRUE, active |-> TRUE]})
  /\ Resting("api", members, {{}}) /\ InitApi /\ (live = "api" => PlainCaller)
  /\ Resting("checks", facts, {Sound}) /\ InitChecks
  /\ InitTasks

OthersRest ==
  /\ UNCHANGED live
  /\ IF live = "chain" THEN TRUE ELSE UNCHANGED chainVars
  /\ IF live = "keys" THEN TRUE ELSE UNCHANGED eventVars
  /\ IF live = "counts" THEN TRUE ELSE UNCHANGED countVars
  /\ IF live = "space" THEN TRUE ELSE UNCHANGED spaceVars
  /\ IF live = "occupancy" THEN TRUE ELSE UNCHANGED occupancyVars
  /\ IF live = "prices" THEN TRUE ELSE UNCHANGED priceVars
  /\ IF live = "contracts" THEN TRUE ELSE UNCHANGED contractVars
  /\ IF live = "credit" THEN TRUE ELSE UNCHANGED creditVars
  /\ IF live = "quotes" THEN TRUE ELSE UNCHANGED quoteVars
  /\ IF live = "commissions" THEN TRUE ELSE UNCHANGED commissionVars
  /\ IF live = "login" THEN TRUE ELSE UNCHANGED loginVars
  /\ IF live = "pulls" THEN TRUE ELSE UNCHANGED pullVars
  /\ IF live = "shifts" THEN TRUE ELSE UNCHANGED shiftVars
  /\ IF live = "staff" THEN TRUE ELSE UNCHANGED staffVars
  /\ IF live = "api" THEN TRUE ELSE UNCHANGED apiVars
  /\ IF live = "checks" THEN TRUE ELSE UNCHANGED checkVars
  /\ IF live = "tasks" THEN TRUE ELSE UNCHANGED taskVars

NextServices ==
  \/ live = "chain" /\ OthersRest /\ NextChain
  \/ live = "keys" /\ OthersRest /\ NextEvents
  \/ live = "counts" /\ OthersRest /\ NextCounts
  \/ live = "space" /\ OthersRest /\ NextSpace
  \/ live = "occupancy" /\ OthersRest /\ NextOccupancy
  \/ live = "prices" /\ OthersRest /\ NextPrices
  \/ live = "contracts" /\ OthersRest /\ NextContracts
  \/ live = "credit" /\ OthersRest /\ NextCredit
  \/ live = "quotes" /\ OthersRest /\ NextQuotes
  \/ live = "commissions" /\ OthersRest /\ NextCommissions
  \/ live = "login" /\ OthersRest /\ NextLogin
  \/ live = "pulls" /\ OthersRest /\ NextPulls
  \/ live = "shifts" /\ OthersRest /\ NextShifts
  \/ live = "staff" /\ OthersRest /\ NextStaff
  \/ live = "api" /\ OthersRest /\ NextApi
  \/ live = "checks" /\ OthersRest /\ NextChecks
  \/ live = "tasks" /\ OthersRest /\ NextTasks

serviceVars ==
  <<live, chainVars, eventVars, countVars, spaceVars, occupancyVars, priceVars, contractVars,
    creditVars, quoteVars, commissionVars, loginVars, pullVars, shiftVars, staffVars,
    apiVars, checkVars, taskVars>>

SpecServices == InitServices /\ [][NextServices]_serviceVars

-----------------------------------------------------------------------------
(* Every row, lock holder, version and counter stays in the range the      *)
(* schema's column types and checks give it (of the component that moves;  *)
(* the others have not left an initial state).                             *)
ServicesTypesOK ==
  CASE live = "chain" -> ChainTypesOK
    [] live = "keys" -> KeysTypeOK /\ EventsTypeOK
    [] live = "counts" -> CountsTypeOK
    [] live = "space" -> SpaceTypeOK
    [] live = "occupancy" -> OccupancyTypeOK
    [] live = "prices" -> PricesTypeOK
    [] live = "contracts" -> ContractsTypeOK
    [] live = "credit" -> CreditTypeOK
    [] live = "quotes" -> QuotesTypeOK
    [] live = "commissions" -> CommissionsTypeOK
    [] live = "login" -> LoginTypesOK
    [] live = "pulls" -> PullsTypeOK
    [] live = "shifts" -> ShiftsTypeOK
    [] live = "staff" -> DriverIdsTypeOK
    [] live = "api" -> ApiTypeOK
    [] live = "checks" -> ChecksTypeOK
    [] live = "tasks" -> TasksTypeOK
==============================================================================
