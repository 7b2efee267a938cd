---------------------------- MODULE OutboundChecks ----------------------------
(***************************************************************************)
(* RunOutboundChecks: the ten conditions of one outbound order, read       *)
(* statement by statement in one READ COMMITTED transaction, while others  *)
(* post stock, block places, change the SKU, the contract and the credit.  *)
(*                                                                         *)
(* The order and its lines hold still: the order's row is locked.  One     *)
(* line of one SKU (a second repeats conditions 3 to 7 and 10); whether    *)
(* the checked order may then be allocated is module OutboundOrders.       *)
(*                                                                         *)
(* Abstracted: dates are numbers; a place has at most one lot of the SKU.  *)
(***************************************************************************)
EXTENDS Integers, FiniteSets, Functions, FiniteSetsExt

CONSTANTS Slot,              \* places of the warehouse, each with one lot of the SKU
          StartFacts,        \* bound: the facts the runs start from, of those there are
          LastCheckDay, MaxFactChanges   \* bounds

VARIABLES facts,        \* what the statements read
          checkDay,        \* the date the API process injects
          checkRun,          \* what the run has read and found
          factChanges,
          everHeld, everFailed  \* ghosts: the conditions that have held, have failed since it began
checkVars == <<facts, checkDay, checkRun, factChanges, everHeld, everFailed>>

-----------------------------------------------------------------------------
Never == 99       \* an absent end, expiry, minimum or limit
Fact == [contract : {"none", "active"}, ends : 0..LastCheckDay \cup {Never},
         skuOwner : {"nobody", "client", "other"}, skuStatus : {"active", "blocked"},
         minLife : {1, Never},
         lot : [Slot -> [qty : 0..1, expires : 0..LastCheckDay + 1 \cup {Never},
                        blocked : BOOLEAN]],
         address : BOOLEAN, priceLine : BOOLEAN, exception : BOOLEAN,
         limit : {0, Never}, creditHold : BOOLEAN]

ASSUME CheckConstants ==
    /\ IsFiniteSet(Slot)
    /\ StartFacts \subseteq Fact
    /\ LastCheckDay \in Nat /\ LastCheckDay < Never
    /\ MaxFactChanges \in Nat

Ordered == 1
Conditions == 1..10
(* The order of the statements: condition 2 decides last and never throws. *)
CheckOrder == <<1, 3, 4, 5, 6, 7, 8, 9, 10, 2>>

(* getContractCheck, assertContractActive *)
ContractActive(f, asOf) == f.contract = "active" /\ f.ends >= asOf
(* getStockAvailability: over every place, the blocked ones too.           *)
StockOf(f, places) == SumFunctionOnSet([s \in Slot |-> f.lot[s].qty], places)
(* assertSufficientStock                                                   *)
StockCovers(f) == StockOf(f, Slot) >= Ordered
(* getSkuCheck, assertSkuResolved, assertSkuBelongsToOrderClient           *)
SkuIsClients(sku) == sku.owner = "client"
SkuIsActive(sku)  == sku.status = "active"
SkuRow(f) == [owner |-> f.skuOwner, status |-> f.skuStatus, minLife |-> f.minLife]
(* getStockLots: every lot there is stock of.                              *)
StockLots(f) == {s \in Slot : f.lot[s].qty > 0}
(* assertShelfLifeSufficient: against the minimum of the SKU row read      *)
(* before; a lot without an expiry passes.                                 *)
ShelfLifeSuffices(f, sku, asOf) ==
    sku.minLife # Never =>
      \A s \in StockLots(f) : f.lot[s].expires = Never \/ f.lot[s].expires - asOf >= sku.minLife
(* A mutant of OpenPlaces: the stock of blocked places counts.             *)
AllPlaces(f) == StockLots(f)
(* getStockedLocationBlocks                                                *)
OpenPlaces(f) == {s \in StockLots(f) : ~f.lot[s].blocked}
(* assertNonBlockedLocationsSufficient                                     *)
OpenPlacesCover(f) == StockOf(f, OpenPlaces(f)) >= Ordered
(* assertServicePriced, of what hasPricedLine (of the list of the contract *)
(* that was read) and hasPriceException found.                             *)
ServicePriced(hasPricedLine, hasPriceException) == hasPricedLine \/ hasPriceException
(* getContractSkuLimit, assertOrderQuantityWithinLimit: no row, no cap.    *)
WithinLimit(f) == f.limit = Never \/ Ordered <= f.limit

NoSku == [owner |-> "nobody", status |-> "active", minLife |-> Never]
NotRun == [next |-> 0, asOf |-> 0, sku |-> NoSku, skuRead |-> FALSE, priceLine |-> "unread",
           status |-> "draft", failing |-> 0]
Judged == checkRun.status # "draft" \/ checkRun.failing # 0

(* The minimum life that counts: the SKU's, from the run's reading of it   *)
(* on as it was read.                                                      *)
MinLife(f) == IF checkRun.skuRead THEN checkRun.sku.minLife ELSE f.minLife

(* A condition of the order as the blueprint words it (one piece is        *)
(* ordered), of the whole world at once: what the run should find.         *)
Holds(c, f, least, asOf) ==
    LET lots == {f.lot[s] : s \in {s \in Slot : f.lot[s].qty > 0}}
    IN CASE c = 1  -> f.contract = "active" /\ asOf <= f.ends
         [] c = 2  -> ~f.creditHold
         [] c = 3  -> lots # {}
         [] c = 4  -> f.skuOwner = "client"
         [] c = 5  -> least = Never \/ \A l \in lots : asOf + least <= l.expires
         [] c = 6  -> f.skuStatus = "active"
         [] c = 7  -> \E l \in lots : ~l.blocked
         [] c = 8  -> f.address
         [] c = 9  -> f.priceLine \/ f.exception
         [] c = 10 -> f.limit = Never \/ 1 <= f.limit
HoldNow(f, asOf) == {c \in Conditions : Holds(c, f, MinLife(f), asOf)}

ChecksTypeOK ==
    /\ facts \in Fact /\ checkDay \in 0..LastCheckDay
    /\ checkRun \in [next : 0..10, asOf : 0..LastCheckDay,
                sku : [owner : {"nobody", "client", "other"}, status : {"active", "blocked"},
                       minLife : {1, Never}],
                skuRead : BOOLEAN, priceLine : {"unread", "yes", "no"}, failing : 0..10,
                status : {"draft", "checks_pending", "credit_rejected"}]
    /\ factChanges \in 0..MaxFactChanges /\ {everHeld, everFailed} \subseteq SUBSET Conditions

InitChecks ==
    /\ facts \in StartFacts /\ checkDay = 0 /\ checkRun = NotRun /\ factChanges = 0
    /\ everHeld = HoldNow(facts, checkDay) /\ everFailed = Conditions \ HoldNow(facts, checkDay)

-----------------------------------------------------------------------------
(* getOrderForUpdate (the version, the draft), the injected date, and the  *)
(* order's lines; the ghosts begin here.                                   *)
BeginChecks ==
    /\ checkRun = NotRun
    /\ checkRun' = [checkRun EXCEPT !.next = 1, !.asOf = checkDay]
    /\ everHeld' = HoldNow(facts, checkDay) /\ everFailed' = Conditions \ HoldNow(facts, checkDay)
    /\ UNCHANGED <<facts, checkDay, factChanges>>

(* What a statement finds: conditions 4 to 6 judge the SKU row that was    *)
(* read before condition 3, condition 9 what hasPricedLine found before.   *)
Finds(c) ==
    CASE c = 1  -> ContractActive(facts, checkRun.asOf)
      [] c = 2  -> ~facts.creditHold
      [] c = 3  -> StockCovers(facts)
      [] c = 4  -> SkuIsClients(checkRun.sku)
      [] c = 5  -> ShelfLifeSuffices(facts, checkRun.sku, checkRun.asOf)
      [] c = 6  -> SkuIsActive(checkRun.sku)
      [] c = 7  -> OpenPlacesCover(facts)
      [] c = 8  -> facts.address
      [] c = 9  -> ServicePriced(checkRun.priceLine = "yes", facts.exception)
      [] c = 10 -> WithinLimit(facts)

(* getSkuCheck of every line, after the contract and before the stock.     *)
ReadSkus ==
    /\ checkRun.next = 2 /\ ~checkRun.skuRead
    /\ checkRun' = [checkRun EXCEPT !.sku = SkuRow(facts), !.skuRead = TRUE]
    /\ UNCHANGED <<facts, checkDay, factChanges, everHeld, everFailed>>

(* hasPricedLine, a statement before the one about the exception.          *)
ReadPriceLine ==
    /\ checkRun.next = 8 /\ checkRun.priceLine = "unread" /\ ~Judged
    /\ checkRun' = [checkRun EXCEPT !.priceLine = IF facts.priceLine THEN "yes" ELSE "no"]
    /\ UNCHANGED <<facts, checkDay, factChanges, everHeld, everFailed>>

(* One statement and its judgement: the first that fails throws, and the   *)
(* order stays a draft; a credit hold moves it to credit_rejected.         *)
CheckCondition ==
    /\ checkRun.next \in 1..10 /\ ~Judged /\ (checkRun.next = 2 => checkRun.skuRead)
    /\ checkRun.next = 8 => checkRun.priceLine # "unread"
    /\ LET c == CheckOrder[checkRun.next]
       IN checkRun' = CASE Finds(c) /\ c # 2  -> [checkRun EXCEPT !.next = @ + 1]
                   [] Finds(c) /\ c = 2  -> [checkRun EXCEPT !.status = "checks_pending"]
                   [] ~Finds(c) /\ c = 2 -> [checkRun EXCEPT !.status = "credit_rejected"]
                   [] OTHER              -> [checkRun EXCEPT !.failing = c]
    /\ UNCHANGED <<facts, checkDay, factChanges, everHeld, everFailed>>

-----------------------------------------------------------------------------
(* What others commit meanwhile: a block put on or lifted, a posting to a  *)
(* place, a movement between two, another end of the contract, another     *)
(* minimum life, a price list activated or expired; exceptions are only    *)
(* ever added.                                                             *)
BlockChanged(s) == [facts EXCEPT !.lot[s].blocked = ~@]
StockPosted(s)  == [facts EXCEPT !.lot[s].qty = 1 - @]
StockMoved(s, t) ==
    [facts EXCEPT !.lot = [@ EXCEPT ![s].qty = facts.lot[t].qty, ![t].qty = facts.lot[s].qty]]
FactChange ==
    {[facts EXCEPT !.contract = "none"], [facts EXCEPT !.skuStatus = "blocked"],
     [facts EXCEPT !.skuStatus = "active"], [facts EXCEPT !.creditHold = ~@],
     [facts EXCEPT !.exception = TRUE], [facts EXCEPT !.limit = 0],
     [facts EXCEPT !.priceLine = ~@]}
    \cup {[facts EXCEPT !.ends = day] : day \in 0..LastCheckDay \cup {Never}}
    \cup {[facts EXCEPT !.minLife = days] : days \in {1, Never}}
    \cup {BlockChanged(s) : s \in Slot}
    \cup {StockPosted(s) : s \in Slot}
    \cup {StockMoved(s, t) : s, t \in Slot}
Remember(f, day) ==
    /\ everHeld' = everHeld \cup HoldNow(f, day)
    /\ everFailed' = everFailed \cup (Conditions \ HoldNow(f, day))
ChangeFacts(f) ==
    /\ f # facts /\ factChanges < MaxFactChanges /\ ~Judged
    /\ facts' = f /\ factChanges' = factChanges + 1
    /\ Remember(f, checkRun.asOf)
    /\ UNCHANGED <<checkDay, checkRun>>
NextCheckDay ==
    /\ checkDay < LastCheckDay /\ checkRun = NotRun /\ checkDay' = checkDay + 1
    /\ UNCHANGED <<facts, checkRun, factChanges, everHeld, everFailed>>

NextChecks ==
    \/ BeginChecks \/ ReadSkus \/ ReadPriceLine \/ CheckCondition \/ NextCheckDay
    \/ \E f \in FactChange : ChangeFacts(f)
SpecChecks == InitChecks /\ [][NextChecks]_checkVars

-----------------------------------------------------------------------------
FailingAt(f, asOf) == {i \in 1..10 : CheckOrder[i] \notin HoldNow(f, asOf)}
Earlier(c) == {CheckOrder[i] : i \in 1..(CHOOSE k \in 1..10 : CheckOrder[k] = c) - 1}

(* The verdict speaks of the order: with nobody else about it names the    *)
(* first failing condition, in the order the blueprint gives them, and the *)
(* credit hold only of an order that passes all the others; and whatever   *)
(* others commit in between, the condition it names did fail, and every    *)
(* condition it passed did hold, at some moment of the run (the shelf life *)
(* against the minimum the run read, which may have changed since).        *)
VerdictIsTrue ==
    Judged =>
      /\ factChanges = 0 =>
           LET failing == FailingAt(facts, checkRun.asOf)
           IN CASE failing = {}        -> checkRun.status = "checks_pending"
                [] failing = {10}      -> checkRun.status = "credit_rejected"
                [] OTHER               -> checkRun.failing = CheckOrder[Min(failing)]
      /\ checkRun.failing # 0 =>
           checkRun.failing \in everFailed /\ Earlier(checkRun.failing) \subseteq everHeld
      /\ checkRun.status = "checks_pending" => everHeld = Conditions
      /\ checkRun.status = "credit_rejected" =>
           2 \in everFailed /\ Conditions \ {2} \subseteq everHeld
=============================================================================
