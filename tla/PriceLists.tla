----------------------------- MODULE PriceLists -------------------------------
(***************************************************************************)
(* Price lists: catalog.price_lists with its lines, the commands of        *)
(* modules/catalog/application/maintain-price-list, and the price that     *)
(* modules/sales/domain/resolve-price/tiered-pricing computes from them.   *)
(*                                                                         *)
(* Every command holds the list's row lock from its first statement, so a  *)
(* command is one step and one list shows all there is.  The row version   *)
(* and the CFO's role only refuse a command and are left out.              *)
(***************************************************************************)
EXTENDS Integers, FiniteSets, Sequences, FiniteSetsExt, SequencesExt

CONSTANTS
  Service,      \* active catalog.services
  Floor,        \* min_price of each service
  LineRows,     \* the lines a caller may send
  MaxPricedQty, \* bound: quantities priced
  LastListDay   \* the days are 1..LastListDay

NoBound == -1   \* SQL null in tier_from and tier_to
NoEnd == 0      \* SQL null in valid_to

Line == [service : Service, from : Nat \cup {NoBound}, to : Nat \cup {NoBound},
         free : Int, price : Nat, currency : STRING]

ASSUME PriceConstants ==
  /\ Floor \in [Service -> Nat]
  /\ LineRows \subseteq Line
  /\ MaxPricedQty \in Nat
  /\ LastListDay \in Nat \ {0}

VARIABLES
  list,         \* the price list's row, or NoList before it is created
  priceLines,   \* its price_list_lines
  today         \* the injected clock

priceVars == <<list, priceLines, today>>

ListDay == 1..LastListDay
ListStatus == {"draft", "active", "expired"}
NoList == [status |-> "none", validFrom |-> 0, validTo |-> NoEnd]

-----------------------------------------------------------------------------
(* The ladder of one service. *)

SameTier(a, b) == a = b

IsFlatLine(line) == line.from = NoBound /\ line.to = NoBound

HasTierFrom(line) == line.from # NoBound

(* The tier that starts next after a line's. *)
NextTier(group, line) == {n \in group : n.from = Min({m.from : m \in {o \in group : o.from > line.from}})}

(* A mutant of ValidateGroup: nothing says that a tier begins where the one *)
(* before it ends.                                                          *)
ValidateGroupLoosely(group) ==
  \/ Cardinality(group) = 1 /\ \A line \in group : IsFlatLine(line)
  \/ \A line \in group :
       /\ HasTierFrom(line)
       /\ \A other \in group : other.from = line.from => other = line
       /\ line.to # NoBound => line.to > line.from
       /\ (\A other \in group : other.from >= line.from) => line.from = 0
       /\ (\E other \in group : other.from > line.from) => line.to # NoBound

ValidateGroup(group) ==
  \/ Cardinality(group) = 1 /\ \A line \in group : IsFlatLine(line)
  \/ \A line \in group :
       /\ HasTierFrom(line)
       /\ \A other \in group : SameTier(other.from, line.from) => other = line
       /\ line.to # NoBound => line.to > line.from
       /\ (\A other \in group : other.from >= line.from) => line.from = 0
       /\ (\E other \in group : other.from > line.from) =>
            \A next \in NextTier(group, line) : line.to = next.from

OfService(ls, service) == {line \in ls : line.service = service}

ValidateTierLadder(ls) ==
  /\ \A line \in ls : line.free >= 0
  /\ \A s \in Service : OfService(ls, s) # {} => ValidateGroup(OfService(ls, s))

PriceMeetsFloor(line) == line.price >= Floor[line.service]

(* A draft line of the database is replaced by one of the same tier. *)
Replaced(ls, rows) ==
  {line \in ls : \E row \in rows : row.service = line.service /\ SameTier(row.from, line.from)}

(* upsertLine: "on conflict" for a tier, update-then-insert for a flat line. *)
UpsertLine(ls, rows) == (ls \ Replaced(ls, rows)) \cup rows

(* getAnyLineCurrency against the currency of the new rows. *)
OneCurrency(ls, rows) == \A a \in ls \cup rows, b \in rows : a.currency = b.currency

-----------------------------------------------------------------------------
AfterPriceListEvent == [ACTIVATE |-> [draft |-> "active"], EXPIRE |-> [active |-> "expired"]]

CanAdvancePriceList(event) == list.status \in DOMAIN AfterPriceListEvent[event]

AdvancePriceList(event) == AfterPriceListEvent[event][list.status]

ListEditable == list.status = "draft"

ValidValidity(from, to) == to = NoEnd \/ to >= from

InitPrices ==
  /\ list = NoList
  /\ priceLines = {}
  /\ today = 1

CreatePriceList ==
  /\ list = NoList
  /\ \E from \in ListDay, to \in ListDay \cup {NoEnd} :
       /\ ValidValidity(from, to)
       /\ list' = [status |-> "draft", validFrom |-> from, validTo |-> to]
  /\ UNCHANGED <<priceLines, today>>

(* The rows both commands write: priced, in one currency, and the ladders *)
(* they leave are valid before anything is written.                       *)
WriteLines(rows, left) ==
  /\ ListEditable
  /\ \A row \in rows : PriceMeetsFloor(row)
  /\ OneCurrency(priceLines, rows)
  /\ ValidateTierLadder(left)
  /\ priceLines' = UpsertLine(priceLines, rows)
  /\ UNCHANGED <<list, today>>

UpsertPriceListLine ==
  \E row \in LineRows :
    WriteLines({row}, OfService(priceLines \ Replaced(priceLines, {row}), row.service) \cup {row})

(* All rows or none, against the whole list they leave. *)
ImportPriceListLines ==
  \E a, b \in LineRows :
    /\ a # b
    /\ WriteLines({a, b}, (priceLines \ Replaced(priceLines, {a, b})) \cup {a, b})

ActivatePriceList ==
  /\ CanAdvancePriceList("ACTIVATE")
  /\ priceLines # {}
  /\ ValidateTierLadder(priceLines)
  /\ list' = [list EXCEPT !.status = AdvancePriceList("ACTIVATE")]
  /\ UNCHANGED <<priceLines, today>>

(* A list still running ends today; one that has not begun cannot be ended. *)
ExpirePriceList ==
  LET endsLater == list.validTo = NoEnd \/ list.validTo > today
      validTo == IF endsLater THEN today ELSE list.validTo
  IN  /\ CanAdvancePriceList("EXPIRE")
      /\ ValidValidity(list.validFrom, validTo)
      /\ list' = [list EXCEPT !.status = AdvancePriceList("EXPIRE"), !.validTo = validTo]
      /\ UNCHANGED <<priceLines, today>>

PriceDay ==
  /\ today < LastListDay
  /\ today' = today + 1
  /\ UNCHANGED <<list, priceLines>>

NextPrices ==
  \/ CreatePriceList \/ UpsertPriceListLine \/ ImportPriceListLines
  \/ ActivatePriceList \/ ExpirePriceList \/ PriceDay

SpecPrices == InitPrices /\ [][NextPrices]_priceVars

-----------------------------------------------------------------------------
(* Pricing, from the lines in the order getPriceListLines returns them. *)

PricingCurrency == "KWD"

PricedLines(service) == {line \in OfService(priceLines, service) : line.currency = PricingCurrency}

GetPriceListLines(service) ==
  CHOOSE ladder \in SetToSeqs(PricedLines(service)) :
    \A i, j \in DOMAIN ladder : i < j => ladder[i].from <= ladder[j].from

QuantityMax(a, b) == IF a >= b THEN a ELSE b
QuantityMin(a, b) == IF a <= b THEN a ELSE b

(* assertValidLadder: what is not a ladder is an error, never a wrong price. *)
ValidLadder(ladder) ==
  /\ ladder # <<>>
  /\ \/ Len(ladder) = 1 /\ IsFlatLine(ladder[1])
     \/ \A i \in DOMAIN ladder :
          /\ HasTierFrom(ladder[i])
          /\ ladder[i].to = NoBound => i = Len(ladder)
          /\ ladder[i].to # NoBound => ladder[i].to > ladder[i].from
          /\ i > 1 => ladder[i - 1].to = ladder[i].from

(* A mutant of BillableInTier: the free units are forgotten. *)
SpanInTier(line, qty) ==
  QuantityMax(0, QuantityMin(qty, IF line.to = NoBound THEN qty ELSE line.to) - line.from)

BillableInTier(line, qty) ==
  QuantityMax(0,
    QuantityMax(0, QuantityMin(qty, IF line.to = NoBound THEN qty ELSE line.to) - line.from)
      - line.free)

ComputeTieredPrice(ladder, qty) ==
  IF Len(ladder) = 1 /\ IsFlatLine(ladder[1]) THEN ladder[1].price * qty
  ELSE SumFunction([i \in DOMAIN ladder |-> ladder[i].price * BillableInTier(ladder[i], qty)])

-----------------------------------------------------------------------------
PricesTypeOK ==
  /\ list = NoList \/ list \in [status : ListStatus, validFrom : ListDay, validTo : ListDay \cup {NoEnd}]
  /\ priceLines \subseteq LineRows
  /\ today \in ListDay

(* What the u-th unit costs: the price of its tier, nothing for the tier's  *)
(* first free units and nothing beyond the last tier.                       *)
TierOf(service, u) ==
  {l \in OfService(priceLines, service) :
     IsFlatLine(l) \/ (l.from < u /\ (l.to = NoBound \/ u <= l.to))}
UnitPrice(service, u) ==
  SumFunction([l \in TierOf(service, u) |->
                 IF ~ IsFlatLine(l) /\ u <= l.from + l.free THEN 0 ELSE l.price])

(* A list that was ever active prices every quantity: its lines are in one  *)
(* currency, of the services it has in that of the prices no ladder is      *)
(* malformed, and the total is the sum of what its units cost, each in its  *)
(* own tier.                                                                *)
PricesAddUp ==
  list.status \in {"active", "expired"} =>
    /\ \A a, b \in priceLines : a.currency = b.currency
    /\ \A service \in Service : PricedLines(service) # {} =>
         LET ladder == GetPriceListLines(service)
         IN  /\ ValidLadder(ladder)
             /\ \A qty \in 0..MaxPricedQty :
                  ComputeTieredPrice(ladder, qty) =
                    SumFunction([u \in 1..qty |-> UnitPrice(service, u)])
=============================================================================
