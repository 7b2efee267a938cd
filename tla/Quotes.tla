------------------------------- MODULE Quotes ---------------------------------
(***************************************************************************)
(* Quotes: sales.quotes with their lines, the commands of modules/sales/   *)
(* application/manage-quote, and the price exceptions a line may use.      *)
(*                                                                         *)
(* Every command locks the quote's row first and is one step; between two  *)
(* commands a service's cost changes, an exception is granted or ends.     *)
(* One service with a floor; the quantity of a line is one.  The version,  *)
(* the account's state and the roles but CFO and GM only refuse a command  *)
(* and are left out.                                                       *)
(***************************************************************************)
EXTENDS Integers, FiniteSets, Sequences, Functions

CONSTANTS
  LastQuote,      \* quotes have ids 1..LastQuote
  LinePrice,      \* unit prices a line may have
  FloorPrice,     \* min_price of the service
  ServiceCost,    \* standard costs the service may have
  Discount,       \* discounts a caller may give
  PriceException, \* [id, from, to, price] of the exceptions that may be granted
  MaxQuoteLines,  \* bound: lines of a quote
  LastQuoteDay    \* the days are 1..LastQuoteDay

ASSUME QuoteConstants ==
  /\ LastQuote \in Nat
  /\ LinePrice \subseteq Nat /\ FloorPrice \in Nat
  /\ ServiceCost \subseteq Nat /\ ServiceCost # {}
  /\ Discount \subseteq Int
  /\ PriceException \subseteq [id : Nat \ {0}, from : Nat, to : Nat, price : Nat]
  /\ MaxQuoteLines \in Nat
  /\ LastQuoteDay \in Nat \ {0}

Quote == 1..LastQuote
QuoteDay == 1..LastQuoteDay
NoException == 0        \* SQL null in exception_id
EscalationMargin == 10000   \* MARGIN_GM_ESCALATION_CEILING, in thousandths of a percent
MarginLimit == 999999       \* ESTIMATED_MARGIN_PCT_MAX_MAGNITUDE, likewise
NoMargin == 1000000         \* SQL null in estimated_margin_pct

VARIABLES
  quotes,       \* sales.quotes and their lines
  approvedAs,   \* ghost: what finance approved of each quote, and as whom
  granted,      \* catalog.price_exceptions
  cost,         \* standard_cost of the service
  quoteDay      \* the injected clock

quoteVars == <<quotes, approvedAs, granted, cost, quoteDay>>

QuoteStatus == {"draft", "commercial_review", "finance_review", "approved", "sent", "accepted", "rejected"}

NoQuote == [status |-> "none", validUntil |-> 0, lines |-> <<>>, discount |-> 0,
            subtotal |-> 0, margin |-> NoMargin, frozen |-> {}]

AfterQuoteEvent ==
  [SUBMIT_FOR_REVIEW |-> [draft |-> "commercial_review"],
   APPROVE_COMMERCIAL |-> [commercial_review |-> "finance_review"],
   RETURN_TO_DRAFT |-> [commercial_review |-> "draft", finance_review |-> "draft"],
   APPROVE_FINANCE |-> [finance_review |-> "approved"],
   SEND_QUOTE |-> [approved |-> "sent"],
   RECORD_DECISION_ACCEPTED |-> [sent |-> "accepted"],
   RECORD_DECISION_REJECTED |-> [sent |-> "rejected"]]

CanAdvanceQuote(q, event) == quotes[q].status \in DOMAIN AfterQuoteEvent[event]

AdvanceQuote(q, event) == AfterQuoteEvent[event][quotes[q].status]

QuoteEditable(status) == status \in {"draft"}

QuoteRevisable(status) == status \in {"approved", "sent", "accepted", "rejected"}

-----------------------------------------------------------------------------
(* Half up, and away from zero for what is negative. *)
DivRoundHalfUp(n, d) ==
  IF n < 0 THEN -((-2 * n + d) \div (2 * d)) ELSE (2 * n + d) \div (2 * d)

SumPrices(lines) == SumFunction([i \in DOMAIN lines |-> lines[i].price])

(* In thousandths of a percent, before the discount, at today's cost. *)
ComputeEstimatedMarginPct(lines) ==
  LET subtotal == SumPrices(lines)
  IN  IF subtotal = 0 THEN NoMargin
      ELSE DivRoundHalfUp((subtotal - Len(lines) * cost) * 100000, subtotal)

MarginInRange(margin) == margin # NoMargin => margin <= MarginLimit /\ margin >= -MarginLimit

(* assertPriceExceptionValid: under the floor only with an exception that *)
(* runs today and allows the price.                                       *)
PriceExceptionValid(line) ==
  \/ line.price >= FloorPrice
  \/ \E e \in granted : /\ e.id = line.exception
                        /\ e.from <= quoteDay /\ quoteDay <= e.to
                        /\ line.price >= e.price

ExceptionExists(line) == line.exception = NoException \/ \E e \in granted : e.id = line.exception

ValidDiscount(discount, subtotal) == 0 <= discount /\ discount <= subtotal

ValidUntilNotPast(day) == day >= quoteDay

RequiresGm(lines) ==
  LET margin == ComputeEstimatedMarginPct(lines)
  IN  \/ \E i \in DOMAIN lines : lines[i].exception # NoException
      \/ margin # NoMargin /\ margin < EscalationMargin

-----------------------------------------------------------------------------
InitQuotes ==
  /\ quotes = [q \in Quote |-> NoQuote]
  /\ approvedAs = [q \in Quote |-> {}]
  /\ granted = {}
  /\ cost \in ServiceCost
  /\ quoteDay = 1

(* updateQuote: a column that is not given keeps its value. *)
UpdateQuote(q, row) ==
  /\ quotes' = [quotes EXCEPT ![q] = row]
  /\ UNCHANGED <<granted, cost, quoteDay>>

CreateQuote ==
  \E q \in Quote, until \in QuoteDay :
    /\ quotes[q] = NoQuote /\ \A r \in 1..(q - 1) : quotes[r] # NoQuote
    /\ ValidUntilNotPast(until)
    /\ UpdateQuote(q, [NoQuote EXCEPT !.status = "draft", !.validUntil = until])
    /\ UNCHANGED approvedAs

(* The command only ever adds a line, and sets the whole quote's discount. *)
UpsertQuoteLine(q) ==
  \E line \in [price : LinePrice, exception : {e.id : e \in PriceException} \cup {NoException}],
     discount \in Discount :
    LET lines == Append(quotes[q].lines, line)
        margin == ComputeEstimatedMarginPct(lines)
    IN  /\ QuoteEditable(quotes[q].status)
        /\ Len(lines) <= MaxQuoteLines
        /\ ExceptionExists(line)
        /\ PriceExceptionValid(line)
        /\ ValidDiscount(discount, SumPrices(lines))
        /\ MarginInRange(margin)
        /\ UpdateQuote(q, [quotes[q] EXCEPT !.lines = lines, !.discount = discount,
                                            !.subtotal = SumPrices(lines), !.margin = margin])
        /\ UNCHANGED approvedAs

SetQuoteStatus(q, event) ==
  /\ CanAdvanceQuote(q, event)
  /\ UpdateQuote(q, [quotes[q] EXCEPT !.status = AdvanceQuote(q, event)])
  /\ UNCHANGED approvedAs

SubmitForReview(q) ==
  /\ quotes[q].lines # <<>>
  /\ SetQuoteStatus(q, "SUBMIT_FOR_REVIEW")

ApproveCommercial(q) == SetQuoteStatus(q, "APPROVE_COMMERCIAL")

ReturnToDraft(q) == SetQuoteStatus(q, "RETURN_TO_DRAFT")

(* The margin is computed again, at the cost of today; a GM approves anything. *)
ApproveFinance(q) ==
  \E role \in {"CFO", "GM"} :
    LET margin == ComputeEstimatedMarginPct(quotes[q].lines)
    IN  /\ CanAdvanceQuote(q, "APPROVE_FINANCE")
        /\ MarginInRange(margin)
        /\ RequiresGm(quotes[q].lines) => role = "GM"
        /\ UpdateQuote(q, [quotes[q] EXCEPT !.status = AdvanceQuote(q, "APPROVE_FINANCE"),
                                            !.margin = margin])
        /\ approvedAs' = [approvedAs EXCEPT ![q] =
             {[role |-> role, lines |-> quotes[q].lines, margin |-> margin,
               total |-> quotes[q].subtotal - quotes[q].discount]}]

(* frozen_snapshot: the quote's own columns and its lines as they are now. *)
SendQuote(q) ==
  /\ CanAdvanceQuote(q, "SEND_QUOTE")
  /\ UpdateQuote(q, [quotes[q] EXCEPT !.status = AdvanceQuote(q, "SEND_QUOTE"),
       !.frozen = {[lines |-> quotes[q].lines, margin |-> quotes[q].margin,
                    total |-> quotes[q].subtotal - quotes[q].discount]}])
  /\ UNCHANGED approvedAs

(* valid_until is not looked at: a client may accept after it. *)
RecordDecision(q) ==
  SetQuoteStatus(q, "RECORD_DECISION_ACCEPTED") \/ SetQuoteStatus(q, "RECORD_DECISION_REJECTED")

(* A new draft with the source's lines, priced as of today and undiscounted. *)
ReviseQuote(q) ==
  \E new \in Quote :
    LET lines == quotes[q].lines
        margin == ComputeEstimatedMarginPct(lines)
    IN  /\ quotes[new] = NoQuote /\ \A r \in 1..(new - 1) : quotes[r] # NoQuote
        /\ QuoteRevisable(quotes[q].status)
        /\ ValidUntilNotPast(quotes[q].validUntil)
        /\ \A i \in DOMAIN lines : ExceptionExists(lines[i]) /\ PriceExceptionValid(lines[i])
        /\ MarginInRange(margin)
        /\ UpdateQuote(new, [NoQuote EXCEPT !.status = "draft", !.lines = lines, !.margin = margin,
             !.validUntil = quotes[q].validUntil, !.subtotal = SumPrices(lines)])
        /\ UNCHANGED approvedAs

(* GrantPriceException of the catalog, a GM's. *)
GrantPriceException ==
  \E e \in PriceException :
    /\ e.to >= e.from
    /\ granted' = granted \cup {e}
    /\ UNCHANGED <<quotes, approvedAs, cost, quoteDay>>

ChangeCost ==
  /\ cost' \in ServiceCost
  /\ UNCHANGED <<quotes, approvedAs, granted, quoteDay>>

NextQuoteDay ==
  /\ quoteDay < LastQuoteDay
  /\ quoteDay' = quoteDay + 1
  /\ UNCHANGED <<quotes, approvedAs, granted, cost>>

NextQuotes ==
  \/ CreateQuote \/ GrantPriceException \/ ChangeCost \/ NextQuoteDay
  \/ \E q \in Quote :
       \/ UpsertQuoteLine(q) \/ SubmitForReview(q) \/ ApproveCommercial(q) \/ ReturnToDraft(q)
       \/ ApproveFinance(q) \/ SendQuote(q) \/ RecordDecision(q) \/ ReviseQuote(q)

SpecQuotes == InitQuotes /\ [][NextQuotes]_quoteVars

-----------------------------------------------------------------------------
QuotesTypeOK ==
  /\ \A q \in Quote :
       /\ quotes[q] = NoQuote \/ quotes[q].status \in QuoteStatus
       /\ Len(quotes[q].lines) <= MaxQuoteLines
       /\ quotes[q].margin \in Int
       /\ quotes[q].subtotal \in Nat /\ quotes[q].discount \in Nat
  /\ granted \subseteq PriceException
  /\ cost \in ServiceCost /\ quoteDay \in QuoteDay

(* What the client holds is what finance approved, and a quote with a line   *)
(* under its floor, or a margin under ten percent at the cost of the day it  *)
(* was approved, was approved by the general manager: no sequence of         *)
(* commands, returns to draft and changes of cost gets another one out.      *)
SentAsApproved ==
  \A q \in Quote : \A sent \in quotes[q].frozen :
    \E a \in approvedAs[q] :
      /\ a.lines = sent.lines /\ a.total = sent.total /\ a.margin = sent.margin
      /\ (\/ \E i \in DOMAIN sent.lines : sent.lines[i].price < FloorPrice
          \/ sent.margin # NoMargin /\ sent.margin < EscalationMargin) => a.role = "GM"
=============================================================================
