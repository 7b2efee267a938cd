----------------------------- MODULE Contracts --------------------------------
(***************************************************************************)
(* Contracts of one account with one entity, and which price an order of   *)
(* the account gets: the commands of modules/sales/application/            *)
(* manage-contract and resolvePrice of modules/sales/application/          *)
(* resolve-price.                                                          *)
(*                                                                         *)
(* Every command locks the contract's row first and is one step.  The row  *)
(* version, the roles and the account's own state only refuse a command    *)
(* and are left out; what a price list charges is in PriceLists.           *)
(***************************************************************************)
EXTENDS Integers, FiniteSets, FiniteSetsExt

CONSTANTS
  LastContract,   \* contracts have ids 1..LastContract
  PriceList,      \* price lists of the entity
  ListOwner,      \* "client", "segment", "standard", or "other": another client's
  InternalList,   \* lists of transfer prices between entities (is_internal)
  ListFrom,       \* valid_from of each list; none ends unless it is expired
  ListPrices,     \* lists with a line for the service asked for
  SlaEnabled,     \* contracts created with sla_enabled
  Exceptions,     \* [from, to] of the price exceptions for the account and service
  LastDate        \* the dates are 1..LastDate

NoPriceList == "none"    \* SQL null in price_list_id
Owners == {"client", "segment", "standard", "other"}

ASSUME ContractConstants ==
  /\ LastContract \in Nat
  /\ NoPriceList \notin PriceList
  /\ ListOwner \in [PriceList -> Owners]
  /\ ListFrom \in [PriceList -> Nat]
  /\ \A l, m \in PriceList : (ListOwner[l] = ListOwner[m] /\ ListFrom[l] = ListFrom[m]) => l = m
  /\ InternalList \subseteq PriceList /\ ListPrices \subseteq PriceList
  /\ SlaEnabled \subseteq 1..LastContract
  /\ Exceptions \subseteq [from : Nat, to : Nat]
  /\ LastDate \in Nat \ {0}

Contract == 1..LastContract
Date == 1..LastDate
NoDate == 0     \* SQL null in end_date
Nothing == 0    \* no contract found

VARIABLES
  contracts,    \* sales.contracts
  slas,         \* contracts with a contract_slas row
  listStatus,   \* status of each price list
  date          \* the injected clock

contractVars == <<contracts, slas, listStatus, date>>

ContractStatus == {"draft", "signed", "active", "suspended", "expired"}

NotCreated == [status |-> "none", start |-> 0, end |-> NoDate, list |-> NoPriceList]

AfterContractEvent ==
  [SIGN_CONTRACT |-> [draft |-> "signed"],
   ACTIVATE_CONTRACT |-> [signed |-> "active"],
   SUSPEND_CONTRACT |-> [active |-> "suspended"],
   RESUME_CONTRACT |-> [suspended |-> "active"],
   EXPIRE_CONTRACT |-> [active |-> "expired", suspended |-> "expired"]]

CanAdvanceContract(c, event) == contracts[c].status \in DOMAIN AfterContractEvent[event]

AdvanceContract(c, event) == AfterContractEvent[event][contracts[c].status]

(* The states each tag of contractMachine names. *)
ContractTag ==
  [usableForOrder |-> {"active"},
   priceListAssignable |-> {"draft", "signed", "active", "suspended"},
   slaAssignable |-> ContractStatus]

HasContractTag(status, tag) == status \in ContractTag[tag]

InitContracts ==
  /\ contracts = [c \in Contract |-> NotCreated]
  /\ slas = {}
  /\ listStatus = [l \in PriceList |-> "active"]
  /\ date = 1

(* updateContract: a column that is not given keeps its value. *)
UpdateContract(c, row) ==
  /\ contracts' = [contracts EXCEPT ![c] = row]
  /\ UNCHANGED <<slas, listStatus, date>>

(* Ids are random: any free one is next. *)
CreateContract ==
  \E c \in Contract, start \in Date, end \in Date \cup {NoDate} :
    /\ contracts[c] = NotCreated
    /\ start >= date
    /\ end # NoDate => end >= start
    /\ UpdateContract(c, [status |-> "draft", start |-> start, end |-> end, list |-> NoPriceList])

SetStatusOf(c, event) ==
  /\ CanAdvanceContract(c, event)
  /\ UpdateContract(c, [contracts[c] EXCEPT !.status = AdvanceContract(c, event)])

SignContract(c) == SetStatusOf(c, "SIGN_CONTRACT")

ActivateContract(c) ==
  /\ contracts[c].list # NoPriceList
  /\ SetStatusOf(c, "ACTIVATE_CONTRACT")

SuspendContract(c) == SetStatusOf(c, "SUSPEND_CONTRACT")

ResumeContract(c) == SetStatusOf(c, "RESUME_CONTRACT")

ContractExpirable(end, asOf) == end # NoDate /\ end < asOf

ExpireContract(c) ==
  /\ ContractExpirable(contracts[c].end, date)
  /\ SetStatusOf(c, "EXPIRE_CONTRACT")

(* assertPriceListApplicable: the list is active and may price this account. *)
PriceListApplicable(l) ==
  listStatus[l] = "active" /\ ListOwner[l] # "other" /\ l \notin InternalList

SetContractPriceList(c) ==
  \E l \in PriceList :
    /\ HasContractTag(contracts[c].status, "priceListAssignable")
    /\ PriceListApplicable(l)
    /\ UpdateContract(c, [contracts[c] EXCEPT !.list = l])

AddContractSla(c) ==
  /\ HasContractTag(contracts[c].status, "slaAssignable")
  /\ c \in SlaEnabled
  /\ slas' = slas \cup {c}
  /\ UNCHANGED <<contracts, listStatus, date>>

(* ExpirePriceList of the catalog. *)
ListExpires ==
  \E l \in PriceList :
    /\ listStatus[l] = "active"
    /\ listStatus' = [listStatus EXCEPT ![l] = "expired"]
    /\ UNCHANGED <<contracts, slas, date>>

NextDate ==
  /\ date < LastDate
  /\ date' = date + 1
  /\ UNCHANGED <<contracts, slas, listStatus>>

NextContracts ==
  \/ CreateContract \/ ListExpires \/ NextDate
  \/ \E c \in Contract :
       \/ SignContract(c) \/ ActivateContract(c) \/ SuspendContract(c) \/ ResumeContract(c)
       \/ ExpireContract(c) \/ SetContractPriceList(c) \/ AddContractSla(c)

SpecContracts == InitContracts /\ [][NextContracts]_contractVars

-----------------------------------------------------------------------------
(* "order by start_date desc, id desc limit 1" *)
LatestById(ids) ==
  {c \in ids : \A d \in ids : \/ contracts[c].start > contracts[d].start
                              \/ contracts[c].start = contracts[d].start /\ c >= d}

(* "order by start_date desc, id asc limit 1" *)
LatestByLowestId(ids) ==
  {c \in ids : \A d \in ids : \/ contracts[c].start > contracts[d].start
                              \/ contracts[c].start = contracts[d].start /\ c <= d}

Begun(asOf) == {c \in Contract : contracts[c] # NotCreated /\ contracts[c].start <= asOf}

FindContractForAccountEntity(asOf) == LatestById(Begun(asOf))

(* The contract an order of that date is taken under, or none. *)
GetContractForOrder(asOf) ==
  {c \in FindContractForAccountEntity(asOf) :
     /\ HasContractTag(contracts[c].status, "usableForOrder")
     /\ ~ ContractExpirable(contracts[c].end, asOf)}

(* A mutant of FindActiveContract: the last day of a contract is not its own. *)
FindRunningContract(asOf) ==
  LatestByLowestId({c \in Begun(asOf) :
    /\ contracts[c].status = "active"
    /\ contracts[c].end = NoDate \/ contracts[c].end > asOf
    /\ contracts[c].list # NoPriceList})

(* The join leaves out a list that is internal or of another entity.         *)
FindActiveContract(asOf) ==
  LatestByLowestId({c \in Begun(asOf) :
    /\ contracts[c].status = "active"
    /\ contracts[c].end = NoDate \/ contracts[c].end >= asOf
    /\ contracts[c].list # NoPriceList})

FindActiveException(asOf) == {e \in Exceptions : e.from <= asOf /\ asOf <= e.to}

(* findPriceList: the latest one, whether or not it prices the service; one  *)
(* that is internal hides the others of its owner.                           *)
FindPriceList(owner, asOf) ==
  LET running == {l \in PriceList : /\ ListOwner[l] = owner
                                    /\ listStatus[l] = "active"
                                    /\ ListFrom[l] <= asOf}
  IN  {l \in running : \A m \in running : ListFrom[l] >= ListFrom[m]}

(* getPriceListLines: the list has a line for the service. *)
Prices(ls) == ls \cap ListPrices

(* resolvePrice: the source of the price, in the order it looks for one. *)
ResolvePrice(asOf) ==
  LET contract == FindActiveContract(asOf)
  IN  IF FindActiveException(asOf) # {} THEN "exception"
      ELSE IF Prices({contracts[c].list : c \in contract}) # {} THEN "contract"
      ELSE IF Prices(FindPriceList("segment", asOf) \ InternalList) # {} THEN "segment_list"
      ELSE IF Prices(FindPriceList("standard", asOf) \ InternalList) # {} THEN "standard_list"
      ELSE "pending"

-----------------------------------------------------------------------------
ContractsTypeOK ==
  /\ \A c \in Contract :
       contracts[c] = NotCreated \/
       contracts[c] \in [status : ContractStatus, start : Date, end : Date \cup {NoDate},
                         list : PriceList \cup {NoPriceList}]
  /\ slas \subseteq SlaEnabled
  /\ listStatus \in [PriceList -> {"active", "expired"}]
  /\ date \in Date

(* An order is priced by the contract it was taken under: two queries with   *)
(* different conditions and different tie-breaks agree, as long as no two    *)
(* contracts begin on the same day.  The contract's list may have expired.   *)
OrderPricedByItsContract ==
  \A asOf \in Date :
    (\A c, d \in Begun(asOf) : contracts[c].start = contracts[d].start => c = d) =>
      \A c \in GetContractForOrder(asOf) :
        /\ FindActiveContract(asOf) = {c}
        /\ (contracts[c].list \in ListPrices /\ FindActiveException(asOf) = {})
             => ResolvePrice(asOf) = "contract"
=============================================================================
