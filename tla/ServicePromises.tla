--------------------------- MODULE ServicePromises ----------------------------
(***************************************************************************)
(* What several of the small services promise together.  Each is one       *)
(* promise to a reader of the system, kept by components that share no     *)
(* state.                                                                  *)
(***************************************************************************)
EXTENDS StockCounts, Commissions, Quotes, AccountCredit, Shifts, DriverIds, DeliveryTasks,
        Contracts, OutboundChecks, LoginCodes, ApiHost

decisionVars == <<countVars, commissionVars, quoteVars, creditVars>>

(* A decision is about the row its taker read: an adjusted count, a        *)
(* confirmed commission, a quote that was sent and a released credit hold  *)
(* are as the manager, the reviewer, finance and the officer had them on   *)
(* the screen, and the adjustment leaves the places nobody else moved      *)
(* stock of with what was counted, whatever others changed in between.     *)
DecidedAsRead ==
  [][ /\ AdjustedAsRead' /\ AdjustsQuietLines
      /\ ConfirmedAsRead' /\ SentAsApproved'
      /\ HoldReleaseSeen ]_decisionVars

(* Nobody is on two shifts on one day, driver ids follow their holders     *)
(* through assignments, suspensions and ends of service, and a checked     *)
(* order has one delivery task, on vehicles whose documents are valid.     *)
FieldWorkIsConsistent == OneShiftADay /\ IdsFollowHolders /\ TasksFollowOrders

(* An order is priced by the contract in force, and its checks say of it   *)
(* what was so: the condition that is named, and those that were passed.   *)
OrdersFollowTheContract == OrderPricedByItsContract /\ VerdictIsTrue

(* A login is earned by a code and what a request is answered is so: the   *)
(* two ways in, from the phone number to the committed command.            *)
AccessIsBounded == LoginIsBounded /\ ApiAnswersTruly
==============================================================================
