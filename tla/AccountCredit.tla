--------------------------- MODULE AccountCredit ------------------------------
(***************************************************************************)
(* The credit columns of one sales.accounts row and the commands of        *)
(* modules/sales/application/manage-account-credit.                        *)
(*                                                                         *)
(* An officer reads the account, decides, and sends a command with the     *)
(* version that was read; another officer may act in between.  A command   *)
(* holds the row's lock from its first statement and is one step.          *)
(***************************************************************************)
EXTENDS Integers

CONSTANTS
  Officer,      \* people with the CFO's or the GM's role
  CreditLimit,  \* limits they may type
  MaxCreditOps  \* bound: updates of the account

ASSUME CreditConstants ==
  /\ CreditLimit \subseteq Int
  /\ MaxCreditOps \in Nat

NoLimit == -1     \* SQL null in credit_limit

VARIABLES
  credit,       \* credit_hold, hold_set_by, credit_limit and version of the account
  officerSaw    \* what each officer last read of it

creditVars == <<credit, officerSaw>>

(* An account on hold for a reason: who set it and at which version.  The    *)
(* reason's text is nobody's guard.                                          *)
NewAccount == [hold |-> FALSE, setBy |-> {}, limit |-> NoLimit, version |-> 1]

InitCredit ==
  /\ credit = NewAccount
  /\ officerSaw = [o \in Officer |-> NewAccount]

CreditStateFromRow(row) == IF row.hold THEN "held" ELSE "clear"

AfterCreditEvent == [SET_HOLD |-> [clear |-> "held", held |-> "held"], RELEASE |-> [held |-> "clear"]]

CanChangeCredit(row, event) == CreditStateFromRow(row) \in DOMAIN AfterCreditEvent[event]

CreditLimitValid(limit) == limit >= 0

(* The account's row is locked and is the one the officer read. *)
GetAccountForUpdate(o) == officerSaw[o].version = credit.version /\ credit.version <= MaxCreditOps

UpdateCreditHold(o, held) ==
  /\ credit' = [credit EXCEPT !.hold = held, !.setBy = {o}, !.version = @ + 1]
  /\ UNCHANGED officerSaw

UpdateCreditLimit(limit) ==
  /\ credit' = [credit EXCEPT !.limit = limit, !.version = @ + 1]
  /\ UNCHANGED officerSaw

(* An officer's screen shows the account. *)
ReadAccount(o) ==
  /\ officerSaw' = [officerSaw EXCEPT ![o] = credit]
  /\ UNCHANGED credit

SetCreditHold(o) ==
  /\ GetAccountForUpdate(o)
  /\ UpdateCreditHold(o, TRUE)

ReleaseCreditHold(o) ==
  /\ GetAccountForUpdate(o)
  /\ CanChangeCredit(credit, "RELEASE")
  /\ UpdateCreditHold(o, FALSE)

SetCreditLimit(o) ==
  \E limit \in CreditLimit :
    /\ GetAccountForUpdate(o)
    /\ CreditLimitValid(limit)
    /\ UpdateCreditLimit(limit)

NextCredit ==
  \E o \in Officer :
    ReadAccount(o) \/ SetCreditHold(o) \/ ReleaseCreditHold(o) \/ SetCreditLimit(o)

SpecCredit == InitCredit /\ [][NextCredit]_creditVars

-----------------------------------------------------------------------------
AccountRow == [hold : BOOLEAN, setBy : SUBSET Officer, limit : CreditLimit \cup {NoLimit}, version : Nat \ {0}]

CreditTypeOK ==
  /\ credit \in AccountRow
  /\ officerSaw \in [Officer -> AccountRow]

HoldReleaseSeen ==
  credit.hold /\ ~credit'.hold =>
    \E o \in credit'.setBy : officerSaw[o].hold /\ officerSaw[o].setBy = credit.setBy

(* A hold is lifted only by someone who saw that very hold: an officer who   *)
(* read the account before a second hold was set cannot release it.          *)
ReleasedAsSeen == [][HoldReleaseSeen]_creditVars
=============================================================================
