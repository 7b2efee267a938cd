------------------------------ MODULE LoginCodes ------------------------------
(***************************************************************************)
(* One-time login codes and sessions of one e-mail address                 *)
(* (packages/identity/src/otp.ts, session.ts, login.ts, migration 0044).   *)
(*                                                                         *)
(* A login call runs two transactions: one that looks the user up, and the *)
(* one that asks for a code or presents it.  Requests of one address are   *)
(* serialised by an advisory lock; whoever compares a code holds the row   *)
(* locks of the address's live codes until it commits.  A transaction may  *)
(* end at any time with nothing written (the process dies, a statement     *)
(* fails).  Calls are READ COMMITTED; a call that is repeated under its    *)
(* idempotency key is module Idempotency's subject.                        *)
(*                                                                         *)
(* Abstracted: code i is the i-th row, a guess is a row number or 0 (a     *)
(* code nobody was sent); two rows never carry the same six digits.  The   *)
(* thresholds of platform.thresholds do not change.                        *)
(***************************************************************************)
EXTENDS Integers, Sequences, FiniteSets

CONSTANTS LoginCall,        \* concurrent calls of RequestLoginOtp and VerifyLoginOtp
          ExpiryMinutes, MaxAttempts, ResendAfter, RequestsPerHour, HourLength,
          SessionLifetime,
          MaxCodes, LastMinute   \* bounds: codes issued, minutes on the clock

ASSUME LoginAssumption ==
    /\ {ExpiryMinutes, MaxAttempts, ResendAfter, RequestsPerHour, HourLength,
        SessionLifetime, MaxCodes, LastMinute} \subseteq Nat
    /\ "none" \notin LoginCall

VARIABLES codes,        \* identity.otp_codes: Seq of [expires, consumed, attempts], and two
                        \* ghosts: issued (the minute) and refusals (answers "wrong" given)
          tokens,       \* identity.sessions: Seq of [otp, expires, revoked]
          userActive,   \* identity.users.is_active
          minute,       \* the clock of the API processes
          loginCall,    \* what each call holds
          requestLock,  \* holder of the advisory lock of the address, or "none"
          rowLock       \* holder of the row locks of the live codes, or "none"
loginVars == <<codes, tokens, userActive, minute, loginCall, requestLock, rowLock>>

NoLoginCall == [step |-> "idle", at |-> 0, guess |-> 0, rows |-> {}]

LoginTypesOK ==
    /\ codes \in Seq([expires : Int, consumed : BOOLEAN, attempts : Nat,
                      issued : Nat, refusals : Nat])
    /\ tokens \in Seq([otp : 1..Len(codes), expires : Int, revoked : BOOLEAN])
    /\ userActive \in BOOLEAN /\ minute \in 0..LastMinute
    /\ loginCall \in [LoginCall -> [step : {"idle", "asking", "cleared", "presenting", "matching", "matched"},
                               at : Nat, guess : 0..MaxCodes, rows : SUBSET (1..MaxCodes)]]
    /\ {requestLock, rowLock} \subseteq LoginCall \cup {"none"}

InitLogin ==
    /\ codes = <<>> /\ tokens = <<>> /\ userActive \in BOOLEAN /\ minute = 0
    /\ loginCall = [c \in LoginCall |-> NoLoginCall]
    /\ requestLock = "none" /\ rowLock = "none"

EndCall(c) ==
    /\ loginCall' = [loginCall EXCEPT ![c] = NoLoginCall]
    /\ requestLock' = IF requestLock = c THEN "none" ELSE requestLock
    /\ rowLock' = IF rowLock = c THEN "none" ELSE rowLock

-----------------------------------------------------------------------------
(* findActiveUserIdByEmail, in a transaction of its own: an unknown or     *)
(* inactive address goes no further.                                       *)
RequestLoginOtp(c) ==
    /\ loginCall[c].step = "idle" /\ userActive /\ Len(codes) < MaxCodes
    /\ loginCall' = [loginCall EXCEPT ![c].step = "asking"]
    /\ UNCHANGED <<codes, tokens, userActive, minute, requestLock, rowLock>>

(* The issue instants are derived from expires_at and the expiry threshold;*)
(* consumed and expired codes count.                                       *)
IssuedAfter(m) == {i \in 1..Len(codes) : codes[i].expires - ExpiryMinutes > m}
MayIssue(now) ==
    /\ IssuedAfter(now - ResendAfter) = {}
    /\ Cardinality(IssuedAfter(now - HourLength)) < RequestsPerHour

(* pg_advisory_xact_lock(hashtext('identity.otp.request:' || email)).      *)
RequestLockFree(c) == requestLock \in {"none", c}

(* generateOtpInTx up to the limits: the user again, the lock, the clock   *)
(* after the lock, one statement over all the codes of the address.        *)
ClearRequest(c) ==
    /\ loginCall[c].step = "asking" /\ userActive /\ RequestLockFree(c)
    /\ MayIssue(minute)
    /\ requestLock' = c
    /\ loginCall' = [loginCall EXCEPT ![c].step = "cleared", ![c].at = minute]
    /\ UNCHANGED <<codes, tokens, userActive, minute, rowLock>>

(* identity.otp_issue consumes every unconsumed code of the address ...    *)
Superseded == [i \in 1..Len(codes) |-> [codes[i] EXCEPT !.consumed = TRUE]]

(* ... waiting for whoever compares one of them, and inserts the new code. *)
IssueCode(c) ==
    /\ loginCall[c].step = "cleared" /\ Len(codes) < MaxCodes
    /\ \/ rowLock = "none"
       \/ \A i \in 1..Len(codes) : codes[i].consumed
    /\ codes' = Append(Superseded,
                       [expires |-> loginCall[c].at + ExpiryMinutes, consumed |-> FALSE,
                        attempts |-> 0, issued |-> loginCall[c].at, refusals |-> 0])
    /\ EndCall(c)
    /\ UNCHANGED <<tokens, userActive, minute>>

-----------------------------------------------------------------------------
(* VerifyLoginOtp: the user is looked up; verifyOtpInTx reads the clock    *)
(* before it asks for the candidates.                                      *)
VerifyLoginOtp(c, guess) ==
    /\ loginCall[c].step = "idle" /\ userActive
    /\ loginCall' = [loginCall EXCEPT ![c] = [NoLoginCall EXCEPT !.step = "presenting", !.at = minute, !.guess = guess]]
    /\ UNCHANGED <<codes, tokens, userActive, minute, requestLock, rowLock>>

LiveCodes(at) == {i \in 1..Len(codes) : /\ ~codes[i].consumed
                                        /\ codes[i].expires >= at
                                        /\ codes[i].attempts < MaxAttempts}

(* A mutant of RowLockFree: the candidates are read without 'for update'.  *)
NoRowLock(c) == TRUE
RowLockFree(c) == rowLock \in {"none", c}

(* identity.otp_lock_candidates; no live code, or an inactive owner, is    *)
(* answered 'invalid' with nothing written.                                *)
LockCandidates(c) ==
    /\ loginCall[c].step = "presenting" /\ RowLockFree(c)
    /\ LET live == LiveCodes(loginCall[c].at)
       IN IF live = {} \/ ~userActive
          THEN EndCall(c)
          ELSE /\ rowLock' = c
               /\ loginCall' = [loginCall EXCEPT ![c].step = IF loginCall[c].guess \in live THEN "matched" ELSE "matching",
                                       ![c].rows = live]
               /\ UNCHANGED requestLock
    /\ UNCHANGED <<codes, tokens, userActive, minute>>

(* identity.otp_record_failure: the guess counts against every live code.  *)
RefuseCode(c) ==
    /\ loginCall[c].step = "matching"
    /\ codes' = [i \in 1..Len(codes) |->
                   IF i \in loginCall[c].rows
                   THEN [codes[i] EXCEPT !.attempts = @ + 1, !.refusals = @ + 1]
                   ELSE codes[i]]
    /\ EndCall(c)
    /\ UNCHANGED <<tokens, userActive, minute>>

(* identity.otp_consume, then issueSessionInTx: the user is read again,    *)
(* and a user deactivated meanwhile rolls the whole call back.             *)
AcceptCode(c) ==
    /\ loginCall[c].step = "matched"
    /\ IF userActive
       THEN /\ codes' = [codes EXCEPT ![loginCall[c].guess].consumed = TRUE]
            /\ tokens' = Append(tokens, [otp |-> loginCall[c].guess,
                                         expires |-> minute + SessionLifetime, revoked |-> FALSE])
       ELSE UNCHANGED <<codes, tokens>>
    /\ EndCall(c)
    /\ UNCHANGED <<userActive, minute>>

(* A refused request, a dead process, a failed statement: rolled back.     *)
AbandonCall(c) ==
    /\ loginCall[c].step # "idle" /\ EndCall(c)
    /\ UNCHANGED <<codes, tokens, userActive, minute>>

-----------------------------------------------------------------------------
(* verifySession: a token is good while its row is neither revoked nor     *)
(* expired; verifySessionSubject returns is_active with it.                *)
SessionValid(t) == ~tokens[t].revoked /\ tokens[t].expires >= minute

(* revokeSession, by whoever holds the session: a second revocation keeps  *)
(* the first instant.                                                      *)
RevokeSession(t) ==
    /\ SessionValid(t)
    /\ tokens' = [tokens EXCEPT ![t].revoked = TRUE]
    /\ UNCHANGED <<codes, userActive, minute, loginCall, requestLock, rowLock>>

(* An administrator activates or deactivates the user.                     *)
SetUserActive ==
    /\ userActive' = ~userActive
    /\ UNCHANGED <<codes, tokens, minute, loginCall, requestLock, rowLock>>

NextMinute ==
    /\ minute < LastMinute /\ minute' = minute + 1
    /\ UNCHANGED <<codes, tokens, userActive, loginCall, requestLock, rowLock>>

NextLogin ==
    \/ \E c \in LoginCall :
         \/ RequestLoginOtp(c) \/ ClearRequest(c) \/ IssueCode(c)
         \/ \E guess \in 0..Len(codes) : VerifyLoginOtp(c, guess)
         \/ LockCandidates(c) \/ RefuseCode(c) \/ AcceptCode(c) \/ AbandonCall(c)
    \/ \E t \in 1..Len(tokens) : RevokeSession(t)
    \/ SetUserActive \/ NextMinute
SpecLogin == InitLogin /\ [][NextLogin]_loginVars

-----------------------------------------------------------------------------
(* A code opens one session at most, however many calls present it at the  *)
(* same time, and is used up by it.                                        *)
CodeOpensOneSession ==
    /\ \A t, u \in 1..Len(tokens) : tokens[t].otp = tokens[u].otp => t = u
    /\ \A t \in 1..Len(tokens) : codes[tokens[t].otp].consumed
(* No code is answered 'wrong' more than MaxAttempts times: calls that run *)
(* together do not get guesses the counter misses.                         *)
GuessesAreCounted == \A i \in 1..Len(codes) : codes[i].refusals <= MaxAttempts
(* At most one code of the address is unconsumed: a new one ends the       *)
(* earlier ones, also when two requests run together.                      *)
OneCodeOutstanding == Cardinality({i \in 1..Len(codes) : ~codes[i].consumed}) <= 1
(* Codes of an address are issued ResendAfter apart, and RequestsPerHour   *)
(* to an hour.                                                             *)
RequestsAreSpaced ==
    \A i, j \in 1..Len(codes) :
        i < j => /\ codes[i].issued + ResendAfter <= codes[j].issued
                 /\ j - i >= RequestsPerHour => codes[i].issued + HourLength <= codes[j].issued

(* What the login promises of one address (D3, G-16a): the four above.     *)
LoginIsBounded ==
    CodeOpensOneSession /\ GuessesAreCounted /\ OneCodeOutstanding /\ RequestsAreSpaced
=============================================================================
