---------------------------- MODULE TokenRefresh ----------------------------
(***************************************************************************)
(* refreshStoredAccount (proxy/token_refresh.go): renewing the OAuth       *)
(* tokens of a stored account while requests, the background sweep and     *)
(* admin calls all want the same account.                                  *)
(*                                                                         *)
(* A caller works from a copy of the account it took earlier.  Under the   *)
(* account's refresh lock it re-reads the stored row, returns if somebody  *)
(* else already renewed it, and otherwise exchanges the stored refresh     *)
(* token at the identity provider and writes the answer back.  Providers   *)
(* may rotate the refresh token, after which the old one is dead.          *)
(*                                                                         *)
(* Tokens are version numbers.  Only accounts with a refresh token are     *)
(* modelled: callers return before the lock for API key accounts.  The     *)
(* profile ARN a refresh may bring is left out.                            *)
(***************************************************************************)
EXTENDS RefreshLock, Integers

CONSTANTS Cancellable,  \* callers whose context a client or a timeout can end
          MaxToken      \* bound on the versions the provider issues

ASSUME RefreshAssumption ==
    /\ Cancellable \subseteq Callers
    /\ MaxToken \in Nat

VARIABLES
    row,      \* stored account: live, access token, refresh token
    issuer,   \* the refresh token the provider accepts for the account
    issued,   \* newest token version the provider has issued
    expired,  \* access tokens up to this version are inside the expiry skew
    lost,     \* a rotated token never reached the store (history)
    step,     \* position in refreshStoredAccount
    seen,     \* the caller's own copy, taken before it waited for the lock
    force,    \* the force argument
    snap,     \* *account = *latest
    answer    \* what RefreshTokenContext returned

refreshVars == <<row, issuer, issued, expired, lost, step, seen, force, snap, answer>>
vars == <<lockVars, refreshVars>>

Tokens == [access: 0..MaxToken, refresh: 0..MaxToken]
FirstTokens == [access |-> 0, refresh |-> 0]
Steps == {"idle", "observed", "locking", "check", "exchange", "answered", "stored", "unlock"}

TypeOK ==
    /\ LockTypeOK
    /\ row \in [Accounts -> [live: BOOLEAN, tokens: Tokens]]
    /\ issuer \in [Accounts -> 0..MaxToken]
    /\ issued \in [Accounts -> 0..MaxToken]
    /\ expired \in [Accounts -> -1..MaxToken]
    /\ lost \in [Accounts -> BOOLEAN]
    /\ step \in [Callers -> Steps]
    /\ seen \in [Callers -> [account: Accounts, tokens: Tokens]]
    /\ force \in [Callers -> BOOLEAN]
    /\ snap \in [Callers -> Tokens]
    /\ answer \in [Callers -> Tokens]

Init ==
    /\ LockInit
    /\ row = [a \in Accounts |-> [live |-> TRUE, tokens |-> FirstTokens]]
    /\ issuer = [a \in Accounts |-> 0]
    /\ issued = [a \in Accounts |-> 0]
    /\ expired = [a \in Accounts |-> -1]
    /\ lost = [a \in Accounts |-> FALSE]
    /\ step = [p \in Callers |-> "idle"]
    /\ seen \in [Callers -> [account: Accounts, tokens: {FirstTokens}]]
    /\ force = [p \in Callers |-> FALSE]
    /\ snap = [p \in Callers |-> FirstTokens]
    /\ answer = [p \in Callers |-> FirstTokens]

Account(p) == seen[p].account

\* time.Now() is before ExpiresAt minus the skew.
Valid(a, tokens) == tokens.access > expired[a]

-----------------------------------------------------------------------------
\* A caller copies the stored account (a pool pick, GetAccounts, an admin read).
Observe(p, a, f) ==
    /\ step[p] = "idle"
    /\ stage[p] = "idle"
    /\ row[a].live
    /\ seen' = [seen EXCEPT ![p] = [account |-> a, tokens |-> row[a].tokens]]
    /\ force' = [force EXCEPT ![p] = f]
    /\ step' = [step EXCEPT ![p] = "observed"]
    /\ UNCHANGED <<lockVars, row, issuer, issued, expired, lost, snap, answer>>

\* The caller is done and its local variables are gone.
Return(p) ==
    /\ step' = [step EXCEPT ![p] = "idle"]
    /\ seen' = [seen EXCEPT ![p].tokens = FirstTokens]
    /\ force' = [force EXCEPT ![p] = FALSE]
    /\ snap' = [snap EXCEPT ![p] = FirstTokens]
    /\ answer' = [answer EXCEPT ![p] = FirstTokens]

\* ensureValidTokenContext: a copy that has not expired is used as it is.
UseCopy(p) ==
    /\ step[p] = "observed"
    /\ ~force[p]
    /\ Valid(Account(p), seen[p].tokens)
    /\ Return(p)
    /\ UNCHANGED <<lockVars, row, issuer, issued, expired, lost>>

\* refreshStoredAccount is called and asks for the account's lock.
Call(p) ==
    /\ step[p] = "observed"
    /\ force[p] \/ ~Valid(Account(p), seen[p].tokens)
    /\ Register(p, Account(p))
    /\ step' = [step EXCEPT ![p] = "locking"]
    /\ UNCHANGED <<row, issuer, issued, expired, lost, seen, force, snap, answer>>

Locked(p) ==
    /\ step[p] = "locking"
    /\ Acquire(p)
    /\ step' = [step EXCEPT ![p] = "check"]
    /\ UNCHANGED <<row, issuer, issued, expired, lost, seen, force, snap, answer>>

\* The context ends while the caller waits for the gate.
CancelWait(p) ==
    /\ p \in Cancellable
    /\ step[p] = "locking"
    /\ GiveUp(p)
    /\ step' = [step EXCEPT ![p] = "unlock"]
    /\ UNCHANGED <<row, issuer, issued, expired, lost, seen, force, snap, answer>>

\* ctx.Err() right after the lock was obtained.
CancelLocked(p) ==
    /\ p \in Cancellable
    /\ step[p] = "check"
    /\ step' = [step EXCEPT ![p] = "unlock"]
    /\ UNCHANGED <<lockVars, row, issuer, issued, expired, lost, seen, force, snap, answer>>

\* The stored row differs from the caller's copy.
Rotated(p) == row[Account(p)].tokens # seen[p].tokens

\* Faulty variant: a forced refresh ignores that somebody else just renewed.
NeedsExchangeAlways(p) ==
    force[p] \/ ~Valid(Account(p), row[Account(p)].tokens)

\* Negation of (!force || rotated) && valid.
NeedsExchange(p) ==
    \/ force[p] /\ ~Rotated(p)
    \/ ~Valid(Account(p), row[Account(p)].tokens)

\* Faulty variant: the caller trusts its own copy.
CheckWithoutReread(p) ==
    /\ step[p] = "check"
    /\ snap' = [snap EXCEPT ![p] = seen[p].tokens]
    /\ step' = [step EXCEPT ![p] = "exchange"]
    /\ UNCHANGED <<lockVars, row, issuer, issued, expired, lost, seen, force, answer>>

\* storedAccount, the rotation check and the validity check.
Check(p) ==
    /\ step[p] = "check"
    /\ IF row[Account(p)].live
         THEN /\ snap' = [snap EXCEPT ![p] = row[Account(p)].tokens]
              /\ step' = [step EXCEPT ![p] = IF NeedsExchange(p) THEN "exchange" ELSE "unlock"]
         ELSE /\ step' = [step EXCEPT ![p] = "unlock"]
              /\ UNCHANGED snap
    /\ UNCHANGED <<lockVars, row, issuer, issued, expired, lost, seen, force, answer>>

\* The provider honours the refresh token and answers; it may rotate the
\* refresh token or send none, in which case the old one stays good.
Grant(p, rotate) ==
    LET a == Account(p)
        v == issued[a] + 1
        r == IF rotate THEN v ELSE snap[p].refresh
    IN  /\ step[p] = "exchange"
        /\ snap[p].refresh = issuer[a]
        /\ issued[a] < MaxToken
        /\ issued' = [issued EXCEPT ![a] = v]
        /\ issuer' = [issuer EXCEPT ![a] = r]
        /\ answer' = [answer EXCEPT ![p] = [access |-> v, refresh |-> r]]
        /\ step' = [step EXCEPT ![p] = "answered"]
        /\ UNCHANGED <<lockVars, row, expired, lost, seen, force, snap>>

\* RefreshTokenContext fails before the provider acts: network error, refused
\* token, context done.
ExchangeFails(p) ==
    /\ step[p] = "exchange"
    /\ step' = [step EXCEPT ![p] = "unlock"]
    /\ UNCHANGED <<lockVars, row, issuer, issued, expired, lost, seen, force, snap, answer>>

\* The provider acted but the answer does not arrive: the context ends or the
\* response cannot be read.
AnswerLost(p) ==
    /\ step[p] = "answered"
    /\ lost' = [lost EXCEPT ![Account(p)] = @ \/ answer[p].refresh # snap[p].refresh]
    /\ step' = [step EXCEPT ![p] = "unlock"]
    /\ UNCHANGED <<lockVars, row, issuer, issued, expired, seen, force, snap, answer>>

\* Faulty variant: an unchanged refresh token is written as the empty one.
StoreDropsRefresh(p) ==
    /\ step[p] = "answered"
    /\ row[Account(p)].live
    /\ row' = [row EXCEPT ![Account(p)].tokens.access = answer[p].access]
    /\ step' = [step EXCEPT ![p] = "stored"]
    /\ UNCHANGED <<lockVars, issuer, issued, expired, lost, seen, force, snap, answer>>

\* UpdateAccountToken: the row changes in memory even when Save then fails and
\* the caller gets the error; a deleted account is an error.
Store(p) ==
    /\ step[p] = "answered"
    /\ \/ /\ row[Account(p)].live
          /\ row' = [row EXCEPT ![Account(p)].tokens = answer[p]]
          /\ \E next \in {"stored", "unlock"} : step' = [step EXCEPT ![p] = next]
       \/ /\ ~row[Account(p)].live
          /\ step' = [step EXCEPT ![p] = "unlock"]
          /\ UNCHANGED row
    /\ UNCHANGED <<lockVars, issuer, issued, expired, lost, seen, force, snap, answer>>

\* The final re-read hands the caller the stored row, or an error if the
\* account went away; then pool.Reload.
Reread(p) ==
    /\ step[p] = "stored"
    /\ snap' = [snap EXCEPT ![p] = IF row[Account(p)].live THEN row[Account(p)].tokens ELSE @]
    /\ step' = [step EXCEPT ![p] = "unlock"]
    /\ UNCHANGED <<lockVars, row, issuer, issued, expired, lost, seen, force, answer>>

\* defer unlock().
Leave(p) ==
    /\ step[p] = "unlock"
    /\ \/ Unlock(p) /\ UNCHANGED <<step, seen, force, snap, answer>>
       \/ ReleaseRef(p) /\ Return(p)
    /\ UNCHANGED <<row, issuer, issued, expired, lost>>

\* Time passes the skew before the stored access token's expiry.
Expire(a) ==
    /\ row[a].live
    /\ expired[a] < row[a].tokens.access
    /\ expired' = [expired EXCEPT ![a] = row[a].tokens.access]
    /\ UNCHANGED <<lockVars, row, issuer, issued, lost, step, seen, force, snap, answer>>

\* DeleteAccount from the admin API.
Delete(a) ==
    /\ row[a].live
    /\ row' = [row EXCEPT ![a].live = FALSE]
    /\ UNCHANGED <<lockVars, issuer, issued, expired, lost, step, seen, force, snap, answer>>

Refresh(p) ==
    \/ UseCopy(p) \/ Call(p) \/ Locked(p) \/ CancelWait(p) \/ CancelLocked(p)
    \/ Check(p) \/ (\E rotate \in BOOLEAN : Grant(p, rotate)) \/ ExchangeFails(p)
    \/ AnswerLost(p) \/ Store(p) \/ Reread(p) \/ Leave(p)

Next ==
    \/ \E p \in Callers :
         \/ \E a \in Accounts, f \in BOOLEAN : Observe(p, a, f)
         \/ Refresh(p)
    \/ \E a \in Accounts : Expire(a) \/ Delete(a)

Spec == Init /\ [][Next]_vars

\* A goroutine inside the call keeps running (the HTTP client's timeout ends
\* the exchange) and channel senders are served in order.
Fairness ==
    \A p \in Callers :
        /\ WF_vars(UseCopy(p) \/ Call(p) \/ Check(p) \/ Store(p) \/ Reread(p) \/ Leave(p))
        /\ WF_vars(ExchangeFails(p))
        /\ SF_vars(Locked(p))

FairSpec == Spec /\ Fairness

-----------------------------------------------------------------------------
\* A refresh token is never presented after the provider retired it, unless an
\* earlier answer was lost on the way: concurrent callers serialise and re-read
\* ("safe under concurrent requests", README.md).
NoReplay ==
    \A p \in Callers :
        step[p] = "exchange" => snap[p].refresh = issuer[Account(p)] \/ lost[Account(p)]

\* A herd of callers holding the same old copy renews the account once: a
\* still valid stored token is only exchanged by a forced caller that has seen
\* exactly this token.
HerdRenewsOnce ==
    \A p \in Callers :
        step[p] = "exchange" =>
            \/ ~Valid(Account(p), row[Account(p)].tokens)
            \/ force[p] /\ seen[p].tokens = row[Account(p)].tokens

\* Between two refreshes the store holds the refresh token the provider
\* accepts, so the account can be renewed again.
StoreRenewable ==
    \A a \in Accounts :
        row[a].live /\ ~lost[a] /\ (\A p \in Callers : ~(Account(p) = a /\ step[p] = "answered"))
            => row[a].tokens.refresh = issuer[a]

\* Stored tokens only move forward: no caller writes back an older answer over
\* a newer one.
TokensMoveForward ==
    [][\A a \in Accounts :
         /\ row'[a].tokens.access >= row[a].tokens.access
         /\ row'[a].tokens.refresh >= row[a].tokens.refresh]_row

\* Every call returns and gives the lock back, whatever the other callers, the
\* provider and the admin do.
CallsReturn ==
    \A p \in Callers : step[p] = "locking" ~> step[p] = "idle"

-----------------------------------------------------------------------------
\* Where the caller is in refreshStoredAccount fixes where it is in the lock.
StepMatchesLock ==
    \A p \in Callers :
        /\ step[p] \in {"idle", "observed"} => stage[p] = "idle"
        /\ step[p] = "locking" => stage[p] = "waiting" /\ wants[p] = Account(p)
        /\ step[p] \in {"check", "exchange", "answered", "stored"} => Holds(p, Account(p))
        /\ step[p] = "unlock" => stage[p] \in {"held", "leaving"}

\* While a caller talks to the provider nobody else changes the row it read.
SnapIsStored ==
    \A p \in Callers :
        step[p] \in {"exchange", "answered"} => snap[p] = row[Account(p)].tokens

\* An answer in hand carries the provider's newest tokens.
AnswerIsNewest ==
    \A p \in Callers :
        step[p] = "answered" =>
            /\ answer[p].access = issued[Account(p)]
            /\ answer[p].refresh = issuer[Account(p)]

StoredWereIssued ==
    \A a \in Accounts :
        /\ row[a].tokens.access <= issued[a]
        /\ row[a].tokens.refresh <= issuer[a]
        /\ issuer[a] <= issued[a]

RefreshInv ==
    /\ TypeOK
    /\ StepMatchesLock
    /\ SnapIsStored
    /\ AnswerIsNewest
    /\ StoredWereIssued
    /\ NoReplay
    /\ StoreRenewable

\* The inductive invariant of the whole: the lock table is sound (LockInv)
\* and every caller inside refreshStoredAccount works on what is stored.
FullInv == LockInv /\ RefreshInv

=============================================================================
