---------------------------- MODULE ApiKeyUsage ----------------------------
(***************************************************************************)
(* Client API keys and their usage limits (config/apikeys.go), the         *)
(* reservation a request takes on its key (proxy/auth.go) and the admin    *)
(* calls that change keys (proxy/admin_apikeys.go, apiUpdateSettings).     *)
(*                                                                         *)
(* A request authenticates against a copy of the key entry, reserves its   *)
(* estimated input tokens, and later finalizes the reservation with what   *)
(* it really used or releases it.  Every writer runs under cfgLock and     *)
(* saves the whole config; a failed save leaves memory ahead of the        *)
(* database, and a crash goes back to what was saved.                      *)
(***************************************************************************)
EXTENDS Integers, FiniteSets

CONSTANTS Keys,         \* api key ids (generated, never reused)
          Calls,        \* request goroutines
          Admins,       \* admin calls that read a key entry and patch it
          MaxTokens,    \* most tokens one request estimates or uses
          TokenLimits,  \* token limits an admin may set (0 is unlimited)
          CreditLimits, \* credit limits an admin may set (0 is unlimited)
          MaxCount,     \* bound on the usage counters
          MaxFaults     \* bound on the saves that fail

ASSUME KeysAssumption ==
    /\ Keys # {} /\ IsFiniteSet(Keys) /\ IsFiniteSet(Calls)
    /\ TokenLimits \subseteq Nat /\ CreditLimits \subseteq Nat
    /\ 0 \in TokenLimits /\ 0 \in CreditLimits
    /\ {MaxTokens, MaxCount, MaxFaults} \subseteq Nat

VARIABLES
    keys,      \* cfg.ApiKeys
    require,   \* cfg.RequireApiKey
    saved,     \* the config row in the database
    faults,    \* saves that failed so far
    req,       \* each request's apiKeyUsageReservation
    patch,     \* each admin call's copy of the entry it will write back
    hist       \* per key, what really happened since the last reset (history)

keyVars == <<keys, require, saved, faults, req, patch, hist>>

KeyEntry == [life: {"unused", "live", "deleted"}, enabled: BOOLEAN,
             tokenLimit: TokenLimits, creditLimit: CreditLimits, tokens: Nat, credits: Nat]
NoKey == [life |-> "unused", enabled |-> FALSE, tokenLimit |-> 0, creditLimit |-> 0,
          tokens |-> 0, credits |-> 0]

\* settled: tokens finalized.  leaked: reservations a crash left in the saved
\* counter.  slipped: a reset ran under an open reservation.  overran: a
\* request used more than it reserved, or the limit was set below the usage.
History == [settled: Nat, leaked: Nat, slipped: BOOLEAN, overran: BOOLEAN]
NoHistory == [settled |-> 0, leaked |-> 0, slipped |-> FALSE, overran |-> FALSE]

Reservation == [phase: {"idle", "authenticated", "reserved", "finalized"},
                key: Keys, tokens: 0..MaxTokens, done: BOOLEAN]
AnyKey == CHOOSE k \in Keys : TRUE
Idle == [phase |-> "idle", key |-> AnyKey, tokens |-> 0, done |-> FALSE]

\* The fields of a key entry a patch writes back.
Settings == [enabled: BOOLEAN, tokenLimit: TokenLimits, creditLimit: CreditLimits]
SettingsOf(e) == [enabled |-> e.enabled, tokenLimit |-> e.tokenLimit, creditLimit |-> e.creditLimit]
Patch == [open: BOOLEAN, key: Keys, entry: Settings]
NoPatch == [open |-> FALSE, key |-> AnyKey, entry |-> SettingsOf(NoKey)]

KeyTypeOK ==
    /\ keys \in [Keys -> KeyEntry]
    /\ require \in BOOLEAN
    /\ saved \in [keys: [Keys -> KeyEntry], require: BOOLEAN, hist: [Keys -> History]]
    /\ req \in [Calls -> Reservation]
    /\ patch \in [Admins -> Patch]
    /\ hist \in [Keys -> History]
    /\ faults \in 0..MaxFaults

KeyInit ==
    /\ keys = [k \in Keys |-> NoKey]
    /\ require = FALSE
    /\ hist = [k \in Keys |-> NoHistory]
    /\ saved = [keys |-> keys, require |-> FALSE, hist |-> hist]
    /\ faults = 0
    /\ req = [r \in Calls |-> Idle]
    /\ patch = [m \in Admins |-> NoPatch]

-----------------------------------------------------------------------------
Live(k) == keys[k].life = "live"
Enabled(k) == Live(k) /\ keys[k].enabled
EnabledKeys == {k \in Keys : Enabled(k)}

\* saveLocked writes the whole config in one settings row.
Saved ==
    /\ saved' = [keys |-> keys', require |-> require', hist |-> hist']
    /\ UNCHANGED faults

\* Writers that ignore or only report a failed save keep the new value in memory.
MaybeSaved ==
    \/ Saved
    \/ faults < MaxFaults /\ faults' = faults + 1 /\ UNCHANGED saved

\* ApiKeyOverLimit.
OverLimit(e) ==
    \/ e.tokenLimit > 0 /\ e.tokens >= e.tokenLimit
    \/ e.creditLimit > 0 /\ e.credits >= e.creditLimit

\* releaseApiKeyUsageLocked and finalize clamp the counter at zero.
NotNegative(n) == IF n < 0 THEN 0 ELSE n

\* Requests holding an unsettled reservation on the key, and the tokens they hold,
\* one element each.
Open(k) == {r \in Calls : req[r].phase = "reserved" /\ ~req[r].done /\ req[r].key = k}
Held(k) == {h \in Open(k) \X (1..MaxTokens) : h[2] <= req[h[1]].tokens}
OpenTokens(k) == Cardinality(Held(k))

-----------------------------------------------------------------------------
\* Requests.

\* authenticate checks a copy; the key may change before the reservation.
Authenticate(r, k) ==
    /\ req[r].phase = "idle"
    /\ require /\ Enabled(k) /\ ~OverLimit(keys[k])
    /\ req' = [req EXCEPT ![r] = [phase |-> "authenticated", key |-> k, tokens |-> 0, done |-> FALSE]]
    /\ UNCHANGED <<keys, require, saved, faults, patch, hist>>

\* Faulty variant: the limit is compared without the tokens being reserved.
RefusedLate(k, n) == ~Enabled(k) \/ OverLimit(keys[k])

\* What ReserveApiKeyRequestUsage refuses under cfgLock.
Refused(k, n) ==
    \/ ~Enabled(k)
    \/ keys[k].creditLimit > 0 /\ keys[k].credits >= keys[k].creditLimit
    \/ keys[k].tokenLimit > 0 /\ keys[k].tokens + n > keys[k].tokenLimit

\* reserveApiKeyUsage succeeds: the tokens count as used from here on.
Reserve(r, n) ==
    LET k == req[r].key IN
    /\ req[r].phase = "authenticated"
    /\ ~Refused(k, n)
    /\ keys[k].tokens + n <= MaxCount
    /\ keys' = [keys EXCEPT ![k].tokens = @ + n]
    /\ req' = [req EXCEPT ![r].phase = "reserved", ![r].tokens = n]
    /\ UNCHANGED <<require, patch, hist>>
    /\ Saved

\* A refusal, or a failed save whose increment is taken back, ends the request.
ReserveFails(r) ==
    /\ req[r].phase = "authenticated"
    /\ req' = [req EXCEPT ![r] = Idle]
    /\ UNCHANGED <<keys, require, saved, faults, patch, hist>>

\* recordSuccessForApiKey -> finalize -> FinalizeApiKeyUsageReservation: swap
\* the reservation for the real usage and switch the key off at its limit.
Finalize(r, actual, credits) ==
    LET k == req[r].key
        e == keys[k]
        used == [e EXCEPT !.tokens = NotNegative(@ + actual - req[r].tokens),
                          !.credits = @ + credits]
    IN  /\ req[r].phase = "reserved" /\ ~req[r].done
        /\ hist[k].settled + actual <= MaxCount /\ e.credits + credits <= MaxCount
        /\ e.tokens + actual <= MaxCount
        /\ req' = [req EXCEPT ![r].phase = "finalized", ![r].done = TRUE]
        /\ keys' = IF Live(k)
                     THEN [keys EXCEPT ![k] = [used EXCEPT !.enabled = @ /\ ~OverLimit(used)]]
                     ELSE keys
        /\ hist' = [hist EXCEPT ![k].settled = @ + actual,
                                ![k].overran = @ \/ actual > req[r].tokens]
        /\ UNCHANGED <<require, patch>>
        /\ MaybeSaved

\* defer apiKeyReservation.release(): runs at the end of every handler, does
\* nothing after finalize.
DeferredRelease(r) ==
    LET k == req[r].key IN
    /\ req[r].phase \in {"reserved", "finalized"}
    /\ keys' = IF ~req[r].done /\ Live(k)
                 THEN [keys EXCEPT ![k].tokens = NotNegative(@ - req[r].tokens)]
                 ELSE keys
    /\ req' = [req EXCEPT ![r] = Idle]
    /\ UNCHANGED <<require, patch, hist>>
    /\ IF req[r].done THEN UNCHANGED <<saved, faults>> ELSE MaybeSaved

-----------------------------------------------------------------------------
\* Admin calls.

\* removingKeyLocksOutLocked.
RemovalLocksOut(k) == Enabled(k) /\ require /\ Cardinality(EnabledKeys) <= 1

\* AddApiKey; a failed save removes the entry again.
AddKey(k, enabled, tl, cl) ==
    /\ keys[k].life = "unused"
    /\ keys' = [keys EXCEPT ![k] = [NoKey EXCEPT !.life = "live", !.enabled = enabled,
                                                 !.tokenLimit = tl, !.creditLimit = cl]]
    /\ UNCHANGED <<require, req, patch, hist>>
    /\ Saved

\* apiUpdateApiKey reads the entry before it reads the request body.
ReadForPatch(m, k) ==
    /\ ~patch[m].open
    /\ Live(k)
    /\ patch' = [patch EXCEPT ![m] = [open |-> TRUE, key |-> k, entry |-> SettingsOf(keys[k])]]
    /\ UNCHANGED <<keys, require, saved, faults, req, hist>>

\* Entries a request body can make of the copy: switch it, change its limits,
\* or leave both alone (a rename).
Patched(e) ==
    {s \in Settings : \/ s.enabled = e.enabled
                      \/ s.tokenLimit = e.tokenLimit /\ s.creditLimit = e.creditLimit}

\* Faulty variant: the lockout check uses the copy's own view, not the store.
WritePatchUnguarded(m, e) ==
    LET k == patch[m].key
        limit == e.tokenLimit
    IN  /\ patch[m].open
        /\ patch' = [patch EXCEPT ![m] = NoPatch]
        /\ IF Live(k)
             THEN /\ keys' = [keys EXCEPT ![k].enabled = e.enabled, ![k].tokenLimit = limit,
                                          ![k].creditLimit = e.creditLimit]
                  /\ hist' = [hist EXCEPT ![k].overran =
                                @ \/ (limit > 0 /\ hist[k].settled + OpenTokens(k) > limit)]
                  /\ UNCHANGED <<require, req>>
                  /\ MaybeSaved
             ELSE UNCHANGED <<keys, require, saved, faults, req, hist>>

\* UpdateApiKeyGuarded writes every patchable field of the copy back, after a
\* lockout check against the current keys under the same lock.
WritePatch(m, e) ==
    LET k == patch[m].key
        limit == e.tokenLimit
    IN  /\ patch[m].open
        /\ patch' = [patch EXCEPT ![m] = NoPatch]
        /\ IF Live(k) /\ (e.enabled \/ ~RemovalLocksOut(k))
             THEN /\ keys' = [keys EXCEPT ![k].enabled = e.enabled, ![k].tokenLimit = limit,
                                          ![k].creditLimit = e.creditLimit]
                  /\ hist' = [hist EXCEPT ![k].overran =
                                @ \/ (limit > 0 /\ hist[k].settled + OpenTokens(k) > limit)]
                  /\ UNCHANGED <<require, req>>
                  /\ MaybeSaved
             ELSE UNCHANGED <<keys, require, saved, faults, req, hist>>

\* DeleteApiKeyGuarded.
DeleteKey(k) ==
    /\ Live(k)
    /\ ~RemovalLocksOut(k)
    /\ keys' = [keys EXCEPT ![k] = [NoKey EXCEPT !.life = "deleted"]]
    /\ hist' = [hist EXCEPT ![k] = NoHistory]
    /\ UNCHANGED <<require, req, patch>>
    /\ MaybeSaved

\* ResetApiKeyUsage zeroes the counters, open reservations included.
ResetUsage(k) ==
    /\ Live(k)
    /\ keys' = [keys EXCEPT ![k].tokens = 0, ![k].credits = 0]
    /\ hist' = [hist EXCEPT ![k] = [NoHistory EXCEPT !.slipped = Open(k) # {}]]
    /\ UNCHANGED <<require, req, patch>>
    /\ MaybeSaved

\* UpdateSettingsPatchGuarded.
SetRequire(b) ==
    /\ b # require
    /\ b => EnabledKeys # {}
    /\ require' = b
    /\ UNCHANGED <<keys, req, patch, hist>>
    /\ MaybeSaved

AdminStep ==
    \/ \E k \in Keys, b \in BOOLEAN, tl \in TokenLimits, cl \in CreditLimits : AddKey(k, b, tl, cl)
    \/ \E m \in Admins, k \in Keys : ReadForPatch(m, k)
    \/ \E m \in Admins : \E e \in Patched(patch[m].entry) : WritePatch(m, e)
    \/ \E k \in Keys : DeleteKey(k) \/ ResetUsage(k)
    \/ \E b \in BOOLEAN : SetRequire(b)

RequestStep ==
    \E r \in Calls :
        \/ \E k \in Keys : Authenticate(r, k)
        \/ \E n \in 1..MaxTokens : Reserve(r, n)
        \/ ReserveFails(r)
        \/ \E n \in 0..MaxTokens, c \in 0..1 : Finalize(r, n, c)
        \/ DeferredRelease(r)

\* The process dies and starts from the saved config; reservations that were
\* saved have no owner any more.
Crash ==
    /\ keys' = saved.keys
    /\ require' = saved.require
    /\ hist' = [k \in Keys |->
                  [saved.hist[k] EXCEPT
                     !.leaked = NotNegative(saved.keys[k].tokens - saved.hist[k].settled)]]
    /\ saved' = [saved EXCEPT !.hist = hist']
    /\ req' = [r \in Calls |-> Idle]
    /\ patch' = [m \in Admins |-> NoPatch]
    /\ UNCHANGED faults

KeyNext == AdminStep \/ RequestStep \/ Crash

KeySpec == KeyInit /\ [][KeyNext]_keyVars

-----------------------------------------------------------------------------
\* The counter the limits are checked against is exactly the finalized usage
\* plus the open reservations plus what crashes left behind, for every order of
\* reserve, finalize, release, crash and failed saves.  A reset under an open
\* reservation can only lower it (the later subtraction is clamped at zero).
UsageExact ==
    \A k \in Keys :
        LET owed == hist[k].settled + OpenTokens(k) + hist[k].leaked IN
        Live(k) => IF hist[k].slipped THEN keys[k].tokens <= owed ELSE keys[k].tokens = owed

\* Type correctness (no counter below zero) and the exact counter.
UsageInv == KeyTypeOK /\ UsageExact

\* Concurrent requests cannot oversubscribe a token limit: what was really used
\* plus what is reserved stays within it, unless a request used more than it
\* reserved, the limit was lowered under the usage, or a reset slipped.
RealUsageWithinLimit ==
    \A k \in Keys :
        Live(k) /\ keys[k].tokenLimit > 0 /\ ~hist[k].overran /\ ~hist[k].slipped
            => hist[k].settled + OpenTokens(k) <= keys[k].tokenLimit

\* The usage counter of a key is exact for every order of reserve, finalize,
\* release, crash and failed save, and concurrent requests cannot oversubscribe
\* its token limit.
KeyUsageWithinLimit == UsageInv /\ RealUsageWithinLimit

LockedOut == require /\ EnabledKeys = {}

\* No admin call takes the proxy into the state where keys are required and
\* none is enabled, even when several calls interleave ("two concurrent changes
\* cannot both pass it", config/apikeys.go).
AdminNeverLocksOut == [][AdminStep /\ ~LockedOut => ~LockedOut']_keyVars

=============================================================================
