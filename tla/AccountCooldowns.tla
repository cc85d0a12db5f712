------------------------- MODULE AccountCooldowns -------------------------
(***************************************************************************)
(* The cooldowns and error counts of pool/account.go and how they are kept *)
(* across restarts (pool/cooldown_persist.go, proxy/cooldown_scheduler.go).*)
(*                                                                         *)
(* Every recorded error starts a goroutine that copies the active cooldowns*)
(* under the pool's read lock and then replaces the cooldowns table in one *)
(* transaction; a ticker does the same every two minutes.  The copy and the*)
(* transaction are separate steps, so two saves can commit in either order.*)
(*                                                                         *)
(* A cooldown is the time it still runs: the code's deadlines are compared *)
(* only with the clock and with each other, so the distance to now is all  *)
(* that matters.  Tick lets one unit pass everywhere, the database too.    *)
(***************************************************************************)
EXTENDS Integers, FiniteSets, FiniteSetsExt

CONSTANTS Accounts,
          Savers,        \* save goroutines started by recorded errors
          Ticker,        \* the goroutine of backgroundCooldownSaver
          ThrottleBase,  \* throttleBaseCooldown
          ThrottleMax,   \* throttleMaxCooldown
          ErrorCooldown, \* the cooldown of the third plain error in a row
          QuotaDelays,   \* lengths a quota error may ask for (hint, reset date, a day)
          Hints,         \* retry-after hints of a throttle, 0 for none
          MaxErrors,     \* error counts saturate here; no comparison tells larger ones apart
          MaxFaults      \* bound on the saves that fail

ErrorsBeforeCooldown == 3

\* The loop of RecordThrottleError: the delay doubles with every consecutive
\* error until it has reached the cap.
Doubled[count \in 1..MaxErrors] ==
    IF count = 1 THEN ThrottleBase
    ELSE IF Doubled[count - 1] < ThrottleMax THEN 2 * Doubled[count - 1]
         ELSE Doubled[count - 1]

ASSUME CooldownAssumption ==
    /\ {ThrottleBase, ThrottleMax, ErrorCooldown} \subseteq Nat \ {0}
    /\ ThrottleBase <= ThrottleMax
    /\ QuotaDelays \subseteq Nat \ {0} /\ IsFiniteSet(QuotaDelays)
    /\ Hints \subseteq Nat /\ IsFiniteSet(Hints)
    /\ MaxErrors \in Nat /\ MaxErrors >= ErrorsBeforeCooldown
    /\ Doubled[MaxErrors] >= ThrottleMax
    /\ MaxFaults \in Nat
    /\ Ticker \notin Savers

VARIABLES
    cool,    \* p.cooldowns, as time left (0: none, or over)
    errs,    \* p.errorCounts
    disk,    \* the cooldowns table, as time left
    saves,   \* each save goroutine and the rows it has copied
    faults,  \* saves that failed so far
    quota    \* time left of the longest quota cooldown asked for (history)

coolVars == <<cool, errs, disk, saves, faults, quota>>

Workers == Savers \cup {Ticker}
None == [a \in Accounts |-> 0]
NoSave == [phase |-> "idle", rows |-> None]

CoolTypeOK ==
    /\ cool \in [Accounts -> Nat] /\ disk \in [Accounts -> Nat] /\ quota \in [Accounts -> Nat]
    /\ errs \in [Accounts -> 0..MaxErrors]
    /\ saves \in [Workers -> [phase: {"idle", "started", "copied"}, rows: [Accounts -> Nat]]]
    /\ faults \in 0..MaxFaults

CoolInit ==
    /\ cool = None /\ disk = None /\ quota = None
    /\ errs = [a \in Accounts |-> 0]
    /\ saves = [s \in Workers |-> NoSave]
    /\ faults = 0

-----------------------------------------------------------------------------
LongerOf(x, y) == IF x > y THEN x ELSE y
ShorterOf(x, y) == IF x < y THEN x ELSE y

Counted(a) == ShorterOf(errs[a] + 1, MaxErrors)

\* delay = min(delay, throttleMaxCooldown), after the loop.
ThrottleDelay(count) == ShorterOf(Doubled[count], ThrottleMax)

\* go SaveCooldowns() after every recorded error.
StartSave(s) ==
    /\ s \in Savers /\ saves[s].phase = "idle"
    /\ saves' = [saves EXCEPT ![s].phase = "started"]

\* RecordSuccess clears the account in memory and starts no save.
RecordSuccess(a) ==
    /\ cool' = [cool EXCEPT ![a] = 0]
    /\ errs' = [errs EXCEPT ![a] = 0]
    /\ quota' = [quota EXCEPT ![a] = 0]
    /\ UNCHANGED <<disk, saves, faults>>

\* Faulty variant: the new deadline replaces a later one.
ThrottleOverwrites(a, hint, s) ==
    LET delay == IF hint > 0 THEN hint ELSE ThrottleDelay(Counted(a)) IN
    /\ errs' = [errs EXCEPT ![a] = Counted(a)]
    /\ cool' = [cool EXCEPT ![a] = delay]
    /\ StartSave(s)
    /\ UNCHANGED <<disk, faults, quota>>

RecordThrottleError(a, hint, s) ==
    LET delay == IF hint > 0 THEN hint ELSE ThrottleDelay(Counted(a)) IN
    /\ errs' = [errs EXCEPT ![a] = Counted(a)]
    /\ cool' = [cool EXCEPT ![a] = LongerOf(@, delay)]
    /\ StartSave(s)
    /\ UNCHANGED <<disk, faults, quota>>

\* recordError(id, true, retryAfter).
RecordQuotaError(a, delay, s) ==
    /\ errs' = [errs EXCEPT ![a] = Counted(a)]
    /\ cool' = [cool EXCEPT ![a] = LongerOf(@, delay)]
    /\ quota' = [quota EXCEPT ![a] = LongerOf(@, delay)]
    /\ StartSave(s)
    /\ UNCHANGED <<disk, faults>>

\* recordError(id, false, 0): the third error in a row sets the short cooldown
\* whatever cooldown was in force.
RecordPlainError(a, s) ==
    LET short == Counted(a) >= ErrorsBeforeCooldown IN
    /\ errs' = [errs EXCEPT ![a] = Counted(a)]
    /\ cool' = [cool EXCEPT ![a] = IF short THEN ErrorCooldown ELSE @]
    /\ quota' = [quota EXCEPT ![a] = IF short THEN 0 ELSE @]
    /\ StartSave(s)
    /\ UNCHANGED <<disk, faults>>

-----------------------------------------------------------------------------
\* Saving and loading.

\* The two-minute ticker fires.
TickerFires ==
    /\ saves[Ticker].phase = "idle"
    /\ saves' = [saves EXCEPT ![Ticker].phase = "started"]
    /\ UNCHANGED <<cool, errs, disk, faults, quota>>

\* Faulty variant: the filter keeps the cooldowns that are over.
CopyExpired(s) ==
    /\ saves[s].phase = "started"
    /\ saves' = [saves EXCEPT ![s] = [phase |-> "copied", rows |-> None]]
    /\ UNCHANGED <<cool, errs, disk, faults, quota>>

\* SaveCooldowns copies the active cooldowns under the read lock...
CopyActive(s) ==
    /\ saves[s].phase = "started"
    /\ saves' = [saves EXCEPT ![s] = [phase |-> "copied", rows |-> cool]]
    /\ UNCHANGED <<cool, errs, disk, faults, quota>>

\* ...and replaces the table in one transaction, which may fail as a whole.
Commit(s) ==
    /\ saves[s].phase = "copied"
    /\ saves' = [saves EXCEPT ![s] = NoSave]
    /\ \/ disk' = saves[s].rows /\ UNCHANGED faults
       \/ faults < MaxFaults /\ faults' = faults + 1 /\ UNCHANGED disk
    /\ UNCHANGED <<cool, errs, quota>>

\* The process ends, whatever its goroutines were doing, and loadCooldowns
\* reads the unexpired rows back.
Restart ==
    /\ cool' = disk
    /\ errs' = [a \in Accounts |-> 0]
    /\ saves' = [s \in Workers |-> NoSave]
    /\ quota' = None
    /\ UNCHANGED <<disk, faults>>

\* A deadline that has passed is no cooldown, to the picker, the saver and the
\* loader alike.
Aged(f) == [a \in Accounts |-> IF f[a] > 0 THEN f[a] - 1 ELSE 0]

\* One unit of time passes.  Units are minutes and a save takes milliseconds, so
\* no unit ends between a save's copy and its commit.
Tick ==
    /\ \A s \in Workers : saves[s].phase # "copied"
    /\ cool' = Aged(cool) /\ disk' = Aged(disk) /\ quota' = Aged(quota)
    /\ UNCHANGED <<errs, saves, faults>>

Failure ==
    \E a \in Accounts, s \in Savers :
        \/ \E h \in Hints : RecordThrottleError(a, h, s)
        \/ \E d \in QuotaDelays : RecordQuotaError(a, d, s)
        \/ RecordPlainError(a, s)

Saving == TickerFires \/ \E s \in Workers : CopyActive(s) \/ Commit(s)

CoolNext == Failure \/ (\E a \in Accounts : RecordSuccess(a)) \/ Saving \/ Restart \/ Tick

CoolSpec == CoolInit /\ [][CoolNext]_coolVars

\* The ticker goroutine runs forever and the scheduler runs every save; nothing
\* makes errors, successes or restarts happen.
FairCoolSpec ==
    /\ CoolSpec
    /\ WF_coolVars(TickerFires)
    /\ \A s \in Workers : WF_coolVars(CopyActive(s)) /\ WF_coolVars(Commit(s))

-----------------------------------------------------------------------------
\* A quota cooldown is served in full: throttle answers, shorter hints, late
\* saves and the passing of time never end it early.  Only a success, the third
\* plain error in a row or a restart does ("Never shorten a longer cooldown,
\* such as a quota cooldown already in force", pool/account.go).
QuotaServed == \A a \in Accounts : cool[a] >= quota[a]

\* Nothing on its way to the table, and nothing in it, outlasts the longest
\* cooldown the code can ask for, so no sequence of saves and restarts locks an
\* account out for good.
LongestDelay == Max(QuotaDelays \cup Hints \cup {ThrottleMax, ErrorCooldown})
CooldownsBounded ==
    \A a \in Accounts :
        /\ cool[a] <= LongestDelay /\ disk[a] <= LongestDelay
        /\ \A s \in Workers : saves[s].rows[a] <= LongestDelay

\* Type correctness and the bound, which the saves and restarts preserve.
CooldownInv == CoolTypeOK /\ CooldownsBounded

\* No cooldown is longer than the longest delay the code can ask for, on disk, on
\* its way there or in memory, and a quota cooldown is served in full.
CooldownsServed == CooldownInv /\ QuotaServed

\* Every cooldown that lasts reaches the database: the two-minute saver repairs
\* whatever order the error saves committed in.
CooldownReachesDisk ==
    \A a \in Accounts : cool[a] > 0 ~> (disk[a] > 0 \/ cool[a] = 0)

=============================================================================
