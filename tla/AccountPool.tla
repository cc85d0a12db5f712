---------------------------- MODULE AccountPool ----------------------------
(***************************************************************************)
(* Account selection of pool/account.go: the weighted rotation Reload      *)
(* builds from the stored rows, and the round-robin and sticky picks.      *)
(*                                                                         *)
(* Rows are written by config calls and reach the rotation only when their *)
(* writer calls Reload, in a lock section of its own; picks run in between.*)
(* Cooldowns and expired tokens only take accounts out of the running and  *)
(* put them back, at any time: `resting' is the set of accounts that are   *)
(* cooling down (module AccountCooldowns) or whose token ran out with      *)
(* nothing to refresh it.                                                  *)
(***************************************************************************)
EXTENDS Integers, FiniteSets, FiniteSetsExt, Sequences, SequencesExt

CONSTANTS Accounts, Models,
          ModelLists,  \* the model lists the upstream may report for an account
          Order,       \* the accounts in stored order
          Weight,      \* each account's weight
          Metered,     \* accounts whose usage can pass its limit
          MaxWriters,  \* row writers between their write and their Reload
          NoAccount

ASSUME PoolAssumption ==
    /\ Order \in Seq(Accounts) /\ IsInjective(Order) /\ Range(Order) = Accounts
    /\ Weight \in [Accounts -> Nat]
    /\ Metered \subseteq Accounts
    /\ ModelLists \subseteq SUBSET Models
    /\ MaxWriters \in Nat
    /\ NoAccount \notin Accounts

\* Values for Order and Weight: the first account has weight two, the others none of their own.
SomeOrder == SetToSeq(Accounts)
HeavyFirst == [a \in Accounts |-> IF a = Order[1] THEN 2 ELSE 0]

VARIABLES
    on,         \* rows GetEnabledAccounts returns
    over,       \* rows over their limit with no upstream overage
    allowOver,  \* cfg.AllowOverUsage
    pending,    \* writers that have not reloaded the pool yet
    rot,        \* p.accounts, by id
    overCopy,   \* the copies in p.accounts that are over their limit
    enabledIDs, \* p.enabledIDs
    cursor,     \* p.currentIndex
    last,       \* p.lastSelected
    lists,      \* p.modelLists (empty: unknown, serves every model)
    resting,    \* accounts in cooldown or with a dead token
    waited      \* rotation picks that passed over an account that could serve (history)

rowVars == <<on, over, allowOver, pending>>
poolVars == <<rot, overCopy, enabledIDs, cursor, last>>
vars == <<on, over, allowOver, pending, rot, overCopy, enabledIDs, cursor, last, lists, resting, waited>>

NobodyWaited == [a \in Accounts |-> 0]

TypeOK ==
    /\ on \subseteq Accounts /\ over \subseteq Metered /\ allowOver \in BOOLEAN
    /\ pending \in 0..MaxWriters
    /\ rot \in Seq(Accounts) /\ overCopy \subseteq Range(rot)
    /\ Range(rot) \subseteq enabledIDs /\ enabledIDs \subseteq Accounts
    /\ cursor \in Nat /\ (rot = <<>> => cursor = 0) /\ (rot # <<>> => cursor < Len(rot))
    /\ last \in Accounts \cup {NoAccount}
    /\ lists \in [Accounts -> SUBSET Models]
    /\ resting \subseteq Accounts
    /\ waited \in [Accounts -> Nat]

-----------------------------------------------------------------------------
\* Reload.

effectiveWeight(a) == IF Weight[a] < 1 THEN 1 ELSE Weight[a]

\* Rows Reload keeps in the rotation, and the rotation they make.
InRotation(a) == a \in on /\ (a \in over => allowOver)
Weighted == FlattenSeq([i \in 1..Len(Order) |->
                [j \in 1..(IF InRotation(Order[i]) THEN effectiveWeight(Order[i]) ELSE 0) |-> Order[i]]])

Rebuild ==
    /\ rot' = Weighted
    /\ overCopy' = Range(Weighted) \cap over
    /\ enabledIDs' = on
    /\ cursor' = IF Weighted = <<>> THEN 0 ELSE cursor % Len(Weighted)
    /\ last' = IF Weighted = <<>> THEN NoAccount ELSE last
    /\ waited' = NobodyWaited

\* GetPool at startup.
Init ==
    /\ on \in SUBSET Accounts /\ over \in SUBSET Metered /\ allowOver \in BOOLEAN
    /\ pending = 0
    /\ rot = Weighted /\ overCopy = Range(Weighted) \cap over /\ enabledIDs = on
    /\ cursor = 0 /\ last = NoAccount
    /\ lists = [a \in Accounts |-> {}]
    /\ resting \in SUBSET Accounts
    /\ waited = NobodyWaited

\* Reload by a writer that has written.  Under p.mu it reads the rows as they
\* are now, other writers' changes included.
Reload ==
    /\ pending > 0
    /\ pending' = pending - 1
    /\ Rebuild
    /\ UNCHANGED <<on, over, allowOver, lists, resting>>

-----------------------------------------------------------------------------
\* Writers: a row or the overage switch changes; a Reload is due.

WriteRows ==
    /\ pending < MaxWriters
    /\ pending' = pending + 1
    /\ \/ \E a \in Accounts : on' = (on \ {a}) \cup ({a} \ on) /\ UNCHANGED <<over, allowOver>>
       \/ \E a \in Metered : over' = (over \ {a}) \cup ({a} \ over) /\ UNCHANGED <<on, allowOver>>
       \/ allowOver' = ~allowOver /\ UNCHANGED <<on, over>>
    /\ UNCHANGED <<rot, overCopy, enabledIDs, cursor, last, lists, resting, waited>>

SetModelList(a, ms) ==
    /\ ms # lists[a]
    /\ lists' = [lists EXCEPT ![a] = ms]
    /\ UNCHANGED <<on, over, allowOver, pending, rot, overCopy, enabledIDs, cursor, last, resting, waited>>

\* A cooldown starts, ends or is cleared, a token runs out or is renewed.
RestChanges(a) ==
    /\ resting' = (resting \ {a}) \cup ({a} \ resting)
    /\ UNCHANGED <<on, over, allowOver, pending, rot, overCopy, enabledIDs, cursor, last, lists, waited>>

-----------------------------------------------------------------------------
\* Picks.

accountHasModel(a, m) == lists[a] = {} \/ m \in lists[a]

CanServe(m, excluded) ==
    {a \in Range(rot) : /\ a \notin excluded
                        /\ accountHasModel(a, m)
                        /\ a \notin resting
                        /\ a \in overCopy => allowOver}

\* The account i places after the cursor.
At(i) == rot[((cursor + i) % Len(rot)) + 1]

\* findNextAvailableLocked: the distance of the first usable account, looking at
\* each account where it first appears.
FirstAt(able, avoidLast) ==
    LET hits == {i \in 0..Len(rot)-1 : /\ At(i) \in able
                                       /\ avoidLast => At(i) # last
                                       /\ \A j \in 0..i-1 : At(j) # At(i)}
    IN  IF hits = {} THEN -1 ELSE Min(hits)

\* nextAccountLocked: avoid the last pick first, then take whoever can serve.
NextOffset(able) ==
    LET fresh == FirstAt(able, TRUE) IN IF fresh >= 0 THEN fresh ELSE FirstAt(able, FALSE)

\* What a pick for model m returns without a preference.
Choice(m, excluded) ==
    LET i == NextOffset(CanServe(m, excluded)) IN IF i < 0 THEN NoAccount ELSE At(i)

\* Faulty variant: every search starts at the head of the rotation.
PickNextFromHead(m, excluded) ==
    LET able == CanServe(m, excluded)
        i == NextOffset(able)
    IN  /\ i >= 0
        /\ cursor' = 0
        /\ last' = At(i)
        /\ waited' = [a \in Accounts |-> IF a \in able /\ a # At(i) THEN waited[a] + 1 ELSE 0]
        /\ UNCHANGED <<on, over, allowOver, pending, rot, overCopy, enabledIDs, lists, resting>>

\* GetNextForModelExcluding, or a sticky pick whose account cannot serve.
PickNext(m, excluded) ==
    LET able == CanServe(m, excluded)
        i == NextOffset(able)
    IN  /\ i >= 0
        /\ cursor' = (cursor + i + 1) % Len(rot)
        /\ last' = At(i)
        /\ waited' = [a \in Accounts |-> IF a \in able /\ a # At(i) THEN waited[a] + 1 ELSE 0]
        /\ UNCHANGED <<on, over, allowOver, pending, rot, overCopy, enabledIDs, lists, resting>>

\* GetPreferredForModelExcluding when the preferred account can serve: the
\* rotation does not move.
PickPreferred(preferred, m, excluded) ==
    /\ preferred \in CanServe(m, excluded)
    /\ UNCHANGED vars

\* OffersModel; noAccountError answers 404 when it is false and 503 otherwise.
OffersModel(m) ==
    \/ rot = <<>> /\ enabledIDs = {}
    \/ \E a \in enabledIDs \cup Range(rot) : accountHasModel(a, m)

Next ==
    \/ WriteRows \/ Reload
    \/ \E a \in Accounts : RestChanges(a) \/ \E ms \in ModelLists : SetModelList(a, ms)
    \/ \E m \in Models, excluded \in SUBSET Accounts :
           \/ PickNext(m, excluded)
           \/ \E p \in Accounts : PickPreferred(p, m, excluded)

Spec == Init /\ [][Next]_vars

-----------------------------------------------------------------------------
\* A request is told there is no account only when none in the rotation can
\* serve it, wherever the cursor is and whoever was picked last.
PickComplete ==
    \A m \in Models, excluded \in SUBSET Accounts :
        Choice(m, excluded) = NoAccount <=> CanServe(m, excluded) = {}

\* No account that can serve every request is passed over for long: before it
\* is picked, each other account is picked at most once, whatever the weights,
\* the sticky picks in between and the other accounts' cooldowns.
BoundedBypass ==
    \A a \in Accounts : waited[a] <= Cardinality(Range(rot)) - 1 \/ waited[a] = 0

\* The rotation repeats an account only when no other one could have served
\* (TestWeightedAccountDoesNotRepeatWhenAnotherUsableAccountExists).
NoNeedlessRepeat ==
    \A m \in Models, excluded \in SUBSET Accounts :
        last # NoAccount /\ Choice(m, excluded) = last => CanServe(m, excluded) = {last}

\* Once every writer has reloaded, the rotation is the one the stored rows ask
\* for: writes of several actors interleaved with each other's Reload leave no
\* stale account in rotation and no usable one out.
QuietRotationFresh ==
    pending = 0 => rot = Weighted /\ enabledIDs = on /\ overCopy = Range(rot) \cap over

\* Type correctness (the cursor stays inside the rotation) and freshness.
RotationInv == TypeOK /\ QuietRotationFresh

\* A client is told a model does not exist only when no enabled account lists
\* it; a model only over-limit accounts offer is a capacity problem.
UnknownModelIsUnknown ==
    \A m \in Models :
        ~OffersModel(m) /\ pending = 0 =>
            on # {} /\ \A a \in on : lists[a] # {} /\ m \notin lists[a]

\* Reload and GetNext together: once every writer has reloaded the rotation is the one the stored
\* rows ask for, a pick finds an account whenever one can serve and repeats the last one only when
\* it must, an account that can serve is not passed over for longer than a round, and a model is
\* called unknown only when no account, in rotation or not, offers it.
RotationRight ==
    RotationInv /\ PickComplete /\ BoundedBypass /\ NoNeedlessRepeat /\ UnknownModelIsUnknown

=============================================================================
