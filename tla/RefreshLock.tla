---------------------------- MODULE RefreshLock ----------------------------
(***************************************************************************)
(* The per-account refresh lock of proxy/token_refresh.go.                 *)
(*                                                                         *)
(* lockAccountRefresh keeps one entry per account in the refreshLocks map: *)
(* a gate (a channel of capacity 1) and a reference count.  An entry is    *)
(* created by the first goroutine that wants the account and deleted from  *)
(* the map by the last one that lets go, so the map never holds accounts   *)
(* nobody is refreshing.  The gate is taken outside refreshLocks.Mutex and *)
(* the wait for it ends early when the caller's context is done.           *)
(***************************************************************************)
EXTENDS Naturals, FiniteSets

CONSTANTS Callers,   \* goroutines that refresh accounts
          Accounts,  \* account ids
          Entries,   \* *accountRefreshLock objects the heap can hold
          None       \* nil

ASSUME LockAssumption ==
    /\ IsFiniteSet(Callers)
    /\ None \notin Entries \cup Callers

VARIABLES
    table,   \* refreshLocks.accounts
    refs,    \* entry.refs
    gate,    \* TRUE when entry.gate holds its one token
    stage,   \* where each caller is in lockAccountRefresh and the unlock it returns
    wants,   \* the id argument of the caller's call
    entry    \* the entry variable the caller's closures captured

lockVars == <<table, refs, gate, stage, wants, entry>>

Stages == {"idle", "waiting", "held", "leaving"}

LockTypeOK ==
    /\ table \in [Accounts -> Entries \cup {None}]
    /\ refs \in [Entries -> Nat]
    /\ gate \in [Entries -> BOOLEAN]
    /\ stage \in [Callers -> Stages]
    /\ wants \in [Callers -> Accounts]
    /\ entry \in [Callers -> Entries \cup {None}]

LockInit ==
    /\ table = [a \in Accounts |-> None]
    /\ refs = [e \in Entries |-> 0]
    /\ gate = [e \in Entries |-> FALSE]
    /\ stage = [p \in Callers |-> "idle"]
    /\ wants \in [Callers -> Accounts]
    /\ entry = [p \in Callers |-> None]

\* An object no map slot and no closure refers to: what &accountRefreshLock{}
\* may return.
Unreferenced(e) ==
    /\ \A a \in Accounts : table[a] # e
    /\ \A p \in Callers : entry[p] # e

\* The entry the lookup under refreshLocks.Mutex yields.
EntryFor(a, e) ==
    IF table[a] = None THEN Unreferenced(e) ELSE e = table[a]

\* Faulty variant of Register: only the creator of an entry is counted.
RegisterUncounted(p, a) ==
    /\ stage[p] = "idle"
    /\ \E e \in Entries :
         /\ EntryFor(a, e)
         /\ table' = [table EXCEPT ![a] = e]
         /\ refs' = IF table[a] = None THEN [refs EXCEPT ![e] = 1] ELSE refs
         /\ gate' = IF table[a] = None THEN [gate EXCEPT ![e] = FALSE] ELSE gate
         /\ entry' = [entry EXCEPT ![p] = e]
    /\ wants' = [wants EXCEPT ![p] = a]
    /\ stage' = [stage EXCEPT ![p] = "waiting"]

\* Lookup or creation of the entry and refs++, all under refreshLocks.Mutex.
Register(p, a) ==
    /\ stage[p] = "idle"
    /\ \E e \in Entries :
         /\ EntryFor(a, e)
         /\ table' = [table EXCEPT ![a] = e]
         /\ refs' = [refs EXCEPT ![e] = @ + 1]
         /\ gate' = IF table[a] = None THEN [gate EXCEPT ![e] = FALSE] ELSE gate
         /\ entry' = [entry EXCEPT ![p] = e]
    /\ wants' = [wants EXCEPT ![p] = a]
    /\ stage' = [stage EXCEPT ![p] = "waiting"]

\* case entry.gate <- struct{}{}: a send on a channel with room.
Acquire(p) ==
    /\ stage[p] = "waiting"
    /\ ~gate[entry[p]]
    /\ gate' = [gate EXCEPT ![entry[p]] = TRUE]
    /\ stage' = [stage EXCEPT ![p] = "held"]
    /\ UNCHANGED <<table, refs, wants, entry>>

\* case <-ctx.Done(): the caller leaves without the gate.
GiveUp(p) ==
    /\ stage[p] = "waiting"
    /\ stage' = [stage EXCEPT ![p] = "leaving"]
    /\ UNCHANGED <<table, refs, gate, wants, entry>>

\* Faulty variant of Unlock: the gate keeps its token.
UnlockKeepsToken(p) ==
    /\ stage[p] = "held"
    /\ stage' = [stage EXCEPT ![p] = "leaving"]
    /\ UNCHANGED <<table, refs, gate, wants, entry>>

\* First half of the returned unlock function: <-entry.gate.
Unlock(p) ==
    /\ stage[p] = "held"
    /\ gate[entry[p]]
    /\ gate' = [gate EXCEPT ![entry[p]] = FALSE]
    /\ stage' = [stage EXCEPT ![p] = "leaving"]
    /\ UNCHANGED <<table, refs, wants, entry>>

\* releaseRef: refs--, and the map slot goes with the last reference.
ReleaseRef(p) ==
    /\ stage[p] = "leaving"
    /\ refs' = [refs EXCEPT ![entry[p]] = @ - 1]
    /\ table' = IF refs[entry[p]] = 1
                  THEN [table EXCEPT ![wants[p]] = None]
                  ELSE table
    /\ entry' = [entry EXCEPT ![p] = None]
    /\ stage' = [stage EXCEPT ![p] = "idle"]
    /\ UNCHANGED <<gate, wants>>

LockNext ==
    \E p \in Callers :
        \/ \E a \in Accounts : Register(p, a)
        \/ Acquire(p)
        \/ GiveUp(p)
        \/ Unlock(p)
        \/ ReleaseRef(p)

LockSpec == LockInit /\ [][LockNext]_lockVars

-----------------------------------------------------------------------------
Users(e) == {p \in Callers : entry[p] = e}

Holds(p, a) == stage[p] = "held" /\ wants[p] = a

\* At most one caller refreshes an account at a time, although entries are
\* created and deleted while others wait ("Every stored-account refresh shares
\* this lock", proxy/token_refresh.go).
RefreshExclusive ==
    \A a \in Accounts, p, q \in Callers :
        Holds(p, a) /\ Holds(q, a) => p = q

\* The map holds an entry exactly while some caller is inside
\* lockAccountRefresh or its unlock: deleting early would hand two callers two
\* gates, deleting late would leak one entry per account ever refreshed.
TableMatchesUsers ==
    \A a \in Accounts :
        table[a] # None <=> \E p \in Callers : stage[p] # "idle" /\ wants[p] = a

\* What the lock promises, whatever its entries do: AccountMutex with the
\* caller in stage "held" as the holder.
HolderOf == [a \in Accounts |->
               IF \E p \in Callers : Holds(p, a)
                 THEN CHOOSE p \in Callers : Holds(p, a)
                 ELSE None]

Mutex == INSTANCE AccountMutex WITH holder <- HolderOf

\* Every step of the refcounted lock is a step of the plain per-account mutex.
ImplementsAccountMutex == Mutex!Spec

-----------------------------------------------------------------------------
\* The strengthening that makes mutual exclusion inductive: every closure's
\* entry is the one the map still holds, the count is the number of closures,
\* and a taken gate has exactly one holder.
EntryKnown ==
    \A p \in Callers :
        IF stage[p] = "idle"
          THEN entry[p] = None
          ELSE entry[p] \in Entries /\ table[wants[p]] = entry[p]

RefsCountUsers == \A e \in Entries : refs[e] = Cardinality(Users(e))

SlotsUsed ==
    \A a \in Accounts :
        table[a] # None => \E p \in Callers : entry[p] = table[a]

SlotsDistinct ==
    \A a, b \in Accounts : table[a] # None /\ table[a] = table[b] => a = b

GateHasHolder ==
    /\ \A p \in Callers : stage[p] = "held" => gate[entry[p]]
    /\ \A p, q \in Callers :
         stage[p] = "held" /\ stage[q] = "held" /\ entry[p] = entry[q] => p = q

LockInv ==
    /\ LockTypeOK
    /\ EntryKnown
    /\ RefsCountUsers
    /\ SlotsUsed
    /\ SlotsDistinct
    /\ GateHasHolder

=============================================================================
