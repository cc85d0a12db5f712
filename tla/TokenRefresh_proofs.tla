------------------------- MODULE TokenRefresh_proofs -------------------------
(***************************************************************************)
(* First the lock: mutual exclusion for any set of callers, accounts and   *)
(* entries, and its refinement of AccountMutex.  Then the renewal on top   *)
(* of it: no refresh token is replayed.  The lock's own invariant gives    *)
(* mutual exclusion, since every step of refreshStoredAccount is a step of *)
(* the lock or leaves it alone.                                            *)
(***************************************************************************)
EXTENDS TokenRefresh, FiniteSetTheorems, TLAPS

(***************************************************************************)
(* The refresh lock                                                        *)
(***************************************************************************)
\* Users(e) is finite because Callers is: the count in entry.refs is a number.
LEMMA UsersFinite ==
    ASSUME NEW e
    PROVE  IsFiniteSet(Users(e)) /\ Cardinality(Users(e)) \in Nat
<1>1. Users(e) \subseteq Callers
  BY DEF Users
<1>2. IsFiniteSet(Users(e))
  BY <1>1, LockAssumption, FS_Subset
<1>3. QED
  BY <1>2, FS_CardinalityType

\* refs++ under refreshLocks.Mutex keeps the count equal to the closures that
\* captured the entry.
LEMMA RegisterCounts ==
    ASSUME LockInv, NEW p \in Callers, NEW a \in Accounts, Register(p, a)
    PROVE  RefsCountUsers'
<1>1. PICK e \in Entries :
        /\ EntryFor(a, e)
        /\ refs' = [refs EXCEPT ![e] = @ + 1]
        /\ entry' = [entry EXCEPT ![p] = e]
  BY DEF Register
<1>2. entry[p] = None /\ None \notin Entries
  BY LockAssumption DEF Register, LockInv, EntryKnown
<1>3. SUFFICES ASSUME NEW f \in Entries PROVE refs'[f] = Cardinality(Users(f)')
  BY DEF RefsCountUsers
<1>4. CASE f = e
  <2>1. Users(f)' = Users(f) \cup {p} /\ p \notin Users(f)
    BY <1>1, <1>2, <1>4 DEF Users, LockInv, LockTypeOK
  <2>2. Cardinality(Users(f) \cup {p}) = Cardinality(Users(f)) + 1
    BY <2>1, UsersFinite, FS_AddElement
  <2>3. QED
    BY <1>1, <1>4, <2>1, <2>2 DEF LockInv, LockTypeOK, RefsCountUsers
<1>5. CASE f # e
  <2>1. Users(f)' = Users(f)
    BY <1>1, <1>2, <1>5 DEF Users, LockInv, LockTypeOK
  <2>2. QED
    BY <1>1, <1>5, <2>1 DEF LockInv, LockTypeOK, RefsCountUsers
<1>6. QED
  BY <1>4, <1>5

\* refs-- in releaseRef keeps the count too, and the count that reaches zero
\* belongs to an entry nobody else captured.
LEMMA ReleaseCounts ==
    ASSUME LockInv, NEW p \in Callers, ReleaseRef(p)
    PROVE  /\ RefsCountUsers'
           /\ refs[entry[p]] \in Nat \ {0}
           /\ refs[entry[p]] = 1 => Users(entry[p]) = {p}
<1> DEFINE e == entry[p]
<1>1. e \in Entries /\ p \in Users(e) /\ None \notin Entries
  BY LockAssumption DEF ReleaseRef, LockInv, EntryKnown, Users
<1>2. refs[e] = Cardinality(Users(e)) /\ refs[e] \in Nat
  BY <1>1 DEF LockInv, RefsCountUsers, LockTypeOK
<1>3. /\ IsFiniteSet(Users(e) \ {p})
      /\ Cardinality(Users(e) \ {p}) = Cardinality(Users(e)) - 1
      /\ Cardinality(Users(e) \ {p}) \in Nat
  BY <1>1, UsersFinite, FS_RemoveElement, FS_CardinalityType
<1>4. refs[e] \in Nat \ {0}
  BY <1>2, <1>3
<1>5. ASSUME refs[e] = 1 PROVE Users(e) = {p}
  <2>1. Cardinality(Users(e) \ {p}) = 0
    BY <1>2, <1>3, <1>5
  <2>2. Users(e) \ {p} = {}
    BY <1>3, <2>1, FS_EmptySet
  <2>3. QED
    BY <1>1, <2>2
<1>6. ASSUME NEW f \in Entries PROVE refs'[f] = Cardinality(Users(f)')
  <2>1. CASE f = e
    <3>1. Users(f)' = Users(f) \ {p}
      BY <1>1, <2>1 DEF ReleaseRef, Users, LockInv, LockTypeOK
    <3>2. QED
      BY <1>1, <1>2, <1>3, <2>1, <3>1 DEF ReleaseRef, LockInv, LockTypeOK
  <2>2. CASE f # e
    <3>1. Users(f)' = Users(f)
      BY <1>1, <2>2 DEF ReleaseRef, Users, LockInv, LockTypeOK
    <3>2. QED
      BY <1>1, <2>2, <3>1 DEF ReleaseRef, LockInv, LockTypeOK, RefsCountUsers
  <2>3. QED
    BY <2>1, <2>2
<1>7. QED
  BY <1>4, <1>5, <1>6 DEF RefsCountUsers

\* Every step of lockAccountRefresh and its unlock preserves LockInv.
LEMMA LockStep == LockInv /\ [LockNext]_lockVars => LockInv'
<1> SUFFICES ASSUME LockInv, [LockNext]_lockVars PROVE LockInv'
  OBVIOUS
<1> USE DEF LockInv
<1>0. None \notin Entries
  BY LockAssumption
<1>1. ASSUME NEW p \in Callers, NEW a \in Accounts, Register(p, a) PROVE LockInv'
  <2>1. PICK e \in Entries :
          /\ EntryFor(a, e)
          /\ table' = [table EXCEPT ![a] = e]
          /\ refs' = [refs EXCEPT ![e] = @ + 1]
          /\ gate' = IF table[a] = None THEN [gate EXCEPT ![e] = FALSE] ELSE gate
          /\ entry' = [entry EXCEPT ![p] = e]
    BY <1>1 DEF Register
  <2>2. /\ wants' = [wants EXCEPT ![p] = a]
        /\ stage' = [stage EXCEPT ![p] = "waiting"]
        /\ stage[p] = "idle" /\ entry[p] = None
    BY <1>1 DEF Register, EntryKnown
  <2>3. LockTypeOK'
    BY <2>1, <2>2 DEF LockTypeOK, Stages
  <2>4. RefsCountUsers'
    BY <1>1, RegisterCounts
  <2>5. table[a] = None => Unreferenced(e)
    BY <2>1 DEF EntryFor
  <2>6. table[a] # None => e = table[a]
    BY <2>1 DEF EntryFor
  <2>7. EntryKnown'
    BY <1>0, <2>1, <2>2, <2>5, <2>6 DEF EntryKnown, LockTypeOK, Unreferenced, Stages
  <2>8. SlotsUsed'
    BY <1>0, <2>1, <2>2, <2>5, <2>6 DEF SlotsUsed, EntryKnown, LockTypeOK, Unreferenced
  <2>9. SlotsDistinct'
    BY <1>0, <2>1, <2>5, <2>6 DEF SlotsDistinct, LockTypeOK, Unreferenced
  <2>10. GateHasHolder'
    BY <1>0, <2>1, <2>2, <2>5, <2>6
       DEF GateHasHolder, EntryKnown, LockTypeOK, Unreferenced, Stages
  <2>11. QED
    BY <2>3, <2>4, <2>7, <2>8, <2>9, <2>10
<1>2. ASSUME NEW p \in Callers, Acquire(p) PROVE LockInv'
  <2>1. entry[p] \in Entries
    BY <1>2 DEF Acquire, EntryKnown
  <2>2. LockTypeOK' /\ EntryKnown' /\ SlotsUsed' /\ SlotsDistinct'
    BY <1>2, <2>1 DEF Acquire, LockTypeOK, Stages, EntryKnown, SlotsUsed, SlotsDistinct
  <2>3. RefsCountUsers'
    BY <1>2 DEF Acquire, RefsCountUsers, Users
  <2>4. GateHasHolder'
    BY <1>2, <2>1 DEF Acquire, GateHasHolder, EntryKnown, LockTypeOK
  <2>5. QED
    BY <2>2, <2>3, <2>4
<1>3. ASSUME NEW p \in Callers, GiveUp(p) PROVE LockInv'
  <2>1. LockTypeOK' /\ EntryKnown' /\ SlotsUsed' /\ SlotsDistinct'
    BY <1>3 DEF GiveUp, LockTypeOK, Stages, EntryKnown, SlotsUsed, SlotsDistinct
  <2>2. RefsCountUsers'
    BY <1>3 DEF GiveUp, RefsCountUsers, Users
  <2>3. GateHasHolder'
    BY <1>3 DEF GiveUp, GateHasHolder, LockTypeOK
  <2>4. QED
    BY <2>1, <2>2, <2>3
<1>4. ASSUME NEW p \in Callers, Unlock(p) PROVE LockInv'
  <2>1. entry[p] \in Entries
    BY <1>4 DEF Unlock, EntryKnown
  <2>2. LockTypeOK' /\ EntryKnown' /\ SlotsUsed' /\ SlotsDistinct'
    BY <1>4, <2>1 DEF Unlock, LockTypeOK, Stages, EntryKnown, SlotsUsed, SlotsDistinct
  <2>3. RefsCountUsers'
    BY <1>4 DEF Unlock, RefsCountUsers, Users
  <2>4. GateHasHolder'
    BY <1>4, <2>1 DEF Unlock, GateHasHolder, EntryKnown, LockTypeOK
  <2>5. QED
    BY <2>2, <2>3, <2>4
<1>5. ASSUME NEW p \in Callers, ReleaseRef(p) PROVE LockInv'
  <2>1. entry[p] \in Entries /\ table[wants[p]] = entry[p] /\ wants[p] \in Accounts
    BY <1>5 DEF ReleaseRef, EntryKnown, LockTypeOK
  <2>2. /\ RefsCountUsers'
        /\ refs[entry[p]] \in Nat \ {0}
        /\ refs[entry[p]] = 1 => Users(entry[p]) = {p}
    BY <1>5, ReleaseCounts
  <2>3. LockTypeOK'
    BY <1>5, <2>1, <2>2 DEF ReleaseRef, LockTypeOK, Stages
  <2>4. refs[entry[p]] = 1 => \A q \in Callers : entry[q] = entry[p] => q = p
    BY <2>2 DEF Users
  <2>5. refs[entry[p]] # 1 => \E q \in Callers : q # p /\ entry[q] = entry[p]
    <3>1. SUFFICES ASSUME \A q \in Callers : entry[q] = entry[p] => q = p
                   PROVE  refs[entry[p]] = 1
      OBVIOUS
    <3>2. Users(entry[p]) = {p}
      BY <3>1 DEF Users
    <3>3. Cardinality({p}) = 1
      BY FS_Singleton
    <3>4. QED
      BY <2>1, <3>2, <3>3 DEF RefsCountUsers
  <2>6. EntryKnown'
    BY <1>5, <2>1, <2>4 DEF ReleaseRef, EntryKnown, LockTypeOK, SlotsDistinct
  <2>7. SlotsUsed'
    BY <1>0, <1>5, <2>1, <2>4, <2>5
       DEF ReleaseRef, SlotsUsed, SlotsDistinct, LockTypeOK
  <2>8. SlotsDistinct'
    BY <1>5, <2>1 DEF ReleaseRef, SlotsDistinct, LockTypeOK
  <2>9. GateHasHolder'
    BY <1>5 DEF ReleaseRef, GateHasHolder, LockTypeOK
  <2>10. QED
    BY <2>2, <2>3, <2>6, <2>7, <2>8, <2>9
<1>6. CASE UNCHANGED lockVars
  BY <1>6 DEF lockVars, LockTypeOK, EntryKnown, RefsCountUsers, Users, SlotsUsed,
              SlotsDistinct, GateHasHolder
<1>7. QED
  BY <1>1, <1>2, <1>3, <1>4, <1>5, <1>6 DEF LockNext

\* No caller, no entry: the lock starts in its invariant.
LEMMA LockInitInv == LockInit => LockInv
<1> SUFFICES ASSUME LockInit PROVE LockInv
  OBVIOUS
<1>1. \A e \in Entries : Users(e) = {}
  BY LockAssumption DEF LockInit, Users
<1>2. Cardinality({}) = 0
  BY FS_EmptySet
<1>3. QED
  BY <1>1, <1>2, LockAssumption
     DEF LockInit, LockInv, LockTypeOK, Stages, EntryKnown, RefsCountUsers,
         SlotsUsed, SlotsDistinct, GateHasHolder

\* LockInv holds throughout: entries are counted exactly and a closure never
\* outlives its map slot.
THEOREM LockInvariant == LockSpec => []LockInv
BY LockInitInv, LockStep, PTL DEF LockSpec

\* At most one caller refreshes an account at a time, for any number of
\* callers and accounts.
THEOREM RefreshMutualExclusion == LockSpec => []RefreshExclusive
<1>1. LockInv => RefreshExclusive
  BY DEF LockInv, EntryKnown, GateHasHolder, RefreshExclusive, Holds
<1>2. QED
  BY <1>1, LockInvariant, PTL

\* The refreshLocks map holds exactly the accounts being refreshed: no entry
\* is deleted under a waiter and none is leaked.
THEOREM TableExact == LockSpec => []TableMatchesUsers
<1>1. LockInv => TableMatchesUsers
  BY LockAssumption
     DEF LockInv, LockTypeOK, EntryKnown, SlotsUsed, SlotsDistinct, TableMatchesUsers
<1>2. QED
  BY <1>1, LockInvariant, PTL

\* A step that moves no caller into or out of stage "held" leaves the holders
\* of the abstract mutex alone.
LEMMA SameHolders ==
    ASSUME NEW p \in Callers,
           stage \in [Callers -> Stages], wants \in [Callers -> Accounts],
           stage[p] # "held", NEW s \in Stages, s # "held",
           stage' = [stage EXCEPT ![p] = s],
           wants' = wants \/ \E a \in Accounts : wants' = [wants EXCEPT ![p] = a]
    PROVE  HolderOf' = HolderOf
<1>1. \A q \in Callers, a \in Accounts : Holds(q, a)' <=> Holds(q, a)
  BY DEF Holds
<1>2. QED
  BY <1>1 DEF HolderOf

\* The holder the refinement mapping picks holds the account.
LEMMA HolderIsHolder ==
    ASSUME NEW a \in Accounts, HolderOf[a] # None
    PROVE  HolderOf[a] \in Callers /\ Holds(HolderOf[a], a)
BY DEF HolderOf

\* The refcounted lock is a per-account mutex: every one of its steps takes or
\* releases one account's lock, or leaves the holders alone.
THEOREM LockImplementsMutex == LockSpec => ImplementsAccountMutex
<1>1. LockInit => Mutex!Init
  BY DEF LockInit, Mutex!Init, HolderOf, Holds
<1>2. LockInv /\ LockInv' /\ [LockNext]_lockVars => [Mutex!Next]_HolderOf
  <2> SUFFICES ASSUME LockInv, LockInv', [LockNext]_lockVars
               PROVE  Mutex!Next \/ HolderOf' = HolderOf
    OBVIOUS
  <2>0. /\ None \notin Callers
        /\ stage \in [Callers -> Stages] /\ wants \in [Callers -> Accounts]
    BY LockAssumption DEF LockInv, LockTypeOK
  <2>1. RefreshExclusive /\ RefreshExclusive'
    BY DEF LockInv, EntryKnown, GateHasHolder, RefreshExclusive, Holds
  <2>2. ASSUME NEW p \in Callers, NEW a \in Accounts, Register(p, a)
        PROVE  HolderOf' = HolderOf
    BY <2>0, <2>2, SameHolders DEF Register, Stages
  <2>3. ASSUME NEW p \in Callers, Acquire(p) PROVE Mutex!Next
    <3>0. PICK a \in Accounts : a = wants[p]
      BY <2>0
    <3>1. Holds(p, a)'
      BY <2>0, <2>3, <3>0 DEF Acquire, Holds
    <3>2. \A q \in Callers : ~Holds(q, a)
      BY <2>3, <3>0 DEF Acquire, LockInv, EntryKnown, GateHasHolder, Holds
    <3>3. \A b \in Accounts : ~Holds(p, b)
      BY <2>3 DEF Acquire, Holds
    <3>4. \A q \in Callers, b \in Accounts :
            q # p \/ b # a => (Holds(q, b)' <=> Holds(q, b))
      BY <2>0, <2>3, <3>0 DEF Acquire, Holds
    <3>5. HolderOf[a] = None
      BY <3>1, <3>2 DEF HolderOf
    <3>6. \A b \in Accounts : HolderOf[b] # p
      BY <2>0, <3>3, HolderIsHolder
    <3>7. HolderOf'[a] = p
      BY <2>1, <3>1 DEF HolderOf, RefreshExclusive
    <3>8. ASSUME NEW b \in Accounts, b # a PROVE HolderOf'[b] = HolderOf[b]
      BY <3>4, <3>8 DEF HolderOf
    <3>9. HolderOf' = [HolderOf EXCEPT ![a] = p]
      BY <3>7, <3>8 DEF HolderOf
    <3>10. QED
      BY <3>1, <3>5, <3>6, <3>9 DEF Mutex!Next, Mutex!Take
  <2>4. ASSUME NEW p \in Callers, GiveUp(p) PROVE HolderOf' = HolderOf
    BY <2>0, <2>4, SameHolders DEF GiveUp, Stages
  <2>5. ASSUME NEW p \in Callers, Unlock(p) PROVE Mutex!Next
    <3>0. PICK a \in Accounts : a = wants[p]
      BY <2>0
    <3>1. Holds(p, a)
      BY <2>5, <3>0 DEF Unlock, Holds
    <3>2. \A q \in Callers : ~Holds(q, a)'
      BY <2>0, <2>1, <2>5, <3>1 DEF Unlock, Holds, RefreshExclusive
    <3>3. \A q \in Callers, b \in Accounts : b # a => (Holds(q, b)' <=> Holds(q, b))
      BY <2>0, <2>5, <3>0 DEF Unlock, Holds
    <3>4. HolderOf[a] = p
      BY <2>1, <3>1 DEF HolderOf, RefreshExclusive
    <3>5. HolderOf'[a] = None
      BY <3>1, <3>2 DEF HolderOf
    <3>6. ASSUME NEW b \in Accounts, b # a PROVE HolderOf'[b] = HolderOf[b]
      BY <3>3, <3>6 DEF HolderOf
    <3>7. HolderOf' = [HolderOf EXCEPT ![a] = None]
      BY <3>5, <3>6 DEF HolderOf
    <3>8. QED
      BY <3>1, <3>4, <3>7 DEF Mutex!Next, Mutex!Release
  <2>6. ASSUME NEW p \in Callers, ReleaseRef(p) PROVE HolderOf' = HolderOf
    BY <2>0, <2>6, SameHolders DEF ReleaseRef, Stages
  <2>7. CASE UNCHANGED lockVars
    BY <2>7 DEF lockVars, HolderOf, Holds
  <2>8. QED
    BY <2>2, <2>3, <2>4, <2>5, <2>6, <2>7 DEF LockNext
<1>3. QED
  BY <1>1, <1>2, LockInvariant, PTL DEF LockSpec, ImplementsAccountMutex, Mutex!Spec

(***************************************************************************)
(* Token renewal                                                           *)
(***************************************************************************)
\* Every step of a refresh is a lock step or does not touch the lock.
LEMMA RefreshUsesLock == TypeOK /\ [Next]_vars => [LockNext]_lockVars
<1> SUFFICES ASSUME TypeOK, Next PROVE LockNext \/ UNCHANGED lockVars
  BY DEF vars
<1>1. ASSUME NEW p \in Callers, Refresh(p) PROVE LockNext \/ UNCHANGED lockVars
  <2>1. CASE Call(p)
    BY <2>1 DEF Call, LockNext, TypeOK, Account
  <2>2. CASE Locked(p) \/ CancelWait(p) \/ Leave(p)
    BY <2>2 DEF Locked, CancelWait, Leave, LockNext
  <2>3. QED
    BY <1>1, <2>1, <2>2
       DEF Refresh, UseCopy, CancelLocked, Check, Grant, ExchangeFails, AnswerLost,
           Store, Reread
<1>2. ASSUME NEW p \in Callers, NEW a \in Accounts, NEW f \in BOOLEAN, Observe(p, a, f)
      PROVE  UNCHANGED lockVars
  BY <1>2 DEF Observe
<1>3. ASSUME NEW a \in Accounts, Expire(a) \/ Delete(a) PROVE UNCHANGED lockVars
  BY <1>3 DEF Expire, Delete
<1>4. QED
  BY <1>1, <1>2, <1>3 DEF Next

\* Two callers between the lock and the write-back work on different accounts.
LEMMA InsideAlone ==
    ASSUME FullInv, NEW p \in Callers, NEW q \in Callers, p # q,
           step[p] \in {"check", "exchange", "answered", "stored"},
           step[q] \in {"check", "exchange", "answered", "stored"}
    PROVE  Account(p) # Account(q)
<1>1. RefreshExclusive
  BY DEF FullInv, LockInv, EntryKnown, GateHasHolder, RefreshExclusive, Holds
<1>2. QED
  BY <1>1 DEF FullInv, RefreshInv, StepMatchesLock, TypeOK, Account, RefreshExclusive

\* A step that only moves the caller, and takes it neither to the exchange nor
\* past it, cannot disturb the token facts.
LEMMA QuietStep ==
    ASSUME RefreshInv, NEW p \in Callers, NEW s \in Steps \ {"exchange", "answered"},
           LockTypeOK', StepMatchesLock', TypeOK',
           step[p] # "answered",
           step' = [step EXCEPT ![p] = s],
           \A q \in Callers \ {p} : seen'[q] = seen[q] /\ snap'[q] = snap[q] /\ answer'[q] = answer[q],
           UNCHANGED <<row, issuer, issued, lost>>
    PROVE  RefreshInv'
<1>1. \A q \in Callers : step'[q] \in {"exchange", "answered"} =>
        q # p /\ step'[q] = step[q] /\ Account(q)' = Account(q)
  BY DEF RefreshInv, TypeOK, Account
<1>2. \A q \in Callers : step[q] = "answered" =>
        q # p /\ step'[q] = "answered" /\ Account(q)' = Account(q)
  BY DEF RefreshInv, TypeOK, Account
<1>3. SnapIsStored' /\ AnswerIsNewest' /\ NoReplay'
  BY <1>1 DEF RefreshInv, SnapIsStored, AnswerIsNewest, NoReplay
<1>4. StoredWereIssued'
  BY DEF RefreshInv, StoredWereIssued
<1>5. StoreRenewable'
  BY <1>2 DEF RefreshInv, StoreRenewable
<1>6. QED
  BY <1>3, <1>4, <1>5 DEF RefreshInv

\* Grant is the step where the provider's state moves away from the store's.
LEMMA GrantStep ==
    ASSUME FullInv, NEW p \in Callers, NEW rotate \in BOOLEAN, Grant(p, rotate)
    PROVE  RefreshInv'
<1> DEFINE a == Account(p)
           v == issued[a] + 1
           r == IF rotate THEN v ELSE snap[p].refresh
<1>1. /\ step[p] = "exchange" /\ step' = [step EXCEPT ![p] = "answered"]
      /\ snap[p].refresh = issuer[a]
      /\ issued' = [issued EXCEPT ![a] = v] /\ issuer' = [issuer EXCEPT ![a] = r]
      /\ answer' = [answer EXCEPT ![p] = [access |-> v, refresh |-> r]]
      /\ UNCHANGED <<lockVars, row, expired, lost, seen, force, snap>>
      /\ issued[a] < MaxToken
  BY DEF Grant
<1>2. a \in Accounts /\ issued[a] \in 0..MaxToken /\ snap[p] \in Tokens /\ MaxToken \in Nat
  BY RefreshAssumption DEF FullInv, RefreshInv, TypeOK, Account
<1>3. v \in 0..MaxToken /\ r \in 0..MaxToken /\ issued[a] < v
  BY <1>1, <1>2 DEF Tokens
<1>4. TypeOK'
  <2>1. [access |-> v, refresh |-> r] \in Tokens
    BY <1>3 DEF Tokens
  <2>2. LockTypeOK'
    BY <1>1 DEF FullInv, RefreshInv, TypeOK, LockTypeOK, lockVars
  <2>3. QED
    BY <1>1, <1>2, <1>3, <2>1, <2>2 DEF FullInv, RefreshInv, TypeOK, Steps
<1>5. StepMatchesLock'
  BY <1>1 DEF FullInv, RefreshInv, TypeOK, StepMatchesLock, Holds, Account, lockVars
<1>6. \A q \in Callers : q # p /\ step[q] \in {"exchange", "answered"} => Account(q) # a
  BY <1>1, InsideAlone
<1>7. SnapIsStored'
  BY <1>1 DEF FullInv, RefreshInv, TypeOK, SnapIsStored, Account
<1>8. AnswerIsNewest'
  BY <1>1, <1>2, <1>6 DEF FullInv, RefreshInv, TypeOK, AnswerIsNewest, Account
<1>9. StoredWereIssued'
  BY <1>1, <1>2, <1>3 DEF FullInv, RefreshInv, TypeOK, StoredWereIssued, Tokens
<1>10. NoReplay'
  BY <1>1, <1>6 DEF FullInv, RefreshInv, TypeOK, NoReplay, Account
<1>11. StoreRenewable'
  BY <1>1, <1>2 DEF FullInv, RefreshInv, TypeOK, StoreRenewable, Account
<1>12. QED
  BY <1>4, <1>5, <1>7, <1>8, <1>9, <1>10, <1>11 DEF RefreshInv

\* An answer that does not arrive leaves the store behind only if it is
\* counted as lost.
LEMMA AnswerLostStep ==
    ASSUME FullInv, NEW p \in Callers, AnswerLost(p)
    PROVE  RefreshInv'
<1> DEFINE a == Account(p)
<1>1. /\ step[p] = "answered" /\ step' = [step EXCEPT ![p] = "unlock"]
      /\ lost' = [lost EXCEPT ![a] = @ \/ answer[p].refresh # snap[p].refresh]
      /\ UNCHANGED <<lockVars, row, issuer, issued, expired, seen, force, snap, answer>>
  BY DEF AnswerLost
<1>2. a \in Accounts
  BY DEF FullInv, RefreshInv, TypeOK, Account
<1>3. TypeOK'
  <2>1. lost' \in [Accounts -> BOOLEAN]
    BY <1>1, <1>2 DEF FullInv, RefreshInv, TypeOK
  <2>2. QED
    BY <1>1, <2>1 DEF FullInv, RefreshInv, TypeOK, LockTypeOK, lockVars, Steps
<1>4. StepMatchesLock'
  BY <1>1 DEF FullInv, RefreshInv, TypeOK, StepMatchesLock, Holds, Account, lockVars
<1>5. \A b \in Accounts : lost[b] => lost'[b]
  BY <1>1, <1>2 DEF FullInv, RefreshInv, TypeOK
<1>6. SnapIsStored' /\ AnswerIsNewest' /\ StoredWereIssued'
  BY <1>1 DEF FullInv, RefreshInv, TypeOK, SnapIsStored, AnswerIsNewest, StoredWereIssued, Account
<1>7. NoReplay'
  BY <1>1, <1>5 DEF FullInv, RefreshInv, TypeOK, NoReplay, Account
<1>8. lost'[a] \/ row[a].tokens.refresh = issuer[a]
  BY <1>1, <1>2 DEF FullInv, RefreshInv, TypeOK, SnapIsStored, AnswerIsNewest
<1>9. StoreRenewable'
  BY <1>1, <1>2, <1>5, <1>8 DEF FullInv, RefreshInv, TypeOK, StoreRenewable, Account
<1>10. QED
  BY <1>3, <1>4, <1>6, <1>7, <1>9 DEF RefreshInv

\* Writing the answer back brings the store level with the provider.
LEMMA StoreStep ==
    ASSUME FullInv, NEW p \in Callers, Store(p)
    PROVE  RefreshInv'
<1> DEFINE a == Account(p)
<1>1. /\ step[p] = "answered" /\ step' \in {[step EXCEPT ![p] = "unlock"], [step EXCEPT ![p] = "stored"]}
      /\ UNCHANGED <<lockVars, issuer, issued, expired, lost, seen, force, snap, answer>>
      /\ \/ row[a].live /\ row' = [row EXCEPT ![a].tokens = answer[p]]
         \/ ~row[a].live /\ row' = row
  BY DEF Store
<1>2. a \in Accounts /\ answer[p] \in Tokens
  BY DEF FullInv, RefreshInv, TypeOK, Account
<1>3. \A b \in Accounts : /\ row'[b].live = row[b].live
                          /\ b # a => row'[b] = row[b]
                          /\ row'[b] \in [live: BOOLEAN, tokens: Tokens]
  BY <1>1, <1>2 DEF FullInv, RefreshInv, TypeOK
<1>4. row[a].live => row'[a].tokens = answer[p]
  BY <1>1, <1>2 DEF FullInv, RefreshInv, TypeOK
<1>5. TypeOK'
  <2>1. row' = [b \in Accounts |-> row'[b]]
    BY <1>1, <1>2 DEF FullInv, RefreshInv, TypeOK
  <2>2. row' \in [Accounts -> [live: BOOLEAN, tokens: Tokens]]
    BY <1>3, <2>1
  <2>3. QED
    BY <1>1, <2>2 DEF FullInv, RefreshInv, TypeOK, LockTypeOK, lockVars, Steps
<1>6. StepMatchesLock'
  BY <1>1 DEF FullInv, RefreshInv, TypeOK, StepMatchesLock, Holds, Account, lockVars
<1>7. \A q \in Callers : q # p /\ step[q] \in {"exchange", "answered"} => Account(q) # a
  BY <1>1, InsideAlone
<1>8. \A q \in Callers : step'[q] \in {"exchange", "answered"} =>
        q # p /\ step'[q] = step[q] /\ Account(q)' = Account(q) /\ Account(q) \in Accounts
  BY <1>1 DEF FullInv, RefreshInv, TypeOK, Account
<1>9. SnapIsStored' /\ AnswerIsNewest' /\ NoReplay'
  BY <1>1, <1>3, <1>7, <1>8
     DEF FullInv, RefreshInv, SnapIsStored, AnswerIsNewest, NoReplay
<1>10. answer[p].access = issued[a] /\ answer[p].refresh = issuer[a]
  BY <1>1 DEF FullInv, RefreshInv, AnswerIsNewest
<1>11. StoredWereIssued'
  <2>1. \A b \in Accounts : issuer[b] \in Int /\ issued[b] \in Int
    BY RefreshAssumption DEF FullInv, RefreshInv, TypeOK
  <2>2. QED
    BY <1>1, <1>2, <1>3, <1>10, <2>1 DEF FullInv, RefreshInv, TypeOK, StoredWereIssued
<1>12. StoreRenewable'
  <2>1. ASSUME NEW b \in Accounts, b # a,
               \A q \in Callers : ~(Account(q)' = b /\ step'[q] = "answered")
        PROVE  \A q \in Callers : ~(Account(q) = b /\ step[q] = "answered")
    BY <1>1, <2>1 DEF FullInv, RefreshInv, TypeOK, Account
  <2>2. QED
    BY <1>1, <1>2, <1>3, <1>4, <1>10, <2>1 DEF FullInv, RefreshInv, StoreRenewable
<1>13. QED
  BY <1>5, <1>6, <1>9, <1>11, <1>12 DEF RefreshInv

\* A returning caller's cleared copies are well typed.
LEMMA ReturnTypes ==
    ASSUME TypeOK, NEW p \in Callers, Return(p)
    PROVE  /\ step' \in [Callers -> Steps]
           /\ seen' \in [Callers -> [account: Accounts, tokens: Tokens]]
           /\ force' \in [Callers -> BOOLEAN]
           /\ snap' \in [Callers -> Tokens]
           /\ answer' \in [Callers -> Tokens]
<1>1. FirstTokens \in Tokens
  BY RefreshAssumption DEF FirstTokens, Tokens
<1>2. seen' = [q \in Callers |-> IF q = p THEN [seen[p] EXCEPT !.tokens = FirstTokens] ELSE seen[q]]
  BY DEF Return, TypeOK
<1>3. [seen[p] EXCEPT !.tokens = FirstTokens] \in [account: Accounts, tokens: Tokens]
  BY <1>1 DEF TypeOK
<1>4. seen' \in [Callers -> [account: Accounts, tokens: Tokens]]
  BY <1>2, <1>3 DEF TypeOK
<1>5. QED
  BY <1>1, <1>4 DEF Return, TypeOK, Steps

\* Every step preserves the refresh invariant.
LEMMA RefreshStep == FullInv /\ [Next]_vars => FullInv'
<1> SUFFICES ASSUME FullInv, [Next]_vars PROVE FullInv'
  OBVIOUS
<1>0. LockInv'
  BY RefreshUsesLock, LockStep DEF FullInv, RefreshInv
<1>1. LockTypeOK'
  BY <1>0 DEF LockInv
<1> USE DEF FullInv
<1>2. ASSUME NEW p \in Callers, NEW a \in Accounts, NEW f \in BOOLEAN, Observe(p, a, f)
      PROVE  RefreshInv'
  <2>1. TypeOK'
    BY <1>1, <1>2 DEF RefreshInv, TypeOK, Observe, Steps
  <2>2. StepMatchesLock'
    BY <1>2 DEF RefreshInv, TypeOK, StepMatchesLock, Observe, Holds, Account, lockVars
  <2>3. QED
    BY <1>1, <1>2, <2>1, <2>2, QuietStep DEF Observe, RefreshInv, TypeOK, Steps
<1>3. ASSUME NEW p \in Callers, UseCopy(p) PROVE RefreshInv'
  <2>1. TypeOK'
    BY <1>1, <1>3, ReturnTypes DEF RefreshInv, TypeOK, UseCopy
  <2>2. StepMatchesLock'
    BY <1>3 DEF RefreshInv, TypeOK, StepMatchesLock, UseCopy, Return, Holds, Account, lockVars
  <2>3. QED
    BY <1>1, <1>3, <2>1, <2>2, QuietStep DEF UseCopy, Return, RefreshInv, TypeOK, Steps
<1>4. ASSUME NEW p \in Callers, Call(p) PROVE RefreshInv'
  <2>1. TypeOK'
    BY <1>1, <1>4 DEF RefreshInv, TypeOK, Call, Steps
  <2>2. StepMatchesLock'
    BY <1>4 DEF RefreshInv, TypeOK, LockTypeOK, StepMatchesLock, Call, Register, Holds, Account
  <2>3. QED
    BY <1>1, <1>4, <2>1, <2>2, QuietStep DEF Call, RefreshInv, TypeOK, Steps
<1>5. ASSUME NEW p \in Callers, Locked(p) PROVE RefreshInv'
  <2>1. TypeOK'
    BY <1>1, <1>5 DEF RefreshInv, TypeOK, Locked, Steps
  <2>2. StepMatchesLock'
    BY <1>5 DEF RefreshInv, TypeOK, LockTypeOK, StepMatchesLock, Locked, Acquire, Holds, Account
  <2>3. QED
    BY <1>1, <1>5, <2>1, <2>2, QuietStep DEF Locked, RefreshInv, TypeOK, Steps
<1>6. ASSUME NEW p \in Callers, CancelWait(p) PROVE RefreshInv'
  <2>1. TypeOK'
    BY <1>1, <1>6 DEF RefreshInv, TypeOK, CancelWait, Steps
  <2>2. StepMatchesLock'
    BY <1>6 DEF RefreshInv, TypeOK, LockTypeOK, StepMatchesLock, CancelWait, GiveUp, Holds, Account
  <2>3. QED
    BY <1>1, <1>6, <2>1, <2>2, QuietStep DEF CancelWait, RefreshInv, TypeOK, Steps
<1>7. ASSUME NEW p \in Callers, CancelLocked(p) \/ ExchangeFails(p) PROVE RefreshInv'
  <2>1. TypeOK'
    BY <1>1, <1>7 DEF RefreshInv, TypeOK, CancelLocked, ExchangeFails, Steps
  <2>2. StepMatchesLock'
    BY <1>7 DEF RefreshInv, TypeOK, StepMatchesLock, CancelLocked, ExchangeFails, Holds, Account, lockVars
  <2>3. QED
    BY <1>1, <1>7, <2>1, <2>2, QuietStep DEF CancelLocked, ExchangeFails, RefreshInv, TypeOK, Steps
<1>8. ASSUME NEW p \in Callers, Check(p) PROVE RefreshInv'
  <2>0. Account(p) \in Accounts /\ step[p] = "check"
    BY <1>8 DEF RefreshInv, TypeOK, Account, Check
  <2>1. CASE row[Account(p)].live /\ NeedsExchange(p)
    <3>1. /\ snap' = [snap EXCEPT ![p] = row[Account(p)].tokens]
          /\ step' = [step EXCEPT ![p] = "exchange"]
          /\ UNCHANGED <<lockVars, row, issuer, issued, expired, lost, seen, force, answer>>
      BY <1>8, <2>1 DEF Check
    <3>2. TypeOK'
      BY <1>1, <2>0, <3>1 DEF RefreshInv, TypeOK, Steps
    <3>3. StepMatchesLock'
      BY <2>0, <3>1 DEF RefreshInv, TypeOK, StepMatchesLock, Holds, Account, lockVars
    <3>4. \A q \in Callers : ~(Account(q) = Account(p) /\ step[q] = "answered")
      BY <2>0, InsideAlone
    <3>5. lost[Account(p)] \/ row[Account(p)].tokens.refresh = issuer[Account(p)]
      BY <2>0, <2>1, <3>4 DEF RefreshInv, StoreRenewable
    <3>6. SnapIsStored' /\ AnswerIsNewest' /\ NoReplay'
      BY <2>0, <3>1, <3>5 DEF RefreshInv, TypeOK, SnapIsStored, AnswerIsNewest, NoReplay, Account
    <3>7. StoredWereIssued' /\ StoreRenewable'
      BY <2>0, <3>1 DEF RefreshInv, TypeOK, StoredWereIssued, StoreRenewable, Account
    <3>8. QED
      BY <3>2, <3>3, <3>6, <3>7 DEF RefreshInv
  <2>2. CASE ~(row[Account(p)].live /\ NeedsExchange(p))
    <3>1. /\ step' = [step EXCEPT ![p] = "unlock"]
          /\ snap' = [snap EXCEPT ![p] = row[Account(p)].tokens] \/ snap' = snap
          /\ UNCHANGED <<lockVars, row, issuer, issued, expired, lost, seen, force, answer>>
      BY <1>8, <2>2 DEF Check
    <3>2. TypeOK'
      BY <1>1, <2>0, <3>1 DEF RefreshInv, TypeOK, Steps
    <3>3. StepMatchesLock'
      BY <2>0, <3>1 DEF RefreshInv, TypeOK, StepMatchesLock, Holds, Account, lockVars
    <3>4. QED
      BY <1>1, <2>0, <3>1, <3>2, <3>3, QuietStep DEF RefreshInv, TypeOK, Steps
  <2>3. QED
    BY <2>1, <2>2
<1>9. ASSUME NEW p \in Callers, Reread(p) PROVE RefreshInv'
  <2>1. TypeOK'
    BY <1>1, <1>9 DEF RefreshInv, TypeOK, Reread, Account, Steps
  <2>2. StepMatchesLock'
    BY <1>9 DEF RefreshInv, TypeOK, StepMatchesLock, Reread, Holds, Account, lockVars
  <2>3. QED
    BY <1>1, <1>9, <2>1, <2>2, QuietStep DEF Reread, RefreshInv, TypeOK, Steps
<1>10. ASSUME NEW p \in Callers, Leave(p) PROVE RefreshInv'
  <2>1. CASE Unlock(p) /\ UNCHANGED <<step, seen, force, snap, answer>>
    <3>1. TypeOK'
      BY <1>1, <1>10, <2>1 DEF RefreshInv, TypeOK, Leave
    <3>2. StepMatchesLock'
      BY <1>10, <2>1 DEF RefreshInv, TypeOK, LockTypeOK, StepMatchesLock, Leave, Unlock, Holds, Account
    <3>3. SnapIsStored' /\ AnswerIsNewest' /\ NoReplay' /\ StoredWereIssued' /\ StoreRenewable'
      BY <1>10, <2>1 DEF RefreshInv, Leave, SnapIsStored, AnswerIsNewest, NoReplay,
                        StoredWereIssued, StoreRenewable, Account
    <3>4. QED
      BY <3>1, <3>2, <3>3 DEF RefreshInv
  <2>2. CASE ReleaseRef(p) /\ Return(p)
    <3>1. TypeOK'
      BY <1>1, <1>10, <2>2, ReturnTypes DEF RefreshInv, TypeOK, Leave
    <3>2. StepMatchesLock'
      BY <1>10, <2>2
         DEF RefreshInv, TypeOK, LockTypeOK, StepMatchesLock, Leave, ReleaseRef, Return, Holds, Account
    <3>3. QED
      BY <1>1, <1>10, <2>2, <3>1, <3>2, QuietStep DEF Leave, Return, RefreshInv, TypeOK, Steps
  <2>3. QED
    BY <1>10, <2>1, <2>2 DEF Leave
<1>11. ASSUME NEW a \in Accounts, Expire(a) PROVE RefreshInv'
  BY <1>1, <1>11, RefreshAssumption
     DEF Expire, RefreshInv, TypeOK, Tokens, StepMatchesLock, SnapIsStored, AnswerIsNewest,
         StoredWereIssued, NoReplay, StoreRenewable, Account, Holds, lockVars
<1>12. ASSUME NEW a \in Accounts, Delete(a) PROVE RefreshInv'
  <2>1. /\ \A b \in Accounts : row'[b].tokens = row[b].tokens /\ (row'[b].live => row[b].live)
        /\ row' \in [Accounts -> [live: BOOLEAN, tokens: Tokens]]
    BY <1>12 DEF Delete, RefreshInv, TypeOK
  <2>2. TypeOK' /\ StepMatchesLock'
    BY <1>1, <1>12, <2>1 DEF Delete, RefreshInv, TypeOK, StepMatchesLock, Holds, Account, lockVars
  <2>3. SnapIsStored' /\ AnswerIsNewest' /\ NoReplay' /\ StoredWereIssued' /\ StoreRenewable'
    BY <1>12, <2>1
       DEF Delete, RefreshInv, TypeOK, SnapIsStored, AnswerIsNewest, NoReplay,
           StoredWereIssued, StoreRenewable, Account
  <2>4. QED
    BY <2>2, <2>3 DEF RefreshInv
<1>13. CASE UNCHANGED vars
  <2>1. UNCHANGED lockVars /\ UNCHANGED refreshVars
    BY <1>13 DEF vars
  <2>2. TypeOK'
    BY <1>1, <2>1 DEF refreshVars, RefreshInv, TypeOK
  <2>3. StepMatchesLock' /\ SnapIsStored' /\ AnswerIsNewest'
    BY <2>1 DEF refreshVars, lockVars, RefreshInv, StepMatchesLock, SnapIsStored,
                AnswerIsNewest, Account, Holds
  <2>4. StoredWereIssued' /\ NoReplay'
    BY <2>1 DEF refreshVars, RefreshInv, StoredWereIssued, NoReplay, Account
  <2>5. StoreRenewable'
    BY <2>1 DEF refreshVars, RefreshInv, StoreRenewable, Account
  <2>6. QED
    BY <1>0, <2>2, <2>3, <2>4, <2>5 DEF RefreshInv
<1>14. QED
  BY <1>0, <1>2, <1>3, <1>4, <1>5, <1>6, <1>7, <1>8, <1>9, <1>10, <1>11, <1>12, <1>13,
     GrantStep, AnswerLostStep, StoreStep
     DEF Next, Refresh

\* The invariants of the lock and of the refresh hold together.
THEOREM RefreshInvariant == Spec => []FullInv
<1>1. Init => LockInv
  <2> SUFFICES ASSUME LockInit PROVE LockInv
    BY DEF Init
  <2>1. QED
    BY LockInitInv
<1>2. Init => RefreshInv
  BY RefreshAssumption
     DEF Init, LockInit, RefreshInv, TypeOK, LockTypeOK, Stages, Steps, Tokens, FirstTokens,
         StepMatchesLock, SnapIsStored, AnswerIsNewest, StoredWereIssued, NoReplay,
         StoreRenewable, Account, Holds
<1>3. QED
  BY <1>1, <1>2, RefreshStep, PTL DEF Spec, FullInv

\* No caller presents a refresh token the provider already retired, unless an
\* answer was lost on the way.
THEOREM RefreshNeverReplays == Spec => []NoReplay
<1>1. FullInv => NoReplay
  BY DEF FullInv, RefreshInv
<1>2. QED
  BY <1>1, RefreshInvariant, PTL

\* Whatever interleaving happened, a live account whose answers all arrived
\* can be renewed with the token the store holds.
THEOREM StoreStaysRenewable == Spec => []StoreRenewable
<1>1. FullInv => StoreRenewable
  BY DEF FullInv, RefreshInv
<1>2. QED
  BY <1>1, RefreshInvariant, PTL

\* Stored tokens never go back to an older version.
THEOREM RefreshMovesForward == Spec => TokensMoveForward
<1> DEFINE Forward == \A a \in Accounts :
                        /\ row'[a].tokens.access >= row[a].tokens.access
                        /\ row'[a].tokens.refresh >= row[a].tokens.refresh
<1>1. FullInv /\ [Next]_vars => [Forward]_row
  <2> SUFFICES ASSUME FullInv, Next, row' # row PROVE Forward
    BY DEF vars, refreshVars
  <2>0. \A a \in Accounts : /\ row[a] \in [live: BOOLEAN, tokens: Tokens]
                            /\ issued[a] \in Int /\ issuer[a] \in Int
                            /\ row[a].tokens.access \in Int /\ row[a].tokens.refresh \in Int
    BY RefreshAssumption DEF FullInv, RefreshInv, TypeOK, Tokens
  <2>1. CASE \E p \in Callers : Store(p)
    <3>1. PICK p \in Callers : Store(p)
      BY <2>1
    <3>2. /\ Account(p) \in Accounts /\ step[p] = "answered"
          /\ row' = [row EXCEPT ![Account(p)].tokens = answer[p]]
      BY <3>1 DEF Store, FullInv, RefreshInv, TypeOK, Account
    <3>3. answer[p].access = issued[Account(p)] /\ answer[p].refresh = issuer[Account(p)]
      BY <3>2 DEF FullInv, RefreshInv, AnswerIsNewest
    <3>4. \A a \in Accounts : IF a = Account(p) THEN row'[a].tokens = answer[p] ELSE row'[a] = row[a]
      BY <3>2, <2>0 DEF FullInv, RefreshInv, TypeOK
    <3>5. QED
      BY <2>0, <3>2, <3>3, <3>4 DEF FullInv, RefreshInv, StoredWereIssued
  <2>2. CASE \E a \in Accounts : Delete(a)
    <3>1. \A a \in Accounts : row'[a].tokens = row[a].tokens
      BY <2>0, <2>2 DEF Delete, FullInv, RefreshInv, TypeOK
    <3>2. QED
      BY <2>0, <3>1
  <2>3. QED
    BY <2>1, <2>2
       DEF Next, Refresh, Observe, UseCopy, Call, Locked, CancelWait, CancelLocked, Check,
           Grant, ExchangeFails, AnswerLost, Reread, Leave, Expire
<1>2. QED
  BY <1>1, RefreshInvariant, PTL DEF Spec, TokensMoveForward

\* Once a caller has decided to exchange, no other caller touches the tokens it
\* decided on, and the passing of time only makes the exchange more needed.
LEMMA HerdStep == FullInv /\ HerdRenewsOnce /\ [Next]_vars => HerdRenewsOnce'
<1> SUFFICES ASSUME FullInv, HerdRenewsOnce, [Next]_vars,
                    NEW p \in Callers, step'[p] = "exchange"
             PROVE  \/ ~Valid(Account(p), row[Account(p)].tokens)'
                    \/ (force[p] /\ seen[p].tokens = row[Account(p)].tokens)'
  BY DEF HerdRenewsOnce
<1> DEFINE a == Account(p)
<1>1. a \in Accounts /\ TypeOK
  BY DEF FullInv, RefreshInv, TypeOK, Account
<1>2. CASE Check(p)
  <2>1. NeedsExchange(p) /\ UNCHANGED <<row, expired, seen, force>>
    BY <1>1, <1>2 DEF Check, TypeOK
  <2>2. QED
    BY <2>1 DEF NeedsExchange, Rotated, Valid, Account
<1>3. CASE ~Check(p)
  <2> DEFINE Waiting == step[p] = "exchange" /\ seen'[p] = seen[p] /\ force'[p] = force[p]
  <2>1. Waiting
    <3>1. ASSUME NEW q \in Callers, Refresh(q) PROVE Waiting
      <4>1. CASE q = p
        BY <1>1, <1>3, <3>1, <4>1
           DEF Refresh, UseCopy, Call, Locked, CancelWait, CancelLocked, Check, Grant, ExchangeFails,
               AnswerLost, Store, Reread, Leave, Return, TypeOK
      <4>2. CASE q # p
        BY <1>1, <3>1, <4>2
           DEF Refresh, UseCopy, Call, Locked, CancelWait, CancelLocked, Check, Grant, ExchangeFails,
               AnswerLost, Store, Reread, Leave, Return, TypeOK
      <4>3. QED
        BY <4>1, <4>2
    <3>2. ASSUME NEW q \in Callers, NEW b \in Accounts, NEW f \in BOOLEAN, Observe(q, b, f)
          PROVE  Waiting
      BY <1>1, <3>2 DEF Observe, TypeOK
    <3>3. QED
      BY <3>1, <3>2 DEF Next, Expire, Delete, vars, refreshVars
  <2>2. row'[a].tokens = row[a].tokens
    <3>1. ASSUME NEW q \in Callers, Store(q) PROVE row'[a].tokens = row[a].tokens
      <4>1. q # p /\ Account(q) \in Accounts
        BY <1>1, <2>1, <3>1 DEF Store, TypeOK, Account
      <4>2. Account(q) # a
        BY <2>1, <3>1, <4>1, InsideAlone DEF Store
      <4>3. QED
        BY <1>1, <3>1, <4>1, <4>2 DEF Store, TypeOK
    <3>2. ASSUME NEW b \in Accounts, Delete(b) PROVE row'[a].tokens = row[a].tokens
      BY <1>1, <3>2 DEF Delete, TypeOK
    <3>3. QED
      BY <3>1, <3>2
         DEF Next, Refresh, Observe, UseCopy, Call, Locked, CancelWait, CancelLocked, Check, Grant,
             ExchangeFails, AnswerLost, Reread, Leave, Expire, vars, refreshVars
  <2>3. expired'[a] = expired[a] \/ expired'[a] = row[a].tokens.access
    <3>1. ASSUME NEW b \in Accounts, Expire(b)
          PROVE  expired'[a] = expired[a] \/ expired'[a] = row[a].tokens.access
      BY <1>1, <3>1 DEF Expire, TypeOK
    <3>2. QED
      BY <3>1
         DEF Next, Refresh, Observe, UseCopy, Call, Locked, CancelWait, CancelLocked, Check, Grant,
             ExchangeFails, AnswerLost, Store, Reread, Leave, Delete, vars, refreshVars
  <2>4. row[a].tokens.access \in Int /\ expired[a] \in Int
    BY <1>1, RefreshAssumption DEF TypeOK, Tokens
  <2>5. ~(row[a].tokens.access > expired[a]) \/ (force[p] /\ seen[p].tokens = row[a].tokens)
    BY <2>1 DEF HerdRenewsOnce, Valid
  <2>6. Account(p)' = a
    BY <2>1 DEF Account
  <2>7. QED
    BY <2>1, <2>2, <2>3, <2>4, <2>5, <2>6 DEF Valid
<1>4. QED
  BY <1>2, <1>3

\* Callers that hold the same old copy of an account renew it once between them:
\* the ones that come late find tokens they have not seen and use them.
THEOREM HerdRenewsOnceAlways == Spec => []HerdRenewsOnce
<1>1. Init => HerdRenewsOnce
  BY DEF Init, HerdRenewsOnce
<1>2. QED
  BY <1>1, HerdStep, RefreshInvariant, PTL DEF Spec

\* The callers of refreshStoredAccount are clients of the plain per-account
\* mutex: seen through the lock alone, what they do is a behaviour of the lock
\* table, and that is a behaviour of AccountMutex.
THEOREM RefreshImplementsMutex == Spec => ImplementsAccountMutex
<1>1. Init => LockInit
  BY DEF Init
<1>2. FullInv => TypeOK
  BY DEF FullInv, RefreshInv
<1>3. Spec => LockSpec
  BY <1>1, <1>2, RefreshUsesLock, RefreshInvariant, PTL DEF Spec, LockSpec
<1>4. QED
  BY <1>3, LockImplementsMutex

=============================================================================
