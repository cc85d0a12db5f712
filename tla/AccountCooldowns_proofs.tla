---------------------- MODULE AccountCooldowns_proofs ----------------------
(***************************************************************************)
(* Quota cooldowns are served and no cooldown outlasts the longest delay,  *)
(* for any accounts, any number of concurrent saves and any delays.        *)
(***************************************************************************)
EXTENDS AccountCooldowns, FiniteSetTheorems, WellFoundedInduction, TLAPS

\* A set of natural numbers has a least element: the form of induction the
\* other lemmas use.
LEMMA LeastElement ==
    ASSUME NEW T, T \subseteq Nat, T # {}
    PROVE  \E x \in T : \A y \in T : x <= y
<1>1. IsWellFoundedOn(OpToRel(<, Nat), Nat)
  BY NatLessThanWellFounded
<1>2. PICK x \in T : \A y \in T : ~ (<<y, x>> \in OpToRel(<, Nat))
  BY <1>1, WFMin
<1>3. \A y \in T : ~ (y < x)
  BY <1>2 DEF OpToRel
<1>4. QED
  BY <1>3

\* A finite set of natural numbers has a greatest element.
LEMMA GreatestElement ==
    ASSUME NEW S, S \subseteq Nat, IsFiniteSet(S), S # {}
    PROVE  Max(S) \in S /\ \A y \in S : y <= Max(S)
<1> DEFINE Topped(U) == \E x \in U : \A y \in U : x >= y
           Bad == {n \in Nat : \E U \in SUBSET S : U # {} /\ Cardinality(U) = n /\ ~Topped(U)}
<1>1. \A U \in SUBSET S : IsFiniteSet(U) /\ Cardinality(U) \in Nat
  BY FS_Subset, FS_CardinalityType
<1>2. ASSUME Bad # {} PROVE FALSE
  <2>1. PICK n \in Bad : \A k \in Bad : n <= k
    BY <1>2, LeastElement
  <2>2. PICK U \in SUBSET S : U # {} /\ Cardinality(U) = n /\ ~Topped(U)
    OBVIOUS
  <2>3. PICK u \in U : TRUE
    BY <2>2
  <2>4. Cardinality(U \ {u}) = n - 1 /\ n - 1 \in Nat /\ U \ {u} \in SUBSET S
    <3>1. IsFiniteSet(U) /\ U \ {u} \in SUBSET S
      BY <1>1
    <3>2. Cardinality(U \ {u}) = Cardinality(U) - 1
      BY <2>3, <3>1, FS_RemoveElement
    <3>3. Cardinality(U \ {u}) \in Nat /\ Cardinality(U) \in Nat
      BY <1>1, <3>1
    <3>4. QED
      BY <2>2, <3>1, <3>2, <3>3
  <2>5. CASE U \ {u} = {}
    <3>1. \A y \in U : u >= y
      BY <2>3, <2>5
    <3>2. QED
      BY <2>2, <2>3, <3>1
  <2>6. CASE U \ {u} # {}
    <3>1. n - 1 \notin Bad
      BY <2>1, <2>4
    <3>2. Topped(U \ {u})
      BY <2>4, <2>6, <3>1
    <3>3. PICK v \in U \ {u} : \A y \in U \ {u} : v >= y
      BY <3>2
    <3>4. u \in Nat /\ v \in Nat
      BY <2>3, <3>3
    <3>5. Topped(U)
      BY <2>3, <3>3, <3>4
    <3>6. QED
      BY <2>2, <3>5
  <2>7. QED
    BY <2>5, <2>6
<1>3. Topped(S)
  BY <1>1, <1>2
<1>4. PICK m \in S : \A y \in S : m >= y
  BY <1>3
<1>5. Max(S) \in S /\ \A y \in S : Max(S) >= y
  BY <1>4, Zenon DEF Max
<1>6. QED
  BY <1>5

\* The loop of RecordThrottleError ends with a delay: the recursive definition
\* has a solution, whose values are natural numbers.
LEMMA DoubledType == Doubled \in [1..MaxErrors -> Nat]
<1> DEFINE twice(d) == IF d < ThrottleMax THEN 2 * d ELSE d
           Runs(g, n) == g[1] = ThrottleBase /\ \A i \in 2..n : g[i] = twice(g[i - 1])
           Bad == {n \in 1..MaxErrors : ~ \E g \in [1..n -> Nat] : Runs(g, n)}
           Laddered(g) == [n \in 1..MaxErrors |-> IF n = 1 THEN ThrottleBase
                             ELSE IF g[n - 1] < ThrottleMax THEN 2 * g[n - 1] ELSE g[n - 1]]
<1>0. /\ MaxErrors \in Nat /\ MaxErrors >= 3
      /\ ThrottleBase \in Nat /\ ThrottleMax \in Nat
  BY CooldownAssumption DEF ErrorsBeforeCooldown
<1>1. ASSUME Bad # {} PROVE FALSE
  <2>1. PICK m \in Bad : \A k \in Bad : m <= k
    <3>1. Bad \subseteq Nat
      BY <1>0
    <3>2. QED
      BY <1>1, <3>1, LeastElement, Zenon
  <2>2. m \in 1..MaxErrors /\ m \in Nat /\ ~ \E g \in [1..m -> Nat] : Runs(g, m)
    BY <1>0
  <2>3. CASE m = 1
    <3> DEFINE g == [i \in 1..1 |-> ThrottleBase]
    <3>1. g \in [1..m -> Nat] /\ Runs(g, m)
      BY <1>0, <2>3
    <3>2. QED
      BY <2>2, <3>1
  <2>4. CASE m # 1
    <3>1. m - 1 \in 1..MaxErrors /\ m - 1 \notin Bad
      <4> HIDE DEF Bad
      <4>1. m \in 1..MaxErrors
        BY <2>2
      <4>2. m - 1 \in 1..MaxErrors /\ ~(m <= m - 1)
        BY <1>0, <2>4, <4>1
      <4>3. QED
        BY <2>1, <4>2, Zenon
    <3>2. PICK g \in [1..(m - 1) -> Nat] : Runs(g, m - 1)
      BY <3>1
    <3> DEFINE h == [i \in 1..m |-> IF i = m THEN twice(g[m - 1]) ELSE g[i]]
    <3>3. h \in [1..m -> Nat]
      BY <1>0, <2>2, <2>4, <3>1
    <3>4. Runs(h, m)
      <4>1. h[1] = ThrottleBase
        BY <2>2, <2>4, <3>2
      <4>2. ASSUME NEW i \in 2..m PROVE h[i] = twice(h[i - 1])
        <5>1. h[i - 1] = g[i - 1]
          BY <2>2, <4>2
        <5>2. CASE i = m
          BY <2>2, <5>1, <5>2
        <5>3. CASE i # m
          BY <2>2, <3>2, <5>1, <5>3
        <5>4. QED
          BY <5>2, <5>3
      <4>3. QED
        BY <4>1, <4>2
    <3>5. QED
      BY <2>2, <3>3, <3>4
  <2>5. QED
    BY <2>3, <2>4
<1>2. PICK g \in [1..MaxErrors -> Nat] : Runs(g, MaxErrors)
  <2>1. MaxErrors \in 1..MaxErrors
    BY <1>0
  <2>2. QED
    BY <1>1, <2>1, Zenon
<1>3. g = Laddered(g)
  BY <1>0, <1>2
<1>4. \E f : f = Laddered(f)
  BY <1>3
<1>5. Doubled = Laddered(Doubled)
  BY <1>4, Zenon DEF Doubled
<1>6. /\ Doubled = [n \in 1..MaxErrors |-> Doubled[n]]
      /\ \A n \in 1..MaxErrors : Doubled[n] = IF n = 1 THEN ThrottleBase ELSE twice(Doubled[n - 1])
  BY <1>5
<1>7. \A n \in 1..MaxErrors : Doubled[n] \in Nat
  <2> DEFINE Odd == {n \in 1..MaxErrors : Doubled[n] \notin Nat}
  <2> SUFFICES ASSUME Odd # {} PROVE FALSE
    OBVIOUS
  <2>1. Odd \subseteq Nat
    BY <1>0
  <2>2. PICK m \in Odd : \A k \in Odd : m <= k
    BY <2>1, LeastElement, Zenon
  <2>3. m # 1
    BY <1>0, <1>6
  <2>4. m - 1 \in 1..MaxErrors /\ Doubled[m - 1] \in Nat
    BY <1>0, <2>2, <2>3
  <2>5. Doubled[m] \in Nat
    <3>1. Doubled[m] = twice(Doubled[m - 1])
      BY <1>6, <2>3
    <3>2. QED
      BY <2>4, <3>1
  <2>6. QED
    BY <2>5
<1>8. QED
  BY <1>6, <1>7

\* The longest delay the code can ask for exists and bounds each single one.
LEMMA LongestBounds ==
    /\ LongestDelay \in Nat
    /\ \A d \in QuotaDelays \cup Hints : d \in Nat /\ d <= LongestDelay
    /\ ThrottleMax <= LongestDelay /\ ErrorCooldown <= LongestDelay
<1> DEFINE S == QuotaDelays \cup Hints \cup {ThrottleMax, ErrorCooldown}
<1>1. S \subseteq Nat /\ S # {}
  BY CooldownAssumption
<1>2. IsFiniteSet(S)
  <2>1. IsFiniteSet({ThrottleMax, ErrorCooldown})
    <3>1. IsFiniteSet({ThrottleMax})
      BY FS_Singleton
    <3>2. IsFiniteSet({ThrottleMax} \cup {ErrorCooldown})
      BY <3>1, FS_AddElement
    <3>3. {ThrottleMax} \cup {ErrorCooldown} = {ThrottleMax, ErrorCooldown}
      OBVIOUS
    <3>4. QED
      BY <3>2, <3>3
  <2>2. IsFiniteSet(QuotaDelays \cup Hints)
    BY CooldownAssumption, FS_Union
  <2>3. QED
    BY <2>1, <2>2, FS_Union
<1>3. LongestDelay = Max(S)
  BY DEF LongestDelay
<1> HIDE DEF S
<1>4. Max(S) \in S /\ \A y \in S : y <= Max(S)
  BY <1>1, <1>2, GreatestElement
<1>5. QuotaDelays \cup Hints \subseteq S /\ ThrottleMax \in S /\ ErrorCooldown \in S
  BY DEF S
<1>6. QED
  BY <1>1, <1>3, <1>4, <1>5

\* Another error raises the count by one, up to where no comparison tells.
LEMMA CountedType ==
    ASSUME CoolTypeOK, NEW a \in Accounts
    PROVE  Counted(a) \in 1..MaxErrors
BY CooldownAssumption DEF CoolTypeOK, Counted, ShorterOf, ErrorsBeforeCooldown

\* Every throttle asks for a delay no longer than the longest.
LEMMA ThrottleBounded ==
    ASSUME NEW count \in 1..MaxErrors
    PROVE  ThrottleDelay(count) \in Nat /\ ThrottleDelay(count) <= LongestDelay
<1>1. Doubled[count] \in Nat /\ ThrottleMax \in Nat
  BY DoubledType, CooldownAssumption
<1>2. ThrottleDelay(count) \in Nat /\ ThrottleDelay(count) <= ThrottleMax
  BY <1>1 DEF ThrottleDelay, ShorterOf
<1>3. QED
  BY <1>1, <1>2, LongestBounds

\* A save that starts copies nothing yet.
LEMMA SaveStarts ==
    ASSUME CooldownInv, NEW s \in Savers, StartSave(s)
    PROVE  /\ saves' \in [Workers -> [phase: {"idle", "started", "copied"}, rows: [Accounts -> Nat]]]
           /\ \A w \in Workers : saves'[w].rows = saves[w].rows
<1>1. s \in Workers
  BY DEF Workers
<1>2. QED
  BY <1>1 DEF CooldownInv, CoolTypeOK, StartSave

\* An error of any kind: the account's cooldown becomes a delay within the bound
\* that covers the quota cooldown in force, or the cooldown's own end is moved.
LEMMA ErrorStep ==
    ASSUME CooldownsServed, NEW a \in Accounts, NEW s \in Savers, StartSave(s),
           NEW c \in Nat, NEW q \in Nat, q <= c, c <= LongestDelay,
           errs' = [errs EXCEPT ![a] = Counted(a)],
           cool' = [cool EXCEPT ![a] = c], quota' = [quota EXCEPT ![a] = q],
           UNCHANGED <<disk, faults>>
    PROVE  CooldownsServed'
<1> USE DEF CooldownsServed, CooldownInv
<1>1. Counted(a) \in 0..MaxErrors
  BY CountedType
<1>2. CoolTypeOK'
  BY <1>1, SaveStarts DEF CoolTypeOK
<1>3. CooldownsBounded'
  BY SaveStarts DEF CoolTypeOK, CooldownsBounded
<1>4. QuotaServed'
  BY DEF CoolTypeOK, QuotaServed
<1>5. QED
  BY <1>2, <1>3, <1>4

\* Every step keeps cooldowns within the bound and quota cooldowns served.
LEMMA CooldownStep == CooldownsServed /\ [CoolNext]_coolVars => CooldownsServed'
<1> SUFFICES ASSUME CooldownsServed, [CoolNext]_coolVars PROVE CooldownsServed'
  OBVIOUS
<1>0. /\ \A a \in Accounts : cool[a] \in Nat /\ quota[a] \in Nat /\ cool[a] >= quota[a]
                             /\ cool[a] <= LongestDelay
      /\ cool \in [Accounts -> Nat] /\ quota \in [Accounts -> Nat] /\ LongestDelay \in Nat
  BY LongestBounds DEF CooldownsServed, CooldownInv, CoolTypeOK, CooldownsBounded, QuotaServed
<1>1. ASSUME NEW a \in Accounts, NEW s \in Savers, NEW h \in Hints, RecordThrottleError(a, h, s)
      PROVE  CooldownsServed'
  <2> DEFINE delay == IF h > 0 THEN h ELSE ThrottleDelay(Counted(a))
  <2>1. delay \in Nat /\ delay <= LongestDelay
    BY LongestBounds, ThrottleBounded, CountedType DEF CooldownsServed, CooldownInv
  <2>2. /\ cool' = [cool EXCEPT ![a] = LongerOf(cool[a], delay)]
        /\ errs' = [errs EXCEPT ![a] = Counted(a)] /\ StartSave(s) /\ UNCHANGED <<disk, faults, quota>>
    BY <1>1 DEF RecordThrottleError
  <2> HIDE DEF delay
  <2>3. LongerOf(cool[a], delay) \in Nat /\ LongerOf(cool[a], delay) >= quota[a]
        /\ LongerOf(cool[a], delay) <= LongestDelay
    BY <1>0, <2>1 DEF LongerOf
  <2>4. quota' = [quota EXCEPT ![a] = quota[a]]
    BY <1>0, <2>2
  <2>5. QED
    BY <1>0, <2>2, <2>3, <2>4, ErrorStep
<1>2. ASSUME NEW a \in Accounts, NEW s \in Savers, NEW d \in QuotaDelays, RecordQuotaError(a, d, s)
      PROVE  CooldownsServed'
  <2>1. d \in Nat /\ d <= LongestDelay
    BY LongestBounds
  <2>2. /\ LongerOf(cool[a], d) \in Nat /\ LongerOf(quota[a], d) \in Nat
        /\ LongerOf(quota[a], d) <= LongerOf(cool[a], d) /\ LongerOf(cool[a], d) <= LongestDelay
    BY <1>0, <2>1 DEF LongerOf
  <2>3. QED
    BY <1>2, <2>2, ErrorStep DEF RecordQuotaError
<1>3. ASSUME NEW a \in Accounts, NEW s \in Savers, RecordPlainError(a, s)
      PROVE  CooldownsServed'
  <2>1. ErrorCooldown \in Nat /\ ErrorCooldown <= LongestDelay /\ 0 \in Nat /\ 0 <= ErrorCooldown
    BY LongestBounds, CooldownAssumption
  <2>2. errs' = [errs EXCEPT ![a] = Counted(a)] /\ StartSave(s) /\ UNCHANGED <<disk, faults>>
    BY <1>3 DEF RecordPlainError
  <2>3. CASE Counted(a) >= ErrorsBeforeCooldown
    <3>1. cool' = [cool EXCEPT ![a] = ErrorCooldown] /\ quota' = [quota EXCEPT ![a] = 0]
      BY <1>3, <2>3 DEF RecordPlainError
    <3>2. QED
      BY <2>1, <2>2, <3>1, ErrorStep
  <2>4. CASE ~(Counted(a) >= ErrorsBeforeCooldown)
    <3>1. cool' = [cool EXCEPT ![a] = cool[a]] /\ quota' = [quota EXCEPT ![a] = quota[a]]
      BY <1>3, <2>4 DEF RecordPlainError
    <3>2. QED
      BY <1>0, <2>2, <3>1, ErrorStep
  <2>5. QED
    BY <2>3, <2>4
<1> USE DEF CooldownsServed, CooldownInv
<1>4. ASSUME NEW a \in Accounts, RecordSuccess(a) PROVE CooldownsServed'
  <2>1. CoolTypeOK'
    BY <1>4, CooldownAssumption DEF RecordSuccess, CoolTypeOK, ErrorsBeforeCooldown
  <2>2. CooldownsBounded' /\ QuotaServed'
    BY <1>0, <1>4 DEF RecordSuccess, CoolTypeOK, CooldownsBounded, QuotaServed
  <2>3. QED
    BY <2>1, <2>2
<1>5. None \in [Accounts -> Nat] /\ NoSave \in [phase: {"idle", "started", "copied"}, rows: [Accounts -> Nat]]
      /\ NoSave.rows = None /\ \A a \in Accounts : None[a] = 0
  BY DEF None, NoSave
<1>6. CASE TickerFires
  <2>1. Ticker \in Workers
    BY DEF Workers
  <2>2. CoolTypeOK' /\ CooldownsBounded' /\ QuotaServed'
    BY <1>6, <2>1 DEF TickerFires, CoolTypeOK, CooldownsBounded, QuotaServed
  <2>3. QED
    BY <2>2
<1>7. ASSUME NEW s \in Workers, CopyActive(s) PROVE CooldownsServed'
  BY <1>7 DEF CopyActive, CoolTypeOK, CooldownsBounded, QuotaServed
<1>8. ASSUME NEW s \in Workers, Commit(s) PROVE CooldownsServed'
  <2>1. saves' \in [Workers -> [phase: {"idle", "started", "copied"}, rows: [Accounts -> Nat]]]
        /\ \A w \in Workers, a \in Accounts : saves'[w].rows[a] <= LongestDelay
    BY <1>0, <1>5, <1>8 DEF Commit, CoolTypeOK, CooldownsBounded
  <2>2. disk' \in [Accounts -> Nat] /\ (\A a \in Accounts : disk'[a] <= LongestDelay)
        /\ faults' \in 0..MaxFaults
    BY <1>8, CooldownAssumption DEF Commit, CoolTypeOK, CooldownsBounded
  <2>3. QED
    BY <1>8, <2>1, <2>2 DEF Commit, CoolTypeOK, CooldownsBounded, QuotaServed
<1>9. CASE Restart
  <2>1. CoolTypeOK'
    BY <1>5, <1>9, CooldownAssumption DEF Restart, CoolTypeOK, ErrorsBeforeCooldown
  <2>2. CooldownsBounded' /\ QuotaServed'
    BY <1>0, <1>5, <1>9 DEF Restart, CoolTypeOK, CooldownsBounded, QuotaServed
  <2>3. QED
    BY <2>1, <2>2
<1>10. CASE Tick
  <2>1. ASSUME NEW f \in [Accounts -> Nat]
        PROVE  Aged(f) \in [Accounts -> Nat] /\ \A a \in Accounts : Aged(f)[a] <= f[a]
    BY DEF Aged
  <2>2. CoolTypeOK'
    BY <1>10, <2>1 DEF Tick, CoolTypeOK
  <2>3. CooldownsBounded'
    BY <1>0, <1>10, <2>1 DEF Tick, CoolTypeOK, CooldownsBounded, Aged
  <2>4. QuotaServed'
    BY <1>0, <1>10 DEF Tick, QuotaServed, Aged
  <2>5. QED
    BY <2>2, <2>3, <2>4
<1>11. CASE UNCHANGED coolVars
  BY <1>11 DEF coolVars, CoolTypeOK, CooldownsBounded, QuotaServed
<1>12. QED
  BY <1>1, <1>2, <1>3, <1>4, <1>6, <1>7, <1>8, <1>9, <1>10, <1>11 DEF CoolNext, Failure, Saving

\* Throttles, plain errors, concurrent saves that commit out of order, failed
\* saves and restarts never shorten a quota cooldown (but for the two ways that
\* are meant to) and never make a cooldown outlast the longest delay.
THEOREM CooldownsAlwaysServed == CoolSpec => []CooldownsServed
<1>1. CoolInit => CooldownsServed
  BY CooldownAssumption, LongestBounds
     DEF CoolInit, CooldownsServed, CooldownInv, CoolTypeOK, CooldownsBounded, QuotaServed, None, NoSave,
         ErrorsBeforeCooldown
<1>2. QED
  BY <1>1, CooldownStep, PTL DEF CoolSpec

=============================================================================
