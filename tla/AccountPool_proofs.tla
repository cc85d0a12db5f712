------------------------- MODULE AccountPool_proofs -------------------------
(***************************************************************************)
(* The rotation is the one the stored rows ask for, every pick finds an    *)
(* account if one can serve, and nobody waits longer than one round, for   *)
(* any accounts, weights, model lists and concurrent writers.              *)
(***************************************************************************)
EXTENDS AccountPool, FiniteSetTheorems, WellFoundedInduction, TLAPS

\* The copies of an account stand next to each other: Reload appends them in
\* one go.
Grouped(s) ==
    \A i, j, k \in DOMAIN s : i <= j /\ j <= k /\ s[i] = s[k] => s[j] = s[i]

\* The offsets from the cursor, and the accounts a search meets before a.
Offsets == 0 .. Len(rot) - 1
Ahead(a) == {At(i) : i \in {i \in Offsets : \A j \in 0..i : At(j) # a}}

\* What keeps the wait of an account short: it is not the last pick, the last
\* pick stands right before the cursor, and the picks that passed it over plus
\* the accounts still ahead of it make less than a round.
Waiting ==
    \A a \in Accounts :
        waited[a] > 0 =>
            /\ a \in Range(rot) /\ last # a /\ At(Len(rot) - 1) = last
            /\ waited[a] + Cardinality(Ahead(a) \ {last}) <= Cardinality(Range(rot)) - 1

\* The inductive invariant.
PoolIInv == TypeOK /\ QuietRotationFresh /\ Grouped(rot) /\ Waiting

-----------------------------------------------------------------------------
\* A set of natural numbers has a least element, which Min names.
LEMMA LeastElement ==
    ASSUME NEW T, T \subseteq Nat, T # {}
    PROVE  \E x \in T : \A y \in T : x <= y
<1>1. IsWellFoundedOn(OpToRel(<, Nat), Nat)
  BY NatLessThanWellFounded
<1>2. PICK x \in T : \A y \in T : ~ (<<y, x>> \in OpToRel(<, Nat))
  BY <1>1, WFMin
<1>3. \A y \in T : ~ (y < x)
  BY <1>2 DEF OpToRel
<1>4. QED
  BY <1>3

LEMMA MinIsLeast ==
    ASSUME NEW T, T \subseteq Nat, T # {}
    PROVE  Min(T) \in T /\ \A y \in T : Min(T) <= y
<1>1. \E x \in T : \A y \in T : x <= y
  BY LeastElement
<1>2. QED
  BY <1>1, Zenon DEF Min

\* FlattenSeq appends the sequences one after the other.
LEMMA Flattened ==
    ASSUME NEW S, NEW n \in Nat \ {0}, NEW seqs \in [1..n -> Seq(S)]
    PROVE  \E f \in [1..n -> Seq(S)] :
              /\ f[1] = seqs[1] /\ \A i \in 2..n : f[i] = f[i - 1] \o seqs[i]
              /\ FlattenSeq(seqs) = f[n]
<1> DEFINE join(s, t) == s \o t
<1>0. \A s, t \in Seq(S) : join(s, t) \in Seq(S)
  OBVIOUS
<1> HIDE DEF join
<1> DEFINE Runs(g, m) == g[1] = seqs[1] /\ \A i \in 2..m : g[i] = join(g[i - 1], seqs[i])
           Bad == {m \in 1..n : ~ \E g \in [1..m -> Seq(S)] : Runs(g, m)}
           Appended(g) == [i \in 1..n |-> IF i = 1 THEN seqs[i] ELSE join(g[i - 1], seqs[i])]
<1>1. ASSUME Bad # {} PROVE FALSE
  <2>1. PICK m \in Bad : \A k \in Bad : m <= k
    <3>1. Bad \subseteq Nat
      OBVIOUS
    <3>2. QED
      BY <1>1, <3>1, LeastElement, Zenon
  <2>2. m \in 1..n /\ m \in Nat /\ ~ \E g \in [1..m -> Seq(S)] : Runs(g, m)
    OBVIOUS
  <2>3. CASE m = 1
    <3> DEFINE g == [i \in 1..1 |-> seqs[1]]
    <3>1. g \in [1..m -> Seq(S)] /\ Runs(g, m)
      BY <2>2, <2>3
    <3>2. QED
      BY <2>2, <3>1
  <2>4. CASE m # 1
    <3>1. m - 1 \in 1..n /\ m - 1 \notin Bad
      <4>1. m - 1 \in 1..n /\ ~ (m <= m - 1)
        BY <2>2, <2>4
      <4>2. QED
        BY <2>1, <4>1, Zenon
    <3>2. PICK g \in [1..(m - 1) -> Seq(S)] : Runs(g, m - 1)
      BY <3>1
    <3> DEFINE h == [i \in 1..m |-> IF i = m THEN join(g[m - 1], seqs[m]) ELSE g[i]]
    <3>3. h \in [1..m -> Seq(S)]
      <4>1. g[m - 1] \in Seq(S) /\ seqs[m] \in Seq(S)
        BY <2>2, <2>4, <3>1
      <4>2. join(g[m - 1], seqs[m]) \in Seq(S)
        BY <1>0, <4>1
      <4>3. ASSUME NEW i \in 1..m PROVE h[i] \in Seq(S)
        BY <2>2, <3>2, <4>2
      <4>4. QED
        BY <4>3
    <3>4. Runs(h, m)
      <4>1. h[1] = seqs[1]
        BY <2>2, <2>4, <3>2
      <4>2. ASSUME NEW i \in 2..m PROVE h[i] = join(h[i - 1], seqs[i])
        <5>1. h[i - 1] = g[i - 1]
          BY <2>2, <4>2
        <5>2. CASE i = m
          BY <2>2, <5>1, <5>2
        <5>3. CASE i # m
          BY <2>2, <3>2, <5>1, <5>3
        <5>4. QED
          BY <5>2, <5>3
      <4>3. QED
        BY <4>1, <4>2
    <3>5. QED
      BY <2>2, <3>3, <3>4
  <2>5. QED
    BY <2>3, <2>4
<1>2. PICK g \in [1..n -> Seq(S)] : Runs(g, n)
  <2>1. n \in 1..n
    OBVIOUS
  <2>2. QED
    BY <1>1, <2>1, Zenon
<1>3. g = Appended(g)
  BY <1>2
<1> DEFINE f == CHOOSE f : f = Appended(f)
<1>4. f = Appended(f)
  BY <1>3, Zenon
<1> HIDE DEF f
<1>5. f[1] = seqs[1] /\ \A i \in 2..n : f[i] = join(f[i - 1], seqs[i])
  BY <1>4
<1>6. f = [i \in 1..n |-> f[i]]
  BY <1>4
<1>7. \A i \in 1..n : f[i] \in Seq(S)
  <2> DEFINE Odd == {i \in 1..n : f[i] \notin Seq(S)}
  <2> SUFFICES ASSUME Odd # {} PROVE FALSE
    OBVIOUS
  <2>1. Odd \subseteq Nat
    OBVIOUS
  <2>2. PICK m \in Odd : \A k \in Odd : m <= k
    BY <2>1, LeastElement, Zenon
  <2>3. m # 1
    BY <1>5
  <2>4. m \in 2..n /\ m - 1 \in 1..n /\ f[m - 1] \in Seq(S)
    BY <2>2, <2>3
  <2>5. f[m] = join(f[m - 1], seqs[m]) /\ seqs[m] \in Seq(S)
    BY <1>5, <2>4
  <2>6. QED
    BY <1>0, <2>4, <2>5
<1>8. FlattenSeq(seqs) = f[n]
  <2>1. Len(seqs) = n
    OBVIOUS
  <2>2. QED
    BY <2>1 DEF FlattenSeq, f, join
<1>9. f \in [1..n -> Seq(S)]
  BY <1>6, <1>7
<1>10. QED
  BY <1>5, <1>8, <1>9 DEF join

\* Copies of one more account, appended, keep the copies together.
LEMMA OneMoreGroup ==
    ASSUME NEW S, NEW s \in Seq(S), NEW a \in S, NEW k \in Nat, a \notin Range(s), Grouped(s)
    PROVE  LET t == [j \in 1..k |-> a]
           IN  /\ t \in Seq(S)
               /\ Range(s \o t) = Range(s) \cup (IF k = 0 THEN {} ELSE {a})
               /\ Grouped(s \o t)
<1> DEFINE t == [j \in 1..k |-> a]
           u == s \o t
<1>1. t \in Seq(S) /\ Len(t) = k
  OBVIOUS
<1>2. /\ u \in Seq(S) /\ DOMAIN u = 1..(Len(s) + k)
      /\ \A i \in DOMAIN u : u[i] = IF i <= Len(s) THEN s[i] ELSE a
  BY <1>1
<1>3. Len(s) \in Nat /\ DOMAIN s = 1..Len(s) /\ \A i \in 1..Len(s) : s[i] # a
  BY DEF Range
<1> HIDE DEF t, u
<1>4. Range(u) = Range(s) \cup (IF k = 0 THEN {} ELSE {a})
  <2>1. ASSUME NEW x \in Range(u) PROVE x \in Range(s) \cup (IF k = 0 THEN {} ELSE {a})
    <3>1. PICK i \in DOMAIN u : u[i] = x
      BY DEF Range
    <3>2. CASE i <= Len(s)
      BY <1>2, <1>3, <3>1, <3>2 DEF Range
    <3>3. CASE ~ (i <= Len(s))
      BY <1>2, <1>3, <3>1, <3>3
    <3>4. QED
      BY <3>2, <3>3
  <2>2. ASSUME NEW x \in Range(s) PROVE x \in Range(u)
    BY <1>2, <1>3 DEF Range
  <2>3. ASSUME k # 0 PROVE a \in Range(u)
    <3>1. Len(s) + k \in DOMAIN u /\ u[Len(s) + k] = a
      BY <1>2, <1>3, <2>3
    <3>2. QED
      BY <3>1 DEF Range
  <2>4. QED
    BY <2>1, <2>2, <2>3
<1>5. Grouped(u)
  <2> SUFFICES ASSUME NEW i \in DOMAIN u, NEW j \in DOMAIN u, NEW l \in DOMAIN u,
                      i <= j, j <= l, u[i] = u[l]
               PROVE  u[j] = u[i]
    BY DEF Grouped
  <2>1. CASE l <= Len(s)
    <3>1. i \in DOMAIN s /\ j \in DOMAIN s /\ l \in DOMAIN s
      BY <1>2, <1>3, <2>1
    <3>2. u[i] = s[i] /\ u[j] = s[j] /\ u[l] = s[l]
      BY <1>2, <1>3, <3>1
    <3>3. QED
      BY <3>1, <3>2 DEF Grouped
  <2>2. CASE ~ (l <= Len(s))
    <3>1. u[l] = a
      BY <1>2, <2>2
    <3>2. ~ (i <= Len(s))
      BY <1>2, <1>3, <3>1
    <3>3. QED
      BY <1>2, <1>3, <3>1, <3>2
  <2>3. QED
    BY <2>1, <2>2
<1>6. QED
  BY <1>1, <1>4, <1>5 DEF t, u

\* What Reload builds: a sequence of the accounts that are kept, each of them in
\* it and its copies together.
LEMMA RotationShape ==
    /\ Weighted \in Seq(Accounts)
    /\ Range(Weighted) = {a \in Accounts : InRotation(a)}
    /\ Grouped(Weighted)
<1> DEFINE n == Len(Order)
           width(i) == IF InRotation(Order[i]) THEN effectiveWeight(Order[i]) ELSE 0
           seqs == [i \in 1..n |-> [j \in 1..width(i) |-> Order[i]]]
           Kept(m) == {Order[j] : j \in {j \in 1..m : InRotation(Order[j])}}
<1>1. /\ n \in Nat /\ DOMAIN Order = 1..n
      /\ \A i \in 1..n : Order[i] \in Accounts
      /\ \A i, j \in 1..n : Order[i] = Order[j] => i = j
      /\ \A a \in Accounts : \E i \in 1..n : Order[i] = a
  BY PoolAssumption DEF IsInjective, Range
<1>2. \A i \in 1..n : width(i) \in Nat /\ (width(i) = 0 <=> ~InRotation(Order[i]))
  BY <1>1, PoolAssumption DEF effectiveWeight
<1>3. Weighted = FlattenSeq(seqs)
  BY DEF Weighted
<1>4. Kept(n) = {a \in Accounts : InRotation(a)}
  BY <1>1
<1> HIDE DEF n, width
<1>5. CASE n = 0
  <2>1. seqs = <<>> /\ Len(seqs) = 0
    BY <1>5
  <2>2. Weighted = <<>>
    BY <1>3, <2>1 DEF FlattenSeq
  <2>3. Kept(n) = {}
    BY <1>5
  <2>4. QED
    BY <1>4, <2>2, <2>3 DEF Range, Grouped
<1>6. CASE n # 0
  <2>1. seqs \in [1..n -> Seq(Accounts)]
    <3>1. ASSUME NEW i \in 1..n PROVE [j \in 1..width(i) |-> Order[i]] \in Seq(Accounts)
      BY <1>1, <1>2
    <3>2. QED
      BY <3>1
  <2>2. PICK f \in [1..n -> Seq(Accounts)] :
            /\ f[1] = seqs[1] /\ \A i \in 2..n : f[i] = f[i - 1] \o seqs[i]
            /\ FlattenSeq(seqs) = f[n]
    <3>1. n \in Nat \ {0}
      BY <1>1, <1>6
    <3>2. \A m \in Nat \ {0} : \A q \in [1..m -> Seq(Accounts)] :
              \E f \in [1..m -> Seq(Accounts)] :
                  /\ f[1] = q[1] /\ \A i \in 2..m : f[i] = f[i - 1] \o q[i]
                  /\ FlattenSeq(q) = f[m]
      BY Flattened, Zenon
    <3> HIDE DEF seqs
    <3>3. QED
      BY <2>1, <3>1, <3>2, Zenon
  <2> DEFINE Shaped(m) == Range(f[m]) = Kept(m) /\ Grouped(f[m])
             Bad == {m \in 1..n : ~Shaped(m)}
  <2>3. ASSUME NEW m \in 1..n, m = 1 \/ Shaped(m - 1) PROVE Shaped(m)
    <3> DEFINE s == IF m = 1 THEN <<>> ELSE f[m - 1]
               t == [j \in 1..width(m) |-> Order[m]]
    <3>1. s \in Seq(Accounts) /\ Grouped(s) /\ Range(s) = Kept(m - 1)
      <4>1. CASE m = 1
        <5>1. s = <<>>
          BY <4>1
        <5>2. Kept(m - 1) = {}
          BY <4>1
        <5>3. <<>> \in Seq(Accounts) /\ Grouped(<<>>) /\ Range(<<>>) = {}
          BY DEF Grouped, Range
        <5>4. QED
          BY <5>1, <5>2, <5>3, Zenon
      <4>2. CASE m # 1
        <5>1. m - 1 \in 1..n
          BY <1>1, <4>2
        <5>2. QED
          BY <2>2, <2>3, <4>2, <5>1
      <4>3. QED
        BY <4>1, <4>2
    <3>2. f[m] = s \o t
      <4>1. seqs[m] = t
        OBVIOUS
      <4>2. CASE m = 1
        <5>1. t \in Seq(Accounts)
          BY <2>1, <4>1
        <5>2. f[m] = t /\ s = <<>>
          BY <2>2, <4>1, <4>2
        <5>3. <<>> \o t = t
          BY <5>1
        <5>4. QED
          BY <5>2, <5>3, Zenon
      <4>3. CASE m # 1
        <5>1. m \in 2..n
          BY <1>1, <4>3
        <5>2. QED
          BY <2>2, <4>1, <4>3, <5>1, Zenon
      <4>4. QED
        BY <4>2, <4>3
    <3>3. Order[m] \notin Range(s) /\ Order[m] \in Accounts /\ width(m) \in Nat
      BY <1>1, <1>2, <3>1
    <3>4. Kept(m) = Kept(m - 1) \cup (IF width(m) = 0 THEN {} ELSE {Order[m]})
      <4>1. \A j : j \in 1..m <=> j \in 1..(m - 1) \/ j = m
        BY <1>1
      <4>2. QED
        BY <1>2, <4>1, Zenon
    <3>5. Range(s \o t) = Range(s) \cup (IF width(m) = 0 THEN {} ELSE {Order[m]}) /\ Grouped(s \o t)
      <4> HIDE DEF s
      <4>1. QED
        BY <3>1, <3>3, OneMoreGroup
    <3>6. QED
      BY <3>1, <3>2, <3>4, <3>5, Zenon
  <2> HIDE DEF Shaped
  <2>4. ASSUME Bad # {} PROVE FALSE
    <3>1. Bad \subseteq Nat
      BY <1>1
    <3>2. PICK m \in Bad : \A k \in Bad : m <= k
      BY <2>4, <3>1, LeastElement, Zenon
    <3>3. m \in 1..n /\ (m # 1 => m - 1 \in 1..n /\ ~ (m <= m - 1))
      BY <1>1
    <3>4. m = 1 \/ Shaped(m - 1)
      BY <3>2, <3>3, Zenon
    <3>5. QED
      BY <2>3, <3>3, <3>4
  <2>5. Shaped(n)
    <3>1. n \in 1..n
      BY <1>1, <1>6
    <3>2. QED
      BY <2>4, <3>1, Zenon
  <2>6. Weighted = f[n] /\ f[n] \in Seq(Accounts)
    BY <1>1, <1>3, <1>6, <2>2
  <2>7. QED
    BY <1>4, <2>5, <2>6 DEF Shaped
<1>7. QED
  BY <1>5, <1>6

-----------------------------------------------------------------------------
\* The remainder of a sum of two places of the rotation.
LEMMA OnceAround ==
    \A n \in Nat \ {0} : \A x \in Nat :
        x < 2 * n => x % n = IF x < n THEN x ELSE x - n
<1> SUFFICES ASSUME NEW n \in Nat \ {0}, NEW x \in Nat, x < 2 * n
             PROVE  x % n = IF x < n THEN x ELSE x - n
  OBVIOUS
<1>1. CASE x < n
  BY <1>1
<1>2. CASE ~ (x < n)
  BY <1>2
<1>3. QED
  BY <1>1, <1>2

\* The place in a rotation of length n that is i places after c.
LEMMA PlaceOf ==
    \A n \in Nat \ {0} : \A c, i \in 0..n - 1 :
        ((c + i) % n) + 1 = IF c + i < n THEN c + i + 1 ELSE c + i + 1 - n
<1> SUFFICES ASSUME NEW n \in Nat \ {0}, NEW c \in 0..n - 1, NEW i \in 0..n - 1
             PROVE  ((c + i) % n) + 1 = IF c + i < n THEN c + i + 1 ELSE c + i + 1 - n
  OBVIOUS
<1>1. PICK x \in Nat : x = c + i /\ x < 2 * n
  OBVIOUS
<1>2. x % n = IF x < n THEN x ELSE x - n
  BY <1>1, OnceAround, Zenon
<1>3. QED
  BY <1>1, <1>2, SMT

\* The account at an offset, and its place in the rotation.
LEMMA Places ==
    ASSUME TypeOK, NEW i \in Offsets
    PROVE  LET k == IF cursor + i < Len(rot) THEN cursor + i + 1 ELSE cursor + i + 1 - Len(rot)
           IN  k \in 1..Len(rot) /\ At(i) = rot[k] /\ At(i) \in Range(rot) /\ At(i) \in Accounts
<1> DEFINE n == Len(rot)
           k == IF cursor + i < n THEN cursor + i + 1 ELSE cursor + i + 1 - n
<1>1. /\ rot \in Seq(Accounts) /\ n \in Nat \ {0} /\ DOMAIN rot = 1..n
      /\ cursor \in 0..n - 1 /\ i \in 0..n - 1
  BY DEF TypeOK, Offsets
<1>2. k \in 1..n /\ ((cursor + i) % n) + 1 = k
  <2> HIDE DEF n
  <2>1. ((cursor + i) % n) + 1 = IF cursor + i < n THEN cursor + i + 1 ELSE cursor + i + 1 - n
    BY <1>1, PlaceOf, Zenon
  <2>2. QED
    BY <1>1, <2>1
<1>3. At(i) = rot[k]
  BY <1>2 DEF At
<1>4. QED
  BY <1>1, <1>2, <1>3 DEF Range

\* A search meets every account of the rotation, each for a first time.
LEMMA Met ==
    ASSUME TypeOK, NEW a \in Range(rot)
    PROVE  \E i \in Offsets : At(i) = a /\ \A j \in 0..i - 1 : At(j) # a
<1> DEFINE n == Len(rot)
           T == {i \in Offsets : At(i) = a}
<1>1. rot \in Seq(Accounts) /\ n \in Nat /\ DOMAIN rot = 1..n /\ cursor \in Nat
  BY DEF TypeOK
<1>2. PICK k \in 1..n : rot[k] = a
  BY <1>1 DEF Range
<1>3. n # 0 /\ cursor < n
  BY <1>1, <1>2 DEF TypeOK
<1> DEFINE i == IF cursor < k THEN k - 1 - cursor ELSE k - 1 - cursor + n
<1>4. i \in Offsets
  BY <1>1, <1>2, <1>3 DEF Offsets
<1>5. At(i) = a
  <2>1. At(i) = rot[IF cursor + i < n THEN cursor + i + 1 ELSE cursor + i + 1 - n]
    BY <1>4, Places
  <2>2. (IF cursor + i < n THEN cursor + i + 1 ELSE cursor + i + 1 - n) = k
    BY <1>1, <1>2, <1>3
  <2>3. QED
    BY <1>2, <2>1, <2>2
<1>6. T \subseteq Nat /\ T # {}
  BY <1>4, <1>5 DEF Offsets
<1>7. PICK m \in T : \A j \in T : m <= j
  BY <1>6, LeastElement, Zenon
<1>8. \A j \in 0..m - 1 : j \in Offsets /\ ~ (m <= j)
  BY <1>1, <1>7 DEF Offsets
<1>9. QED
  BY <1>7, <1>8

\* findNextAvailableLocked finds the first account that can serve, if any.
LEMMA FirstRight ==
    ASSUME TypeOK, NEW able, able \subseteq Range(rot), NEW avoidLast \in BOOLEAN
    PROVE  LET i == FirstAt(able, avoidLast)
           IN  \/ /\ i = -1
                  /\ \A a \in able : avoidLast /\ a = last
               \/ /\ i \in Offsets /\ At(i) \in able /\ (avoidLast => At(i) # last)
                  /\ \A k \in Offsets : At(k) \in able /\ (avoidLast => At(k) # last) => i <= k
<1> DEFINE fits(i) == At(i) \in able /\ (avoidLast => At(i) # last)
           hits == {i \in 0..Len(rot) - 1 : /\ At(i) \in able
                                            /\ avoidLast => At(i) # last
                                            /\ \A j \in 0..i - 1 : At(j) # At(i)}
           i == FirstAt(able, avoidLast)
<1>1. i = IF hits = {} THEN -1 ELSE Min(hits)
  BY DEF FirstAt
<1>2. ASSUME NEW a \in able, ~ (avoidLast /\ a = last)
      PROVE  \E k \in hits : At(k) = a
  <2>1. PICK k \in Offsets : At(k) = a /\ \A j \in 0..k - 1 : At(j) # a
    BY Met
  <2>2. k \in hits
    BY <1>2, <2>1 DEF Offsets
  <2>3. QED
    BY <2>1, <2>2
<1> HIDE DEF hits, i
<1>3. CASE hits = {}
  <2>1. i = -1 /\ \A a \in able : avoidLast /\ a = last
    BY <1>1, <1>2, <1>3
  <2>2. QED
    BY <2>1 DEF i
<1>4. CASE hits # {}
  <2>1. hits \subseteq Nat
    BY DEF hits
  <2>2. i \in hits /\ \A k \in hits : i <= k
    BY <1>1, <1>4, <2>1, MinIsLeast
  <2>3. i \in Offsets /\ fits(i)
    BY <2>2 DEF hits, Offsets
  <2>4. ASSUME NEW k \in Offsets, fits(k) PROVE i <= k
    <3> DEFINE T == {j \in Offsets : At(j) = At(k)}
    <3>1. T \subseteq Nat /\ k \in T
      BY DEF Offsets
    <3>2. PICK m \in T : \A j \in T : m <= j
      BY <3>1, LeastElement, Zenon
    <3>3. m \in Offsets /\ At(m) = At(k) /\ m <= k
      BY <3>1, <3>2
    <3>4. \A j \in 0..m - 1 : At(j) # At(m)
      <4>1. TAKE j \in 0..m - 1
      <4>2. j \in Offsets /\ ~ (m <= j)
        BY <3>3, <4>1 DEF Offsets, TypeOK
      <4>3. QED
        BY <3>2, <3>3, <4>2
    <3>5. m \in hits
      BY <2>4, <3>3, <3>4 DEF hits, Offsets
    <3>6. QED
      BY <2>2, <2>3, <3>3, <3>5 DEF Offsets
  <2>5. QED
    BY <2>3, <2>4 DEF i
<1>5. QED
  BY <1>3, <1>4

\* nextAccountLocked: it fails only when nobody can serve, returns the last pick
\* only when nobody else can, and passes nobody over who comes first.
LEMMA NextRight ==
    ASSUME TypeOK, NEW able, able \subseteq Range(rot)
    PROVE  LET i == NextOffset(able)
           IN  \/ i = -1 /\ able = {}
               \/ /\ i \in Offsets /\ i >= 0 /\ At(i) \in able
                  /\ At(i) = last => able = {last}
                  /\ \A k \in Offsets : At(k) \in able /\ At(k) # last => i <= k
<1> DEFINE fresh == FirstAt(able, TRUE)
           any == FirstAt(able, FALSE)
<1>1. \/ fresh = -1 /\ \A a \in able : a = last
      \/ /\ fresh \in Offsets /\ At(fresh) \in able /\ At(fresh) # last
         /\ \A k \in Offsets : At(k) \in able /\ At(k) # last => fresh <= k
  BY FirstRight
<1>2. \/ any = -1 /\ able = {}
      \/ any \in Offsets /\ At(any) \in able /\ \A k \in Offsets : At(k) \in able => any <= k
  <2>1. FALSE \in BOOLEAN
    OBVIOUS
  <2>2. QED
    BY <2>1, FirstRight
<1>3. NextOffset(able) = IF fresh >= 0 THEN fresh ELSE any
  BY DEF NextOffset
<1>4. \A k \in Offsets : k >= 0 /\ k # -1
  BY DEF Offsets
<1> HIDE DEF fresh, any
<1>5. CASE fresh >= 0
  BY <1>1, <1>3, <1>4, <1>5
<1>6. CASE ~ (fresh >= 0)
  <2>1. \A a \in able : a = last
    BY <1>1, <1>4, <1>6
  <2>2. NextOffset(able) = any
    BY <1>3, <1>6
  <2>3. QED
    BY <1>2, <1>4, <2>1, <2>2
<1>7. QED
  BY <1>5, <1>6

-----------------------------------------------------------------------------
\* Whoever can serve is in the rotation.
LEMMA ServersInRotation ==
    ASSUME NEW m, NEW excluded
    PROVE  CanServe(m, excluded) \subseteq Range(rot)
BY DEF CanServe

\* What the state properties follow from.
LEMMA PicksRight ==
    ASSUME TypeOK PROVE PickComplete /\ NoNeedlessRepeat
<1> SUFFICES ASSUME NEW m \in Models, NEW excluded \in SUBSET Accounts
             PROVE  /\ Choice(m, excluded) = NoAccount <=> CanServe(m, excluded) = {}
                    /\ last # NoAccount /\ Choice(m, excluded) = last => CanServe(m, excluded) = {last}
  BY DEF PickComplete, NoNeedlessRepeat
<1> DEFINE able == CanServe(m, excluded)
           i == NextOffset(able)
<1>1. able \subseteq Range(rot)
  BY ServersInRotation
<1>2. \/ i = -1 /\ able = {}
      \/ i \in Offsets /\ i >= 0 /\ At(i) \in able /\ (At(i) = last => able = {last})
  <2> HIDE DEF able
  <2>1. QED
    BY <1>1, NextRight
<1>3. Choice(m, excluded) = IF i < 0 THEN NoAccount ELSE At(i)
  BY DEF Choice
<1>4. \A k \in Offsets : At(k) # NoAccount
  BY Places, PoolAssumption
<1> HIDE DEF able, i
<1>5. CASE i = -1 /\ able = {}
  <2>1. Choice(m, excluded) = NoAccount
    BY <1>3, <1>5
  <2>2. QED
    BY <1>5, <2>1 DEF able
<1>6. CASE i \in Offsets /\ i >= 0 /\ At(i) \in able /\ (At(i) = last => able = {last})
  <2>1. Choice(m, excluded) = At(i) /\ At(i) # NoAccount
    BY <1>3, <1>4, <1>6 DEF Offsets
  <2>2. QED
    BY <1>6, <2>1 DEF able
<1>7. QED
  BY <1>2, <1>5, <1>6

LEMMA UnknownRight ==
    ASSUME TypeOK, QuietRotationFresh PROVE UnknownModelIsUnknown
<1> SUFFICES ASSUME NEW m \in Models, ~OffersModel(m), pending = 0
             PROVE  on # {} /\ \A a \in on : lists[a] # {} /\ m \notin lists[a]
  BY DEF UnknownModelIsUnknown
<1>1. enabledIDs = on /\ Range(rot) \subseteq enabledIDs /\ rot \in Seq(Accounts)
  BY DEF QuietRotationFresh, TypeOK
<1>2. \A a \in on : lists[a] # {} /\ m \notin lists[a]
  BY <1>1 DEF OffersModel, accountHasModel
<1>3. on # {}
  <2> SUFFICES ASSUME on = {} PROVE FALSE
    OBVIOUS
  <2>1. rot # <<>>
    BY <1>1 DEF OffersModel
  <2>2. rot[1] \in Range(rot)
    BY <1>1, <2>1 DEF Range
  <2>3. QED
    BY <1>1, <2>2
<1>4. QED
  BY <1>2, <1>3

\* The accounts of the rotation can be counted.
LEMMA RangeFinite ==
    ASSUME TypeOK
    PROVE  IsFiniteSet(Range(rot)) /\ Cardinality(Range(rot)) \in Nat
<1>1. rot \in Seq(Accounts) /\ Len(rot) \in Nat /\ DOMAIN rot = 1..Len(rot)
  BY DEF TypeOK
<1>2. IsFiniteSet(1..Len(rot))
  BY <1>1, FS_Interval
<1>3. rot \in Surjection(1..Len(rot), Range(rot))
  BY <1>1 DEF Surjection, Range
<1>4. IsFiniteSet(Range(rot))
  BY <1>2, <1>3, FS_Surjection
<1>5. QED
  BY <1>4, FS_CardinalityType

\* Nobody waits longer than a round.
LEMMA WaitsRight ==
    ASSUME TypeOK, Waiting PROVE BoundedBypass
<1> SUFFICES ASSUME NEW a \in Accounts, waited[a] # 0
             PROVE  waited[a] <= Cardinality(Range(rot)) - 1
  BY DEF BoundedBypass
<1>1. waited[a] \in Nat /\ waited[a] > 0
  BY DEF TypeOK
<1>2. waited[a] + Cardinality(Ahead(a) \ {last}) <= Cardinality(Range(rot)) - 1
  BY <1>1 DEF Waiting
<1>3. Ahead(a) \ {last} \subseteq Range(rot)
  BY Places DEF Ahead
<1>4. Cardinality(Ahead(a) \ {last}) \in Nat /\ Cardinality(Range(rot)) \in Nat
  BY <1>3, RangeFinite, FS_Subset, FS_CardinalityType
<1>5. QED
  BY <1>1, <1>2, <1>4

\* Between the cursor and an account a search has not met yet, the last pick does
\* not come again once another account has: its copies stand together, right at the cursor.
LEMMA LastIsBehind ==
    ASSUME TypeOK, Grouped(rot), At(Len(rot) - 1) = last,
           NEW i \in Offsets, NEW k \in Offsets, NEW f \in Offsets, i < k, k < f,
           At(i) # last, At(f) # last
    PROVE  At(k) # last
<1> SUFFICES ASSUME At(k) = last PROVE FALSE
  OBVIOUS
<1> DEFINE n == Len(rot)
           place(o) == IF cursor + o < n THEN cursor + o + 1 ELSE cursor + o + 1 - n
<1>1. n \in Nat /\ n # 0 /\ DOMAIN rot = 1..n /\ cursor \in Nat /\ cursor < n
      /\ i \in Nat /\ k \in Nat /\ f \in Nat /\ f < n /\ n - 1 \in Offsets
  BY DEF TypeOK, Offsets
<1>2. /\ place(i) \in 1..n /\ At(i) = rot[place(i)]
      /\ place(k) \in 1..n /\ At(k) = rot[place(k)]
      /\ place(f) \in 1..n /\ At(f) = rot[place(f)]
      /\ place(n - 1) \in 1..n /\ At(n - 1) = rot[place(n - 1)]
  BY <1>1, Places
<1>3. f # n - 1
  OBVIOUS
<1>4. \/ place(k) <= place(f) /\ place(f) <= place(n - 1)
      \/ place(n - 1) <= place(i) /\ place(i) <= place(k)
  <2> HIDE DEF n
  <2>1. CASE cursor = 0
    BY <1>1, <1>3, <2>1
  <2>2. CASE cursor # 0 /\ cursor + k >= n
    BY <1>1, <1>3, <2>2
  <2>3. CASE cursor # 0 /\ cursor + k < n
    BY <1>1, <1>3, <2>3
  <2>4. QED
    BY <1>1, <2>1, <2>2, <2>3
<1> HIDE DEF place
<1>5. QED
  BY <1>1, <1>2, <1>4 DEF Grouped

\* The offsets after a pick, in terms of the ones before.
LEMMA CursorMoved ==
    ASSUME TypeOK, NEW i \in Offsets, cursor' = (cursor + i + 1) % Len(rot), rot' = rot
    PROVE  /\ cursor' \in 0..Len(rot) - 1
           /\ At(Len(rot) - 1)' = At(i)
           /\ \A j \in Offsets : At(j)' \in Range(rot)
           /\ \A j \in Offsets : i + 1 + j < Len(rot) => At(j)' = At(i + 1 + j)
<1> DEFINE n == Len(rot)
           d == IF cursor + i + 1 < n THEN cursor + i + 1 ELSE cursor + i + 1 - n
           place(c, o) == IF c + o < n THEN c + o + 1 ELSE c + o + 1 - n
<1>1. n \in Nat \ {0} /\ cursor \in 0..n - 1 /\ i \in 0..n - 1 /\ Offsets = 0..n - 1
  BY DEF TypeOK, Offsets
<1> HIDE DEF n
<1>2. cursor' = d /\ d \in 0..n - 1
  <2>1. PICK x \in Nat : x = cursor + i + 1 /\ x < 2 * n
    BY <1>1
  <2>2. x % n = IF x < n THEN x ELSE x - n
    BY <1>1, <2>1, OnceAround, Zenon
  <2>3. cursor' = x % n
    BY <2>1 DEF n
  <2>4. QED
    BY <1>1, <2>1, <2>2, <2>3
<1> HIDE DEF d
<1>3. ASSUME NEW o \in 0..n - 1 PROVE (At(o))' = rot[place(d, o)]
  <2>1. ((d + o) % n) + 1 = place(d, o)
    BY <1>1, <1>2, PlaceOf, Zenon
  <2>2. (At(o))' = rot[((d + o) % n) + 1]
    BY <1>2 DEF At, n
  <2>3. QED
    BY <2>1, <2>2
<1>4. ASSUME NEW o \in 0..n - 1 PROVE At(o) = rot[place(cursor, o)]
  <2>1. ((cursor + o) % n) + 1 = place(cursor, o)
    BY <1>1, PlaceOf, Zenon
  <2>2. QED
    BY <2>1 DEF At, n
<1>5. (At(n - 1))' = At(i)
  <2>1. n - 1 \in 0..n - 1 /\ place(d, n - 1) = place(cursor, i)
    BY <1>1, <1>2 DEF d
  <2>2. PICK o \in 0..n - 1 : o = n - 1
    BY <2>1
  <2>3. At(o)' = At(i)
    BY <1>1, <1>3, <1>4, <2>1, <2>2
  <2>4. n' = n
    BY DEF n
  <2>5. QED
    BY <2>2, <2>3, <2>4
<1>6. ASSUME NEW j \in 0..n - 1, i + 1 + j < n PROVE At(j)' = At(i + 1 + j)
  <2>1. i + 1 + j \in 0..n - 1 /\ place(d, j) = place(cursor, i + 1 + j)
    BY <1>1, <1>2, <1>6 DEF d
  <2>2. QED
    BY <1>3, <1>4, <2>1
<1>7. ASSUME NEW j \in 0..n - 1 PROVE At(j)' \in Range(rot)
  <2>1. place(d, j) \in 1..n
    BY <1>1, <1>2
  <2>2. DOMAIN rot = 1..n
    BY DEF TypeOK, n
  <2>3. QED
    BY <1>3, <2>1, <2>2 DEF Range
<1>8. QED
  BY <1>1, <1>2, <1>5, <1>6, <1>7 DEF n

-----------------------------------------------------------------------------
\* A pick brings an account that it passes over nearer: the accounts ahead of it
\* are fewer than before by the one that was picked.
LEMMA PickStep ==
    ASSUME PoolIInv, NEW m \in Models, NEW excluded \in SUBSET Accounts, PickNext(m, excluded)
    PROVE  PoolIInv'
<1> DEFINE able == CanServe(m, excluded)
           i == NextOffset(able)
           b == At(i)
           n == Len(rot)
<1>1. /\ i >= 0 /\ cursor' = (cursor + i + 1) % n /\ last' = b
      /\ waited' = [a \in Accounts |-> IF a \in able /\ a # b THEN waited[a] + 1 ELSE 0]
      /\ UNCHANGED <<on, over, allowOver, pending, rot, overCopy, enabledIDs, lists, resting>>
  BY DEF PickNext
<1>2. able \subseteq Range(rot)
  BY ServersInRotation
<1>3. TypeOK /\ QuietRotationFresh /\ Grouped(rot) /\ Waiting
  BY DEF PoolIInv
<1> HIDE DEF able, i, n
<1>4. /\ i \in Offsets /\ b \in able /\ (b = last => able = {last})
      /\ \A k \in Offsets : At(k) \in able /\ At(k) # last => i <= k
  BY <1>1, <1>2, <1>3, NextRight DEF i
<1>5. /\ cursor' \in 0..n - 1 /\ At(n - 1)' = b /\ \A j \in Offsets : At(j)' \in Range(rot)
      /\ \A j \in Offsets : i + 1 + j < n => At(j)' = At(i + 1 + j)
  BY <1>1, <1>3, <1>4, CursorMoved DEF n
<1>6. b \in Range(rot) /\ b \in Accounts
  BY <1>3, <1>4, Places
<1>7. n \in Nat /\ Offsets = 0..n - 1 /\ Offsets' = Offsets
  BY <1>1, <1>3 DEF TypeOK, Offsets, n
<1> HIDE DEF b
<1>8. TypeOK'
  <2>1. waited' \in [Accounts -> Nat]
    BY <1>1, <1>3 DEF TypeOK
  <2>2. rot # <<>> /\ cursor' < Len(rot) /\ cursor' \in Nat
    BY <1>3, <1>4, <1>5, <1>7 DEF TypeOK, n
  <2>3. QED
    BY <1>1, <1>3, <1>6, <2>1, <2>2 DEF TypeOK
<1>9. QuietRotationFresh'
  BY <1>1, <1>3 DEF QuietRotationFresh, Weighted, InRotation
<1>10. Grouped(rot)'
  BY <1>1, <1>3 DEF Grouped
<1>11. Waiting'
  <2> SUFFICES ASSUME NEW a \in Accounts, waited'[a] > 0
               PROVE  /\ a \in Range(rot) /\ b # a /\ At(n - 1)' = b
                      /\ waited'[a] + Cardinality(Ahead(a)' \ {b}) <= Cardinality(Range(rot)) - 1
    BY <1>1 DEF Waiting, n
  <2> DEFINE N == Ahead(a)' \ {b}
             A == Ahead(a) \ {last}
             R == Range(rot)
  <2>1. a \in able /\ a # b /\ waited'[a] = waited[a] + 1 /\ waited[a] \in Nat
    BY <1>1, <1>3 DEF TypeOK
  <2>2. a \in R
    BY <1>2, <2>1
  <2>3. IsFiniteSet(R) /\ Cardinality(R) \in Nat
    BY <1>3, RangeFinite
  <2>4. ASSUME NEW x \in N
        PROVE  \E j \in Offsets : x = At(j)' /\ \A l \in 0..j : At(l)' # a
    BY <1>7 DEF Ahead
  <2>5. CASE waited[a] = 0
    <3>1. N \subseteq (R \ {a}) \ {b}
      <4>1. SUFFICES ASSUME NEW x \in N PROVE x \in R /\ x # a /\ x # b
        OBVIOUS
      <4>2. PICK j \in Offsets : x = At(j)' /\ \A l \in 0..j : At(l)' # a
        BY <2>4
      <4>3. j \in 0..j
        BY <1>7
      <4>4. QED
        BY <1>5, <4>2, <4>3
    <3>2. IsFiniteSet(R \ {a}) /\ Cardinality(R \ {a}) = Cardinality(R) - 1
      BY <2>2, <2>3, FS_RemoveElement
    <3>3. b \in R \ {a}
      BY <1>6, <2>1
    <3>4. IsFiniteSet((R \ {a}) \ {b}) /\ Cardinality((R \ {a}) \ {b}) = Cardinality(R \ {a}) - 1
      BY <3>2, <3>3, FS_RemoveElement
    <3> HIDE DEF N, R
    <3>5. Cardinality(N) <= Cardinality((R \ {a}) \ {b}) /\ Cardinality(N) \in Nat
      BY <3>1, <3>4, FS_Subset, FS_CardinalityType
    <3>6. waited'[a] + Cardinality(N) <= Cardinality(R) - 1
      BY <2>1, <2>3, <2>5, <3>2, <3>4, <3>5
    <3>7. QED
      BY <1>5, <2>1, <2>2, <3>6 DEF N, R
  <2>6. CASE waited[a] # 0
    <3>1. last # a /\ At(n - 1) = last /\ waited[a] + Cardinality(A) <= Cardinality(R) - 1
      BY <1>3, <2>1, <2>6 DEF Waiting, n
    <3>2. PICK f \in Offsets : At(f) = a /\ \A j \in 0..f - 1 : At(j) # a
      BY <1>3, <2>2, Met
    <3>3. i < f /\ i \in Nat /\ f \in Nat /\ f < n
      <4>1. i <= f
        BY <1>4, <2>1, <3>1, <3>2
      <4>2. i # f
        BY <2>1, <3>2 DEF b
      <4>3. QED
        BY <1>4, <1>7, <4>1, <4>2
    <3>4. b # last
      BY <1>4, <2>1, <3>1
    <3>5. b \in A
      <4>1. \A j \in 0..i : At(j) # a
        BY <3>2, <3>3
      <4>2. QED
        BY <1>4, <3>4, <4>1 DEF Ahead, b
    <3>6. N \subseteq A \ {b}
      <4>1. SUFFICES ASSUME NEW x \in N PROVE x \in A /\ x # b
        OBVIOUS
      <4>2. PICK j \in Offsets : x = At(j)' /\ \A l \in 0..j : At(l)' # a
        BY <2>4
      <4>3. i + 1 + j < f
        <5> SUFFICES ASSUME f <= i + 1 + j PROVE FALSE
          BY <1>7, <3>3, <4>2
        <5>1. f - i - 1 \in 0..j /\ f - i - 1 \in Offsets /\ i + 1 + (f - i - 1) = f
          BY <1>7, <3>3, <4>2
        <5>2. PICK l \in Offsets : l = f - i - 1
          BY <5>1
        <5>3. At(l)' = At(f)
          BY <1>5, <3>3, <5>1, <5>2
        <5>4. QED
          BY <3>2, <4>2, <5>1, <5>2, <5>3
      <4>4. PICK k \in Offsets : k = i + 1 + j
        BY <1>7, <3>3, <4>2, <4>3
      <4>5. x = At(k)
        <5>1. i + 1 + j < n
          BY <1>7, <3>3, <4>2, <4>3
        <5>2. At(j)' = At(i + 1 + j)
          BY <1>5, <5>1
        <5>3. QED
          BY <4>2, <4>4, <5>2
      <4>6. \A l \in 0..k : At(l) # a
        BY <1>7, <3>2, <3>3, <4>3, <4>4
      <4>7. x \in Ahead(a)
        BY <4>4, <4>5, <4>6 DEF Ahead
      <4>8. x # last
        <5>1. i < k /\ k < f
          BY <1>7, <3>3, <4>2, <4>3, <4>4
        <5>2. At(i) # last /\ At(f) # last /\ At(Len(rot) - 1) = last
          BY <3>1, <3>2, <3>4 DEF b, n
        <5>3. At(k) # last
          BY <1>3, <1>4, <3>2, <4>4, <5>1, <5>2, LastIsBehind
        <5>4. QED
          BY <4>5, <5>3
      <4>9. QED
        BY <4>7, <4>8
    <3>7. A \subseteq R
      BY <1>3, Places DEF Ahead
    <3> HIDE DEF N, A, R
    <3>8. IsFiniteSet(A) /\ Cardinality(A) \in Nat
      BY <2>3, <3>7, FS_Subset, FS_CardinalityType
    <3>9. IsFiniteSet(A \ {b}) /\ Cardinality(A \ {b}) = Cardinality(A) - 1
      BY <3>5, <3>8, FS_RemoveElement
    <3>10. Cardinality(N) <= Cardinality(A \ {b}) /\ Cardinality(N) \in Nat
      BY <3>6, <3>9, FS_Subset, FS_CardinalityType
    <3>11. waited'[a] + Cardinality(N) <= Cardinality(R) - 1
      BY <2>1, <2>3, <3>1, <3>8, <3>9, <3>10
    <3>12. QED
      BY <1>5, <2>1, <2>2, <3>11 DEF N, R
  <2>7. QED
    BY <2>5, <2>6
<1>12. QED
  BY <1>8, <1>9, <1>10, <1>11 DEF PoolIInv

\* Reload starts everybody's wait anew on a rotation with the right shape.
LEMMA ReloadStep ==
    ASSUME PoolIInv, Reload PROVE PoolIInv'
<1>1. /\ rot' = Weighted /\ overCopy' = Range(Weighted) \cap over /\ enabledIDs' = on
      /\ cursor' = (IF Weighted = <<>> THEN 0 ELSE cursor % Len(Weighted))
      /\ last' = (IF Weighted = <<>> THEN NoAccount ELSE last)
      /\ waited' = [a \in Accounts |-> 0]
      /\ pending > 0 /\ pending' = pending - 1
      /\ UNCHANGED <<on, over, allowOver, lists, resting>>
  BY DEF Reload, Rebuild, NobodyWaited
<1>2. TypeOK
  BY DEF PoolIInv
<1>3. /\ Weighted \in Seq(Accounts) /\ Range(Weighted) = {a \in Accounts : InRotation(a)}
      /\ Grouped(Weighted) /\ Weighted' = Weighted
  BY <1>1, RotationShape DEF Weighted, InRotation
<1> HIDE DEF Weighted
<1>4. Range(Weighted) \subseteq on
  BY <1>3 DEF InRotation
<1>5. TypeOK'
  <2>1. rot' \in Seq(Accounts) /\ overCopy' \subseteq Range(rot')
    BY <1>1, <1>3
  <2>2. Range(rot') \subseteq enabledIDs' /\ enabledIDs' \subseteq Accounts
    BY <1>1, <1>2, <1>4 DEF TypeOK
  <2>3. cursor' \in Nat /\ (rot' = <<>> => cursor' = 0) /\ (rot' # <<>> => cursor' < Len(rot'))
    <3>1. CASE Weighted = <<>>
      BY <1>1, <3>1
    <3>2. CASE Weighted # <<>>
      <4>1. Len(Weighted) \in Nat \ {0} /\ cursor \in Nat
        BY <1>2, <1>3, <3>2 DEF TypeOK
      <4>2. cursor' = cursor % Len(Weighted)
        BY <1>1, <3>2
      <4>3. cursor' \in Nat /\ cursor' < Len(Weighted)
        BY <4>1, <4>2
      <4>4. QED
        BY <1>1, <3>2, <4>3
    <3>3. QED
      BY <3>1, <3>2
  <2>4. waited' \in [Accounts -> Nat]
    BY <1>1
  <2>5. pending' \in 0..MaxWriters
    BY <1>1, <1>2, PoolAssumption DEF TypeOK
  <2>6. QED
    BY <1>1, <1>2, <2>1, <2>2, <2>3, <2>4, <2>5 DEF TypeOK
<1>6. QuietRotationFresh'
  BY <1>1, <1>3 DEF QuietRotationFresh
<1>7. Grouped(rot)'
  BY <1>1, <1>3 DEF Grouped
<1>8. Waiting'
  BY <1>1 DEF Waiting
<1>9. QED
  BY <1>5, <1>6, <1>7, <1>8 DEF PoolIInv

\* A writer, a model list, a cooldown and a sticky pick leave the rotation alone.
LEMMA OtherSteps ==
    ASSUME PoolIInv, UNCHANGED <<rot, overCopy, enabledIDs, cursor, last, waited>>,
           TypeOK', QuietRotationFresh'
    PROVE  PoolIInv'
<1>1. Grouped(rot)'
  BY DEF PoolIInv, Grouped
<1>2. /\ \A a : Ahead(a)' = Ahead(a)
      /\ At(Len(rot) - 1)' = At(Len(rot) - 1)
  BY DEF Ahead, Offsets, At
<1>3. Waiting'
  BY <1>2 DEF PoolIInv, Waiting
<1>4. QED
  BY <1>1, <1>3 DEF PoolIInv

LEMMA PoolInductive == PoolIInv /\ [Next]_vars => PoolIInv'
<1> SUFFICES ASSUME PoolIInv, [Next]_vars PROVE PoolIInv'
  OBVIOUS
<1>0. TypeOK /\ QuietRotationFresh
  BY DEF PoolIInv
<1>1. CASE WriteRows
  <2>1. /\ pending' = pending + 1 /\ pending < MaxWriters
        /\ UNCHANGED <<rot, overCopy, enabledIDs, cursor, last, lists, resting, waited>>
    BY <1>1 DEF WriteRows
  <2>2. on' \subseteq Accounts /\ over' \subseteq Metered /\ allowOver' \in BOOLEAN
    BY <1>0, <1>1 DEF WriteRows, TypeOK
  <2>3. pending' \in 0..MaxWriters /\ pending' # 0
    BY <1>0, <2>1, PoolAssumption DEF TypeOK
  <2>4. TypeOK'
    BY <1>0, <2>1, <2>2, <2>3 DEF TypeOK
  <2>5. QuietRotationFresh'
    BY <2>3 DEF QuietRotationFresh
  <2>6. QED
    BY <2>1, <2>4, <2>5, OtherSteps
<1>2. CASE Reload
  BY <1>2, ReloadStep
<1>3. ASSUME NEW a \in Accounts, RestChanges(a) PROVE PoolIInv'
  <2>1. UNCHANGED <<on, over, allowOver, pending, rot, overCopy, enabledIDs, cursor, last, lists, waited>>
    BY <1>3 DEF RestChanges
  <2>2. TypeOK'
    BY <1>0, <1>3 DEF TypeOK, RestChanges
  <2>3. QuietRotationFresh'
    BY <1>0, <2>1 DEF QuietRotationFresh, Weighted, InRotation
  <2>4. QED
    BY <2>1, <2>2, <2>3, OtherSteps
<1>4. ASSUME NEW a \in Accounts, NEW ms \in ModelLists, SetModelList(a, ms) PROVE PoolIInv'
  <2>1. UNCHANGED <<on, over, allowOver, pending, rot, overCopy, enabledIDs, cursor, last, resting, waited>>
    BY <1>4 DEF SetModelList
  <2>2. lists' \in [Accounts -> SUBSET Models]
    BY <1>0, <1>4, PoolAssumption DEF TypeOK, SetModelList
  <2>3. TypeOK'
    BY <1>0, <2>1, <2>2 DEF TypeOK
  <2>4. QuietRotationFresh'
    BY <1>0, <2>1 DEF QuietRotationFresh, Weighted, InRotation
  <2>5. QED
    BY <2>1, <2>3, <2>4, OtherSteps
<1>5. ASSUME NEW m \in Models, NEW excluded \in SUBSET Accounts, PickNext(m, excluded) PROVE PoolIInv'
  BY <1>5, PickStep
<1>6. CASE UNCHANGED vars
  <2>1. UNCHANGED <<on, over, allowOver, pending, rot, overCopy, enabledIDs, cursor, last, lists, resting, waited>>
    BY <1>6 DEF vars
  <2>2. TypeOK'
    BY <1>0, <2>1 DEF TypeOK
  <2>3. QuietRotationFresh'
    BY <1>0, <2>1 DEF QuietRotationFresh, Weighted, InRotation
  <2>4. QED
    BY <2>1, <2>2, <2>3, OtherSteps
<1>7. ASSUME NEW m \in Models, NEW excluded \in SUBSET Accounts, NEW p \in Accounts,
             PickPreferred(p, m, excluded)
      PROVE  PoolIInv'
  BY <1>6, <1>7 DEF PickPreferred
<1>8. QED
  BY <1>1, <1>2, <1>3, <1>4, <1>5, <1>6, <1>7 DEF Next

LEMMA PoolStart == Init => PoolIInv
<1> SUFFICES ASSUME Init PROVE PoolIInv
  OBVIOUS
<1>1. /\ Weighted \in Seq(Accounts) /\ Range(Weighted) = {a \in Accounts : InRotation(a)}
      /\ Grouped(Weighted)
  BY RotationShape
<1>2. /\ on \in SUBSET Accounts /\ over \in SUBSET Metered /\ allowOver \in BOOLEAN /\ pending = 0
      /\ rot = Weighted /\ overCopy = Range(Weighted) \cap over /\ enabledIDs = on
      /\ cursor = 0 /\ last = NoAccount /\ lists = [a \in Accounts |-> {}]
      /\ resting \in SUBSET Accounts /\ waited = [a \in Accounts |-> 0]
  BY DEF Init, NobodyWaited
<1>3. Range(Weighted) \subseteq on
  BY <1>1 DEF InRotation
<1> HIDE DEF Weighted
<1>4. TypeOK
  <2>1. rot # <<>> => 0 < Len(rot)
    BY <1>1, <1>2
  <2>2. waited \in [Accounts -> Nat] /\ lists \in [Accounts -> SUBSET Models]
    BY <1>2
  <2>3. 0 \in 0..MaxWriters
    BY PoolAssumption
  <2>4. QED
    BY <1>1, <1>2, <1>3, <2>1, <2>2, <2>3 DEF TypeOK
<1>5. QuietRotationFresh /\ Grouped(rot) /\ Waiting
  BY <1>1, <1>2 DEF QuietRotationFresh, Waiting
<1>6. QED
  BY <1>4, <1>5 DEF PoolIInv

\* Once every writer has reloaded the rotation is the one the rows ask for, each
\* kept account in it; a pick finds an account whenever one can serve, repeats the
\* last one only when it must, and passes over an account that can serve for less
\* than a round; a model is called unknown only when nobody offers it.
THEOREM RotationAlwaysRight == Spec => []RotationRight
<1>1. PoolIInv => RotationRight
  BY PicksRight, UnknownRight, WaitsRight DEF PoolIInv, RotationRight, RotationInv
<1>2. QED
  BY <1>1, PoolStart, PoolInductive, PTL DEF Spec

=============================================================================
