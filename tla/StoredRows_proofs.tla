-------------------------- MODULE StoredRows_proofs --------------------------
(***************************************************************************)
(* What concurrent handlers that rewrite stored data from copies can and   *)
(* cannot do: writers of account rows, for any number of accounts,         *)
(* requests and editors; and requests and admin calls on client keys, for  *)
(* any keys, any number of concurrent requests and any limits.             *)
(*                                                                         *)
(* A key's counter is compared with a sum over the open reservations.  The *)
(* sum is the number of tokens held, so that a reservation that opens or   *)
(* closes adds or takes away its own tokens by the cardinality theorems.   *)
(***************************************************************************)
EXTENDS AccountRows, ApiKeyUsage, FiniteSetTheorems, TLAPS

(***************************************************************************)
(* Account rows                                                            *)
(***************************************************************************)
\* The row an account starts with is a row, and an actor that holds nothing
\* is one the type admits.
LEMMA Fresh ==
    /\ NewRow \in Row
    /\ Free \in [phase: {"free", "holds", "wrote", "renewed"}, acct: Accounts, snap: Row]
    /\ NewRow.count = 0 /\ NewRow.live /\ NewRow.on
    /\ Free.phase = "free" /\ Free.snap = NewRow
<1>1. AnyAccount \in Accounts /\ AnyLabel \in Labels
  BY RowsAssumption DEF AnyAccount, AnyLabel
<1>2. NewRow \in Row
  BY <1>1, RowsAssumption DEF NewRow, Row
<1>3. QED
  BY <1>1, <1>2 DEF NewRow, Free

\* UpdateAccount from a copy of any age: other accounts are left alone, the
\* credentials stay, a deleted row stays as it is.
LEMMA UpdateKeeps ==
    ASSUME RowsInv, NEW a \in Accounts, NEW snap \in Row, snap.count <= finals[a],
           UpdateAccount(a, snap)
    PROVE  /\ row' \in [Accounts -> Row]
           /\ \A b \in Accounts :
                 /\ row'[b].cred = row[b].cred
                 /\ row'[b].count <= finals[b]
                 /\ ~row[b].live => row'[b] = row[b]
           /\ ~row[a].live => row' = row
<1>1. row \in [Accounts -> Row] /\ finals \in [Accounts -> Nat]
  BY DEF RowsInv, TypeOK
<1>2. DEFINE new == IF row[a].live THEN [snap EXCEPT !.cred = row[a].cred] ELSE row[a]
<1>3. row' = [row EXCEPT ![a] = new]
  BY DEF UpdateAccount
<1>4. /\ new \in Row /\ new.cred = row[a].cred /\ new.count <= finals[a]
      /\ ~row[a].live => new = row[a]
  BY <1>1 DEF Row, RowsInv, NeverOvercounted
<1> HIDE DEF new
<1>5. row' \in [Accounts -> Row]
  BY <1>1, <1>3, <1>4
<1>6. \A b \in Accounts : /\ row'[b].cred = row[b].cred
                          /\ row'[b].count <= finals[b]
                          /\ ~row[b].live => row'[b] = row[b]
  BY <1>1, <1>3, <1>4 DEF RowsInv, NeverOvercounted
<1>7. ~row[a].live => row' = row
  BY <1>1, <1>3, <1>4
<1>8. QED
  BY <1>5, <1>6, <1>7

\* What a writer holds afterwards, and that a write that changed something
\* leaves a Reload owed or missed.
LEMMA OwesKeeps ==
    ASSUME RowsInv, NEW x \in Actors, held[x].phase = "holds",
           OwesReload(x, held[x].acct), finals' = finals
    PROVE  /\ held' \in [Actors -> [phase: {"free", "holds", "wrote", "renewed"},
                                    acct: Accounts, snap: Row]]
           /\ missed' \in BOOLEAN
           /\ CopiesCounted'
           /\ row[held[x].acct].live => ~Quiet'
           /\ Quiet' => Quiet
<1> DEFINE Holding == [phase: {"free", "holds", "wrote", "renewed"}, acct: Accounts, snap: Row]
<1>1. held \in [Actors -> Holding] /\ missed \in BOOLEAN /\ finals \in [Accounts -> Nat]
  BY DEF RowsInv, TypeOK
<1>2. GoesOn(x) \in Holding /\ GoesOn(x).snap.count <= finals[GoesOn(x).acct]
      /\ GoesOn(x).phase \in {"free", "holds"}
  <2>1. CASE x \in Requests
    BY <2>1, <1>1 DEF GoesOn, RowsInv, CopiesCounted
  <2>2. CASE x \notin Requests
    BY <2>2, <1>1, Fresh DEF GoesOn
  <2>3. QED
    BY <2>1, <2>2
<1>3. CASE held' = [held EXCEPT ![x].phase = "wrote"] /\ UNCHANGED missed
  <2>1. held' \in [Actors -> Holding]
    BY <1>1, <1>3
  <2>2. CopiesCounted'
    BY <1>1, <1>3 DEF RowsInv, CopiesCounted
  <2>3. held'[x].phase = "wrote"
    BY <1>1, <1>3
  <2>4. ~Quiet'
    BY <2>3 DEF Quiet
  <2>5. QED
    BY <1>1, <1>3, <2>1, <2>2, <2>4
<1>4. CASE held' = [held EXCEPT ![x] = GoesOn(x)] /\ (missed' = TRUE \/ (~row[held[x].acct].live /\ missed' = missed))
  <2>1. held' \in [Actors -> Holding]
    BY <1>1, <1>2, <1>4
  <2>2. CopiesCounted'
    BY <1>1, <1>2, <1>4 DEF RowsInv, CopiesCounted
  <2>3. Quiet' => Quiet
    BY <1>1, <1>4 DEF Quiet
  <2>4. row[held[x].acct].live => ~Quiet'
    BY <1>4 DEF Quiet
  <2>5. QED
    BY <1>1, <1>4, <2>1, <2>2, <2>3, <2>4
<1>5. QED
  BY <1>3, <1>4 DEF OwesReload

\* A write from a copy, with the Reload it owes still to come.
LEMMA WriterStep ==
    ASSUME RowsInv, QuietCopiesFresh, NEW x \in Actors, held[x].phase = "holds",
           OwesReload(x, held[x].acct), UNCHANGED <<inRot, copy, finals>>,
           row' \in [Accounts -> Row],
           \A b \in Accounts : row'[b].count <= finals[b],
           ~row[held[x].acct].live => row' = row
    PROVE  RowsInv' /\ QuietCopiesFresh'
<1>1. TypeOK' /\ CopiesCounted'
  BY OwesKeeps DEF RowsInv, TypeOK
<1>2. NeverOvercounted'
  BY DEF RowsInv, NeverOvercounted
<1>3. QuietCopiesFresh'
  <2>1. CASE row[held[x].acct].live
    BY <2>1, OwesKeeps DEF QuietCopiesFresh
  <2>2. CASE ~row[held[x].acct].live
    BY <2>2, OwesKeeps DEF QuietCopiesFresh
  <2>3. QED
    BY <2>1, <2>2
<1>4. QED
  BY <1>1, <1>2, <1>3 DEF RowsInv

\* Taking a copy: of the rotation's copy or of the stored row.
LEMMA TakeStep ==
    ASSUME RowsInv, QuietCopiesFresh, NEW x \in Actors, NEW a \in Accounts, NEW snap \in Row,
           held[x].phase = "free", snap.count <= finals[a],
           held' = [held EXCEPT ![x] = [phase |-> "holds", acct |-> a, snap |-> snap]],
           UNCHANGED <<row, inRot, copy, finals, missed>>
    PROVE  RowsInv' /\ QuietCopiesFresh'
<1>1. TypeOK' /\ CopiesCounted'
  BY DEF RowsInv, TypeOK, CopiesCounted
<1>2. NeverOvercounted'
  BY DEF RowsInv, NeverOvercounted
<1>3. Quiet' => Quiet
  BY DEF Quiet, RowsInv, TypeOK
<1>4. QuietCopiesFresh'
  BY <1>3 DEF QuietCopiesFresh
<1>5. QED
  BY <1>1, <1>2, <1>4 DEF RowsInv

\* One finished request is counted on the rotation's copy and on the row.
LEMMA RecordStep ==
    ASSUME RowsInv, QuietCopiesFresh, NEW r \in Requests, RecordOutcome(r)
    PROVE  RowsInv' /\ QuietCopiesFresh'
<1> DEFINE a == held[r].acct
           n == IF a \in inRot THEN copy[a].count + 1 ELSE row[a].count + 1
<1>1. /\ r \in Actors /\ a \in Accounts /\ row \in [Accounts -> Row] /\ copy \in [Accounts -> Row]
      /\ finals \in [Accounts -> Nat]
  BY DEF Actors, RowsInv, TypeOK
<1>2. /\ held[r].phase = "holds" /\ finals[a] < MaxFinals
      /\ finals' = [finals EXCEPT ![a] = @ + 1]
      /\ copy' = IF a \in inRot THEN [copy EXCEPT ![a].count = n] ELSE copy
      /\ row' = IF row[a].live THEN [row EXCEPT ![a].count = n] ELSE row
      /\ held' = [held EXCEPT ![r] = Free]
      /\ inRot' = inRot /\ missed' = missed
  BY DEF RecordOutcome
<1>3. n \in 0..MaxFinals /\ n <= finals[a] + 1
  BY <1>1, <1>2, RowsAssumption DEF RowsInv, NeverOvercounted, Row
<1> HIDE DEF n
<1>4. row' \in [Accounts -> Row] /\ copy' \in [Accounts -> Row]
  <2>1. [row[a] EXCEPT !.count = n] \in Row /\ [copy[a] EXCEPT !.count = n] \in Row
    BY <1>1, <1>3 DEF Row
  <2>2. row' \in [Accounts -> Row]
    BY <2>1, <1>1, <1>2
  <2>3. copy' \in [Accounts -> Row]
    BY <2>1, <1>1, <1>2
  <2>4. QED
    BY <2>2, <2>3
<1>5. finals' \in [Accounts -> Nat] /\ \A b \in Accounts : finals[b] <= finals'[b]
  BY <1>1, <1>2
<1>6. \A b \in inRot : copy'[b].live /\ copy'[b].on
  BY <1>1, <1>2 DEF RowsInv, TypeOK, Row
<1>7. TypeOK'
  BY <1>1, <1>2, <1>4, <1>5, <1>6, Fresh DEF RowsInv, TypeOK
<1>8. NeverOvercounted'
  <2>1. ASSUME NEW b \in Accounts, b # a
        PROVE  row'[b] = row[b] /\ copy'[b] = copy[b] /\ finals'[b] = finals[b]
    BY <2>1, <1>1, <1>2
  <2>2. row'[a].count <= finals'[a] /\ (a \in inRot => copy'[a].count <= finals'[a])
    BY <1>1, <1>2, <1>3 DEF RowsInv, NeverOvercounted, Row
  <2>3. QED
    BY <2>1, <2>2, <1>2 DEF RowsInv, NeverOvercounted
<1>9. CopiesCounted'
  <2>1. \A x \in Actors : x # r => held'[x] = held[x] /\ held[x].acct \in Accounts
                                   /\ held[x].snap.count \in Nat
    BY <1>1, <1>2 DEF RowsInv, TypeOK, Row
  <2>2. held'[r].snap.count <= finals'[held'[r].acct]
    BY <1>1, <1>2, <1>5, Fresh DEF RowsInv, TypeOK
  <2>3. \A x \in Actors : x # r => held'[x].snap.count <= finals'[held'[x].acct]
    BY <2>1, <1>1, <1>5 DEF RowsInv, CopiesCounted
  <2>4. QED
    BY <2>2, <2>3 DEF CopiesCounted
<1>10. QuietCopiesFresh'
  <2>1. SUFFICES ASSUME Quiet'
                 PROVE  /\ inRot' = {b \in Accounts : row'[b].live /\ row'[b].on}
                        /\ \A b \in inRot' : copy'[b] = row'[b]
    BY DEF QuietCopiesFresh
  <2>2. Quiet
    BY <2>1, <1>1, <1>2 DEF Quiet, RowsInv, TypeOK
  <2>3. inRot = {b \in Accounts : row[b].live /\ row[b].on} /\ \A b \in inRot : copy[b] = row[b]
    BY <2>2 DEF QuietCopiesFresh
  <2>4. \A b \in Accounts : row'[b].live = row[b].live /\ row'[b].on = row[b].on
    BY <1>1, <1>2 DEF Row
  <2>5. \A b \in inRot : copy'[b] = row'[b]
    BY <2>3, <1>1, <1>2 DEF Row
  <2>6. QED
    BY <2>3, <2>4, <2>5, <1>2
<1>11. QED
  BY <1>7, <1>8, <1>9, <1>10 DEF RowsInv

\* Renewed credentials are stored; the Reload is owed or was missed.
LEMMA RenewStep ==
    ASSUME RowsInv, NEW x \in Actors, RenewToken(x)
    PROVE  RowsInv' /\ QuietCopiesFresh'
<1> DEFINE a == held[x].acct
           Holding == [phase: {"free", "holds", "wrote", "renewed"}, acct: Accounts, snap: Row]
<1>1. /\ a \in Accounts /\ row \in [Accounts -> Row] /\ held \in [Actors -> Holding]
      /\ finals \in [Accounts -> Nat]
  BY DEF RowsInv, TypeOK
<1>2. /\ row[a].cred < MaxCred
      /\ row' = [row EXCEPT ![a].cred = @ + 1]
      /\ inRot' = inRot /\ copy' = copy /\ finals' = finals
      /\ \/ /\ held' = [held EXCEPT ![x] = [phase |-> "renewed", acct |-> a,
                                       snap |-> [held[x].snap EXCEPT !.cred = row[a].cred + 1]]]
            /\ missed' = missed
         \/ held' = held /\ missed' = TRUE
  BY DEF RenewToken
<1>3. row[a].cred + 1 \in 0..MaxCred
  BY <1>1, <1>2, RowsAssumption DEF Row
<1>4. row' \in [Accounts -> Row] /\ \A b \in Accounts : row'[b].count = row[b].count
  BY <1>1, <1>2, <1>3 DEF Row
<1>5. /\ held' \in [Actors -> Holding]
      /\ \A y \in Actors : held'[y].acct = held[y].acct /\ held'[y].snap.count = held[y].snap.count
  <2>1. CASE held' = held
    BY <2>1, <1>1
  <2>2. CASE held' # held
    <3> DEFINE snap == [held[x].snap EXCEPT !.cred = row[a].cred + 1]
               new == [phase |-> "renewed", acct |-> a, snap |-> snap]
    <3>1. snap \in Row /\ snap.count = held[x].snap.count
      BY <1>1, <1>3 DEF Row
    <3>2. held' = [held EXCEPT ![x] = new]
      BY <2>2, <1>1, <1>2
    <3> HIDE DEF snap
    <3>3. new \in Holding /\ new.acct = held[x].acct /\ new.snap = snap
      BY <3>1, <1>1
    <3> HIDE DEF new
    <3>4. held' \in [Actors -> Holding]
      BY <3>2, <3>3, <1>1
    <3>5. \A y \in Actors : held'[y].acct = held[y].acct /\ held'[y].snap.count = held[y].snap.count
      BY <3>1, <3>2, <3>3, <1>1
    <3>6. QED
      BY <3>4, <3>5
  <2>3. QED
    BY <2>1, <2>2
<1>6. missed' \in BOOLEAN
  BY <1>2 DEF RowsInv, TypeOK
<1>7. TypeOK'
  BY <1>2, <1>4, <1>5, <1>6 DEF RowsInv, TypeOK
<1>8. NeverOvercounted' /\ CopiesCounted'
  BY <1>2, <1>4, <1>5 DEF RowsInv, NeverOvercounted, CopiesCounted
<1>9. ~Quiet'
  <2>1. CASE missed' = TRUE
    BY <2>1 DEF Quiet
  <2>2. CASE missed' # TRUE
    <3>1. held'[x].phase = "renewed"
      <4>1. held' = [held EXCEPT ![x] = [phase |-> "renewed", acct |-> a,
                                         snap |-> [held[x].snap EXCEPT !.cred = row[a].cred + 1]]]
        BY <2>2, <1>2
      <4>2. QED
        BY <4>1, <1>1
    <3>2. QED
      BY <3>1 DEF Quiet
  <2>3. QED
    BY <2>1, <2>2
<1>10. QED
  BY <1>7, <1>8, <1>9 DEF RowsInv, QuietCopiesFresh

\* Reload makes the rotation and its copies those of the stored rows.
LEMMA ReloadStep ==
    ASSUME RowsInv, NEW x \in Actors, Reload(x)
    PROVE  RowsInv' /\ QuietCopiesFresh'
<1> DEFINE now == {a \in Accounts : row[a].live /\ row[a].on}
           Holding == [phase: {"free", "holds", "wrote", "renewed"}, acct: Accounts, snap: Row]
           next == IF held[x].phase = "wrote" THEN GoesOn(x) ELSE [held[x] EXCEPT !.phase = "holds"]
<1>1. row \in [Accounts -> Row] /\ held \in [Actors -> Holding] /\ finals \in [Accounts -> Nat]
  BY DEF RowsInv, TypeOK
<1>2. /\ inRot' = now
      /\ copy' = [a \in Accounts |-> IF a \in now THEN row[a] ELSE NewRow]
      /\ held' = [held EXCEPT ![x] = next]
      /\ missed' = FALSE /\ row' = row /\ finals' = finals
  BY DEF Reload
<1>3. next \in Holding /\ next.snap.count <= finals[next.acct]
  <2>1. CASE held[x].phase = "wrote" /\ x \notin Requests
    BY <2>1, <1>1, Fresh DEF GoesOn
  <2>2. CASE ~(held[x].phase = "wrote" /\ x \notin Requests)
    <3>1. next = [held[x] EXCEPT !.phase = "holds"]
      BY <2>2 DEF GoesOn
    <3>2. held[x] \in Holding /\ held[x].snap.count <= finals[held[x].acct]
      BY <1>1 DEF RowsInv, CopiesCounted
    <3>3. next \in Holding /\ next.acct = held[x].acct /\ next.snap = held[x].snap
      BY <3>1, <3>2
    <3>4. QED
      BY <3>2, <3>3
  <2>3. QED
    BY <2>1, <2>2
<1> HIDE DEF next
<1>4. copy' \in [Accounts -> Row] /\ \A a \in now : copy'[a] = row[a] /\ copy'[a].live /\ copy'[a].on
  BY <1>1, <1>2, Fresh
<1>5. TypeOK'
  BY <1>1, <1>2, <1>3, <1>4 DEF RowsInv, TypeOK
<1>6. NeverOvercounted'
  BY <1>2, <1>4 DEF RowsInv, NeverOvercounted
<1>7. CopiesCounted'
  BY <1>1, <1>2, <1>3 DEF RowsInv, CopiesCounted
<1>8. QuietCopiesFresh'
  BY <1>2, <1>4 DEF QuietCopiesFresh
<1>9. QED
  BY <1>5, <1>6, <1>7, <1>8 DEF RowsInv

\* The row an editor or a failing request stores, and the deletion.
LEMMA WriteStep ==
    ASSUME RowsInv, QuietCopiesFresh, NEW x \in Actors,
           DisableAccount(x) \/ WriteRow(x) \/ DeleteRow(x)
    PROVE  /\ RowsInv' /\ QuietCopiesFresh'
           /\ \A b \in Accounts : row'[b].cred = row[b].cred /\ (~row[b].live => ~row'[b].live)
<1> DEFINE a == held[x].acct
           snap == held[x].snap
<1>1. a \in Accounts /\ snap \in Row /\ snap.count <= finals[a] /\ row \in [Accounts -> Row]
  BY DEF RowsInv, TypeOK, CopiesCounted
<1>2. held[x].phase = "holds" /\ OwesReload(x, a) /\ UNCHANGED <<inRot, copy, finals>>
  BY DEF DisableAccount, WriteRow, DeleteRow
<1>3. CASE \E new \in Row : new.count = snap.count /\ UpdateAccount(a, new)
  <2>1. PICK new \in Row : new.count = snap.count /\ UpdateAccount(a, new)
    BY <1>3
  <2>2. /\ row' \in [Accounts -> Row] /\ (~row[a].live => row' = row)
        /\ \A b \in Accounts : /\ row'[b].cred = row[b].cred
                               /\ row'[b].count <= finals[b]
                               /\ ~row[b].live => row'[b] = row[b]
    BY <1>1, <2>1, UpdateKeeps
  <2>3. QED
    BY <1>2, <2>2, WriterStep
<1>4. CASE DisableAccount(x)
  <2>1. [snap EXCEPT !.on = FALSE] \in Row /\ [snap EXCEPT !.on = FALSE].count = snap.count
    BY <1>1 DEF Row
  <2>2. UpdateAccount(a, [snap EXCEPT !.on = FALSE])
    BY <1>4 DEF DisableAccount
  <2>3. QED
    BY <1>3, <2>1, <2>2
<1>5. CASE WriteRow(x)
  <2>1. \A b \in BOOLEAN : [snap EXCEPT !.on = b] \in Row /\ [snap EXCEPT !.on = b].count = snap.count
    BY <1>1 DEF Row
  <2>2. \A l \in Labels : [snap EXCEPT !.label = l] \in Row /\ [snap EXCEPT !.label = l].count = snap.count
    BY <1>1 DEF Row
  <2>3. \/ \E b \in BOOLEAN : UpdateAccount(a, [snap EXCEPT !.on = b])
        \/ \E l \in Labels : UpdateAccount(a, [snap EXCEPT !.label = l])
    BY <1>5 DEF WriteRow
  <2>4. QED
    BY <1>3, <2>1, <2>2, <2>3
<1>6. CASE DeleteRow(x)
  <2>1. row' = [row EXCEPT ![a].live = FALSE]
    BY <1>6 DEF DeleteRow
  <2>2. row' \in [Accounts -> Row]
    BY <1>1, <2>1 DEF Row
  <2>3. \A b \in Accounts : /\ row'[b].cred = row[b].cred /\ row'[b].count = row[b].count
                            /\ ~row[b].live => ~row'[b].live
    BY <1>1, <2>1 DEF Row
  <2>4. ~row[a].live => row' = row
    BY <1>1, <2>1 DEF Row
  <2>5. RowsInv' /\ QuietCopiesFresh'
    BY <1>2, <2>2, <2>3, <2>4, WriterStep DEF RowsInv, NeverOvercounted
  <2>6. QED
    BY <2>3, <2>5
<1>7. QED
  BY <1>4, <1>5, <1>6

\* The two invariants are inductive together, one step per action.
LEMMA RowsStep ==
    RowsInv /\ QuietCopiesFresh /\ [Next]_vars => RowsInv' /\ QuietCopiesFresh'
<1> SUFFICES ASSUME RowsInv, QuietCopiesFresh, [Next]_vars
             PROVE  RowsInv' /\ QuietCopiesFresh'
  OBVIOUS
<1>1. CASE UNCHANGED vars
  BY <1>1 DEF vars, RowsInv, TypeOK, NeverOvercounted, CopiesCounted, QuietCopiesFresh, Quiet
<1>2. ASSUME NEW x \in Actors, DisableAccount(x) \/ WriteRow(x) \/ DeleteRow(x)
      PROVE  RowsInv' /\ QuietCopiesFresh'
  BY <1>2, WriteStep
<1>3. ASSUME NEW r \in Requests, NEW a \in Accounts, Pick(r, a)
      PROVE  RowsInv' /\ QuietCopiesFresh'
  <2>1. r \in Actors /\ copy[a] \in Row /\ copy[a].count <= finals[a]
    BY <1>3 DEF Actors, Pick, RowsInv, TypeOK, NeverOvercounted
  <2>2. QED
    BY <1>3, <2>1, TakeStep DEF Pick
<1>4. ASSUME NEW e \in Editors, NEW a \in Accounts, ReadRow(e, a)
      PROVE  RowsInv' /\ QuietCopiesFresh'
  <2>1. e \in Actors /\ row[a] \in Row /\ row[a].count <= finals[a]
    BY <1>4 DEF Actors, RowsInv, TypeOK, NeverOvercounted
  <2>2. QED
    BY <1>4, <2>1, TakeStep DEF ReadRow
<1>5. QED
  BY <1>1, <1>2, <1>3, <1>4, RecordStep, RenewStep, ReloadStep DEF Next, Actors

\* The initial rows are counted and in rotation as they are stored.
LEMMA RowsInit == Init => RowsInv /\ QuietCopiesFresh
<1> SUFFICES ASSUME Init PROVE RowsInv /\ QuietCopiesFresh
  OBVIOUS
<1>1. TypeOK
  BY Fresh DEF Init, TypeOK
<1>2. NeverOvercounted /\ CopiesCounted
  <2>1. \A a \in Accounts : row[a] = NewRow /\ copy[a] = NewRow /\ finals[a] = 0
    BY DEF Init
  <2>2. \A x \in Actors : held[x].snap = NewRow /\ held[x].acct \in Accounts
    BY <1>1, Fresh DEF Init, TypeOK
  <2>3. QED
    BY <2>1, <2>2, Fresh DEF NeverOvercounted, CopiesCounted
<1>3. QuietCopiesFresh
  BY Fresh DEF Init, QuietCopiesFresh
<1>4. QED
  BY <1>1, <1>2, <1>3 DEF RowsInv

\* No request is counted twice, on the stored row, on the rotation's copy or on
\* any copy someone still works from, and the rotation holds usable accounts.
THEOREM RowsInvariant == Spec => []RowsInv
<1>1. QED
  BY RowsInit, RowsStep, PTL DEF Spec

\* Once the last Reload has run and none was skipped, the rotation's copies are
\* the stored rows, however many writers overlapped before.
THEOREM RotationCatchesUp == Spec => []QuietCopiesFresh
<1>1. QED
  BY RowsInit, RowsStep, PTL DEF Spec

\* What one step may do to a row: credentials only move forward and a deleted
\* account is not revived, whatever copy the writer holds.
LEMMA RowMoves ==
    ASSUME RowsInv, QuietCopiesFresh, Next
    PROVE  \A a \in Accounts : row'[a].cred >= row[a].cred /\ (~row[a].live => ~row'[a].live)
<1>1. row \in [Accounts -> Row] /\ \A a \in Accounts : row[a].cred \in Nat
  BY DEF RowsInv, TypeOK, Row
<1>2. CASE row' = row
  BY <1>1, <1>2
<1>3. ASSUME NEW x \in Actors, DisableAccount(x) \/ WriteRow(x) \/ DeleteRow(x)
      PROVE  \A a \in Accounts : row'[a].cred >= row[a].cred /\ (~row[a].live => ~row'[a].live)
  BY <1>1, <1>3, WriteStep
<1>4. ASSUME NEW r \in Requests, RecordOutcome(r)
      PROVE  \A a \in Accounts : row'[a].cred = row[a].cred /\ row'[a].live = row[a].live
  BY <1>1, <1>4 DEF RecordOutcome, Row
<1>5. ASSUME NEW x \in Actors, RenewToken(x)
      PROVE  \A a \in Accounts : row'[a].cred >= row[a].cred /\ row'[a].live = row[a].live
  <2>1. row' = [row EXCEPT ![held[x].acct].cred = @ + 1]
    BY <1>5 DEF RenewToken
  <2>2. QED
    BY <1>1, <2>1 DEF Row
<1>6. QED
  BY <1>1, <1>2, <1>3, <1>4, <1>5 DEF Next, Actors, Pick, ReadRow, Reload

\* No writer puts back credentials older than the stored ones.
THEOREM RowCredentialsForward == Spec => CredentialsMoveForward
<1>1. RowsInv /\ QuietCopiesFresh /\ [Next]_vars =>
        [\A a \in Accounts : row'[a].cred >= row[a].cred]_vars
  BY RowMoves
<1>2. QED
  BY <1>1, RowsInit, RowsStep, PTL DEF Spec, CredentialsMoveForward

\* No late write revives a deleted account.
THEOREM RowsStayDeleted == Spec => DeletedStaysDeleted
<1>1. RowsInv /\ QuietCopiesFresh /\ [Next]_vars =>
        [\A a \in Accounts : ~row[a].live => ~row'[a].live]_vars
  BY RowMoves
<1>2. QED
  BY <1>1, RowsInit, RowsStep, PTL DEF Spec, DeletedStaysDeleted

(***************************************************************************)
(* Client keys                                                             *)
(***************************************************************************)
\* What one reservation holds of a key.
Share(v, k) == IF v.phase = "reserved" /\ ~v.done /\ v.key = k THEN v.tokens ELSE 0

\* The three things that must be right of one key, given its entry, its history
\* and the tokens open on it: the counter, the limit, and a clean start.
Exact(e, h, open) ==
    e.life = "live" => IF h.slipped THEN e.tokens <= h.settled + open + h.leaked
                                    ELSE e.tokens = h.settled + open + h.leaked
Within(e, h, open) ==
    e.life = "live" /\ e.tokenLimit > 0 /\ ~h.overran /\ ~h.slipped => h.settled + open <= e.tokenLimit
Clean(e, h, open) ==
    e.life = "unused" => h = NoHistory /\ e.tokens = 0 /\ open = 0
Sound(e, h, open) == Exact(e, h, open) /\ Within(e, h, open) /\ Clean(e, h, open)

\* What a crash goes back to: the same with no reservation open, whatever the
\* saved counter holds above the settled usage.
SavedSound(e, h) ==
    /\ e.life = "live" /\ ~h.slipped => e.tokens >= h.settled
    /\ Within(e, h, 0) /\ Clean(e, h, 0)

\* A reservation is done once it is finalized, and only keys that were added
\* are reserved on.
ReservationsOwned ==
    \A r \in Calls :
        /\ req[r].done <=> req[r].phase = "finalized"
        /\ req[r].phase = "reserved" => keys[req[r].key].life # "unused"

\* The inductive invariant.
KeysIInv ==
    /\ KeyTypeOK
    /\ \A k \in Keys : Sound(keys[k], hist[k], OpenTokens(k))
    /\ \A k \in Keys : SavedSound(saved.keys[k], saved.hist[k])
    /\ ReservationsOwned

-----------------------------------------------------------------------------
\* One caller's n tokens are n elements.
LEMMA OwnTokens ==
    ASSUME NEW r, NEW n \in Nat
    PROVE  IsFiniteSet({r} \X (1..n)) /\ Cardinality({r} \X (1..n)) = n
<1>1. IsFiniteSet({r}) /\ Cardinality({r}) = 1
  BY FS_Singleton
<1>2. IsFiniteSet(1..n) /\ Cardinality(1..n) = n
  BY FS_Interval
<1>3. IsFiniteSet({r} \X (1..n)) /\ Cardinality({r} \X (1..n)) = Cardinality({r}) * Cardinality(1..n)
  BY <1>1, <1>2, FS_Product
<1>4. QED
  BY <1>1, <1>2, <1>3

\* Finitely many requests hold finitely many tokens.
LEMMA HeldFinite ==
    ASSUME NEW k
    PROVE  IsFiniteSet(Held(k)) /\ OpenTokens(k) \in Nat
<1>1. Open(k) \subseteq Calls
  BY DEF Open
<1>2. IsFiniteSet(Open(k))
  BY <1>1, KeysAssumption, FS_Subset
<1>3. IsFiniteSet(1..MaxTokens)
  BY KeysAssumption, FS_Interval
<1>4. IsFiniteSet(Open(k) \X (1..MaxTokens))
  BY <1>2, <1>3, FS_Product
<1>5. Held(k) \subseteq Open(k) \X (1..MaxTokens)
  BY DEF Held
<1>6. IsFiniteSet(Held(k))
  BY <1>4, <1>5, FS_Subset
<1>7. QED
  BY <1>6, FS_CardinalityType DEF OpenTokens

\* A key nobody holds a reservation on has no tokens open.
LEMMA NoneHeld ==
    ASSUME NEW k, Open(k) = {}
    PROVE  OpenTokens(k) = 0
<1>1. Held(k) = {}
  BY DEF Held
<1>2. QED
  BY <1>1, FS_EmptySet DEF OpenTokens

\* A disjoint union counts both parts.
LEMMA TwoParts ==
    ASSUME NEW A, NEW B, IsFiniteSet(A), IsFiniteSet(B), A \cap B = {}
    PROVE  /\ Cardinality(A \cup B) = Cardinality(A) + Cardinality(B)
           /\ Cardinality(A) \in Nat /\ Cardinality(B) \in Nat
<1>1. Cardinality(A \cup B) = Cardinality(A) + Cardinality(B) - Cardinality(A \cap B)
  BY FS_Union
<1>2. Cardinality(A \cap B) = 0
  BY FS_EmptySet
<1>3. Cardinality(A) \in Nat /\ Cardinality(B) \in Nat
  BY FS_CardinalityType
<1>4. QED
  BY <1>1, <1>2, <1>3

\* One reservation changes: every key's open tokens lose what it held of the
\* key and gain what it now holds.
LEMMA OpenChange ==
    ASSUME KeyTypeOK, NEW r \in Calls, NEW v \in Reservation, req' = [req EXCEPT ![r] = v],
           NEW k \in Keys
    PROVE  /\ OpenTokens(k) \in Nat /\ OpenTokens(k)' \in Nat
           /\ Share(req[r], k) \in Nat /\ Share(v, k) \in Nat
           /\ Share(req[r], k) <= OpenTokens(k)
           /\ OpenTokens(k)' = OpenTokens(k) - Share(req[r], k) + Share(v, k)
<1> DEFINE A == {h \in Held(k) : h[1] # r}
           B(w) == {r} \X (1..Share(w, k))
<1>1. req \in [Calls -> Reservation] /\ req[r] \in Reservation /\ MaxTokens \in Nat
  BY KeysAssumption DEF KeyTypeOK
<1>2. \A w \in Reservation : Share(w, k) \in 0..MaxTokens
  BY <1>1 DEF Share, Reservation
<1>3. Held(k) = A \cup B(req[r])
  <2>1. ASSUME NEW h \in Held(k) PROVE h \in A \cup B(req[r])
    <3>1. h \in Open(k) \X (1..MaxTokens) /\ h[2] <= req[h[1]].tokens
      BY DEF Held
    <3>2. CASE h[1] = r
      <4>1. Share(req[r], k) = req[r].tokens
        BY <3>1, <3>2 DEF Open, Share
      <4>2. h[2] \in 1..Share(req[r], k)
        BY <1>1, <3>1, <3>2, <4>1 DEF Reservation
      <4>3. h \in B(req[r])
        BY <3>1, <3>2, <4>2
      <4>4. QED
        BY <4>3
    <3>3. QED
      BY <3>2
  <2>2. ASSUME NEW h \in B(req[r]) PROVE h \in Held(k)
    <3>1. h[1] = r /\ h[2] \in 1..Share(req[r], k) /\ h = <<h[1], h[2]>>
      BY <2>2
    <3>2. Share(req[r], k) # 0
      BY <1>1, <1>2, <3>1
    <3>3. r \in Open(k) /\ Share(req[r], k) = req[r].tokens
      BY <3>2 DEF Share, Open
    <3>4. h[2] \in 1..MaxTokens /\ h[2] <= req[r].tokens
      BY <1>1, <1>2, <3>1, <3>3
    <3>5. QED
      BY <3>1, <3>3, <3>4 DEF Held
  <2>3. QED
    BY <2>1, <2>2
<1>4. Held(k)' = A \cup B(v)
  <2>1. \A p \in Calls : p # r => req'[p] = req[p]
    BY <1>1
  <2>2. req'[r] = v
    BY <1>1
  <2>3. \A p \in Calls : p # r => (p \in Open(k)' <=> p \in Open(k))
    BY <2>1 DEF Open
  <2>4. ASSUME NEW h \in Held(k)' PROVE h \in A \cup B(v)
    <3>1. h \in Open(k)' \X (1..MaxTokens) /\ h[2] <= req'[h[1]].tokens
      BY DEF Held
    <3>2. CASE h[1] = r
      <4>1. Share(v, k) = v.tokens
        BY <2>2, <3>1, <3>2 DEF Open, Share
      <4>2. h[2] \in 1..Share(v, k)
        BY <1>1, <2>2, <3>1, <3>2, <4>1 DEF Reservation
      <4>3. h \in B(v)
        BY <3>1, <3>2, <4>2
      <4>4. QED
        BY <4>3
    <3>3. CASE h[1] # r
      <4>1. h[1] \in Calls
        BY <3>1 DEF Open
      <4>2. h[1] \in Open(k) /\ h[2] <= req[h[1]].tokens
        BY <2>1, <2>3, <3>1, <3>3, <4>1
      <4>3. h \in Held(k)
        BY <3>1, <4>2 DEF Held
      <4>4. QED
        BY <3>3, <4>3
    <3>4. QED
      BY <3>2, <3>3
  <2>5. ASSUME NEW h \in B(v) PROVE h \in Held(k)'
    <3>1. h[1] = r /\ h[2] \in 1..Share(v, k) /\ h = <<h[1], h[2]>>
      BY <2>5
    <3>2. Share(v, k) # 0
      BY <1>1, <1>2, <3>1
    <3>3. r \in Open(k)' /\ Share(v, k) = v.tokens
      BY <2>2, <3>2 DEF Share, Open
    <3>4. h[2] \in 1..MaxTokens /\ h[2] <= req'[r].tokens
      BY <1>1, <1>2, <2>2, <3>1, <3>3
    <3>5. QED
      BY <3>1, <3>3, <3>4 DEF Held
  <2>6. ASSUME NEW h \in A PROVE h \in Held(k)'
    <3>1. h \in Open(k) \X (1..MaxTokens) /\ h[2] <= req[h[1]].tokens /\ h[1] # r
      BY DEF Held
    <3>2. h[1] \in Calls
      BY <3>1 DEF Open
    <3>3. h[1] \in Open(k)' /\ h[2] <= req'[h[1]].tokens
      BY <2>1, <2>3, <3>1, <3>2
    <3>4. QED
      BY <3>1, <3>3 DEF Held
  <2>7. QED
    BY <2>4, <2>5, <2>6
<1>5. IsFiniteSet(A)
  BY HeldFinite, FS_Subset
<1>6. \A w \in Reservation : IsFiniteSet(B(w)) /\ Cardinality(B(w)) = Share(w, k) /\ A \cap B(w) = {}
  BY <1>1, <1>2, OwnTokens
<1> HIDE DEF A, B
<1>7. OpenTokens(k) = Cardinality(A) + Share(req[r], k)
  BY <1>1, <1>3, <1>5, <1>6, TwoParts DEF OpenTokens
<1>8. OpenTokens(k)' = Cardinality(A) + Share(v, k)
  BY <1>4, <1>5, <1>6, TwoParts DEF OpenTokens
<1>9. Cardinality(A) \in Nat /\ Share(req[r], k) \in Nat /\ Share(v, k) \in Nat
  BY <1>1, <1>2, <1>5, FS_CardinalityType
<1>10. QED
  BY <1>7, <1>8, <1>9

-----------------------------------------------------------------------------
\* The entries and histories a key starts with, and the empty records.
LEMMA EmptyTypes ==
    /\ NoKey \in KeyEntry /\ NoHistory \in History /\ Idle \in Reservation /\ NoPatch \in Patch
    /\ Idle.phase = "idle" /\ ~Idle.done /\ NoPatch.entry = SettingsOf(NoKey)
<1>1. AnyKey \in Keys
  BY KeysAssumption DEF AnyKey
<1>2. NoKey \in KeyEntry /\ NoHistory \in History
  BY KeysAssumption DEF NoKey, KeyEntry, NoHistory, History
<1>3. Idle \in Reservation /\ Idle.phase = "idle" /\ ~Idle.done
  BY <1>1, KeysAssumption DEF Idle, Reservation
<1>4. NoPatch \in Patch /\ NoPatch.entry = SettingsOf(NoKey)
  BY <1>1, <1>2 DEF NoPatch, Patch, Settings, SettingsOf, KeyEntry
<1>5. QED
  BY <1>2, <1>3, <1>4

\* What is sound in memory is sound once it is saved.
LEMMA SoundSaved ==
    ASSUME NEW e \in KeyEntry, NEW h \in History, NEW open \in Nat, Sound(e, h, open)
    PROVE  SavedSound(e, h)
<1>1. /\ e.tokens \in Nat /\ h.settled \in Nat /\ h.leaked \in Nat /\ e.tokenLimit \in Nat
  BY KeysAssumption DEF KeyEntry, History
<1>2. e.life = "live" /\ ~h.slipped => e.tokens >= h.settled
  BY <1>1 DEF Sound, Exact
<1>3. Within(e, h, 0)
  BY <1>1 DEF Sound, Within
<1>4. Clean(e, h, 0)
  BY DEF Sound, Clean
<1>5. QED
  BY <1>2, <1>3, <1>4 DEF SavedSound

\* Memory is saved, or the save fails and the saved config stays.
LEMMA SaveStep ==
    ASSUME KeysIInv, keys' \in [Keys -> KeyEntry], hist' \in [Keys -> History], require' \in BOOLEAN,
           \A k \in Keys : SavedSound(keys'[k], hist'[k]), MaybeSaved
    PROVE  /\ saved' \in [keys: [Keys -> KeyEntry], require: BOOLEAN, hist: [Keys -> History]]
           /\ faults' \in 0..MaxFaults
           /\ \A k \in Keys : SavedSound(saved'.keys[k], saved'.hist[k])
<1>1. CASE Saved
  BY <1>1 DEF Saved, KeysIInv, KeyTypeOK
<1>2. CASE faults < MaxFaults /\ faults' = faults + 1 /\ UNCHANGED saved
  BY <1>2, KeysAssumption DEF KeysIInv, KeyTypeOK
<1>3. QED
  BY <1>1, <1>2 DEF MaybeSaved

\* A step that writes one key and its history, and saves: the key must be sound
\* afterwards and no other key may gain or lose tokens.
LEMMA KeyStep ==
    ASSUME KeysIInv, NEW k \in Keys, NEW e \in KeyEntry, NEW h \in History,
           keys' = [keys EXCEPT ![k] = e], hist' = [hist EXCEPT ![k] = h],
           OpenTokens(k)' \in Nat, Sound(e, h, OpenTokens(k)'),
           \A j \in Keys : j # k => OpenTokens(j)' = OpenTokens(j),
           require' \in BOOLEAN, req' \in [Calls -> Reservation], patch' \in [Admins -> Patch],
           ReservationsOwned', MaybeSaved
    PROVE  KeysIInv'
<1>1. /\ keys' \in [Keys -> KeyEntry] /\ hist' \in [Keys -> History]
      /\ keys'[k] = e /\ hist'[k] = h
      /\ \A j \in Keys : j # k => keys'[j] = keys[j] /\ hist'[j] = hist[j]
  BY DEF KeysIInv, KeyTypeOK
<1>2. \A j \in Keys : Sound(keys'[j], hist'[j], OpenTokens(j)')
  BY <1>1 DEF KeysIInv
<1>3. \A j \in Keys : OpenTokens(j)' \in Nat
  BY HeldFinite
<1>4. \A j \in Keys : SavedSound(keys'[j], hist'[j])
  BY <1>1, <1>2, <1>3, SoundSaved
<1>5. QED
  BY <1>1, <1>2, <1>4, SaveStep DEF KeysIInv, KeyTypeOK

\* A step that leaves keys, limits and saved config alone and moves one request
\* that neither opens nor closes a reservation.
LEMMA RequestQuiet ==
    ASSUME KeysIInv, NEW r \in Calls, NEW v \in Reservation, req' = [req EXCEPT ![r] = v],
           v.phase \notin {"reserved", "finalized"}, ~v.done,
           req[r].phase # "reserved" \/ req[r].done,
           UNCHANGED <<keys, require, saved, faults, patch, hist>>
    PROVE  KeysIInv'
<1>1. KeyTypeOK
  BY DEF KeysIInv
<1>2. KeyTypeOK'
  BY <1>1 DEF KeyTypeOK
<1>3. \A k \in Keys : Share(req[r], k) = 0 /\ Share(v, k) = 0
  BY DEF Share
<1>4. ASSUME NEW k \in Keys PROVE OpenTokens(k)' = OpenTokens(k)
  <2>1. OpenTokens(k) \in Nat /\ OpenTokens(k)' = OpenTokens(k) - Share(req[r], k) + Share(v, k)
    BY <1>1, OpenChange, Zenon
  <2>2. QED
    BY <1>3, <2>1
<1>5. \A k \in Keys : Sound(keys'[k], hist'[k], OpenTokens(k)')
  BY <1>4 DEF KeysIInv
<1>6. ReservationsOwned'
  BY <1>1 DEF KeysIInv, KeyTypeOK, ReservationsOwned
<1>7. QED
  BY <1>2, <1>5, <1>6 DEF KeysIInv

\* What the types say of the numbers of one key.
LEMMA KeyNumbers ==
    ASSUME KeysIInv, NEW k \in Keys
    PROVE  /\ keys[k] \in KeyEntry /\ hist[k] \in History
           /\ keys[k].tokens \in Nat /\ keys[k].credits \in Nat /\ keys[k].tokenLimit \in Nat
           /\ hist[k].settled \in Nat /\ hist[k].leaked \in Nat
           /\ Sound(keys[k], hist[k], OpenTokens(k)) /\ OpenTokens(k) \in Nat
BY KeysAssumption, HeldFinite DEF KeysIInv, KeyTypeOK, KeyEntry, History

\* Reserving under the lock: the tokens count from here on, and the limit was
\* compared with them counted.
LEMMA ReserveStep ==
    ASSUME KeysIInv, NEW r \in Calls, NEW n \in 1..MaxTokens, Reserve(r, n),
           NEW k \in Keys, k = req[r].key
    PROVE  KeysIInv'
<1> DEFINE e == [keys[k] EXCEPT !.tokens = keys[k].tokens + n]
           v == [req[r] EXCEPT !.phase = "reserved", !.tokens = n]
<1>1. /\ req[r].phase = "authenticated" /\ ~Refused(k, n)
      /\ keys' = [keys EXCEPT ![k].tokens = @ + n]
      /\ req' = [req EXCEPT ![r].phase = "reserved", ![r].tokens = n]
      /\ UNCHANGED <<require, patch, hist>> /\ Saved
  BY DEF Reserve
<1>2. KeyTypeOK /\ req[r] \in Reservation /\ k \in Keys /\ n \in Nat /\ n \in 0..MaxTokens
      /\ req \in [Calls -> Reservation] /\ keys \in [Keys -> KeyEntry] /\ hist \in [Keys -> History]
  BY KeysAssumption DEF KeysIInv, KeyTypeOK, Reservation
<1>3. /\ keys[k] \in KeyEntry /\ hist[k] \in History
      /\ keys[k].tokens \in Nat /\ keys[k].tokenLimit \in Nat
      /\ hist[k].settled \in Nat /\ hist[k].leaked \in Nat
      /\ Sound(keys[k], hist[k], OpenTokens(k)) /\ OpenTokens(k) \in Nat
  BY <1>2, KeyNumbers
<1>4. keys' = [keys EXCEPT ![k] = e] /\ req' = [req EXCEPT ![r] = v]
  BY <1>1, <1>2
<1>5. v \in Reservation /\ v.phase = "reserved" /\ v.tokens = n /\ v.key = k /\ v.done = req[r].done
  BY <1>2 DEF Reservation
<1>6. e \in KeyEntry /\ e.tokens = keys[k].tokens + n /\ e.life = keys[k].life
      /\ e.tokenLimit = keys[k].tokenLimit
  BY <1>2, <1>3 DEF KeyEntry
<1> HIDE DEF e, v
<1>7. ~req[r].done
  BY <1>1 DEF KeysIInv, ReservationsOwned
<1>8. \A j \in Keys : Share(req[r], j) = 0 /\ Share(v, j) = IF j = k THEN n ELSE 0
  BY <1>1, <1>5, <1>7 DEF Share
<1>9. OpenTokens(k)' = OpenTokens(k) + n /\ \A j \in Keys : j # k => OpenTokens(j)' = OpenTokens(j)
  <2>1. ASSUME NEW j \in Keys PROVE OpenTokens(j)' = OpenTokens(j) + IF j = k THEN n ELSE 0
    <3>1. OpenTokens(j) \in Nat /\ OpenTokens(j)' = OpenTokens(j) - Share(req[r], j) + Share(v, j)
      BY <1>2, <1>4, <1>5, OpenChange, Zenon
    <3>2. QED
      BY <1>2, <1>8, <3>1
  <2>2. QED
    BY <1>2, <2>1, HeldFinite
<1>10. keys[k].life = "live" /\ (keys[k].tokenLimit > 0 => keys[k].tokens + n <= keys[k].tokenLimit)
  BY <1>1, <1>2, <1>3 DEF Refused, Enabled, Live
<1>11. Sound(e, hist[k], OpenTokens(k)')
  BY <1>2, <1>3, <1>6, <1>9, <1>10 DEF Sound, Exact, Within, Clean
<1>12. ReservationsOwned'
  <2>1. \A j \in Keys : keys'[j].life = keys[j].life
    BY <1>2, <1>4, <1>6
  <2>2. \A p \in Calls : req[p].key \in Keys
    BY <1>2 DEF Reservation
  <2>3. QED
    BY <1>2, <1>4, <1>5, <1>7, <1>10, <2>1, <2>2 DEF KeysIInv, ReservationsOwned
<1>13. hist' = [hist EXCEPT ![k] = hist[k]] /\ MaybeSaved /\ require' \in BOOLEAN
       /\ patch' \in [Admins -> Patch] /\ req' \in [Calls -> Reservation]
  <2>1. hist' = [hist EXCEPT ![k] = hist[k]]
    BY <1>1, <1>2
  <2>2. MaybeSaved
    BY <1>1 DEF MaybeSaved
  <2>3. require' \in BOOLEAN /\ patch' \in [Admins -> Patch]
    BY <1>1, <1>2, Zenon DEF KeyTypeOK
  <2>4. req' \in [Calls -> Reservation]
    BY <1>2, <1>4, <1>5
  <2>5. QED
    BY <2>1, <2>2, <2>3, <2>4
<1>14. OpenTokens(k)' \in Nat
  BY <1>2, <1>3, <1>9
<1>15. QED
  BY <1>3, <1>4, <1>6, <1>9, <1>11, <1>12, <1>13, <1>14, KeyStep

\* Settling a reservation: the real usage replaces the tokens it held, which the
\* counter contains, so that the clamp at zero only matters after a reset.
LEMMA FinalizeStep ==
    ASSUME KeysIInv, NEW r \in Calls, NEW n \in 0..MaxTokens, NEW c \in 0..1, Finalize(r, n, c),
           NEW k \in Keys, k = req[r].key
    PROVE  KeysIInv'
<1> DEFINE t == req[r].tokens
           used == [keys[k] EXCEPT !.tokens = NotNegative(keys[k].tokens + n - t),
                                   !.credits = keys[k].credits + c]
           spent == [used EXCEPT !.enabled = used.enabled /\ ~OverLimit(used)]
           e == IF Live(k) THEN spent ELSE keys[k]
           h == [hist[k] EXCEPT !.settled = hist[k].settled + n, !.overran = hist[k].overran \/ n > t]
           v == [req[r] EXCEPT !.phase = "finalized", !.done = TRUE]
<1>1. /\ req[r].phase = "reserved" /\ ~req[r].done
      /\ req' = [req EXCEPT ![r].phase = "finalized", ![r].done = TRUE]
      /\ hist' = [hist EXCEPT ![k].settled = @ + n, ![k].overran = @ \/ n > t]
      /\ UNCHANGED <<require, patch>> /\ MaybeSaved
  BY DEF Finalize
<1>2. keys' = IF Live(k) THEN [keys EXCEPT ![k] = spent] ELSE keys
  BY DEF Finalize
<1>3. KeyTypeOK /\ req[r] \in Reservation /\ n \in Nat /\ c \in Nat /\ t \in Nat
      /\ req \in [Calls -> Reservation] /\ keys \in [Keys -> KeyEntry] /\ hist \in [Keys -> History]
  BY KeysAssumption DEF KeysIInv, KeyTypeOK, Reservation
<1>4. /\ keys[k] \in KeyEntry /\ hist[k] \in History
      /\ keys[k].tokens \in Nat /\ keys[k].credits \in Nat /\ keys[k].tokenLimit \in Nat
      /\ hist[k].settled \in Nat /\ hist[k].leaked \in Nat
      /\ Sound(keys[k], hist[k], OpenTokens(k)) /\ OpenTokens(k) \in Nat
  BY KeyNumbers
<1>5. v \in Reservation /\ v.phase = "finalized" /\ v.key = k /\ v.done
  BY <1>3 DEF Reservation
<1>6. req' = [req EXCEPT ![r] = v] /\ hist' = [hist EXCEPT ![k] = h]
  BY <1>1, <1>3
<1>7. NotNegative(keys[k].tokens + n - t) \in Nat /\ keys[k].credits + c \in Nat
  BY <1>3, <1>4 DEF NotNegative
<1>8. used \in KeyEntry /\ used.tokens = NotNegative(keys[k].tokens + n - t) /\ used.life = keys[k].life
      /\ used.tokenLimit = keys[k].tokenLimit /\ used.enabled \in BOOLEAN
  <2>1. \A x, y \in Nat : LET q == [keys[k] EXCEPT !.tokens = x, !.credits = y] IN
            q \in KeyEntry /\ q.tokens = x /\ q.life = keys[k].life
              /\ q.tokenLimit = keys[k].tokenLimit /\ q.enabled \in BOOLEAN
    BY <1>4 DEF KeyEntry
  <2>2. QED
    BY <1>7, <2>1
<1> HIDE DEF used
<1>9. e \in KeyEntry /\ e.life = keys[k].life /\ e.tokenLimit = keys[k].tokenLimit
      /\ (Live(k) => e.tokens = NotNegative(keys[k].tokens + n - t))
  <2>1. \A b \in BOOLEAN : LET q == [used EXCEPT !.enabled = b] IN
            q \in KeyEntry /\ q.tokens = used.tokens /\ q.life = used.life /\ q.tokenLimit = used.tokenLimit
    BY <1>8 DEF KeyEntry
  <2>2. (used.enabled /\ ~OverLimit(used)) \in BOOLEAN
    OBVIOUS
  <2>3. spent \in KeyEntry /\ spent.tokens = used.tokens /\ spent.life = used.life
        /\ spent.tokenLimit = used.tokenLimit
    BY <2>1, <2>2
  <2>4. QED
    BY <1>4, <1>8, <2>3
<1>10. keys' = [keys EXCEPT ![k] = e]
  BY <1>2, <1>3
<1>11. h \in History /\ h.settled = hist[k].settled + n /\ h.leaked = hist[k].leaked
       /\ h.slipped = hist[k].slipped /\ (~h.overran => ~hist[k].overran /\ n <= t)
  <2>1. \A x \in Nat, b \in BOOLEAN : LET q == [hist[k] EXCEPT !.settled = x, !.overran = b] IN
            q \in History /\ q.settled = x /\ q.leaked = hist[k].leaked /\ q.slipped = hist[k].slipped
              /\ q.overran = b
    BY <1>4 DEF History
  <2>2. hist[k].settled + n \in Nat /\ (hist[k].overran \/ n > t) \in BOOLEAN
    BY <1>3, <1>4
  <2>3. (n > t) = ~(n <= t)
    BY <1>3
  <2>4. QED
    BY <2>1, <2>2, <2>3
<1> HIDE DEF e, h, v
<1>12. \A j \in Keys : Share(req[r], j) = (IF j = k THEN t ELSE 0) /\ Share(v, j) = 0
  BY <1>1, <1>5 DEF Share
<1>13. OpenTokens(k)' = OpenTokens(k) - t /\ t <= OpenTokens(k)
       /\ \A j \in Keys : j # k => OpenTokens(j)' = OpenTokens(j)
  <2>1. ASSUME NEW j \in Keys
        PROVE  LET x == IF j = k THEN t ELSE 0 IN OpenTokens(j)' = OpenTokens(j) - x /\ x <= OpenTokens(j)
    <3>1. OpenTokens(j) \in Nat /\ OpenTokens(j)' = OpenTokens(j) - Share(req[r], j) + Share(v, j)
          /\ Share(req[r], j) <= OpenTokens(j)
      BY <1>3, <1>5, <1>6, OpenChange, Zenon
    <3>2. QED
      BY <1>3, <1>12, <3>1
  <2>2. QED
    BY <1>3, <2>1, HeldFinite
<1>14. keys[k].life # "unused"
  BY <1>1 DEF KeysIInv, ReservationsOwned
<1>15. Sound(e, h, OpenTokens(k)')
  <2>1. Exact(e, h, OpenTokens(k)')
    BY <1>3, <1>4, <1>9, <1>11, <1>13 DEF Sound, Exact, NotNegative, Live
  <2>2. Within(e, h, OpenTokens(k)')
    BY <1>3, <1>4, <1>9, <1>11, <1>13 DEF Sound, Within
  <2>3. Clean(e, h, OpenTokens(k)')
    BY <1>9, <1>14 DEF Clean
  <2>4. QED
    BY <2>1, <2>2, <2>3 DEF Sound
<1>16. ReservationsOwned'
  <2>1. \A j \in Keys : keys'[j].life = keys[j].life
    BY <1>3, <1>9, <1>10
  <2>2. \A p \in Calls : req[p].key \in Keys
    BY <1>3 DEF Reservation
  <2>3. QED
    BY <1>3, <1>5, <1>6, <2>1, <2>2 DEF KeysIInv, ReservationsOwned
<1>17. require' \in BOOLEAN /\ patch' \in [Admins -> Patch]
  BY <1>1, <1>3, Zenon DEF KeyTypeOK
<1>18. req' \in [Calls -> Reservation]
  BY <1>3, <1>5, <1>6
<1>19. OpenTokens(k)' \in Nat
  BY <1>3, <1>4, <1>13
<1>20. MaybeSaved
  BY <1>1
<1>21. QED
  BY <1>6, <1>9, <1>10, <1>11, <1>13, <1>15, <1>16, <1>17, <1>18, <1>19, <1>20, KeyStep

\* The deferred release gives back what an unsettled reservation holds.
LEMMA ReleaseStep ==
    ASSUME KeysIInv, NEW r \in Calls, DeferredRelease(r), ~req[r].done,
           NEW k \in Keys, k = req[r].key
    PROVE  KeysIInv'
<1> DEFINE t == req[r].tokens
           e == IF Live(k) THEN [keys[k] EXCEPT !.tokens = NotNegative(keys[k].tokens - t)] ELSE keys[k]
<1>1. /\ req[r].phase \in {"reserved", "finalized"}
      /\ keys' = IF Live(k) THEN [keys EXCEPT ![k].tokens = NotNegative(@ - t)] ELSE keys
      /\ req' = [req EXCEPT ![r] = Idle]
      /\ UNCHANGED <<require, patch, hist>> /\ MaybeSaved
  BY DEF DeferredRelease
<1>2. KeyTypeOK /\ req[r] \in Reservation /\ t \in Nat
      /\ req \in [Calls -> Reservation] /\ keys \in [Keys -> KeyEntry] /\ hist \in [Keys -> History]
  BY KeysAssumption DEF KeysIInv, KeyTypeOK, Reservation
<1>3. /\ keys[k] \in KeyEntry /\ hist[k] \in History
      /\ keys[k].tokens \in Nat /\ keys[k].tokenLimit \in Nat
      /\ hist[k].settled \in Nat /\ hist[k].leaked \in Nat
      /\ Sound(keys[k], hist[k], OpenTokens(k)) /\ OpenTokens(k) \in Nat
  BY KeyNumbers
<1>4. req[r].phase = "reserved" /\ keys[k].life # "unused"
  BY <1>1 DEF KeysIInv, ReservationsOwned
<1>5. Idle \in Reservation /\ Idle.phase = "idle" /\ ~Idle.done
  BY EmptyTypes
<1>6. e \in KeyEntry /\ e.life = keys[k].life /\ e.tokenLimit = keys[k].tokenLimit
      /\ (Live(k) => e.tokens = NotNegative(keys[k].tokens - t))
  <2>1. \A x \in Nat : LET q == [keys[k] EXCEPT !.tokens = x] IN
            q \in KeyEntry /\ q.tokens = x /\ q.life = keys[k].life /\ q.tokenLimit = keys[k].tokenLimit
    BY <1>3 DEF KeyEntry
  <2>2. NotNegative(keys[k].tokens - t) \in Nat
    BY <1>2, <1>3 DEF NotNegative
  <2>3. QED
    BY <1>3, <2>1, <2>2
<1>7. keys' = [keys EXCEPT ![k] = e] /\ hist' = [hist EXCEPT ![k] = hist[k]]
  BY <1>1, <1>2
<1> HIDE DEF e
<1>8. \A j \in Keys : Share(req[r], j) = (IF j = k THEN t ELSE 0) /\ Share(Idle, j) = 0
  BY <1>4, <1>5 DEF Share
<1>9. OpenTokens(k)' = OpenTokens(k) - t /\ t <= OpenTokens(k)
      /\ \A j \in Keys : j # k => OpenTokens(j)' = OpenTokens(j)
  <2>1. ASSUME NEW j \in Keys
        PROVE  LET x == IF j = k THEN t ELSE 0 IN OpenTokens(j)' = OpenTokens(j) - x /\ x <= OpenTokens(j)
    <3>1. OpenTokens(j) \in Nat /\ OpenTokens(j)' = OpenTokens(j) - Share(req[r], j) + Share(Idle, j)
          /\ Share(req[r], j) <= OpenTokens(j)
      BY <1>1, <1>2, <1>5, OpenChange, Zenon
    <3>2. QED
      BY <1>2, <1>8, <3>1
  <2>2. QED
    BY <1>2, <2>1, HeldFinite
<1>10. Sound(e, hist[k], OpenTokens(k)')
  <2>1. Exact(e, hist[k], OpenTokens(k)')
    BY <1>2, <1>3, <1>6, <1>9 DEF Sound, Exact, NotNegative, Live
  <2>2. Within(e, hist[k], OpenTokens(k)')
    BY <1>2, <1>3, <1>6, <1>9 DEF Sound, Within
  <2>3. Clean(e, hist[k], OpenTokens(k)')
    BY <1>4, <1>6 DEF Clean
  <2>4. QED
    BY <2>1, <2>2, <2>3 DEF Sound
<1>11. ReservationsOwned'
  <2>1. \A j \in Keys : keys'[j].life = keys[j].life
    BY <1>2, <1>6, <1>7
  <2>2. \A p \in Calls : req[p].key \in Keys
    BY <1>2 DEF Reservation
  <2>3. QED
    BY <1>1, <1>2, <1>5, <2>1, <2>2 DEF KeysIInv, ReservationsOwned
<1>12. require' \in BOOLEAN /\ patch' \in [Admins -> Patch]
  BY <1>1, <1>2, Zenon DEF KeyTypeOK
<1>13. req' \in [Calls -> Reservation]
  BY <1>1, <1>2, <1>5
<1>14. OpenTokens(k)' \in Nat
  BY <1>2, <1>3, <1>9
<1>15. MaybeSaved
  BY <1>1
<1>16. QED
  BY <1>3, <1>6, <1>7, <1>9, <1>10, <1>11, <1>12, <1>13, <1>14, <1>15, KeyStep

\* Every step of a request.
LEMMA RequestSteps ==
    ASSUME KeysIInv, RequestStep
    PROVE  KeysIInv'
<1>1. PICK r \in Calls :
        \/ \E k \in Keys : Authenticate(r, k)
        \/ \E n \in 1..MaxTokens : Reserve(r, n)
        \/ ReserveFails(r)
        \/ \E n \in 0..MaxTokens, c \in 0..1 : Finalize(r, n, c)
        \/ DeferredRelease(r)
  BY DEF RequestStep
<1>2. req[r] \in Reservation /\ MaxTokens \in Nat
  BY KeysAssumption DEF KeysIInv, KeyTypeOK
<1>3. PICK k \in Keys : k = req[r].key
  BY <1>2 DEF Reservation
<1>4. Idle \in Reservation /\ Idle.phase = "idle" /\ ~Idle.done
  BY EmptyTypes
<1>5. ASSUME NEW j \in Keys, Authenticate(r, j) PROVE KeysIInv'
  <2> DEFINE v == [phase |-> "authenticated", key |-> j, tokens |-> 0, done |-> FALSE]
  <2>1. v \in Reservation /\ v.phase = "authenticated" /\ ~v.done
    BY <1>2 DEF Reservation
  <2>2. req[r].phase = "idle" /\ req' = [req EXCEPT ![r] = v]
        /\ UNCHANGED <<keys, require, saved, faults, patch, hist>>
    BY <1>5 DEF Authenticate
  <2> HIDE DEF v
  <2>3. QED
    BY <2>1, <2>2, RequestQuiet
<1>6. ASSUME NEW n \in 1..MaxTokens, Reserve(r, n) PROVE KeysIInv'
  BY <1>3, <1>6, ReserveStep, Zenon
<1>7. CASE ReserveFails(r)
  <2>1. req[r].phase = "authenticated" /\ req' = [req EXCEPT ![r] = Idle]
        /\ UNCHANGED <<keys, require, saved, faults, patch, hist>>
    BY <1>7 DEF ReserveFails
  <2>2. QED
    BY <1>4, <2>1, RequestQuiet
<1>8. ASSUME NEW n \in 0..MaxTokens, NEW c \in 0..1, Finalize(r, n, c) PROVE KeysIInv'
  BY <1>3, <1>8, FinalizeStep, Zenon
<1>9. CASE DeferredRelease(r) /\ req[r].done
  <2>1. req' = [req EXCEPT ![r] = Idle] /\ UNCHANGED <<keys, require, saved, faults, patch, hist>>
    BY <1>9 DEF DeferredRelease
  <2>2. QED
    BY <1>4, <1>9, <2>1, RequestQuiet
<1>10. CASE DeferredRelease(r) /\ ~req[r].done
  BY <1>3, <1>10, ReleaseStep, Zenon
<1>11. QED
  BY <1>1, <1>5, <1>6, <1>7, <1>8, <1>9, <1>10

-----------------------------------------------------------------------------
\* An admin call writes one key and leaves the requests alone.
LEMMA AdminKeyStep ==
    ASSUME KeysIInv, NEW k \in Keys, NEW e \in KeyEntry, NEW h \in History,
           keys' = [keys EXCEPT ![k] = e], hist' = [hist EXCEPT ![k] = h],
           Sound(e, h, OpenTokens(k)), e.life # "unused",
           UNCHANGED <<require, req>>, patch' \in [Admins -> Patch], MaybeSaved
    PROVE  KeysIInv'
<1>1. \A j \in Keys : OpenTokens(j)' = OpenTokens(j)
  BY DEF OpenTokens, Held, Open
<1>2. OpenTokens(k)' \in Nat /\ Sound(e, h, OpenTokens(k)')
  BY <1>1, HeldFinite
<1>3. keys \in [Keys -> KeyEntry] /\ req' \in [Calls -> Reservation]
  BY DEF KeysIInv, KeyTypeOK
<1>4. require' \in BOOLEAN
  BY Zenon DEF KeysIInv, KeyTypeOK
<1>5. ReservationsOwned'
  <2>1. \A j \in Keys : keys[j].life # "unused" => keys'[j].life # "unused"
    BY <1>3
  <2>2. \A p \in Calls : req[p].key \in Keys
    BY DEF KeysIInv, KeyTypeOK, Reservation
  <2>3. QED
    BY <2>1, <2>2 DEF KeysIInv, ReservationsOwned
<1>6. QED
  BY <1>1, <1>2, <1>3, <1>4, <1>5, KeyStep

\* A new key has no history and nothing open.
LEMMA AddKeyStep ==
    ASSUME KeysIInv, NEW k \in Keys, NEW b \in BOOLEAN, NEW tl \in TokenLimits, NEW cl \in CreditLimits,
           AddKey(k, b, tl, cl)
    PROVE  KeysIInv'
<1> DEFINE e == [NoKey EXCEPT !.life = "live", !.enabled = b, !.tokenLimit = tl, !.creditLimit = cl]
<1>1. keys[k].life = "unused" /\ keys' = [keys EXCEPT ![k] = e] /\ UNCHANGED <<require, req, patch, hist>>
  BY DEF AddKey
<1>2. MaybeSaved
  BY DEF AddKey, MaybeSaved
<1>3. e \in KeyEntry /\ e.life = "live" /\ e.tokens = 0 /\ e.tokenLimit = tl /\ tl \in Nat
  BY KeysAssumption DEF NoKey, KeyEntry
<1> HIDE DEF e
<1>4. hist[k] \in History /\ Sound(keys[k], hist[k], OpenTokens(k))
  BY KeyNumbers
<1>5. hist[k] = NoHistory /\ OpenTokens(k) = 0
  BY <1>1, <1>4 DEF Sound, Clean
<1>6. Sound(e, hist[k], OpenTokens(k))
  BY <1>3, <1>5 DEF Sound, Exact, Within, Clean, NoHistory
<1>7. hist' = [hist EXCEPT ![k] = hist[k]] /\ patch' \in [Admins -> Patch]
  BY <1>1 DEF KeysIInv, KeyTypeOK
<1>8. QED
  BY <1>1, <1>2, <1>3, <1>4, <1>6, <1>7, AdminKeyStep

\* Writing a patch back: a limit set below the usage is on record as overrun.
LEMMA WritePatchStep ==
    ASSUME KeysIInv, NEW m \in Admins, NEW e \in Patched(patch[m].entry), WritePatch(m, e),
           NEW k \in Keys, k = patch[m].key
    PROVE  KeysIInv'
<1> DEFINE low == e.tokenLimit > 0 /\ hist[k].settled + OpenTokens(k) > e.tokenLimit
           new == [keys[k] EXCEPT !.enabled = e.enabled, !.tokenLimit = e.tokenLimit,
                                  !.creditLimit = e.creditLimit]
           h == [hist[k] EXCEPT !.overran = hist[k].overran \/ low]
<1>1. patch[m] \in Patch /\ patch \in [Admins -> Patch] /\ NoPatch \in Patch
      /\ keys \in [Keys -> KeyEntry] /\ hist \in [Keys -> History]
  BY EmptyTypes DEF KeysIInv, KeyTypeOK
<1>2. e.enabled \in BOOLEAN /\ e.tokenLimit \in TokenLimits /\ e.creditLimit \in CreditLimits
  <2>1. e \in Settings
    BY DEF Patched
  <2>2. QED
    BY <2>1 DEF Settings
<1>3. e.tokenLimit \in Nat
  BY <1>2, KeysAssumption
<1>4. patch' = [patch EXCEPT ![m] = NoPatch]
  BY DEF WritePatch
<1>5. patch' \in [Admins -> Patch]
  BY <1>1, <1>4
<1>6. CASE Live(k) /\ (e.enabled \/ ~RemovalLocksOut(k))
  <2>1. /\ keys' = [keys EXCEPT ![k].enabled = e.enabled, ![k].tokenLimit = e.tokenLimit,
                                ![k].creditLimit = e.creditLimit]
        /\ hist' = [hist EXCEPT ![k].overran = @ \/ low]
        /\ UNCHANGED <<require, req>> /\ MaybeSaved
    BY <1>6 DEF WritePatch
  <2>2. /\ keys[k] \in KeyEntry /\ hist[k] \in History /\ keys[k].tokens \in Nat
        /\ hist[k].settled \in Nat /\ hist[k].leaked \in Nat
        /\ Sound(keys[k], hist[k], OpenTokens(k)) /\ OpenTokens(k) \in Nat
    BY KeyNumbers
  <2>3. keys' = [keys EXCEPT ![k] = new] /\ hist' = [hist EXCEPT ![k] = h]
    BY <1>1, <2>1
  <2>4. new \in KeyEntry /\ new.life = "live" /\ new.tokens = keys[k].tokens
        /\ new.tokenLimit = e.tokenLimit
    BY <1>2, <1>6, <2>2 DEF KeyEntry, Live
  <2>5. h \in History /\ h.settled = hist[k].settled /\ h.leaked = hist[k].leaked
        /\ h.slipped = hist[k].slipped /\ (~h.overran => ~low)
    <3>1. \A b \in BOOLEAN : LET q == [hist[k] EXCEPT !.overran = b] IN
              q \in History /\ q.settled = hist[k].settled /\ q.leaked = hist[k].leaked
                /\ q.slipped = hist[k].slipped /\ q.overran = b
      BY <2>2 DEF History
    <3>2. (hist[k].overran \/ low) \in BOOLEAN
      OBVIOUS
    <3>3. QED
      BY <3>1, <3>2
  <2>6. low \/ ~(e.tokenLimit > 0) \/ hist[k].settled + OpenTokens(k) <= e.tokenLimit
    BY <1>3, <2>2
  <2> HIDE DEF new, h, low
  <2>7. Sound(new, h, OpenTokens(k))
    <3>1. Exact(new, h, OpenTokens(k))
      BY <1>6, <2>2, <2>4, <2>5 DEF Sound, Exact, Live
    <3>2. Within(new, h, OpenTokens(k))
      BY <2>4, <2>5, <2>6 DEF Within
    <3>3. QED
      BY <2>4, <3>1, <3>2 DEF Sound, Clean
  <2>8. QED
    BY <1>5, <2>1, <2>3, <2>4, <2>5, <2>7, AdminKeyStep
<1>7. CASE ~(Live(k) /\ (e.enabled \/ ~RemovalLocksOut(k)))
  <2>1. UNCHANGED <<keys, require, saved, faults, req, hist>>
    BY <1>7 DEF WritePatch
  <2>2. KeyTypeOK'
    BY <1>5, <2>1 DEF KeysIInv, KeyTypeOK
  <2>3. \A j \in Keys : OpenTokens(j)' = OpenTokens(j)
    BY <2>1 DEF OpenTokens, Held, Open
  <2>4. QED
    BY <2>1, <2>2, <2>3 DEF KeysIInv, ReservationsOwned
<1>8. QED
  BY <1>6, <1>7

\* A deleted key owes nothing; a reset key owes what is open, and says so.
LEMMA RemovalSteps ==
    ASSUME KeysIInv, NEW k \in Keys, DeleteKey(k) \/ ResetUsage(k)
    PROVE  KeysIInv'
<1>1. /\ keys[k] \in KeyEntry /\ keys \in [Keys -> KeyEntry] /\ hist \in [Keys -> History]
      /\ OpenTokens(k) \in Nat /\ patch \in [Admins -> Patch]
  BY KeyNumbers DEF KeysIInv, KeyTypeOK
<1>2. NoKey \in KeyEntry /\ NoHistory \in History
  BY EmptyTypes
<1>3. CASE DeleteKey(k)
  <2> DEFINE e == [NoKey EXCEPT !.life = "deleted"]
  <2>1. /\ keys' = [keys EXCEPT ![k] = e] /\ hist' = [hist EXCEPT ![k] = NoHistory]
        /\ UNCHANGED <<require, req, patch>> /\ MaybeSaved
    BY <1>3 DEF DeleteKey
  <2>2. e \in KeyEntry /\ e.life = "deleted"
    BY <1>2 DEF KeyEntry, NoKey
  <2> HIDE DEF e
  <2>3. Sound(e, NoHistory, OpenTokens(k))
    BY <2>2 DEF Sound, Exact, Within, Clean
  <2>4. QED
    BY <1>1, <1>2, <2>1, <2>2, <2>3, AdminKeyStep
<1>4. CASE ResetUsage(k)
  <2> DEFINE e == [keys[k] EXCEPT !.tokens = 0, !.credits = 0]
             h == [NoHistory EXCEPT !.slipped = Open(k) # {}]
  <2>1. /\ keys[k].life = "live" /\ keys' = [keys EXCEPT ![k].tokens = 0, ![k].credits = 0]
        /\ hist' = [hist EXCEPT ![k] = h]
        /\ UNCHANGED <<require, req, patch>> /\ MaybeSaved
    BY <1>4 DEF ResetUsage, Live
  <2>2. keys' = [keys EXCEPT ![k] = e]
    BY <1>1, <2>1
  <2>3. e \in KeyEntry /\ e.life = "live" /\ e.tokens = 0 /\ e.tokenLimit \in Nat
    BY <1>1, <2>1, KeysAssumption DEF KeyEntry
  <2>4. h \in History /\ h.settled = 0 /\ h.leaked = 0 /\ (~h.slipped => OpenTokens(k) = 0)
    <3>1. \A b \in BOOLEAN : LET q == [NoHistory EXCEPT !.slipped = b] IN
              q \in History /\ q.settled = 0 /\ q.leaked = 0 /\ q.slipped = b
      BY DEF NoHistory, History
    <3>2. (Open(k) # {}) \in BOOLEAN
      OBVIOUS
    <3>3. QED
      BY <3>1, <3>2, NoneHeld
  <2> HIDE DEF e, h
  <2>5. Sound(e, h, OpenTokens(k))
    BY <1>1, <2>3, <2>4 DEF Sound, Exact, Within, Clean
  <2>6. QED
    BY <1>1, <2>1, <2>2, <2>3, <2>4, <2>5, AdminKeyStep
<1>5. QED
  BY <1>3, <1>4

\* Every admin call.
LEMMA AdminSteps ==
    ASSUME KeysIInv, AdminStep
    PROVE  KeysIInv'
<1>1. ASSUME NEW k \in Keys, NEW b \in BOOLEAN, NEW tl \in TokenLimits, NEW cl \in CreditLimits,
             AddKey(k, b, tl, cl)
      PROVE  KeysIInv'
  BY <1>1, AddKeyStep
<1>2. ASSUME NEW m \in Admins, NEW k \in Keys, ReadForPatch(m, k) PROVE KeysIInv'
  <2> DEFINE p == [open |-> TRUE, key |-> k, entry |-> SettingsOf(keys[k])]
  <2>1. patch' = [patch EXCEPT ![m] = p] /\ UNCHANGED <<keys, require, saved, faults, req, hist>>
    BY <1>2 DEF ReadForPatch
  <2>2. keys[k] \in KeyEntry
    BY KeyNumbers
  <2>3. p \in Patch
    BY <2>2 DEF Patch, Settings, SettingsOf, KeyEntry
  <2> HIDE DEF p
  <2>4. KeyTypeOK'
    BY <2>1, <2>3 DEF KeysIInv, KeyTypeOK
  <2>5. \A j \in Keys : OpenTokens(j)' = OpenTokens(j)
    BY <2>1 DEF OpenTokens, Held, Open
  <2>6. QED
    BY <2>1, <2>4, <2>5 DEF KeysIInv, ReservationsOwned
<1>3. ASSUME NEW m \in Admins, NEW e \in Patched(patch[m].entry), WritePatch(m, e) PROVE KeysIInv'
  <2>1. PICK k \in Keys : k = patch[m].key
    BY DEF KeysIInv, KeyTypeOK, Patch
  <2>2. QED
    BY <1>3, <2>1, WritePatchStep, Zenon
<1>4. ASSUME NEW k \in Keys, DeleteKey(k) \/ ResetUsage(k) PROVE KeysIInv'
  BY <1>4, RemovalSteps
<1>5. ASSUME NEW b \in BOOLEAN, SetRequire(b) PROVE KeysIInv'
  <2>1. require' = b /\ UNCHANGED <<keys, req, patch, hist>> /\ MaybeSaved
    BY <1>5 DEF SetRequire
  <2>2. require' \in BOOLEAN
    BY <2>1, Zenon
  <2>3. keys' \in [Keys -> KeyEntry] /\ hist' \in [Keys -> History]
        /\ req' \in [Calls -> Reservation] /\ patch' \in [Admins -> Patch]
    BY <2>1 DEF KeysIInv, KeyTypeOK
  <2>4. \A j \in Keys : OpenTokens(j)' = OpenTokens(j)
    BY <2>1 DEF OpenTokens, Held, Open
  <2>5. \A j \in Keys : SavedSound(keys'[j], hist'[j])
    BY <2>1, KeyNumbers, SoundSaved
  <2>6. QED
    BY <2>1, <2>2, <2>3, <2>4, <2>5, SaveStep DEF KeysIInv, KeyTypeOK, ReservationsOwned
<1>6. QED
  BY <1>1, <1>2, <1>3, <1>4, <1>5 DEF AdminStep

\* A crash goes back to what was saved; what the saved counter holds above the
\* settled usage has no owner left.
LEMMA CrashStep ==
    ASSUME KeysIInv, Crash
    PROVE  KeysIInv'
<1> DEFINE sk == saved.keys
           sh == saved.hist
           h(k) == [sh[k] EXCEPT !.leaked = NotNegative(sk[k].tokens - sh[k].settled)]
<1>1. /\ keys' = sk /\ require' = saved.require /\ hist' = [k \in Keys |-> h(k)]
      /\ saved' = [saved EXCEPT !.hist = hist'] /\ req' = [r \in Calls |-> Idle]
      /\ patch' = [m \in Admins |-> NoPatch] /\ UNCHANGED faults
  BY DEF Crash
<1>2. /\ sk \in [Keys -> KeyEntry] /\ sh \in [Keys -> History] /\ saved.require \in BOOLEAN
      /\ saved \in [keys: [Keys -> KeyEntry], require: BOOLEAN, hist: [Keys -> History]]
  BY DEF KeysIInv, KeyTypeOK
<1>3. Idle \in Reservation /\ Idle.phase = "idle" /\ ~Idle.done /\ NoPatch \in Patch
  BY EmptyTypes
<1>4. \A k \in Keys : OpenTokens(k)' = 0
  <2>1. \A k \in Keys : Open(k)' = {}
    BY <1>1, <1>3 DEF Open
  <2>2. \A k \in Keys : Held(k)' = {}
    BY <2>1 DEF Held
  <2>3. QED
    BY <2>2, FS_EmptySet DEF OpenTokens
<1>5. ASSUME NEW k \in Keys
      PROVE  h(k) \in History /\ Sound(sk[k], h(k), 0) /\ SavedSound(sk[k], h(k))
  <2>1. /\ sk[k] \in KeyEntry /\ sh[k] \in History /\ sk[k].tokens \in Nat /\ sk[k].tokenLimit \in Nat
        /\ sh[k].settled \in Nat
    BY <1>2, KeysAssumption DEF KeyEntry, History
  <2>2. NotNegative(sk[k].tokens - sh[k].settled) \in Nat
    BY <2>1 DEF NotNegative
  <2>3. h(k) \in History /\ h(k).settled = sh[k].settled /\ h(k).slipped = sh[k].slipped
        /\ h(k).overran = sh[k].overran /\ h(k).leaked = NotNegative(sk[k].tokens - sh[k].settled)
    <3>1. \A x \in Nat : LET q == [sh[k] EXCEPT !.leaked = x] IN
              q \in History /\ q.settled = sh[k].settled /\ q.slipped = sh[k].slipped
                /\ q.overran = sh[k].overran /\ q.leaked = x
      BY <2>1 DEF History
    <3>2. QED
      BY <2>2, <3>1
  <2>4. SavedSound(sk[k], sh[k])
    BY DEF KeysIInv
  <2>5. Exact(sk[k], h(k), 0)
    <3> HIDE DEF h
    <3>1. QED
      BY <2>1, <2>3, <2>4 DEF Exact, SavedSound, NotNegative
  <2>6. Within(sk[k], h(k), 0)
    <3> HIDE DEF h
    <3>1. QED
      BY <2>1, <2>3, <2>4 DEF Within, SavedSound
  <2>7. Clean(sk[k], h(k), 0)
    <3>1. SUFFICES ASSUME sk[k].life = "unused" PROVE h(k) = NoHistory /\ sk[k].tokens = 0
      BY DEF Clean
    <3>2. sh[k] = NoHistory /\ sk[k].tokens = 0
      BY <2>4, <3>1 DEF SavedSound, Clean
    <3>3. QED
      BY <3>2 DEF NoHistory, NotNegative
  <2>8. Sound(sk[k], h(k), 0)
    BY <2>5, <2>6, <2>7 DEF Sound
  <2>9. QED
    BY <2>1, <2>3, <2>8, SoundSaved
<1> HIDE DEF h
<1>6. hist' \in [Keys -> History] /\ \A k \in Keys : hist'[k] = h(k)
  BY <1>1, <1>5
<1>7. saved' \in [keys: [Keys -> KeyEntry], require: BOOLEAN, hist: [Keys -> History]]
      /\ saved'.keys = sk /\ saved'.hist = hist'
  BY <1>1, <1>2, <1>6
<1>8. KeyTypeOK'
  BY <1>1, <1>2, <1>3, <1>6, <1>7 DEF KeysIInv, KeyTypeOK
<1>9. ReservationsOwned'
  BY <1>1, <1>3 DEF ReservationsOwned
<1>10. \A k \in Keys : Sound(keys'[k], hist'[k], OpenTokens(k)')
  BY <1>1, <1>4, <1>5, <1>6
<1>11. \A k \in Keys : SavedSound(saved'.keys[k], saved'.hist[k])
  BY <1>5, <1>6, <1>7
<1>12. QED
  BY <1>8, <1>9, <1>10, <1>11 DEF KeysIInv

\* KeysIInv is inductive.
LEMMA KeysInductive ==
    ASSUME KeysIInv, [KeyNext]_keyVars
    PROVE  KeysIInv'
<1>1. CASE UNCHANGED keyVars
  <2>1. UNCHANGED <<keys, require, saved, faults, req, patch, hist>>
    BY <1>1 DEF keyVars
  <2>2. \A j \in Keys : OpenTokens(j)' = OpenTokens(j)
    BY <2>1 DEF OpenTokens, Held, Open
  <2>3. KeyTypeOK' /\ ReservationsOwned'
    BY <2>1 DEF KeysIInv, KeyTypeOK, ReservationsOwned
  <2>4. QED
    BY <2>1, <2>2, <2>3 DEF KeysIInv
<1>2. QED
  BY <1>1, AdminSteps, RequestSteps, CrashStep DEF KeyNext

\* The inductive invariant holds at the start.
LEMMA KeysStart ==
    ASSUME KeyInit
    PROVE  KeysIInv
<1>1. /\ keys = [k \in Keys |-> NoKey] /\ require = FALSE /\ hist = [k \in Keys |-> NoHistory]
      /\ saved = [keys |-> keys, require |-> FALSE, hist |-> hist] /\ faults = 0
      /\ req = [r \in Calls |-> Idle] /\ patch = [m \in Admins |-> NoPatch]
  BY DEF KeyInit
<1>2. NoKey \in KeyEntry /\ NoHistory \in History /\ Idle \in Reservation /\ NoPatch \in Patch
      /\ Idle.phase = "idle" /\ ~Idle.done
  BY EmptyTypes
<1>3. KeyTypeOK
  <2>1. require \in BOOLEAN
    BY <1>1, Zenon
  <2>2. keys \in [Keys -> KeyEntry] /\ hist \in [Keys -> History] /\ faults \in 0..MaxFaults
        /\ req \in [Calls -> Reservation] /\ patch \in [Admins -> Patch]
    BY <1>1, <1>2, KeysAssumption
  <2>3. saved \in [keys: [Keys -> KeyEntry], require: BOOLEAN, hist: [Keys -> History]]
    BY <1>1, <2>2
  <2>4. QED
    BY <2>1, <2>2, <2>3 DEF KeyTypeOK
<1>4. \A k \in Keys : OpenTokens(k) = 0
  <2>1. \A k \in Keys : Open(k) = {}
    BY <1>1, <1>2 DEF Open
  <2>2. QED
    BY <2>1, NoneHeld
<1>5. Sound(NoKey, NoHistory, 0) /\ SavedSound(NoKey, NoHistory)
  BY DEF Sound, SavedSound, Exact, Within, Clean, NoKey, NoHistory
<1>6. ReservationsOwned
  BY <1>1, <1>2 DEF ReservationsOwned
<1>7. QED
  BY <1>1, <1>3, <1>4, <1>5, <1>6 DEF KeysIInv

\* The usage counter of every key is exactly the settled usage plus the open
\* reservations plus what crashes orphaned, and concurrent requests cannot
\* oversubscribe a limit, for any number of keys and requests and any limits
\* (ReserveApiKeyRequestUsage, FinalizeApiKeyUsageReservation, release).
THEOREM KeyUsageAlwaysWithin == KeySpec => []KeyUsageWithinLimit
<1>1. KeyInit => KeysIInv
  BY KeysStart
<1>2. KeysIInv /\ [KeyNext]_keyVars => KeysIInv'
  BY KeysInductive
<1>3. KeysIInv => KeyUsageWithinLimit
  BY DEF KeysIInv, KeyUsageWithinLimit, UsageInv, UsageExact, RealUsageWithinLimit,
         Sound, Exact, Within, Live
<1>4. QED
  BY <1>1, <1>2, <1>3, PTL DEF KeySpec

-----------------------------------------------------------------------------
\* A check that passes leaves a key to sign in with: taking one enabled key away
\* is refused while it is the only one.
LEMMA OneStaysEnabled ==
    ASSUME KeysIInv, require, ~LockedOut, NEW k \in Keys, ~RemovalLocksOut(k)
    PROVE  \E j \in Keys : j # k /\ Enabled(j)
<1>1. PICK i \in Keys : Enabled(i)
  BY DEF LockedOut, EnabledKeys
<1>2. CASE i # k
  BY <1>1, <1>2
<1>3. CASE i = k
  <2>1. IsFiniteSet(EnabledKeys)
    BY KeysAssumption, FS_Subset DEF EnabledKeys
  <2>2. Cardinality(EnabledKeys) \in Nat /\ ~(Cardinality(EnabledKeys) <= 1)
    BY <1>1, <1>3, <2>1, FS_CardinalityType DEF RemovalLocksOut
  <2>3. SUFFICES ASSUME \A j \in Keys : Enabled(j) => j = k PROVE FALSE
    OBVIOUS
  <2>4. EnabledKeys = {k}
    BY <1>1, <1>3, <2>3 DEF EnabledKeys
  <2>5. Cardinality({k}) = 1
    BY FS_Singleton
  <2>6. QED
    BY <2>2, <2>4, <2>5
<1>4. QED
  BY <1>2, <1>3

\* No admin call locks the proxy: the guards are evaluated on the keys as they
\* are under the lock, however old the copy is that the call writes back
\* (removingKeyLocksOutLocked, UpdateSettingsPatchGuarded).
THEOREM AdminNeverLocksOutAlways == KeySpec => AdminNeverLocksOut
<1>1. ASSUME KeysIInv, AdminStep, ~LockedOut PROVE ~LockedOut'
  <2>1. SUFFICES ASSUME require' PROVE \E j \in Keys : Enabled(j)'
    BY DEF LockedOut, EnabledKeys
  <2>2. keys \in [Keys -> KeyEntry]
    BY <1>1 DEF KeysIInv, KeyTypeOK
  <2>3. ASSUME UNCHANGED require, NEW k \in Keys, NEW e, keys' = [keys EXCEPT ![k] = e],
               (e.life = "live" /\ e.enabled) \/ ~RemovalLocksOut(k) \/ ~Enabled(k)
        PROVE  \E j \in Keys : Enabled(j)'
    <3>1. PICK i \in Keys : Enabled(i)
      BY <1>1, <2>1, <2>3 DEF LockedOut, EnabledKeys
    <3>2. keys'[k] = e /\ \A j \in Keys : j # k => keys'[j] = keys[j]
      BY <2>2, <2>3
    <3>3. CASE e.life = "live" /\ e.enabled
      BY <3>2, <3>3 DEF Enabled, Live
    <3>4. CASE ~RemovalLocksOut(k)
      <4>1. PICK j \in Keys : j # k /\ Enabled(j)
        BY <1>1, <2>1, <2>3, <3>4, OneStaysEnabled
      <4>2. QED
        BY <3>2, <4>1 DEF Enabled, Live
    <3>5. CASE ~Enabled(k)
      BY <3>1, <3>2, <3>5 DEF Enabled, Live
    <3>6. QED
      BY <2>3, <3>3, <3>4, <3>5
  <2>4. ASSUME UNCHANGED <<keys, require>> PROVE \E j \in Keys : Enabled(j)'
    BY <1>1, <2>1, <2>4 DEF LockedOut, EnabledKeys, Enabled, Live
  <2>5. ASSUME NEW k \in Keys, NEW b \in BOOLEAN, NEW tl \in TokenLimits, NEW cl \in CreditLimits,
               AddKey(k, b, tl, cl)
        PROVE  \E j \in Keys : Enabled(j)'
    <3> DEFINE e == [NoKey EXCEPT !.life = "live", !.enabled = b, !.tokenLimit = tl, !.creditLimit = cl]
    <3>1. keys' = [keys EXCEPT ![k] = e] /\ UNCHANGED require /\ ~Enabled(k)
      BY <2>5 DEF AddKey, Enabled, Live
    <3> HIDE DEF e
    <3>2. QED
      BY <2>3, <3>1
  <2>6. ASSUME NEW m \in Admins, NEW k \in Keys, ReadForPatch(m, k) PROVE \E j \in Keys : Enabled(j)'
    BY <2>4, <2>6 DEF ReadForPatch
  <2>7. ASSUME NEW m \in Admins, NEW s \in Patched(patch[m].entry), WritePatch(m, s)
        PROVE  \E j \in Keys : Enabled(j)'
    <3>1. PICK k \in Keys : k = patch[m].key
      BY <1>1 DEF KeysIInv, KeyTypeOK, Patch
    <3>2. CASE Live(k) /\ (s.enabled \/ ~RemovalLocksOut(k))
      <4> DEFINE e == [keys[k] EXCEPT !.enabled = s.enabled, !.tokenLimit = s.tokenLimit,
                                      !.creditLimit = s.creditLimit]
      <4>1. keys' = [keys EXCEPT ![k].enabled = s.enabled, ![k].tokenLimit = s.tokenLimit,
                                 ![k].creditLimit = s.creditLimit] /\ UNCHANGED require
        BY <2>7, <3>1, <3>2 DEF WritePatch
      <4>2. keys' = [keys EXCEPT ![k] = e]
        BY <2>2, <4>1
      <4>3. e.life = "live" /\ e.enabled = s.enabled
        BY <2>2, <3>2 DEF Live, KeyEntry
      <4> HIDE DEF e
      <4>4. QED
        BY <2>3, <3>2, <4>1, <4>2, <4>3
    <3>3. CASE ~(Live(k) /\ (s.enabled \/ ~RemovalLocksOut(k)))
      BY <2>4, <2>7, <3>1, <3>3 DEF WritePatch
    <3>4. QED
      BY <3>2, <3>3
  <2>8. ASSUME NEW k \in Keys, DeleteKey(k) PROVE \E j \in Keys : Enabled(j)'
    <3> DEFINE e == [NoKey EXCEPT !.life = "deleted"]
    <3>1. keys' = [keys EXCEPT ![k] = e] /\ UNCHANGED require /\ ~RemovalLocksOut(k)
      BY <2>8 DEF DeleteKey
    <3> HIDE DEF e
    <3>2. QED
      BY <2>3, <3>1
  <2>9. ASSUME NEW k \in Keys, ResetUsage(k) PROVE \E j \in Keys : Enabled(j)'
    <3>1. keys' = [keys EXCEPT ![k].tokens = 0, ![k].credits = 0] /\ UNCHANGED require
      BY <2>9 DEF ResetUsage
    <3>2. \A j \in Keys : keys'[j].life = keys[j].life /\ keys'[j].enabled = keys[j].enabled
      BY <2>2, <3>1 DEF KeyEntry
    <3>3. QED
      BY <1>1, <2>1, <3>1, <3>2 DEF LockedOut, EnabledKeys, Enabled, Live
  <2>10. ASSUME NEW b \in BOOLEAN, SetRequire(b) PROVE \E j \in Keys : Enabled(j)'
    BY <2>1, <2>10 DEF SetRequire, EnabledKeys, Enabled, Live
  <2>11. QED
    BY <1>1, <2>5, <2>6, <2>7, <2>8, <2>9, <2>10 DEF AdminStep
<1>2. KeyInit => KeysIInv
  BY KeysStart
<1>3. KeysIInv /\ [KeyNext]_keyVars => KeysIInv'
  BY KeysInductive
<1>4. KeysIInv => (AdminStep /\ ~LockedOut => ~LockedOut')
  BY <1>1
<1>5. KeysIInv /\ [KeyNext]_keyVars => [AdminStep /\ ~LockedOut => ~LockedOut']_keyVars
  BY <1>4
<1>6. QED
  BY <1>2, <1>3, <1>5, PTL DEF KeySpec, AdminNeverLocksOut

=============================================================================
