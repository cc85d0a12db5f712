---------------------------- MODULE AccountRows ----------------------------
(***************************************************************************)
(* The stored account rows (config/config.go, config/credentials.go), the  *)
(* copies of them the pool rotates, and everyone who writes a row from a   *)
(* copy taken earlier: disableAccount from the copy a request picked,      *)
(* apiUpdateAccount and batchSetEnabled from GetAccounts, and the account  *)
(* info sweep from the copy it held during its network calls.              *)
(*                                                                         *)
(* UpdateAccount replaces the whole row except its credentials.  Counters  *)
(* are kept in the pool's copy and written through by RecordOutcome.       *)
(* A row is reduced to: live, on (enabled and not banned), label (the      *)
(* fields an admin edits), cred (how often the credentials were renewed)   *)
(* and count (finished requests).                                          *)
(***************************************************************************)
EXTENDS Integers, FiniteSets

CONSTANTS Accounts,
          Requests,   \* request goroutines
          Editors,    \* admin handlers and sweep workers
          Labels,
          MaxFinals,  \* bound on the requests counted per account
          MaxCred     \* bound on the renewals per account

ASSUME RowsAssumption ==
    MaxFinals \in Nat /\ MaxCred \in Nat /\ Accounts # {} /\ Labels # {}

VARIABLES
    row,     \* the stored rows
    inRot,   \* accounts in the pool's rotation
    copy,    \* the pool's copies, meaningful for accounts in rotation
    held,    \* the copy each request or editor works from
    finals,  \* requests recorded against each account (history)
    missed   \* a failed save skipped a Reload since the last one (history)

vars == <<row, inRot, copy, held, finals, missed>>

Actors == Requests \cup Editors
Row == [live: BOOLEAN, on: BOOLEAN, label: Labels, cred: 0..MaxCred, count: 0..MaxFinals]
AnyAccount == CHOOSE a \in Accounts : TRUE
AnyLabel == CHOOSE l \in Labels : TRUE
NewRow == [live |-> TRUE, on |-> TRUE, label |-> AnyLabel, cred |-> 0, count |-> 0]

\* phase: free, holding a copy, or between a write and the Reload it owes.
Free == [phase |-> "free", acct |-> AnyAccount, snap |-> NewRow]

TypeOK ==
    /\ row \in [Accounts -> Row] /\ copy \in [Accounts -> Row]
    /\ inRot \subseteq Accounts
    /\ held \in [Actors -> [phase: {"free", "holds", "wrote", "renewed"}, acct: Accounts, snap: Row]]
    /\ finals \in [Accounts -> Nat] /\ missed \in BOOLEAN
    /\ \A a \in inRot : copy[a].live /\ copy[a].on

Init ==
    /\ row = [a \in Accounts |-> NewRow]
    /\ inRot = Accounts /\ copy = row
    /\ held = [x \in Actors |-> Free]
    /\ finals = [a \in Accounts |-> 0] /\ missed = FALSE

-----------------------------------------------------------------------------
\* Faulty variant: the caller's copy replaces the credentials too.
UpdateAccountAll(a, snap) == row' = [row EXCEPT ![a] = IF @.live THEN snap ELSE @]

\* Faulty variant: an update of a row that is gone puts it back.
UpdateAccountUpserts(a, snap) == row' = [row EXCEPT ![a] = [snap EXCEPT !.cred = row[a].cred]]

\* UpdateAccount with preserveAccountCredentials; a row that is gone stays gone.
UpdateAccount(a, snap) ==
    row' = [row EXCEPT ![a] = IF @.live THEN [snap EXCEPT !.cred = row[a].cred] ELSE @]

\* A request goes on with the copy it picked; an editor is done.
GoesOn(x) == IF x \in Requests THEN [held[x] EXCEPT !.phase = "holds"] ELSE Free

\* After its write an actor reloads the pool, unless the write returned an
\* error: the row is gone, or the save failed after memory had changed.
OwesReload(x, a) ==
    \/ row[a].live /\ held' = [held EXCEPT ![x].phase = "wrote"] /\ UNCHANGED missed
    \/ row[a].live /\ held' = [held EXCEPT ![x] = GoesOn(x)] /\ missed' = TRUE
    \/ ~row[a].live /\ held' = [held EXCEPT ![x] = GoesOn(x)] /\ UNCHANGED missed

\* pickAccount hands the request a copy of the rotation's copy.
Pick(r, a) ==
    /\ held[r].phase = "free" /\ a \in inRot
    /\ held' = [held EXCEPT ![r] = [phase |-> "holds", acct |-> a, snap |-> copy[a]]]
    /\ UNCHANGED <<row, inRot, copy, finals, missed>>

\* handleAccountFailure -> disableAccount: the picked copy, switched off.
DisableAccount(r) ==
    LET a == held[r].acct IN
    /\ held[r].phase = "holds" /\ held[r].snap.on
    /\ UpdateAccount(a, [held[r].snap EXCEPT !.on = FALSE])
    /\ OwesReload(r, a)
    /\ UNCHANGED <<inRot, copy, finals>>

\* recordFinalRequest -> RecordOutcome, under p.mu: count on the rotation's copy
\* and write it through, or count on the stored row of an account out of rotation.
RecordOutcome(r) ==
    LET a == held[r].acct
        n == IF a \in inRot THEN copy[a].count + 1 ELSE row[a].count + 1
    IN  /\ held[r].phase = "holds"
        /\ finals[a] < MaxFinals
        /\ finals' = [finals EXCEPT ![a] = @ + 1]
        /\ copy' = IF a \in inRot THEN [copy EXCEPT ![a].count = n] ELSE copy
        /\ row' = IF row[a].live THEN [row EXCEPT ![a].count = n] ELSE row
        /\ held' = [held EXCEPT ![r] = Free]
        /\ UNCHANGED <<inRot, missed>>

\* refreshStoredAccount, in a request or in the sweep: store the renewed
\* credentials, then Reload.  Callers of one account are serialized by its
\* refresh lock (module TokenRefresh).
RenewToken(x) ==
    LET a == held[x].acct IN
    /\ held[x].phase = "holds" /\ row[a].live /\ row[a].cred < MaxCred
    /\ row' = [row EXCEPT ![a].cred = @ + 1]
    /\ \/ /\ held' = [held EXCEPT ![x] = [phase |-> "renewed", acct |-> a,
                                       snap |-> [held[x].snap EXCEPT !.cred = row[a].cred + 1]]]
          /\ UNCHANGED missed
       \/ missed' = TRUE /\ UNCHANGED held
    /\ UNCHANGED <<inRot, copy, finals>>

\* An editor reads the row it is going to change.
ReadRow(e, a) ==
    /\ held[e].phase = "free" /\ row[a].live
    /\ held' = [held EXCEPT ![e] = [phase |-> "holds", acct |-> a, snap |-> row[a]]]
    /\ UNCHANGED <<row, inRot, copy, finals, missed>>

\* It writes the copy back switched on or off (enable, silence, ban, unban) or
\* with other settings.
WriteRow(e) ==
    LET a == held[e].acct IN
    /\ held[e].phase = "holds"
    /\ \/ \E b \in BOOLEAN : UpdateAccount(a, [held[e].snap EXCEPT !.on = b])
       \/ \E l \in Labels : UpdateAccount(a, [held[e].snap EXCEPT !.label = l])
    /\ OwesReload(e, a)
    /\ UNCHANGED <<inRot, copy, finals>>

\* DeleteAccount.
DeleteRow(e) ==
    LET a == held[e].acct IN
    /\ held[e].phase = "holds"
    /\ row' = [row EXCEPT ![a].live = FALSE]
    /\ OwesReload(e, a)
    /\ UNCHANGED <<inRot, copy, finals>>

\* Faulty variant: the copies of accounts already in rotation are kept.
ReloadKeepsCopies(x) ==
    LET now == {a \in Accounts : row[a].live /\ row[a].on} IN
    /\ held[x].phase \in {"wrote", "renewed"}
    /\ inRot' = now
    /\ copy' = [a \in Accounts |-> IF a \notin now THEN NewRow ELSE IF a \in inRot THEN copy[a] ELSE row[a]]
    /\ held' = [held EXCEPT ![x] = IF @.phase = "wrote" THEN GoesOn(x) ELSE [@ EXCEPT !.phase = "holds"]]
    /\ missed' = FALSE
    /\ UNCHANGED <<row, finals>>

\* Reload, after which a request goes on with the copy it holds; disableAccount
\* left that copy as it was.
Reload(x) ==
    LET now == {a \in Accounts : row[a].live /\ row[a].on} IN
    /\ held[x].phase \in {"wrote", "renewed"}
    /\ inRot' = now
    /\ copy' = [a \in Accounts |-> IF a \in now THEN row[a] ELSE NewRow]
    /\ held' = [held EXCEPT ![x] = IF @.phase = "wrote" THEN GoesOn(x) ELSE [@ EXCEPT !.phase = "holds"]]
    /\ missed' = FALSE
    /\ UNCHANGED <<row, finals>>

Next ==
    \/ \E r \in Requests : DisableAccount(r) \/ RecordOutcome(r) \/ \E a \in Accounts : Pick(r, a)
    \/ \E e \in Editors : WriteRow(e) \/ DeleteRow(e) \/ \E a \in Accounts : ReadRow(e, a)
    \/ \E x \in Actors : RenewToken(x) \/ Reload(x)

Spec == Init /\ [][Next]_vars

-----------------------------------------------------------------------------
\* No writer puts back credentials older than the stored ones, whatever copy it
\* works from ("Status/admin updates must not replace credentials rotated after
\* their snapshot", config/config.go).
CredentialsMoveForward == [][\A a \in Accounts : row'[a].cred >= row[a].cred]_vars

\* A deleted account stays deleted: no late write from an older copy revives it.
DeletedStaysDeleted == [][\A a \in Accounts : ~row[a].live => ~row'[a].live]_vars

\* Whatever the interleaving, no request is counted twice: the stored count
\* and the pool's never pass the number of requests recorded.
NeverOvercounted ==
    \A a \in Accounts : row[a].count <= finals[a] /\ (a \in inRot => copy[a].count <= finals[a])

\* No copy anyone works from counts more than what was recorded.
CopiesCounted == \A x \in Actors : held[x].snap.count <= finals[held[x].acct]

\* Type correctness (only usable accounts are in rotation) and the counts.
RowsInv == TypeOK /\ NeverOvercounted /\ CopiesCounted

\* Nobody owes a Reload and no failed save skipped one.
Quiet == ~missed /\ \A x \in Actors : held[x].phase \in {"free", "holds"}

\* When no writer owes a Reload and no failed save skipped one, the rotation's
\* copies are the stored rows: accounts, settings, credentials and counters.
QuietCopiesFresh ==
    Quiet
        => /\ inRot = {a \in Accounts : row[a].live /\ row[a].on}
           /\ \A a \in inRot : copy[a] = row[a]

\* The claim of RecordOutcome that it is called once per final request, "so the
\* account's numbers match the request log".
CountsMatchLog == \A a \in Accounts : row[a].live => row[a].count = finals[a]

=============================================================================
