----------------------- MODULE RequestFailover_proofs -----------------------
(***************************************************************************)
(* What the retry and failover loop guarantees for any number of requests, *)
(* accounts and conversations, and whatever limits the retry plan sets.    *)
(*                                                                         *)
(* The loop of one request touches only its own record, so the argument is *)
(* about one record: each step of the code takes a sound loop to a sound   *)
(* loop.  The pool and the bindings enter only through the pick.           *)
(***************************************************************************)
EXTENDS RequestFailover, FiniteSetTheorems, TLAPS

\* The account in hand is one the request has not given up on; between two
\* picks there is none.
InHand(q) ==
    /\ q.pc \in {"attempt", "call"} => q.acct \in Accounts \ q.excluded
    /\ q.pc \in {"idle", "pick"} => q.acct \notin Accounts \ q.excluded

\* Accounts not reached yet have no attempts, the one in hand has as many as
\* the inner loop has counted, and every turn begins below both limits.
Budget(q) ==
    /\ q.total <= MaxPerRequest
    /\ \A a \in Accounts : q.tries[a] <= MaxPerAccount
    /\ q.pc # "done" => \A a \in Accounts \ q.excluded : a # q.acct => q.tries[a] = 0
    /\ q.pc \in {"attempt", "call"} => q.attempt < MaxPerAccount
    /\ q.pc = "attempt" => q.total < MaxPerRequest /\ q.tries[q.acct] = q.attempt
    /\ q.pc = "call" => q.tries[q.acct] = q.attempt + 1

\* Output exists only of the running call, or of the last one.
Output(q) ==
    /\ q.pc \in {"idle", "pick", "attempt"} => ~q.started /\ q.sources = {}
    /\ q.sources \subseteq {q.total}
    /\ q.pc = "call" /\ ~q.started => q.sources = {}

\* The record and the reservation are settled by the last step and no other.
Settled(q) ==
    /\ IF q.pc = "done"
         THEN q.finals = 1 /\ q.resv = (IF q.outcome = "ok" THEN "finalized" ELSE "released")
         ELSE q.finals = 0 /\ q.resv = "open"
    /\ q.pc = "done" <=> q.outcome # "none"
    /\ q.lastErr = "client" => q.pc \in {"pick", "done"} /\ q.outcome # "ok"

SoundLoop(q) == InHand(q) /\ Budget(q) /\ Output(q) /\ Settled(q)

\* The inductive invariant of the whole system.
FailoverIInv ==
    /\ req \in [Requests -> Loops]
    /\ \A r \in Requests : SoundLoop(req[r])
    /\ serving \subseteq Accounts
    /\ bound \in [Conversations -> Accounts \cup {NoAccount}]
    /\ answered \in [Conversations -> SUBSET Accounts]
    /\ BoundToAnswerer

-----------------------------------------------------------------------------
\* What an attempt leaves to be decided: it is counted, and nothing is settled.
Tried(q) ==
    /\ q \in Loops
    /\ q.acct \in Accounts \ q.excluded
    /\ q.attempt < MaxPerAccount /\ q.total <= MaxPerRequest
    /\ q.tries[q.acct] = q.attempt + 1
    /\ \A a \in Accounts : q.tries[a] <= MaxPerAccount
    /\ \A a \in Accounts \ q.excluded : a # q.acct => q.tries[a] = 0
    /\ q.sources \subseteq {q.total} /\ (~q.started => q.sources = {})
    /\ q.finals = 0 /\ q.resv = "open" /\ q.outcome = "none" /\ q.lastErr # "client"

\* A request that has not begun is sound.
LEMMA IdleSound == Idle \in Loops /\ SoundLoop(Idle)
<1>1. Idle \in Loops
  BY DEF Idle, Loops, Errors, Outcomes
<1>2. InHand(Idle) /\ Output(Idle) /\ Settled(Idle)
  BY FailoverAssumption DEF Idle, InHand, Output, Settled
<1>3. Budget(Idle)
  BY FailoverAssumption DEF Idle, Budget
<1>4. QED
  BY <1>1, <1>2, <1>3 DEF SoundLoop

\* Counting a turn of the inner loop uses up one of each allowance.
LEMMA CountedTried ==
    ASSUME NEW q \in Loops, SoundLoop(q), q.pc = "attempt"
    PROVE  Tried(Counted(q))
<1> DEFINE n == Counted(q)
<1>1. /\ q.acct \in Accounts \ q.excluded
      /\ q.attempt < MaxPerAccount /\ q.total < MaxPerRequest /\ q.tries[q.acct] = q.attempt
      /\ \A a \in Accounts : q.tries[a] <= MaxPerAccount
      /\ \A a \in Accounts \ q.excluded : a # q.acct => q.tries[a] = 0
  BY DEF SoundLoop, InHand, Budget
<1>2. /\ ~q.started /\ q.sources = {} /\ q.finals = 0 /\ q.resv = "open"
      /\ q.outcome = "none" /\ q.lastErr # "client"
  BY DEF SoundLoop, Output, Settled
<1>3. /\ n = [q EXCEPT !.total = q.total + 1, !.tries = [q.tries EXCEPT ![q.acct] = @ + 1]]
  BY DEF Counted, Loops
<1>4. n \in Loops
  <2>1. q.total + 1 \in Nat /\ [q.tries EXCEPT ![q.acct] = @ + 1] \in [Accounts -> Nat]
    BY <1>1 DEF Loops
  <2>2. \A x \in Nat, y \in [Accounts -> Nat] : [q EXCEPT !.total = x, !.tries = y] \in Loops
    BY DEF Loops
  <2>3. QED
    BY <1>3, <2>1, <2>2
<1>5. /\ n.acct = q.acct /\ n.excluded = q.excluded /\ n.attempt = q.attempt
      /\ n.total = q.total + 1 /\ n.tries = [q.tries EXCEPT ![q.acct] = @ + 1]
      /\ n.started = q.started /\ n.sources = q.sources /\ n.finals = q.finals
      /\ n.resv = q.resv /\ n.outcome = q.outcome /\ n.lastErr = q.lastErr
  BY <1>3 DEF Loops
<1> HIDE DEF n
<1>6. q.tries \in [Accounts -> Nat] /\ q.attempt \in Nat /\ q.total \in Nat
  BY DEF Loops
<1>7. /\ n.tries[n.acct] = n.attempt + 1
      /\ \A a \in Accounts : n.tries[a] <= MaxPerAccount
      /\ \A a \in Accounts \ n.excluded : a # n.acct => n.tries[a] = 0
      /\ n.total <= MaxPerRequest
  BY <1>1, <1>5, <1>6, FailoverAssumption
<1>8. Tried(n)
  BY <1>1, <1>2, <1>4, <1>5, <1>7 DEF Tried
<1>9. QED
  BY <1>8 DEF n

\* The end of a request, whichever way it ends, settles it once.
LEMMA FinishedSound ==
    ASSUME NEW q \in Loops, NEW o \in Outcomes \ {"none"},
           q.total <= MaxPerRequest, \A a \in Accounts : q.tries[a] <= MaxPerAccount,
           q.sources \subseteq {q.total}, q.finals = 0,
           q.resv = (IF o = "ok" THEN "finalized" ELSE "open"),
           q.lastErr = "client" => o # "ok"
    PROVE  Finished(q, o) \in Loops /\ SoundLoop(Finished(q, o))
<1> DEFINE n == Finished(q, o)
<1>1. n \in Loops
  <2>1. \A f \in Nat, v \in {"open", "finalized", "released"} :
            [q EXCEPT !.pc = "done", !.outcome = o, !.finals = f, !.resv = v] \in Loops
    BY DEF Loops
  <2>2. q.finals + 1 \in Nat
    BY DEF Loops
  <2>3. (IF q.resv = "open" THEN "released" ELSE q.resv) \in {"open", "finalized", "released"}
    BY DEF Loops
  <2>4. QED
    BY <2>1, <2>2, <2>3 DEF Finished
<1>2. /\ n.pc = "done" /\ n.outcome = o /\ n.finals = 1
      /\ n.resv = (IF o = "ok" THEN "finalized" ELSE "released")
      /\ n.total = q.total /\ n.tries = q.tries /\ n.sources = q.sources /\ n.lastErr = q.lastErr
  BY DEF Finished, Loops
<1> HIDE DEF n
<1>3. InHand(n) /\ Output(n)
  BY <1>2 DEF InHand, Output
<1>4. Budget(n)
  BY <1>2 DEF Budget
<1>5. Settled(n)
  BY <1>2 DEF Settled
<1>6. QED
  BY <1>1, <1>3, <1>4, <1>5 DEF SoundLoop, n

\* A failed attempt: the end, another turn within the allowance, or the account
\* is given up and the loop picks again.
LEMMA FailedSound ==
    ASSUME NEW q, Tried(q), NEW err \in Errors
    PROVE  Failed(q, err) \in Loops /\ SoundLoop(Failed(q, err))
<1> DEFINE n == [q EXCEPT !.lastErr = err]
<1>1. n \in Loops /\ n.lastErr = err
  BY DEF Tried, Loops
<1>2. /\ n.acct = q.acct /\ n.excluded = q.excluded /\ n.attempt = q.attempt
      /\ n.total = q.total /\ n.tries = q.tries /\ n.started = q.started
      /\ n.sources = q.sources /\ n.finals = q.finals /\ n.resv = q.resv /\ n.outcome = q.outcome
  BY DEF Tried, Loops
<1> HIDE DEF n
<1>3. CASE q.started
  <2>1. Failed(q, err) = Finished(n, "cut")
    BY <1>3 DEF Failed, n
  <2>2. QED
    BY <2>1, <1>1, <1>2, FinishedSound DEF Tried, Outcomes
<1>4. CASE ~q.started /\ canRetrySameAccount(err, q.attempt, q.total)
  <2> DEFINE m == [n EXCEPT !.pc = "attempt", !.attempt = @ + 1]
  <2>1. Failed(q, err) = m
    BY <1>4 DEF Failed, n
  <2>2. m \in Loops
    <3>1. n.attempt + 1 \in Nat
      BY <1>1 DEF Loops
    <3>2. \A x \in Nat : [n EXCEPT !.pc = "attempt", !.attempt = x] \in Loops
      BY <1>1 DEF Loops
    <3>3. QED
      BY <3>1, <3>2
  <2>3. /\ m.pc = "attempt" /\ m.attempt = q.attempt + 1
        /\ m.acct = q.acct /\ m.excluded = q.excluded
        /\ m.total = q.total /\ m.tries = q.tries /\ m.started = q.started /\ m.lastErr = err
        /\ m.sources = q.sources /\ m.finals = q.finals /\ m.resv = q.resv /\ m.outcome = q.outcome
    BY <1>1, <1>2 DEF Loops
  <2> HIDE DEF m
  <2>4. InHand(m) /\ Output(m)
    BY <1>4, <2>3 DEF Tried, InHand, Output
  <2>5. Budget(m)
    BY <1>4, <2>3 DEF Tried, Budget, canRetrySameAccount
  <2>6. Settled(m)
    BY <1>4, <2>3 DEF Tried, Settled, canRetrySameAccount
  <2>7. QED
    BY <2>1, <2>2, <2>4, <2>5, <2>6 DEF SoundLoop
<1>5. CASE ~q.started /\ ~canRetrySameAccount(err, q.attempt, q.total)
  <2> DEFINE m == [n EXCEPT !.pc = "pick", !.excluded = @ \cup {q.acct}]
  <2>1. Failed(q, err) = m
    BY <1>5 DEF Failed, n
  <2>2. m \in Loops
    BY <1>1 DEF Loops, Tried
  <2>3. /\ m.pc = "pick" /\ m.excluded = q.excluded \cup {q.acct}
        /\ m.acct = q.acct /\ m.attempt = q.attempt
        /\ m.total = q.total /\ m.tries = q.tries /\ m.started = q.started /\ m.lastErr = err
        /\ m.sources = q.sources /\ m.finals = q.finals /\ m.resv = q.resv /\ m.outcome = q.outcome
    BY <1>1, <1>2 DEF Loops
  <2> HIDE DEF m
  <2>4. InHand(m) /\ Output(m)
    BY <1>5, <2>3 DEF Tried, InHand, Output
  <2>5. Budget(m)
    BY <2>3 DEF Tried, Budget
  <2>6. Settled(m)
    BY <2>3 DEF Tried, Settled
  <2>7. QED
    BY <2>1, <2>2, <2>4, <2>5, <2>6 DEF SoundLoop
<1>6. QED
  BY <1>3, <1>4, <1>5

\* A running call is an attempt in this sense.
LEMMA CallTried ==
    ASSUME NEW q \in Loops, SoundLoop(q), q.pc = "call"
    PROVE  Tried(q)
BY DEF SoundLoop, InHand, Budget, Output, Settled, Tried

-----------------------------------------------------------------------------
\* A step of one request's loop: the other requests are where they were.
LEMMA LoopStep ==
    ASSUME FailoverIInv, NEW r \in Requests, NEW n \in Loops, SoundLoop(n),
           req' = [req EXCEPT ![r] = n], serving' \subseteq Accounts,
           UNCHANGED <<bound, answered>>
    PROVE  FailoverIInv'
<1>1. req' \in [Requests -> Loops]
  BY DEF FailoverIInv
<1>2. \A p \in Requests : SoundLoop(req'[p])
  BY DEF FailoverIInv
<1>3. BoundToAnswerer'
  BY DEF FailoverIInv, BoundToAnswerer
<1>4. QED
  BY <1>1, <1>2, <1>3 DEF FailoverIInv

\* Every pick is an account that can serve and that the request has not tried.
LEMMA PickFresh ==
    ASSUME FailoverIInv, NEW r \in Requests, NEW a \in Picks(r)
    PROVE  a \in serving /\ a \in Accounts \ req[r].excluded
BY DEF FailoverIInv, Picks

\* handleAccountFailure takes accounts out of the pool and adds none.
LEMMA FailureShrinks ==
    ASSUME FailoverIInv, NEW a, NEW err, serving' \in AfterFailure(a, err)
    PROVE  serving' \subseteq Accounts
BY DEF FailoverIInv, AfterFailure

\* The steps that touch no reservation and end nothing.
LEMMA QuietSteps ==
    ASSUME FailoverIInv, NEW r \in Requests,
           Start(r) \/ PickAccount(r) \/ BeginCall(r) \/ Emit(r) \/ ClientLeaves(r)
    PROVE  FailoverIInv'
<1> DEFINE q == req[r]
<1>1. q \in Loops /\ SoundLoop(q) /\ serving \subseteq Accounts /\ req \in [Requests -> Loops]
  BY DEF FailoverIInv
<1>2. CASE Start(r)
  <2> DEFINE n == [q EXCEPT !.pc = "pick"]
  <2>1. n \in Loops
    BY <1>1 DEF Loops
  <2>2. /\ n.pc = "pick" /\ n.acct = q.acct /\ n.attempt = q.attempt /\ n.excluded = q.excluded
        /\ n.total = q.total /\ n.tries = q.tries /\ n.started = q.started /\ n.sources = q.sources
        /\ n.finals = q.finals /\ n.resv = q.resv /\ n.outcome = q.outcome /\ n.lastErr = q.lastErr
    BY <1>1 DEF Loops
  <2>3. q.pc = "idle" /\ req' = [req EXCEPT ![r] = n] /\ UNCHANGED <<serving, bound, answered>>
    BY <1>2 DEF Start
  <2> HIDE DEF n
  <2>4. SoundLoop(n)
    BY <1>1, <2>2, <2>3 DEF SoundLoop, InHand, Budget, Output, Settled
  <2>5. QED
    BY <1>1, <2>1, <2>3, <2>4, LoopStep
<1>3. CASE PickAccount(r)
  <2>1. PICK a \in Picks(r) :
            req' = [req EXCEPT ![r].pc = "attempt", ![r].acct = a, ![r].attempt = 0]
    BY <1>3 DEF PickAccount
  <2>2. q.pc = "pick" /\ q.total < MaxPerRequest /\ q.lastErr # "client"
        /\ UNCHANGED <<serving, bound, answered>>
    BY <1>3 DEF PickAccount, LoopGoesOn
  <2>3. a \in Accounts \ q.excluded
    BY PickFresh
  <2> DEFINE n == [q EXCEPT !.pc = "attempt", !.acct = a, !.attempt = 0]
  <2>4. n \in Loops
    BY <1>1, <2>3 DEF Loops
  <2>5. /\ n.pc = "attempt" /\ n.acct = a /\ n.attempt = 0 /\ n.excluded = q.excluded
        /\ n.total = q.total /\ n.tries = q.tries /\ n.started = q.started /\ n.sources = q.sources
        /\ n.finals = q.finals /\ n.resv = q.resv /\ n.outcome = q.outcome /\ n.lastErr = q.lastErr
    BY <1>1 DEF Loops
  <2>6. req' = [req EXCEPT ![r] = n]
    BY <1>1, <2>1
  <2> HIDE DEF n
  <2>7. InHand(n) /\ Output(n) /\ Settled(n)
    BY <1>1, <2>2, <2>3, <2>5 DEF SoundLoop, InHand, Output, Settled
  <2>8. Budget(n)
    BY <1>1, <2>2, <2>3, <2>5, FailoverAssumption DEF SoundLoop, InHand, Budget
  <2>9. QED
    BY <1>1, <2>2, <2>4, <2>6, <2>7, <2>8, LoopStep DEF SoundLoop
<1>4. CASE BeginCall(r)
  <2> DEFINE c == Counted(q)
             n == [c EXCEPT !.pc = "call"]
  <2>1. q.pc = "attempt" /\ req' = [req EXCEPT ![r] = n] /\ UNCHANGED <<serving, bound, answered>>
    BY <1>4 DEF BeginCall
  <2>2. Tried(c) /\ c \in Loops
    BY <1>1, <2>1, CountedTried DEF Tried
  <2> HIDE DEF c
  <2>3. n \in Loops
    BY <2>2 DEF Loops
  <2>4. /\ n.pc = "call" /\ n.acct = c.acct /\ n.attempt = c.attempt /\ n.excluded = c.excluded
        /\ n.total = c.total /\ n.tries = c.tries /\ n.started = c.started /\ n.sources = c.sources
        /\ n.finals = c.finals /\ n.resv = c.resv /\ n.outcome = c.outcome /\ n.lastErr = c.lastErr
    BY <2>2 DEF Loops
  <2>5. UNCHANGED <<serving, bound, answered>> /\ req' = [req EXCEPT ![r] = n]
    BY <2>1
  <2> HIDE DEF n
  <2>6. SoundLoop(n)
    BY <2>2, <2>4 DEF Tried, SoundLoop, InHand, Budget, Output, Settled
  <2>7. QED
    BY <1>1, <2>3, <2>5, <2>6, LoopStep
<1>5. CASE Emit(r)
  <2> DEFINE n == [q EXCEPT !.started = TRUE, !.sources = @ \cup {q.total}]
  <2>1. q.pc = "call" /\ req' = [req EXCEPT ![r] = n] /\ UNCHANGED <<serving, bound, answered>>
    BY <1>1, <1>5 DEF Emit
  <2>2. n \in Loops
    BY <1>1 DEF Loops
  <2>3. /\ n.pc = q.pc /\ n.acct = q.acct /\ n.attempt = q.attempt /\ n.excluded = q.excluded
        /\ n.total = q.total /\ n.tries = q.tries /\ n.started /\ n.sources = q.sources \cup {q.total}
        /\ n.finals = q.finals /\ n.resv = q.resv /\ n.outcome = q.outcome /\ n.lastErr = q.lastErr
    BY <1>1 DEF Loops
  <2> HIDE DEF n
  <2>4. SoundLoop(n)
    BY <1>1, <2>1, <2>3 DEF SoundLoop, InHand, Budget, Output, Settled
  <2>5. QED
    BY <1>1, <2>1, <2>2, <2>4, LoopStep
<1>6. CASE ClientLeaves(r)
  <2> DEFINE n == [q EXCEPT !.gone = TRUE]
  <2>1. req' = [req EXCEPT ![r] = n] /\ UNCHANGED <<serving, bound, answered>>
    BY <1>6 DEF ClientLeaves
  <2>2. n \in Loops
    BY <1>1 DEF Loops
  <2>3. SoundLoop(n)
    BY <1>1 DEF Loops, SoundLoop, InHand, Budget, Output, Settled
  <2>4. QED
    BY <1>1, <2>1, <2>2, <2>3, LoopStep
<1>7. QED
  BY <1>2, <1>3, <1>4, <1>5, <1>6

\* The steps that fail an attempt or end the request without an answer.
LEMMA FailureSteps ==
    ASSUME FailoverIInv, NEW r \in Requests,
           GiveUp(r) \/ TokenFails(r) \/ CallFails(r) \/ Disconnect(r)
    PROVE  FailoverIInv'
<1> DEFINE q == req[r]
<1>1. q \in Loops /\ SoundLoop(q) /\ serving \subseteq Accounts /\ req \in [Requests -> Loops]
  BY DEF FailoverIInv
<1>2. CASE GiveUp(r)
  <2> DEFINE o == IF q.lastErr = "none" THEN "unavailable" ELSE "failed"
  <2>1. q.pc = "pick" /\ req' = [req EXCEPT ![r] = Finished(q, o)]
        /\ UNCHANGED <<serving, bound, answered>>
    BY <1>2 DEF GiveUp
  <2>2. o \in Outcomes \ {"none", "ok"}
    BY DEF Outcomes
  <2> HIDE DEF o
  <2>3. Finished(q, o) \in Loops /\ SoundLoop(Finished(q, o))
    BY <1>1, <2>1, <2>2, FinishedSound DEF SoundLoop, Budget, Output, Settled
  <2>4. QED
    BY <1>1, <2>1, <2>3, LoopStep
<1>3. CASE TokenFails(r)
  <2>1. PICK err \in Errors : /\ req' = [req EXCEPT ![r] = Failed(Counted(q), err)]
                              /\ serving' \in AfterFailure(q.acct, err)
    BY <1>3 DEF TokenFails
  <2>2. q.pc = "attempt" /\ UNCHANGED <<bound, answered>>
    BY <1>3 DEF TokenFails
  <2>3. Failed(Counted(q), err) \in Loops /\ SoundLoop(Failed(Counted(q), err))
    BY <1>1, <2>2, CountedTried, FailedSound
  <2>4. serving' \subseteq Accounts
    BY <2>1, FailureShrinks
  <2>5. QED
    BY <2>1, <2>2, <2>3, <2>4, LoopStep
<1>4. CASE CallFails(r)
  <2>1. PICK err \in Errors : /\ req' = [req EXCEPT ![r] = Failed(q, err)]
                              /\ serving' \in AfterFailure(q.acct, err)
    BY <1>4 DEF CallFails
  <2>2. q.pc = "call" /\ UNCHANGED <<bound, answered>>
    BY <1>4 DEF CallFails
  <2>3. Failed(q, err) \in Loops /\ SoundLoop(Failed(q, err))
    BY <1>1, <2>2, CallTried, FailedSound
  <2>4. serving' \subseteq Accounts
    BY <2>1, FailureShrinks
  <2>5. QED
    BY <2>1, <2>2, <2>3, <2>4, LoopStep
<1>5. CASE Disconnect(r)
  <2> DEFINE c == IF q.pc = "attempt" THEN Counted(q) ELSE q
  <2>1. q.pc \in {"attempt", "call"} /\ req' = [req EXCEPT ![r] = Finished(c, "disconnected")]
        /\ UNCHANGED <<serving, bound, answered>>
    BY <1>5 DEF Disconnect
  <2>2. Tried(c)
    BY <1>1, <2>1, CountedTried, CallTried
  <2> HIDE DEF c
  <2>3. Finished(c, "disconnected") \in Loops /\ SoundLoop(Finished(c, "disconnected"))
    BY <2>2, FinishedSound DEF Tried, Outcomes
  <2>4. QED
    BY <1>1, <2>1, <2>3, LoopStep
<1>6. QED
  BY <1>2, <1>3, <1>4, <1>5

\* The answer, which alone binds the conversation.
LEMMA SuccessStep ==
    ASSUME FailoverIInv, NEW r \in Requests, CallSucceeds(r)
    PROVE  FailoverIInv'
<1> DEFINE q == req[r]
           c == Conversation[r]
           n == Delivered(q)
<1>1. q \in Loops /\ SoundLoop(q) /\ serving \subseteq Accounts /\ req \in [Requests -> Loops]
      /\ c \in Conversations
  BY DEF FailoverIInv, Conversations
<1>2. /\ q.pc = "call" /\ req' = [req EXCEPT ![r] = Finished(n, "ok")]
      /\ serving' \in {serving, serving \cup {q.acct}}
      /\ bound' = [bound EXCEPT ![c] = q.acct]
      /\ answered' = [answered EXCEPT ![c] = @ \cup {q.acct}]
  BY DEF CallSucceeds
<1>3. Tried(q) /\ q.acct \in Accounts
  BY <1>1, <1>2, CallTried DEF Tried
<1>4. n \in Loops
  BY <1>1 DEF Loops, Delivered
<1>5. /\ n.total = q.total /\ n.tries = q.tries /\ n.sources = q.sources \cup {q.total}
      /\ n.finals = q.finals /\ n.resv = "finalized" /\ n.lastErr = q.lastErr
  BY <1>1 DEF Loops, Delivered
<1> HIDE DEF n
<1>6. Finished(n, "ok") \in Loops /\ SoundLoop(Finished(n, "ok"))
  BY <1>3, <1>4, <1>5, FinishedSound DEF Tried, Outcomes
<1>7. req' \in [Requests -> Loops] /\ \A p \in Requests : SoundLoop(req'[p])
  BY <1>1, <1>2, <1>6 DEF FailoverIInv
<1>8. serving' \subseteq Accounts
  BY <1>1, <1>2, <1>3
<1>9. /\ bound' \in [Conversations -> Accounts \cup {NoAccount}]
      /\ answered' \in [Conversations -> SUBSET Accounts]
      /\ BoundToAnswerer'
  BY <1>1, <1>2, <1>3 DEF FailoverIInv, BoundToAnswerer
<1>10. QED
  BY <1>7, <1>8, <1>9 DEF FailoverIInv

\* What happens around the requests: the pool and the bindings.
LEMMA SharedSteps ==
    ASSUME FailoverIInv,
           \/ PoolChanges
           \/ \E c \in Conversations : BindingLapses(c) \/ \E a \in Accounts : AnsweredElsewhere(c, a)
    PROVE  FailoverIInv'
<1>1. CASE PoolChanges
  BY <1>1 DEF PoolChanges, FailoverIInv, BoundToAnswerer
<1>2. ASSUME NEW c \in Conversations, BindingLapses(c) PROVE FailoverIInv'
  BY <1>2, FailoverAssumption DEF BindingLapses, FailoverIInv, BoundToAnswerer
<1>3. ASSUME NEW c \in Conversations, NEW a \in Accounts, AnsweredElsewhere(c, a) PROVE FailoverIInv'
  BY <1>3 DEF AnsweredElsewhere, FailoverIInv, BoundToAnswerer
<1>4. QED
  BY <1>1, <1>2, <1>3

\* The invariant holds at the start and every step keeps it.
LEMMA FailoverInductive ==
    /\ Init => FailoverIInv
    /\ FailoverIInv /\ [Next]_vars => FailoverIInv'
<1>1. Init => FailoverIInv
  BY IdleSound DEF Init, FailoverIInv, BoundToAnswerer
<1>2. FailoverIInv /\ [Next]_vars => FailoverIInv'
  <2> SUFFICES ASSUME FailoverIInv, [Next]_vars PROVE FailoverIInv'
    OBVIOUS
  <2>1. CASE UNCHANGED vars
    BY <2>1 DEF vars, FailoverIInv, BoundToAnswerer
  <2>2. ASSUME NEW r \in Requests, Start(r) \/ Turn(r) \/ Emit(r) \/ ClientLeaves(r)
        PROVE  FailoverIInv'
    BY <2>2, QuietSteps, FailureSteps, SuccessStep DEF Turn
  <2>3. QED
    BY <2>1, <2>2, SharedSteps DEF Next
<1>3. QED
  BY <1>1, <1>2

\* A sound loop has what the runs check of it.
LEMMA FailoverImplies == FailoverIInv => AnswerFromOneAccount
<1> SUFFICES ASSUME FailoverIInv PROVE AnswerFromOneAccount
  OBVIOUS
<1>1. TypeOK
  BY DEF FailoverIInv, SoundLoop, InHand, TypeOK
<1>2. AttemptsBounded
  BY DEF FailoverIInv, SoundLoop, Budget, AttemptsBounded
<1>3. RecordedOnce /\ ClientErrorIsFinal
  BY DEF FailoverIInv, SoundLoop, Settled, RecordedOnce, ClientErrorIsFinal
<1>4. OneSource
  <2> SUFFICES ASSUME NEW r \in Requests PROVE Cardinality(req[r].sources) <= 1
    BY DEF OneSource
  <2>1. req[r].sources = {} \/ req[r].sources = {req[r].total}
    BY DEF FailoverIInv, SoundLoop, Output
  <2>2. Cardinality({}) = 0 /\ Cardinality({req[r].total}) = 1
    BY FS_EmptySet, FS_Singleton
  <2>3. QED
    BY <2>1, <2>2
<1>5. QED
  BY <1>1, <1>2, <1>3, <1>4 DEF FailoverIInv, AnswerFromOneAccount, FailoverInv

\* However retries, failovers, disconnects and the requests of one conversation
\* interleave, the six handlers' loop stays within both limits, records and
\* settles a request once, never splices two attempts into one answer, drops an
\* invalid request, and binds a conversation only to an account that answered.
THEOREM AnswerSafe == Spec => []AnswerFromOneAccount
<1>1. Init => FailoverIInv
  BY FailoverInductive
<1>2. FailoverIInv /\ [Next]_vars => FailoverIInv'
  BY FailoverInductive
<1>3. FailoverIInv => AnswerFromOneAccount
  BY FailoverImplies
<1>4. QED
  BY <1>1, <1>2, <1>3, PTL DEF Spec

\* What giving up means for one request in one step.
GivesUpRight(r) ==
    req'[r].outcome \in {"failed", "unavailable"} /\ req[r].outcome = "none"
        => \/ req[r].total >= MaxPerRequest \/ req[r].lastErr = "client"
           \/ serving \subseteq req[r].excluded

\* A failed attempt ends a request only as a cut stream.
LEMMA FailedOutcome ==
    ASSUME NEW q \in Loops, NEW err, q.outcome = "none"
    PROVE  Failed(q, err).outcome \in {"none", "cut"}
<1>1. Finished([q EXCEPT !.lastErr = err], "cut").outcome = "cut"
  BY DEF Finished, Loops
<1>2. [[q EXCEPT !.lastErr = err] EXCEPT !.pc = "attempt", !.attempt = @ + 1].outcome = "none"
  BY DEF Loops
<1>3. [[q EXCEPT !.lastErr = err] EXCEPT !.pc = "pick", !.excluded = @ \cup {q.acct}].outcome = "none"
  BY DEF Loops
<1>4. QED
  BY <1>1, <1>2, <1>3 DEF Failed

\* Only GiveUp ends a request as failed or unavailable, and it does so with the
\* limit reached, the request at fault, or nothing left to pick.
LEMMA GiveUpRight ==
    ASSUME FailoverIInv, [Next]_vars, NEW r \in Requests
    PROVE  GivesUpRight(r)
<1> DEFINE q == req[r]
<1>1. q \in Loops /\ req \in [Requests -> Loops]
  BY DEF FailoverIInv
<1>2. ASSUME NEW n, n.outcome \notin {"failed", "unavailable"}, req' = [req EXCEPT ![r] = n]
      PROVE  GivesUpRight(r)
  BY <1>1, <1>2 DEF GivesUpRight
<1>3. ASSUME req'[r] = req[r] PROVE GivesUpRight(r)
  BY <1>3 DEF GivesUpRight
<1>4. CASE Start(r) \/ Emit(r) \/ ClientLeaves(r)
  <2>1. req'[r].outcome = q.outcome
    BY <1>1, <1>4 DEF Start, Emit, ClientLeaves, Loops
  <2>2. QED
    BY <2>1 DEF GivesUpRight
<1>5. CASE PickAccount(r) \/ BeginCall(r)
  <2>1. CASE PickAccount(r)
    <3>1. req'[r].outcome = q.outcome
      BY <1>1, <2>1 DEF PickAccount, Loops
    <3>2. QED
      BY <3>1 DEF GivesUpRight
  <2>2. CASE BeginCall(r)
    <3>1. [Counted(q) EXCEPT !.pc = "call"].outcome = q.outcome
      BY <1>1 DEF Counted, Loops
    <3>2. req'[r] = [Counted(q) EXCEPT !.pc = "call"]
      BY <1>1, <2>2 DEF BeginCall
    <3>3. QED
      BY <3>1, <3>2 DEF GivesUpRight
  <2>3. QED
    BY <1>5, <2>1, <2>2
<1>6. CASE GiveUp(r)
  <2>1. CASE ~LoopGoesOn(q)
    <3>1. q.total >= MaxPerRequest \/ q.lastErr = "client"
      BY <1>1, <2>1, FailoverAssumption DEF LoopGoesOn, Loops
    <3>2. QED
      BY <3>1 DEF GivesUpRight
  <2>2. CASE Picks(r) = {}
    <3>1. serving \subseteq q.excluded
      BY <2>2 DEF Picks
    <3>2. QED
      BY <3>1 DEF GivesUpRight
  <2>3. QED
    BY <1>6, <2>1, <2>2 DEF GiveUp
<1>7. CASE TokenFails(r)
  <2>1. PICK err : req' = [req EXCEPT ![r] = Failed(Counted(q), err)]
    BY <1>7 DEF TokenFails
  <2>2. q.pc = "attempt"
    BY <1>7 DEF TokenFails
  <2>3. Tried(Counted(q))
    BY <1>1, <2>2, CountedTried DEF FailoverIInv
  <2>4. Failed(Counted(q), err).outcome \in {"none", "cut"}
    BY <2>3, FailedOutcome DEF Tried
  <2>5. QED
    BY <1>2, <2>1, <2>4
<1>8. CASE CallFails(r)
  <2>1. PICK err : req' = [req EXCEPT ![r] = Failed(q, err)]
    BY <1>8 DEF CallFails
  <2>2. q.pc = "call"
    BY <1>8 DEF CallFails
  <2>3. Tried(q)
    BY <1>1, <2>2, CallTried DEF FailoverIInv
  <2>4. Failed(q, err).outcome \in {"none", "cut"}
    BY <2>3, FailedOutcome DEF Tried
  <2>5. QED
    BY <1>2, <2>1, <2>4
<1>9. CASE CallSucceeds(r)
  <2>1. Finished(Delivered(q), "ok").outcome = "ok"
    BY <1>1 DEF Finished, Delivered, Loops
  <2>2. req' = [req EXCEPT ![r] = Finished(Delivered(q), "ok")]
    BY <1>9 DEF CallSucceeds
  <2>3. QED
    BY <1>2, <2>1, <2>2
<1>10. CASE Disconnect(r)
  <2> DEFINE c == IF q.pc = "attempt" THEN Counted(q) ELSE q
  <2>1. c \in Loops
    BY <1>1, CountedTried DEF FailoverIInv, Tried
  <2>2. req' = [req EXCEPT ![r] = Finished(c, "disconnected")]
    BY <1>10 DEF Disconnect
  <2> HIDE DEF c
  <2>3. Finished(c, "disconnected").outcome = "disconnected"
    BY <2>1 DEF Finished, Loops
  <2>4. QED
    BY <1>2, <2>2, <2>3
<1>11. ASSUME NEW p \in Requests, p # r, Start(p) \/ Turn(p) \/ Emit(p) \/ ClientLeaves(p)
       PROVE  req'[r] = req[r]
  BY <1>1, <1>11 DEF Start, Turn, Emit, ClientLeaves, PickAccount, GiveUp, BeginCall, TokenFails,
                     CallFails, CallSucceeds, Disconnect
<1>12. ASSUME \/ UNCHANGED vars \/ PoolChanges
              \/ \E c \in Conversations : BindingLapses(c) \/ \E a \in Accounts : AnsweredElsewhere(c, a)
       PROVE  req'[r] = req[r]
  BY <1>12 DEF vars, PoolChanges, BindingLapses, AnsweredElsewhere
<1>13. CASE Start(r) \/ Turn(r) \/ Emit(r) \/ ClientLeaves(r)
  BY <1>13, <1>4, <1>5, <1>6, <1>7, <1>8, <1>9, <1>10 DEF Turn
<1>14. QED
  BY <1>3, <1>11, <1>12, <1>13 DEF Next

\* No request is refused or failed while an account it has not tried could
\* serve it and an attempt is left, unless the request itself was at fault.
THEOREM GivesUpLate == Spec => NoEarlyGiveUp
<1>1. Init => FailoverIInv
  BY FailoverInductive
<1>2. FailoverIInv /\ [Next]_vars => FailoverIInv'
  BY FailoverInductive
<1>3. FailoverIInv /\ [Next]_vars => \A r \in Requests : GivesUpRight(r)
  BY GiveUpRight
<1>4. (\A r \in Requests : GivesUpRight(r)) <=>
         (\A r \in Requests :
            req'[r].outcome \in {"failed", "unavailable"} /\ req[r].outcome = "none"
              => \/ req[r].total >= MaxPerRequest \/ req[r].lastErr = "client"
                 \/ serving \subseteq req[r].excluded)
  BY DEF GivesUpRight
<1>5. QED
  BY <1>1, <1>2, <1>3, <1>4, PTL DEF Spec, NoEarlyGiveUp

=============================================================================
