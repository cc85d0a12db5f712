-------------------------- MODULE RequestFailover --------------------------
(***************************************************************************)
(* The retry and failover loop every model endpoint runs: Claude and OpenAI*)
(* chat (proxy/handler.go) and Responses (proxy/responses_api.go), each    *)
(* streaming and not, with the retry plan and failure handling of          *)
(* proxy/account_failover.go and the sticky sessions of                    *)
(* proxy/session_affinity.go.                                              *)
(*                                                                         *)
(* Requests run concurrently and share the pool and the session bindings.  *)
(* The pool is the set of accounts that can serve right now; which of them *)
(* the rotation picks is left open (module AccountPool).  The six handlers *)
(* share one loop; they differ in whether output can reach the client      *)
(* before the upstream call has succeeded.                                 *)
(***************************************************************************)
EXTENDS Integers, FiniteSets

CONSTANTS Accounts, Requests,
          Streaming,      \* the requests whose client asked for a stream
          Conversation,   \* the conversation each request belongs to
          NoAccount,
          MaxPerAccount,  \* retryPlan.maxPerAccount
          MaxPerRequest   \* retryPlan.maxPerRequest

ASSUME FailoverAssumption ==
    /\ Streaming \subseteq Requests
    /\ NoAccount \notin Accounts
    /\ MaxPerAccount \in Nat \ {0} /\ MaxPerRequest \in Nat \ {0}

Conversations == {Conversation[r] : r \in Requests}

\* A value for Conversation: every request belongs to the same one.
OneConversation == [r \in Requests |-> "conversation"]

\* What the code tells apart in an error: the request's own fault (4xx), a
\* broken stream, a plain failure, and the three that speak of the account:
\* quota or throttle, suspension or rejected credentials, no profile or overage.
TerminalErrors == {"quota", "banned", "profile"}
Errors == {"client", "integrity", "plain"} \cup TerminalErrors

VARIABLES
    req,      \* each request's loop state
    serving,  \* accounts a pick may return
    bound,    \* h.affinity, per conversation
    answered  \* accounts that have answered each conversation (history)

vars == <<req, serving, bound, answered>>

\* tries, sources and finals are history: attempts per account, attempts whose
\* output the client saw, and final records.
Idle == [pc |-> "idle", acct |-> NoAccount, excluded |-> {}, attempt |-> 0, total |-> 0,
         lastErr |-> "none", started |-> FALSE, gone |-> FALSE,
         resv |-> "open", tries |-> [a \in Accounts |-> 0], sources |-> {}, finals |-> 0,
         outcome |-> "none"]

Outcomes == {"none", "ok", "cut", "failed", "unavailable", "disconnected"}

Loops ==
    [pc: {"idle", "pick", "attempt", "call", "done"}, acct: Accounts \cup {NoAccount},
     excluded: SUBSET Accounts, attempt: Nat, total: Nat, lastErr: Errors \cup {"none"},
     started: BOOLEAN, gone: BOOLEAN,
     resv: {"open", "finalized", "released"}, tries: [Accounts -> Nat], sources: SUBSET Nat,
     finals: Nat, outcome: Outcomes]

TypeOK ==
    /\ req \in [Requests -> Loops]
    /\ \A r \in Requests :
           req[r].pc \in {"attempt", "call"} => req[r].acct \in Accounts \ req[r].excluded
    /\ serving \subseteq Accounts
    /\ bound \in [Conversations -> Accounts \cup {NoAccount}]
    /\ answered \in [Conversations -> SUBSET Accounts]

Init ==
    /\ req = [r \in Requests |-> Idle]
    /\ serving \in SUBSET Accounts
    /\ bound = [c \in Conversations |-> NoAccount]
    /\ answered = [c \in Conversations |-> {}]

-----------------------------------------------------------------------------
\* requestRetryPlan.canRetrySameAccount.
canRetrySameAccount(err, attempt, total) ==
    /\ err \notin TerminalErrors \cup {"client"}
    /\ attempt + 1 < MaxPerAccount
    /\ total < MaxPerRequest

\* Where handleAccountFailure can leave the pool.  A client's mistake and a
\* broken stream say nothing about the account; a quota answer and a ban take it
\* out; the others count an error and take it out at the third.
AfterFailure(a, err) ==
    CASE err \in {"client", "integrity"} -> {serving}
      [] err \in {"quota", "banned"}     -> {serving \ {a}}
      [] OTHER                           -> {serving, serving \ {a}}

\* The request ends: one final record and the deferred release of the
\* reservation, which does nothing after finalize.
Finished(q, outcome) ==
    [q EXCEPT !.pc = "done", !.outcome = outcome, !.finals = @ + 1,
              !.resv = IF @ = "open" THEN "released" ELSE @]

-----------------------------------------------------------------------------
\* The handler has reserved the key's tokens and enters the loop.  (The answer
\* for a writer that cannot flush is left out: net/http's always can.)
Start(r) ==
    /\ req[r].pc = "idle"
    /\ req' = [req EXCEPT ![r].pc = "pick"]
    /\ UNCHANGED <<serving, bound, answered>>

\* Faulty variant: an error that speaks of the account ends the request.
LoopStopsAtTerminal(q) == q.total < MaxPerRequest /\ q.lastErr \notin TerminalErrors \cup {"client"}

LoopGoesOn(q) == q.total < MaxPerRequest /\ q.lastErr # "client"

\* pickAccount: the bound account if it can serve, else one the pool chooses.
Picks(r) ==
    LET able == serving \ req[r].excluded
        pref == bound[Conversation[r]]
    IN  IF pref \in able THEN {pref} ELSE able

PickAccount(r) ==
    /\ req[r].pc = "pick" /\ LoopGoesOn(req[r])
    /\ \E a \in Picks(r) :
           req' = [req EXCEPT ![r].pc = "attempt", ![r].acct = a, ![r].attempt = 0]
    /\ UNCHANGED <<serving, bound, answered>>

\* The loop ends without an answer: noAccountError or the last upstream error.
GiveUp(r) ==
    /\ req[r].pc = "pick"
    /\ ~LoopGoesOn(req[r]) \/ Picks(r) = {}
    /\ req' = [req EXCEPT ![r] =
                 Finished(@, IF @.lastErr = "none" THEN "unavailable" ELSE "failed")]
    /\ UNCHANGED <<serving, bound, answered>>

\* One turn of the inner loop with a usable token: the upstream call starts.
Counted(q) == [q EXCEPT !.total = @ + 1, !.tries[q.acct] = @ + 1]

BeginCall(r) ==
    /\ req[r].pc = "attempt" /\ ~req[r].gone
    /\ req' = [req EXCEPT ![r] = [Counted(@) EXCEPT !.pc = "call"]]
    /\ UNCHANGED <<serving, bound, answered>>

\* Faulty variant: a failed stream is retried although the client has output.
FailedRetriesStarted(q, err) ==
    LET n == [q EXCEPT !.lastErr = err] IN
    IF canRetrySameAccount(err, q.attempt, q.total)
      THEN [n EXCEPT !.pc = "attempt", !.attempt = @ + 1]
      ELSE [n EXCEPT !.pc = "pick", !.excluded = @ \cup {q.acct}]

\* What a failed attempt does to the loop: output already sent ends the request
\* with an error event; otherwise the same account again, or the next one.
Failed(q, err) ==
    LET n == [q EXCEPT !.lastErr = err] IN
    IF q.started THEN Finished(n, "cut")
    ELSE IF canRetrySameAccount(err, q.attempt, q.total)
         THEN [n EXCEPT !.pc = "attempt", !.attempt = @ + 1]
         ELSE [n EXCEPT !.pc = "pick", !.excluded = @ \cup {q.acct}]

\* ensureValidTokenContext fails: the attempt counts, the account may suffer.
TokenFails(r) ==
    /\ req[r].pc = "attempt" /\ ~req[r].gone
    /\ \E err \in Errors \ {"client", "integrity"} :
           /\ req' = [req EXCEPT ![r] = Failed(Counted(@), err)]
           /\ serving' \in AfterFailure(req[r].acct, err)
    /\ UNCHANGED <<bound, answered>>

CallFails(r) ==
    /\ req[r].pc = "call"
    /\ \E err \in Errors :
           /\ req' = [req EXCEPT ![r] = Failed(@, err)]
           /\ serving' \in AfterFailure(req[r].acct, err)
    /\ UNCHANGED <<bound, answered>>

\* A streaming handler passes text on while the call runs.
Emit(r) ==
    /\ r \in Streaming /\ req[r].pc = "call"
    /\ req' = [req EXCEPT ![r].started = TRUE, ![r].sources = @ \cup {req[r].total}]
    /\ UNCHANGED <<serving, bound, answered>>

\* The call succeeds: finalize the reservation, log, RecordSuccess (which ends a
\* cooldown, not a ban), bind the conversation, count the outcome, send the rest.
Delivered(q) == [q EXCEPT !.sources = @ \cup {q.total}, !.resv = "finalized"]

CallSucceeds(r) ==
    LET a == req[r].acct
        c == Conversation[r]
    IN  /\ req[r].pc = "call"
        /\ req' = [req EXCEPT ![r] = Finished(Delivered(@), "ok")]
        /\ serving' \in {serving, serving \cup {a}}
        /\ bound' = [bound EXCEPT ![c] = a]
        /\ answered' = [answered EXCEPT ![c] = @ \cup {a}]

\* The client goes away; the handler notices at the next token check or when
\* the upstream call returns the cancellation.
ClientLeaves(r) ==
    /\ req[r].pc \in {"pick", "attempt", "call"} /\ ~req[r].gone
    /\ req' = [req EXCEPT ![r].gone = TRUE]
    /\ UNCHANGED <<serving, bound, answered>>

\* Faulty variant: only the upstream call's own cancellation is noticed.
DisconnectInCall(r) ==
    /\ req[r].pc = "call" /\ req[r].gone
    /\ req' = [req EXCEPT ![r] = Finished(@, "disconnected")]
    /\ UNCHANGED <<serving, bound, answered>>

\* recordClientDisconnect, against the account of this turn of the loop.
Disconnect(r) ==
    /\ req[r].pc \in {"attempt", "call"} /\ req[r].gone
    /\ req' = [req EXCEPT ![r] =
                 Finished(IF @.pc = "attempt" THEN Counted(@) ELSE @, "disconnected")]
    /\ UNCHANGED <<serving, bound, answered>>

\* Cooldowns run out, admins switch accounts, bindings expire or are evicted.
PoolChanges ==
    /\ serving' \in SUBSET Accounts /\ serving' # serving
    /\ UNCHANGED <<req, bound, answered>>
BindingLapses(c) ==
    /\ bound[c] # NoAccount
    /\ bound' = [bound EXCEPT ![c] = NoAccount]
    /\ UNCHANGED <<req, serving, answered>>

\* A request of the conversation that is not followed here is answered.
AnsweredElsewhere(c, a) ==
    /\ a \in serving
    /\ bound' = [bound EXCEPT ![c] = a]
    /\ answered' = [answered EXCEPT ![c] = @ \cup {a}]
    /\ UNCHANGED <<req, serving>>

Turn(r) ==
    \/ PickAccount(r) \/ GiveUp(r) \/ BeginCall(r) \/ TokenFails(r)
    \/ CallFails(r) \/ CallSucceeds(r) \/ Disconnect(r)

Next ==
    \/ \E r \in Requests : Start(r) \/ Turn(r) \/ Emit(r) \/ ClientLeaves(r)
    \/ PoolChanges
    \/ \E c \in Conversations : BindingLapses(c) \/ \E a \in Accounts : AnsweredElsewhere(c, a)

Spec == Init /\ [][Next]_vars

\* The handler goroutine keeps running, and every upstream call ends: it answers,
\* fails, or the idle timeout of kiro_stream_idle.go cuts it.
FairSpec == Spec /\ \A r \in Requests : WF_vars(Turn(r))

-----------------------------------------------------------------------------
\* A request makes at most maxPerRequest attempts, and at most maxPerAccount of
\* them on one account, however retries, failovers and picks interleave.
AttemptsBounded ==
    \A r \in Requests :
        /\ req[r].total <= MaxPerRequest
        /\ \A a \in Accounts : req[r].tries[a] <= MaxPerAccount

\* The client never receives pieces of two attempts, so an answer is never
\* spliced together from two accounts or two upstream replies.
OneSource == \A r \in Requests : Cardinality(req[r].sources) <= 1

\* A request is recorded once, when it ends and not before, and settles its key
\* reservation once: finalized if it was answered, released if not.
RecordedOnce ==
    \A r \in Requests :
        IF req[r].pc = "done"
          THEN req[r].finals = 1 /\ req[r].resv = (IF req[r].outcome = "ok" THEN "finalized" ELSE "released")
          ELSE req[r].finals = 0 /\ req[r].resv = "open"

\* A request the upstream calls invalid is not tried on any other account.
ClientErrorIsFinal ==
    \A r \in Requests : req[r].lastErr = "client" => req[r].pc \in {"pick", "done"} /\ req[r].outcome # "ok"

\* Type correctness, the attempt bounds and the single record, together.
FailoverInv == TypeOK /\ AttemptsBounded /\ RecordedOnce /\ ClientErrorIsFinal

\* Conversations stick only to accounts that have answered them ("a failed
\* attempt never pins a conversation to an account that could not answer it").
BoundToAnswerer ==
    \A c \in Conversations : bound[c] # NoAccount => bound[c] \in answered[c]

\* Attempts stay within their bounds and are recorded once, a request the
\* upstream calls invalid is tried on no other account, all that a client reads
\* comes from one attempt on one account, and a conversation is bound to an
\* account that answered it.
AnswerFromOneAccount == FailoverInv /\ OneSource /\ BoundToAnswerer

\* The loop stops short of the attempt limit only when no account outside its
\* tried ones can serve.
NoEarlyGiveUp ==
    [][\A r \in Requests :
          req'[r].outcome \in {"failed", "unavailable"} /\ req[r].outcome = "none"
              => \/ req[r].total >= MaxPerRequest \/ req[r].lastErr = "client"
                 \/ serving \subseteq req[r].excluded]_vars

\* Every request ends with a final record.
RequestsEnd == \A r \in Requests : req[r].pc = "pick" ~> req[r].pc = "done"

=============================================================================
