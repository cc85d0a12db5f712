---------------------------- MODULE AccountsPage ----------------------------
(***************************************************************************)
(* The Accounts page at work: the cached list and its refetches, the        *)
(* optimistic switch, the row and sheet mutations, the selection and the    *)
(* batch bar, against a server other admins and the pool change too.  A row *)
(* is reduced to one aspect of it, the one the behaviour follows.           *)
(***************************************************************************)
EXTENDS Naturals, FiniteSets

CONSTANTS Acct,     \* account ids
          MaxOps,   \* bound: operations the user starts
          MaxFaults \* bound: changes made by others, answers and events the network loses

Gone   == 2
Aspect == {"enabled", "overage", "field"}
Batch  == {"enable", "disable", "refresh", "refreshModels", "delete"}
NoAsk  == [op |-> "none", ids |-> {}]
Idle   == [st |-> "idle", rows |-> [a \in Acct |-> Gone], late |-> FALSE]

VARIABLES aspect,  \* what of a row this behaviour follows
          srv,     \* Acct -> its value on the server, or Gone
          held,    \* accounts the upstream has suspended
          list,    \* Acct -> its value in the cached list, or Gone
          fetch,   \* the list's fetch in flight
          event,   \* an accounts_changed event is on its way or being debounced
          calls,   \* row and sheet mutations in flight
          sel,     \* the selection
          ask,     \* the confirm dialog: what it will start
          batch,   \* the batch bar's request
          excused, \* an event or a fetch was lost and no later answer has filled the list
          ops, faults

vars == <<aspect, srv, held, list, fetch, event, calls, sel, ask, batch, excused, ops, faults>>
bounds == <<ops, faults>>

Table == [Acct -> {0, 1, Gone}]
Listed(t) == {a \in Acct : t[a] # Gone}

TypeOK ==
  /\ aspect \in Aspect /\ srv \in Table /\ list \in Table /\ held \subseteq Acct
  /\ fetch.st \in {"idle", "sent", "ok", "failed"}
  /\ \A c \in calls : c.id \in Acct /\ c.val \in 0 .. 1 /\ c.st \in {"sent", "ok", "lost", "refused"}
                        /\ c.op \in {"toggle", "overage", "sync", "save", "refresh", "delete"}
  /\ sel \subseteq Acct /\ ask.ids \subseteq Acct /\ batch.ids \subseteq Acct
  /\ batch.st \in {"idle", "sent", "ok", "lost"}

(***************************************************************************)
(* The list query                                                           *)
(***************************************************************************)
\* invalidate: the mounted list refetches, in place of a fetch already running.
Invalidate == fetch' = [Idle EXCEPT !.st = "sent"]

AnswerFetch ==
  /\ fetch.st = "sent"
  /\ fetch' = [st |-> "ok", rows |-> srv, late |-> FALSE]
  /\ UNCHANGED <<aspect, srv, held, list, event, calls, sel, ask, batch, excused, bounds>>

LoseFetch ==
  /\ fetch.st = "sent" /\ faults < MaxFaults /\ faults' = faults + 1
  /\ fetch' = [Idle EXCEPT !.st = "failed"]
  /\ UNCHANGED <<aspect, srv, held, list, event, calls, sel, ask, batch, excused, ops>>

\* New data: selected ids that are gone are dropped from the selection.
FetchDone ==
  /\ fetch.st \in {"ok", "failed"} /\ fetch' = Idle
  /\ IF fetch.st = "ok"
     THEN list' = fetch.rows /\ sel' = sel \cap Listed(fetch.rows)
            /\ excused' = (excused /\ fetch.late)
     ELSE excused' = TRUE /\ UNCHANGED <<list, sel>>
  /\ UNCHANGED <<aspect, srv, held, event, calls, ask, batch, bounds>>

\* The page's other reasons to refetch: a window focus, a visit.
Refocus ==
  /\ fetch.st = "idle" /\ excused /\ Invalidate
  /\ UNCHANGED <<aspect, srv, held, list, event, calls, sel, ask, batch, excused, bounds>>

\* The debounced event refetches the list.
EventArrives ==
  /\ event /\ event' = FALSE /\ Invalidate
  /\ UNCHANGED <<aspect, srv, held, list, calls, sel, ask, batch, excused, bounds>>

LoseEvent ==
  /\ event /\ faults < MaxFaults /\ faults' = faults + 1 /\ event' = FALSE /\ excused' = TRUE
  /\ fetch' = [fetch EXCEPT !.late = fetch.st = "ok"]
  /\ UNCHANGED <<aspect, srv, held, list, calls, sel, ask, batch, ops>>

(***************************************************************************)
(* The user                                                                 *)
(***************************************************************************)
UserActs == ops < MaxOps /\ ask = NoAsk /\ ops' = ops + 1
Pending(op, a) == \E c \in calls : c.op = op /\ c.id = a
Row(op, a, v)  == [op |-> op, id |-> a, val |-> v, st |-> "sent"]

\* EnabledSwitch and useToggleEnabled's onMutate: the fetch in flight is dropped and the row
\* shows the requested state at once.  A suspended account's switch is locked.
Toggle ==
  /\ UserActs /\ aspect = "enabled"
  /\ \E a \in Listed(list) \ held :
       /\ ~Pending("toggle", a)
       /\ calls' = calls \cup {Row("toggle", a, 1 - list[a])}
       /\ list' = [list EXCEPT ![a] = 1 - list[a]]
  /\ fetch' = Idle
  /\ UNCHANGED <<aspect, srv, held, event, sel, ask, batch, excused, faults>>

\* The sheet: an overage switch or sync, or one edited field saved.
EditSheet ==
  /\ UserActs
  /\ \E a \in Listed(list) :
       \/ /\ aspect = "overage" /\ ~Pending("overage", a)
          /\ calls' = calls \cup {Row("overage", a, 1 - list[a])}
       \/ /\ aspect = "overage" /\ ~Pending("sync", a)
          /\ calls' = calls \cup {Row("sync", a, 0)}
       \/ /\ aspect = "field" /\ ~Pending("save", a)
          /\ \E v \in 0 .. 1 : calls' = calls \cup {Row("save", a, v)}
  /\ UNCHANGED <<aspect, srv, held, list, fetch, event, sel, ask, batch, excused, faults>>

\* The row's Refresh button, which waits while its call runs.
RefreshRow ==
  /\ UserActs
  /\ \E a \in Listed(list) :
       ~Pending("refresh", a) /\ calls' = calls \cup {Row("refresh", a, 0)}
  /\ UNCHANGED <<aspect, srv, held, list, fetch, event, sel, ask, batch, excused, faults>>

\* Delete from a row's menu: the confirm names the account.
AskDelete ==
  /\ UserActs
  /\ \E a \in Listed(list) : ~Pending("delete", a) /\ ask' = [op |-> "deleteRow", ids |-> {a}]
  /\ UNCHANGED <<aspect, srv, held, list, fetch, event, calls, sel, batch, excused, faults>>

\* toggleOne and toggleAll of the table, over the rows of the page shown.
Select ==
  /\ UserActs /\ Listed(list) # {}
  /\ \/ \E a \in Listed(list) : sel' = (sel \ {a}) \cup ({a} \ sel)
     \/ \E page \in SUBSET Listed(list) :
          page # {} /\ sel' = IF page \subseteq sel THEN {} ELSE sel \cup page
  /\ sel' # sel
  /\ UNCHANGED <<aspect, srv, held, list, fetch, event, calls, ask, batch, excused, faults>>

ClearSelection ==
  /\ ask = NoAsk /\ sel # {} /\ batch.st = "idle" /\ sel' = {}
  /\ UNCHANGED <<aspect, srv, held, list, fetch, event, calls, ask, batch, excused, bounds>>

\* The bar's run, up to its confirm: the ids are those selected now.
AskBatch ==
  /\ UserActs /\ batch.st = "idle" /\ sel # {}
  /\ \E action \in Batch : ask' = [op |-> action, ids |-> sel]
  /\ UNCHANGED <<aspect, srv, held, list, fetch, event, calls, sel, batch, excused, faults>>

\* settle: the confirm answers what it asked for, with the ids it was opened with.
Confirm ==
  /\ ask # NoAsk /\ ask' = NoAsk
  /\ IF ask.op = "deleteRow"
     THEN calls' = calls \cup {Row("delete", a, 0) : a \in ask.ids} /\ UNCHANGED batch
     ELSE batch' = [st |-> "sent", op |-> ask.op, ids |-> ask.ids] /\ UNCHANGED calls
  /\ UNCHANGED <<aspect, srv, held, list, fetch, event, sel, excused, bounds>>

Cancel ==
  /\ ask # NoAsk /\ ask' = NoAsk
  /\ UNCHANGED <<aspect, srv, held, list, fetch, event, calls, sel, batch, excused, bounds>>

(***************************************************************************)
(* The server                                                               *)
(***************************************************************************)
\* An account write publishes accounts_changed.
Writes(t) == srv' = t /\ event' = TRUE

\* PUT of a row: only a listed account takes it.
ServeUpdate(c) ==
  /\ c.op \in {"toggle", "save"}
  /\ IF srv[c.id] = Gone
     THEN calls' = (calls \ {c}) \cup {[c EXCEPT !.st = "refused"]} /\ UNCHANGED <<srv, event>>
     ELSE calls' = (calls \ {c}) \cup {[c EXCEPT !.st = "ok"]}
            /\ Writes([srv EXCEPT ![c.id] = c.val])

\* An overage read or switch answers the snapshot it stored.
ServeOverage(c) ==
  /\ c.op \in {"overage", "sync"}
  /\ IF srv[c.id] = Gone
     THEN calls' = (calls \ {c}) \cup {[c EXCEPT !.st = "refused"]} /\ UNCHANGED <<srv, event>>
     ELSE LET v == IF c.op = "sync" THEN srv[c.id] ELSE c.val
          IN  calls' = (calls \ {c}) \cup {[c EXCEPT !.st = "ok", !.val = v]}
                /\ Writes([srv EXCEPT ![c.id] = v])

\* A refresh: a suspended account is marked and switched off.
Refreshed(t, ids) ==
  [a \in Acct |-> IF a \in ids \cap held /\ t[a] # Gone /\ aspect = "enabled" THEN 0 ELSE t[a]]

ServeRefresh(c) ==
  /\ c.op = "refresh"
  /\ IF srv[c.id] = Gone
     THEN calls' = (calls \ {c}) \cup {[c EXCEPT !.st = "refused"]} /\ UNCHANGED <<srv, event>>
     ELSE calls' = (calls \ {c}) \cup {[c EXCEPT !.st = "ok"]} /\ Writes(Refreshed(srv, {c.id}))

\* A delete answers success for an unknown id too.
ServeDelete(c) ==
  /\ c.op = "delete"
  /\ calls' = (calls \ {c}) \cup {[c EXCEPT !.st = "ok"]}
  /\ Writes([srv EXCEPT ![c.id] = Gone])

ServeCall ==
  /\ \E c \in calls :
       c.st = "sent" /\ (ServeUpdate(c) \/ ServeOverage(c) \/ ServeRefresh(c) \/ ServeDelete(c))
  /\ UNCHANGED <<aspect, held, list, fetch, sel, ask, batch, excused, bounds>>

\* POST /accounts/batch: each requested id that exists; the answer is 200 whatever fails.
BatchResult(t, op, ids) ==
  CASE op \in {"enable", "disable"} ->
         [a \in Acct |-> IF a \in ids /\ t[a] # Gone /\ aspect = "enabled"
                         THEN IF op = "enable" THEN 1 ELSE 0 ELSE t[a]]
    [] op = "refresh"       -> Refreshed(t, ids)
    [] op = "refreshModels" -> t
    [] op = "delete"        -> [a \in Acct |-> IF a \in ids THEN Gone ELSE t[a]]

ServeBatch ==
  /\ batch.st = "sent" /\ batch' = [batch EXCEPT !.st = "ok"]
  /\ srv' = BatchResult(srv, batch.op, batch.ids)
  /\ event' = (event \/ batch.op # "refreshModels")
  /\ held' = IF batch.op = "enable" THEN held \ batch.ids ELSE held
  /\ UNCHANGED <<aspect, list, fetch, calls, sel, ask, excused, bounds>>

\* An answer, or the request itself, is lost: the client times out or fails to reach the server.
LoseCall ==
  /\ faults < MaxFaults /\ faults' = faults + 1
  /\ \/ /\ \E c \in calls : c.st \in {"sent", "ok"} /\ calls' = (calls \ {c}) \cup {[c EXCEPT !.st = "lost"]}
        /\ UNCHANGED batch
     \/ batch.st \in {"sent", "ok"} /\ batch' = [batch EXCEPT !.st = "lost"] /\ UNCHANGED calls
  /\ UNCHANGED <<aspect, srv, held, list, fetch, event, sel, ask, excused, ops>>

\* Another admin, the pool or the sweeps change a row.
OthersChange ==
  /\ faults < MaxFaults /\ faults' = faults + 1
  /\ \E a \in Acct :
       \/ \E v \in {0, 1, Gone} : srv[a] # v /\ Writes([srv EXCEPT ![a] = v]) /\ UNCHANGED held
       \/ /\ a \in Listed(srv) \ held /\ held' = held \cup {a}
          /\ Writes(IF aspect = "enabled" THEN [srv EXCEPT ![a] = 0] ELSE srv)
  /\ UNCHANGED <<aspect, list, fetch, calls, sel, ask, batch, excused, ops>>

(***************************************************************************)
(* Answers                                                                  *)
(***************************************************************************)
SetRow(a, v) == IF list[a] = Gone THEN list ELSE [list EXCEPT ![a] = v]

\* Faulty variant: a switch that settles does not refetch.
ToggleSettledQuietly(c) ==
  /\ c.op = "toggle"
  /\ list' = IF c.st = "ok" THEN list ELSE SetRow(c.id, 1 - c.val)
  /\ UNCHANGED fetch

\* onError turns the row back; onSettled refetches.
ToggleSettled(c) ==
  /\ c.op = "toggle"
  /\ list' = IF c.st = "ok" THEN list ELSE SetRow(c.id, 1 - c.val)
  /\ Invalidate

\* The snapshot is merged into the list row; nothing is refetched.
OverageSettled(c) ==
  /\ c.op \in {"overage", "sync"}
  /\ list' = IF c.st = "ok" THEN SetRow(c.id, c.val) ELSE list
  /\ UNCHANGED fetch

\* A saved field and a refreshed row refetch on success only, a delete always.
RowSettled(c) ==
  /\ c.op \in {"save", "refresh", "delete"} /\ UNCHANGED list
  /\ IF c.st = "ok" \/ c.op = "delete" THEN Invalidate ELSE UNCHANGED fetch

CallSettled ==
  /\ \E c \in calls :
       /\ c.st # "sent" /\ calls' = calls \ {c}
       /\ ToggleSettled(c) \/ OverageSettled(c) \/ RowSettled(c)
  /\ UNCHANGED <<aspect, srv, held, event, sel, ask, batch, excused, bounds>>

\* A result clears the selection; the list is refetched either way.
BatchSettled ==
  /\ batch.st \in {"ok", "lost"}
  /\ batch' = [batch EXCEPT !.st = "idle", !.ids = {}]
  /\ sel' = IF batch.st = "ok" THEN {} ELSE sel
  /\ Invalidate
  /\ UNCHANGED <<aspect, srv, held, list, event, calls, ask, excused, bounds>>

(***************************************************************************)
(* The specification                                                        *)
(***************************************************************************)
Init ==
  /\ aspect \in Aspect /\ srv \in [Acct -> 0 .. 1] /\ list = srv /\ held = {}
  /\ fetch = Idle /\ event = FALSE /\ calls = {} /\ sel \in SUBSET Acct /\ ask = NoAsk
  /\ batch = [st |-> "idle", op |-> "enable", ids |-> {}] /\ excused = FALSE
  /\ ops = 0 /\ faults = 0

UserStep == Toggle \/ EditSheet \/ RefreshRow \/ AskDelete \/ Select \/ ClearSelection
              \/ AskBatch \/ Confirm \/ Cancel
ClientStep == FetchDone \/ Refocus \/ EventArrives \/ CallSettled \/ BatchSettled
ServerStep == AnswerFetch \/ ServeCall \/ ServeBatch
Faults     == LoseFetch \/ LoseEvent \/ LoseCall \/ OthersChange
Next == UserStep \/ ClientStep \/ ServerStep \/ Faults

Spec == Init /\ [][Next]_vars

(***************************************************************************)
(* Properties                                                               *)
(***************************************************************************)
Quiet == calls = {} /\ fetch = Idle /\ ~event /\ batch.st = "idle"

\* Once every call has settled and every event was handled, the list shows what the server has,
\* in whatever order optimistic updates, their reverts, cancelled and repeated fetches and other
\* admins' changes came, and no vanished account stays selected.  An overage snapshot is exempt:
\* merged late, it overwrites a newer row and nothing refetches it.
AccountListIsServer ==
  Quiet /\ ~excused =>
    /\ aspect # "overage" => list = srv
    /\ Listed(list) = Listed(srv) /\ sel \subseteq Listed(srv)

=============================================================================
