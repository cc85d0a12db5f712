----------------------------- MODULE ApiKeysPage -----------------------------
(***************************************************************************)
(* The API page: the key list with its row menus, the create and edit       *)
(* dialog, the panel with a created secret and the "require an API key"     *)
(* switch, against the server's key endpoints and a second tab that changes *)
(* the same keys.  A request is sent, served and answered in three steps.   *)
(***************************************************************************)
EXTENDS Naturals, Sequences, SequencesExt, FiniteSets, FiniteSetsExt, Functions

CONSTANTS MaxKeys,   \* bound: keys ever created; ids are given in order
          MaxCalls,  \* bound: requests of this page
          MaxOther,  \* bound: changes by another tab or by a client's traffic
          MaxLost,   \* bound: answers lost on the way back
          PageSize   \* rows of a page

VARIABLES
  part,    \* what is followed: "rows", "form" or "access"
  keys,    \* server: id -> [on, used, limit]
  require, \* server: requireApiKey
  next,    \* server: the next id
  list,    \* the cached list
  setting, \* the cached requireApiKey
  fetch,   \* the list fetch: "no" | "asked", or "read" with what it read
  event,   \* an api_keys_changed event is on its way
  calls,   \* requests of this page that are not answered yet
  dialog,  \* [open, mode, id, session]
  ask,     \* the confirm dialog: what it asks about, Nothing when it is closed
  created, \* the id whose secret the panel shows, 0 when it is gone
  draft,   \* the access switch: "none" or the draft
  warn,    \* the "create an enabled key first" warning
  page, focus, after, \* the page asked for, the focused row, the focus to move after a delete
  made, other, lost   \* counters of the bounds

server == <<keys, require, next>>
view   == <<list, setting, fetch>>
count  == <<made, other, lost>>
ui     == <<dialog, ask, created, draft, warn, page, focus, after>>
vars   == <<part, server, view, event, calls, ui, count>>

Ids      == 1 .. MaxKeys
Key      == [on : BOOLEAN, used : 0 .. 1, limit : 0 .. 1]
Fresh(l) == [on |-> TRUE, used |-> 0, limit |-> l]
Nothing  == [kind |-> "", id |-> 0]
NoAfter  == [id |-> 0, order |-> <<>>]
Create   == 0        \* focus on the Create API key button
Body     == MaxKeys + 1 \* focus dropped to the page
NoFetch  == [st |-> "no", list |-> <<>>]

TypeOK ==
  /\ DOMAIN keys \subseteq Ids /\ Range(keys) \subseteq Key /\ DOMAIN list \subseteq Ids
  /\ require \in BOOLEAN /\ setting \in BOOLEAN /\ fetch.st \in {"no", "asked", "read"}
  /\ focus \in 0 .. MaxKeys + 1 /\ draft \in {"none", "on", "off"} /\ created \in 0 .. MaxKeys
  /\ Cardinality(calls) <= MaxCalls /\ dialog.mode \in {"create", "edit"}

(***************************************************************************)
(* api-key-form.ts                                                          *)
(***************************************************************************)
\* What the limit fields can hold; an empty one means no limit.
LimitInput == {"empty", "one", "fraction"}
ParseApiKeyForm(l) == [ok |-> l # "fraction", limit |-> IF l = "one" THEN 1 ELSE 0]
IsLimitReached(k)  == k.limit > 0 /\ k.used >= k.limit
CountEnabledKeys(l) == Cardinality({i \in DOMAIN l : l[i].on})
WouldLockOutClients(l, i) == setting /\ i \in DOMAIN l /\ l[i].on /\ CountEnabledKeys(l) = 1

\* What a row shows: the status badges and the usage against the limit.
KeyStatus(k) == <<k.on, IsLimitReached(k)>>
UsageLine(k) == IF k.limit = 0 THEN "unlimited" ELSE IF k.used < k.limit THEN "below" ELSE "reached"
Row(k)       == [status |-> KeyStatus(k), usage |-> UsageLine(k)]
Meta(l)      == <<Cardinality(DOMAIN l), Cardinality(DOMAIN l) - CountEnabledKeys(l)>>

\* The rows of the current page; the page is clamped to the pages that are left.
Order(l)     == SetToSortSeq(DOMAIN l, <)
PageCount(l) == IF l = <<>> THEN 1 ELSE (Cardinality(DOMAIN l) + PageSize - 1) \div PageSize
CurrentPage(l) == Min({page, PageCount(l)})
PageRows(l)  == {i \in DOMAIN l : Cardinality({j \in DOMAIN l : j < i}) \div PageSize = CurrentPage(l) - 1}

(***************************************************************************)
(* The list query                                                           *)
(***************************************************************************)
\* Faulty variant: an invalidation joins the fetch that is already under way.
InvalidateJoins == fetch' = IF fetch.st = "no" THEN [NoFetch EXCEPT !.st = "asked"] ELSE fetch

\* An invalidation cancels the fetch that is under way and asks again.
Invalidate == fetch' = [NoFetch EXCEPT !.st = "asked"]

\* GET /api-keys: the list without the secrets.
ServeList ==
  /\ fetch.st = "asked" /\ fetch' = [st |-> "read", list |-> keys]
  /\ UNCHANGED <<part, server, list, setting, event, calls, ui, count>>

\* After a delete: the next row that is shown, else the previous one, else Create.
FocusAfterDelete(l) ==
  LET at     == CHOOSE i \in DOMAIN after.order : after.order[i] = after.id
      behind == SubSeq(after.order, at + 1, Len(after.order))
      before == Reverse(SubSeq(after.order, 1, at - 1))
      found  == SelectSeq(behind \o before, LAMBDA i : i \in PageRows(l))
  IN  IF found = <<>> THEN Create ELSE Head(found)

\* The list arrives: a focused row that is gone drops the focus, the effects of the card run.
ListArrives ==
  LET l == fetch.list
      dropped == focus \in Ids /\ focus \notin PageRows(l)
      moves   == after.id # 0 /\ after.id \notin DOMAIN l
  IN  /\ fetch.st = "read" /\ list' = l /\ fetch' = NoFetch
      /\ dialog' = [dialog EXCEPT !.open = @ /\ (dialog.mode = "edit" => dialog.id \in DOMAIN l)]
      /\ after' = IF moves THEN NoAfter ELSE after
      /\ focus' = IF ~dropped THEN focus ELSE IF moves THEN FocusAfterDelete(l) ELSE Body
      /\ UNCHANGED <<part, server, setting, event, calls, ask, created, draft, warn, page, count>>

EventArrives ==
  /\ event /\ event' = FALSE /\ Invalidate /\ setting' = require
  /\ UNCHANGED <<part, server, list, calls, ui, count>>

Refresh ==
  /\ fetch.st = "no" /\ list # keys /\ Invalidate
  /\ UNCHANGED <<part, server, list, setting, event, calls, ui, count>>

(***************************************************************************)
(* The row menu                                                             *)
(***************************************************************************)
Send(c) == /\ made < MaxCalls /\ made' = made + 1
           /\ calls' = calls \cup {[c EXCEPT !.n = made + 1]}
Call(kind, i, arg) == [kind |-> kind, id |-> i, arg |-> arg, n |-> 0, st |-> "sent"]

\* Only the latest toggle, reset and delete keep their row busy.
Latest(kind) == {c \in calls : c.kind = kind /\ \A d \in calls : d.kind = kind => d.n <= c.n}
Busy(i)      == \E kind \in {"toggle", "reset", "delete"} : \E c \in Latest(kind) : c.id = i

\* The row's menu is opened from its trigger, which takes the focus.
KeyActions(i) == part # "access" /\ i \in PageRows(list) /\ ask = Nothing /\ ~dialog.open
                 /\ focus' = IF part = "rows" THEN i ELSE focus

\* The request carries the state the row does not show, so a repeat of it changes nothing.
OnToggle(i) ==
  /\ part = "rows" /\ KeyActions(i) /\ ~Busy(i)
  /\ IF list[i].on /\ WouldLockOutClients(list, i)
     THEN ask' = [kind |-> "toggle", id |-> i] /\ UNCHANGED <<calls, made>>
     ELSE Send(Call("toggle", i, ~list[i].on)) /\ UNCHANGED ask
  /\ UNCHANGED <<part, server, view, event, dialog, created, draft, warn, page, after, other, lost>>

OnReset(i) ==
  /\ part = "rows" /\ KeyActions(i) /\ ~Busy(i) /\ Send(Call("reset", i, TRUE))
  /\ UNCHANGED <<part, server, view, event, dialog, ask, created, draft, warn, page, after, other, lost>>

OnDelete(i) ==
  /\ part = "rows" /\ KeyActions(i) /\ ~Busy(i) /\ ask' = [kind |-> "delete", id |-> i]
  /\ UNCHANGED <<part, server, view, event, calls, dialog, created, draft, warn, page, after, count>>

\* The confirm is answered: what the list says now is not looked at again.
Confirmed ==
  /\ ask # Nothing /\ ask' = Nothing
  /\ Send(Call(ask.kind, ask.id, FALSE))
  /\ after' = IF ask.kind = "delete"
              THEN [id |-> ask.id,
                    order |-> IF ask.id \in DOMAIN list THEN Order(list) ELSE Append(Order(list), ask.id)]
              ELSE after
  /\ UNCHANGED <<part, server, view, event, dialog, created, draft, warn, page, focus, other, lost>>

Declined ==
  /\ ask # Nothing /\ ask' = Nothing
  /\ UNCHANGED <<part, server, view, event, calls, dialog, created, draft, warn, page, focus, after, count>>

ShowPage ==
  /\ \E p \in 1 .. PageCount(list) :
       /\ p # CurrentPage(list) /\ page' = p
       /\ focus' = Create
  /\ part = "rows" /\ ask = Nothing
  /\ UNCHANGED <<part, server, view, event, calls, dialog, ask, created, draft, warn, after, count>>

(***************************************************************************)
(* The dialog and the created secret                                        *)
(***************************************************************************)
OpenDialog(mode, i) ==
  /\ dialog' = [open |-> TRUE, mode |-> mode, id |-> i, session |-> made]
  /\ created' = 0
  /\ UNCHANGED <<part, server, view, event, calls, ask, draft, warn, page, after, count>>

OpenCreate == part = "form" /\ ask = Nothing /\ ~dialog.open /\ focus' = Create /\ OpenDialog("create", 0)
OpenEdit(i) == part = "form" /\ KeyActions(i) /\ OpenDialog("edit", i)

\* One request per opening; a limit the form refuses is not sent.
Pending == \E c \in calls : c.kind \in {"create", "update"} /\ c.n > dialog.session
OnSubmit ==
  /\ dialog.open /\ ~Pending
  /\ \E l \in LimitInput :
       LET parsed == ParseApiKeyForm(l)
       IN  /\ parsed.ok
           /\ Send(Call(IF dialog.mode = "edit" THEN "update" ELSE "create", dialog.id, parsed.limit = 1))
  /\ UNCHANGED <<part, server, view, event, ui, other, lost>>

\* Cancel works while the request is under way.
CloseDialog ==
  /\ dialog.open /\ dialog' = [dialog EXCEPT !.open = FALSE]
  /\ UNCHANGED <<part, server, view, event, calls, ask, created, draft, warn, page, focus, after, count>>

Dismiss ==
  /\ created # 0 /\ created' = 0
  /\ UNCHANGED <<part, server, view, event, calls, dialog, ask, draft, warn, page, focus, after, count>>

(***************************************************************************)
(* The access card                                                          *)
(***************************************************************************)
Checked  == IF draft = "none" THEN setting ELSE draft = "on"
Dirty    == Checked # setting
Saving   == \E c \in calls : c.kind = "require"

FlipRequire ==
  /\ part = "access" /\ ~Saving /\ draft' = (IF Checked THEN "off" ELSE "on") /\ warn' = FALSE
  /\ UNCHANGED <<part, server, view, event, calls, dialog, ask, created, page, focus, after, count>>

OnSave ==
  /\ ~Saving /\ Dirty
  /\ IF Checked /\ CountEnabledKeys(list) = 0
     THEN warn' = TRUE /\ UNCHANGED <<calls, made>>
     ELSE warn' = FALSE /\ Send(Call("require", 0, Checked))
  /\ UNCHANGED <<part, server, view, event, dialog, ask, created, draft, page, focus, after, other, lost>>

(***************************************************************************)
(* The server                                                               *)
(***************************************************************************)
RemovingLocksOut(i) ==
  i \in DOMAIN keys /\ keys[i].on /\ require /\ Cardinality({j \in DOMAIN keys : keys[j].on}) <= 1

\* Whether a request is refused: an unknown key (a delete of one succeeds), or a lockout (409).
Refused(c) ==
  \/ c.kind \in {"toggle", "update", "reset"} /\ c.id \notin DOMAIN keys
  \/ c.kind = "toggle" /\ ~c.arg /\ RemovingLocksOut(c.id)
  \/ c.kind = "delete" /\ RemovingLocksOut(c.id)
  \/ c.kind = "require" /\ c.arg /\ CountEnabledKeys(keys) = 0

\* What the endpoints do.  PUT changes the fields of its body only; a reset enables nothing.
Store(c) ==
  /\ keys' = CASE c.kind = "toggle" -> [keys EXCEPT ![c.id].on = c.arg]
               [] c.kind = "update" -> [keys EXCEPT ![c.id].limit = IF c.arg THEN 1 ELSE 0]
               [] c.kind = "reset"  -> [keys EXCEPT ![c.id].used = 0]
               [] c.kind = "delete" -> Restrict(keys, DOMAIN keys \ {c.id})
               [] c.kind = "create" -> [i \in DOMAIN keys \cup {next} |->
                                          IF i = next THEN Fresh(IF c.arg THEN 1 ELSE 0) ELSE keys[i]]
               [] OTHER -> keys
  /\ next' = IF c.kind = "create" THEN next + 1 ELSE next
  /\ require' = IF c.kind = "require" THEN c.arg ELSE require

Serve ==
  \E c \in calls :
    /\ c.st = "sent" /\ (c.kind = "create" => next <= MaxKeys)
    /\ IF Refused(c)
       THEN calls' = (calls \ {c}) \cup {[c EXCEPT !.st = "refused"]} /\ UNCHANGED <<server, event>>
       ELSE /\ Store(c) /\ event' = TRUE
            /\ calls' = (calls \ {c}) \cup {[c EXCEPT !.st = "done", !.id = IF c.kind = "create" THEN next ELSE @]}
    /\ UNCHANGED <<part, view, ui, count>>

\* Another tab toggles or deletes a key, or a client's traffic takes one to its limit.
OtherChanges ==
  /\ other < MaxOther /\ other' = other + 1 /\ event' = TRUE
  /\ \E i \in DOMAIN keys :
       \/ /\ \E c \in {Call(kind, i, ~keys[i].on) : kind \in {"toggle", "delete"}} : ~Refused(c) /\ Store(c)
       \/ /\ keys[i].limit = 1 /\ keys' = [keys EXCEPT ![i].on = FALSE, ![i].used = 1]
          /\ UNCHANGED <<require, next>>
  /\ UNCHANGED <<part, view, calls, ui, made, lost>>

(***************************************************************************)
(* The answers                                                              *)
(***************************************************************************)
\* onSettled of the row actions and onSuccess of the dialog: the list is asked for again.  A
\* create shows its secret, and the dialog that is open by then is closed.
Settled(c, ok) ==
  /\ calls' = calls \ {c}
  /\ created' = IF c.kind = "create" /\ ok THEN c.id ELSE created
  /\ dialog' = IF c.kind \in {"create", "update"} /\ ok THEN [dialog EXCEPT !.open = FALSE] ELSE dialog
  /\ after' = IF c.kind = "delete" /\ ~ok THEN NoAfter ELSE after
  /\ draft' = IF c.kind = "require" /\ ok THEN "none" ELSE draft
  /\ setting' = IF c.kind = "require" /\ ok THEN c.arg ELSE setting
  /\ IF c.kind \in {"toggle", "reset", "delete"} \/ (ok /\ c.kind # "require") THEN Invalidate ELSE UNCHANGED fetch
  /\ UNCHANGED <<part, server, list, event, ask, warn, page, focus, made, other>>

Answer == \E c \in calls : c.st # "sent" /\ Settled(c, c.st = "done") /\ UNCHANGED lost
Lose   == \E c \in calls : lost < MaxLost /\ lost' = lost + 1 /\ Settled(c, FALSE)

Init ==
  /\ part \in {"rows", "form", "access"}
  /\ keys = [i \in 1 .. 2 |-> [Fresh(i - 1) EXCEPT !.on = i = 1]] /\ next = 3
  /\ require \in BOOLEAN /\ list = keys /\ setting = require /\ fetch = NoFetch /\ event = FALSE
  /\ calls = {} /\ dialog = [open |-> FALSE, mode |-> "create", id |-> 0, session |-> 0]
  /\ ask = Nothing /\ created = 0 /\ draft = "none" /\ warn = FALSE
  /\ page = 1 /\ focus = Create /\ after = NoAfter /\ made = 0 /\ other = 0 /\ lost = 0

RowMenu == \E i \in Ids : OnToggle(i) \/ OnReset(i) \/ OnDelete(i) \/ OpenEdit(i)
Next ==
  \/ RowMenu \/ Confirmed \/ Declined \/ ShowPage \/ OpenCreate \/ OnSubmit \/ CloseDialog \/ Dismiss
  \/ FlipRequire \/ OnSave \/ Serve \/ OtherChanges \/ Answer \/ Lose
  \/ ServeList \/ ListArrives \/ EventArrives \/ Refresh

Spec == Init /\ [][Next]_vars

(***************************************************************************)
(* Properties                                                               *)
(***************************************************************************)
Quiet == calls = {} /\ fetch.st = "no" /\ ~event

\* Once every request is answered and every event applied, the page shows the server: each row's
\* badges and usage, the access switch that is not edited, and an edit dialog only over a key that
\* exists, whatever two tabs, lost answers and refetches in between did.
KeysPageIsServer ==
  Quiet => /\ DOMAIN list = DOMAIN keys /\ Meta(list) = Meta(keys)
           /\ \A i \in DOMAIN list : Row(list[i]) = Row(keys[i])
           /\ draft = "none" => Checked = require
           /\ (dialog.open /\ dialog.mode = "edit") => dialog.id \in DOMAIN keys

=============================================================================
