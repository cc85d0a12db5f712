---------------------------- MODULE SettingsForms ----------------------------
(***************************************************************************)
(* The Settings page: the cards that edit a copy of a setting and save it.  *)
(* The cards of one query share its cache; one query is followed per        *)
(* behaviour, with another browser tab writing the same settings.           *)
(***************************************************************************)
EXTENDS Naturals, FiniteSets

CONSTANTS MaxEdits,  \* bound: edits of this tab
          MaxWrites, \* bound: writes of the other tab
          MaxFails   \* bound: requests that fail and times the page is left

None == "none"
IsEqual(a, b) == a = b
INSTANCE SettingsDraft WITH Same <- IsEqual

(***************************************************************************)
(* The cards: the query they read, what a value that is not set reads as,   *)
(* what their controls offer, what they refuse to send.  A value stands for *)
(* the fields of the card.                                                  *)
(***************************************************************************)
Card(query, missing, offers, refused) ==
  [query |-> query, missing |-> missing, offers |-> offers, refused |-> refused]

UsageCard           == Card("general", "off", {"on", "off"}, {})
StreamIntegrityCard == Card("general", "off", {"on", "off"}, {})
RoutingCard         == Card("general", "on", {"on", "off"}, {})
ToolHistoryCard     == Card("general", "on", {"on", "off"}, {})
AutoContinueCard    == Card("general", "3", {"3", "10", "11", "empty"}, {"11", "empty"})
ThinkingCard        == Card("thinking", "-thinking", {"-thinking", "-x", " "}, {})
EndpointCard        == Card("endpoint", "auto", {"auto", "kiro"}, {})
PromptFilterCard    == Card("filter", "no rules", {"no rules", "rule", "two rules"}, {})

Cards == [usage |-> UsageCard, integrity |-> StreamIntegrityCard, routing |-> RoutingCard,
          history |-> ToolHistoryCard, auto |-> AutoContinueCard, thinking |-> ThinkingCard,
          endpoint |-> EndpointCard, filter |-> PromptFilterCard]
Name == DOMAIN Cards

\* What a card sends for its draft: an empty suffix becomes the default.
Sends(c, v) == IF v = " " THEN Cards[c].missing ELSE v

\* What the server stores for what a card sends, and what it answers to a read.
Stores(c, v) == IF c = "filter" /\ v = "no rules" THEN "unset" ELSE v
Reads(c, stored) == IF stored = "unset" THEN Cards[c].missing ELSE stored

VARIABLES shown,  \* the cards followed: one, or two of the shared query
          page,   \* "on", "asking" (the leave guard's question), "off"
          stored, \* the settings on the server
          cache,  \* the query's data and whether its last fetch failed
          fetch,  \* the query's fetch: idle, sent, or served with a value
          late,   \* a change came while a hidden query had already read the old value
          notify, \* a settings_changed event is on its way to this tab
          form,   \* each mounted card's draft
          save,   \* each card's save: idle, sent, or answered
          invalid,\* cards that refused their draft
          edits, writes, fails

vars == <<shown, page, stored, cache, fetch, late, notify, form, save, invalid, edits, writes, fails>>
counts == <<edits, writes, fails>>

Idle == [st |-> "idle", val |-> None]
Gone == InitialDraft(None) \* a card that is not mounted

Empty          == [c \in shown |-> None]
Slice(data)    == [c \in shown |-> Reads(c, data[c])]
Mounted(c)     == form[c] # Gone
Dirty(c)       == Mounted(c) /\ ~Clean(form[c])
Saving(c)      == save[c].st # "idle"

TypeOK ==
  /\ shown \subseteq Name /\ page \in {"on", "asking", "off"} /\ notify \in BOOLEAN
  /\ cache.status \in {"pending", "ok", "error"} /\ invalid \subseteq shown
  /\ \A c \in shown : form[c] # Gone => form[c].draft \in Cards[c].offers

Init ==
  /\ shown \in {{c} : c \in Name} \cup {{"usage", "auto"}, {"routing", "history"}}
  /\ page = "on" /\ stored \in [shown -> {"unset"}]
  /\ cache = [status |-> "pending", data |-> Empty, stale |-> FALSE] /\ fetch = [st |-> "sent", val |-> Empty]
  /\ late = FALSE /\ notify = FALSE /\ form = [c \in shown |-> Gone] /\ save = [c \in shown |-> Idle]
  /\ invalid = {} /\ edits = 0 /\ writes = 0 /\ fails = 0

(***************************************************************************)
(* Rendering: every mounted card of the query looks at its copy.            *)
(***************************************************************************)
Rendered(forms, data, onPage) ==
  [c \in shown |-> IF ~onPage THEN Gone
                   ELSE IF forms[c] = Gone THEN InitialDraft(data[c])
                   ELSE ReceiveServer(forms[c], data[c])]

(***************************************************************************)
(* The query                                                                *)
(***************************************************************************)
StartFetch == fetch' = [st |-> "sent", val |-> Empty] /\ late' = FALSE

\* invalidateQueries: a query that is shown is fetched again, and a fetch under way starts over;
\* one that is not shown is marked, and its fetch goes on.
Invalidate(c) ==
  IF page = "off" THEN /\ cache' = [c EXCEPT !.stale = TRUE]
                       /\ late' = (late \/ fetch.st = "served") /\ fetch' = fetch
  ELSE cache' = c /\ StartFetch

FetchServed ==
  /\ fetch.st = "sent" /\ fetch' = [st |-> "served", val |-> Slice(stored)]
  /\ UNCHANGED <<shown, page, stored, cache, late, notify, form, save, invalid, counts>>

FetchDone ==
  /\ fetch.st = "served" /\ fetch' = [st |-> "idle", val |-> Empty]
  /\ cache' = [status |-> "ok", data |-> fetch.val, stale |-> FALSE]
  /\ form' = Rendered(form, fetch.val, page # "off")
  /\ UNCHANGED <<shown, page, stored, late, notify, save, invalid, counts>>

\* After its retries.  A failed query shows its error in place of the card, also when it holds
\* data, and the card's draft goes with the card.
FetchFails ==
  /\ fetch.st \in {"sent", "served"} /\ fails < MaxFails /\ fails' = fails + 1
  /\ fetch' = [st |-> "idle", val |-> Empty] /\ cache' = [cache EXCEPT !.status = "error"]
  /\ form' = [c \in shown |-> Gone] /\ invalid' = {}
  /\ UNCHANGED <<shown, page, stored, late, notify, save, edits, writes>>

\* The Retry button of a card, or of the error that stands for the five shared cards.
Retry ==
  /\ page = "on" /\ cache.status = "error" /\ fetch.st = "idle"
  /\ StartFetch
  /\ UNCHANGED <<shown, page, stored, cache, notify, form, save, invalid, counts>>

\* settings_changed.
Notified ==
  /\ notify /\ notify' = FALSE /\ Invalidate(cache)
  /\ UNCHANGED <<shown, page, stored, form, save, invalid, counts>>

OtherTabSaves ==
  /\ writes < MaxWrites /\ writes' = writes + 1 /\ notify' = TRUE
  /\ \E c \in shown : \E v \in Cards[c].offers \ Cards[c].refused :
       stored' = [stored EXCEPT ![c] = Stores(c, Sends(c, v))]
  /\ UNCHANGED <<shown, page, cache, fetch, late, form, save, invalid, edits, fails>>

(***************************************************************************)
(* A card                                                                   *)
(***************************************************************************)
Edit(c) ==
  /\ page = "on" /\ Mounted(c) /\ edits < MaxEdits /\ edits' = edits + 1
  /\ \E v \in Cards[c].offers \ {form[c].draft} : form' = [form EXCEPT ![c] = Set(@, v)]
  /\ invalid' = invalid \ {c}
  /\ UNCHANGED <<shown, page, stored, cache, fetch, late, notify, save, writes, fails>>

\* The Save button does nothing while there is nothing to save or a save is under way.
Submit(c) ==
  /\ page = "on" /\ Dirty(c) /\ ~Saving(c)
  /\ IF form[c].draft \in Cards[c].refused
     THEN c \notin invalid /\ invalid' = invalid \cup {c} /\ save' = save
     ELSE save' = [save EXCEPT ![c] = [st |-> "sent", val |-> Sends(c, form[c].draft)]]
          /\ invalid' = invalid
  /\ UNCHANGED <<shown, page, stored, cache, fetch, late, notify, form, counts>>

\* The answer may be lost after the server has stored the setting.
Serve(c) ==
  /\ save[c].st = "sent"
  /\ \/ /\ stored' = [stored EXCEPT ![c] = Stores(c, save[c].val)] /\ notify' = TRUE
        /\ \/ save' = [save EXCEPT ![c].st = "ok"] /\ fails' = fails
           \/ save' = [save EXCEPT ![c].st = "failed"] /\ fails < MaxFails /\ fails' = fails + 1
     \/ /\ save' = [save EXCEPT ![c].st = "failed"] /\ fails < MaxFails /\ fails' = fails + 1
        /\ UNCHANGED <<stored, notify>>
  /\ UNCHANGED <<shown, page, cache, fetch, late, form, invalid, edits, writes>>

\* onSaved: the draft becomes what was sent, the card's fields are written into the cached copy
\* and the query is fetched again.
Saved(c) ==
  LET data == IF cache.data = Empty THEN Empty ELSE [cache.data EXCEPT ![c] = save[c].val]
  IN  /\ save[c].st = "ok" /\ save' = [save EXCEPT ![c] = Idle]
      /\ Invalidate([cache EXCEPT !.data = data, !.status = IF data = Empty THEN @ ELSE "ok"])
      /\ form' = IF data = Empty THEN form
                 ELSE Rendered(IF Mounted(c) THEN [form EXCEPT ![c] = Commit(@, save[c].val)]
                               ELSE form, data, page # "off")
      /\ UNCHANGED <<shown, page, stored, notify, invalid, counts>>

\* The reason is toasted; the draft stays as it is.
SaveFailed(c) ==
  /\ save[c].st = "failed" /\ save' = [save EXCEPT ![c] = Idle]
  /\ UNCHANGED <<shown, page, stored, cache, fetch, late, notify, form, invalid, counts>>

\* Reload, in the notice that the setting changed on the server.
ReloadCard(c) ==
  /\ page = "on" /\ Mounted(c) /\ ServerChanged(form[c])
  /\ form' = [form EXCEPT ![c] = Reload(@)] /\ invalid' = invalid \ {c}
  /\ UNCHANGED <<shown, page, stored, cache, fetch, late, notify, save, counts>>

(***************************************************************************)
(* Leaving the page                                                         *)
(***************************************************************************)
Unsaved == {c \in shown : Dirty(c)}
Unmount == page' = "off" /\ form' = [c \in shown |-> Gone] /\ invalid' = {}

\* useLeaveGuard: sign-out always leaves, another page asks while edits are unsaved.
Leave ==
  /\ page = "on" /\ fails < MaxFails /\ fails' = fails + 1
  /\ \/ Unsaved # {} /\ page' = "asking" /\ UNCHANGED <<form, invalid>>
     \/ Unmount
  /\ UNCHANGED <<shown, stored, cache, fetch, late, notify, save, edits, writes>>

AnswerGuard ==
  /\ page = "asking" /\ (Unmount \/ (page' = "on" /\ UNCHANGED <<form, invalid>>))
  /\ UNCHANGED <<shown, stored, cache, fetch, late, notify, save, counts>>

\* The page is opened again: the copy in the cache is shown, and fetched again when it is marked,
\* failed or older than staleTime.
Return ==
  /\ page = "off" /\ page' = "on"
  /\ IF fetch.st # "idle" THEN UNCHANGED <<fetch, late>>
     ELSE StartFetch \/ (cache.status = "ok" /\ ~cache.stale /\ UNCHANGED <<fetch, late>>)
  /\ form' = IF cache.status = "ok" THEN Rendered(form, cache.data, TRUE) ELSE form
  /\ UNCHANGED <<shown, stored, cache, notify, save, invalid, counts>>

Query == FetchServed \/ FetchDone \/ FetchFails \/ Retry \/ Notified \/ OtherTabSaves
CardStep(c) == Edit(c) \/ Submit(c) \/ Serve(c) \/ Saved(c) \/ SaveFailed(c) \/ ReloadCard(c)
Next == Query \/ (\E c \in shown : CardStep(c)) \/ Leave \/ AnswerGuard \/ Return

Spec == Init /\ [][Next]_vars

(***************************************************************************)
(* Properties                                                               *)
(***************************************************************************)
Quiet == page = "on" /\ ~late /\ cache.status = "ok" /\ fetch.st = "idle" /\ ~notify

\* Once no news of the settings is on its way, the value a card was edited from, or shows, is the
\* setting the server holds, or the card has noted that the setting changed under the edit:
\* whatever saves, refetches and the other tab's writes came in between or are still unanswered.  (The exception is a change announced
\* while the page is closed to a query that has read the old value and has not delivered it.)
StaleFormNoted ==
  Quiet => \A c \in shown : Mounted(c) => form[c].base = Reads(c, stored[c]) \/ form[c].changed

\* dirty.ts: "a refetch never overwrites local edits".
RefetchKeepsEdits ==
  [][ \A c \in shown : (FetchDone \/ FetchFails) /\ Dirty(c) /\ page = "on" =>
        form'[c] # Gone /\ form'[c].draft = form[c].draft ]_vars
=============================================================================
