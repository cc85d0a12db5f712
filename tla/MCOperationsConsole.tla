------------------------ MODULE MCOperationsConsole ------------------------
(***************************************************************************)
(* The settings, API key, backup and request pages of the console, its     *)
(* frame and its formatted amounts.  A behaviour runs one of them and the  *)
(* variables it does not use rest, so the state spaces add up and do not   *)
(* multiply.  A variable of one name may be used by several components.    *)
(***************************************************************************)
EXTENDS Integers, Sequences, FiniteSets

CONSTANTS MaxEdits, MaxWrites, MaxFails,                \* of the settings forms
          MaxRows, FilterFrom, MaxSteps,                \* of the model mappings
          MaxKeys, MaxIds, MaxCalls, MaxOther, MaxLost, PageSize, \* of the keys and the backups
          TickTime, Interval, KeepMax, KeepDefault, Keeps, MaxNow, MaxLate, MaxSaves, \* of the schedule
          Letters, MaxText, MaxMoves, MaxLog, LogPage, Widths, \* of the request log
          ToastIds, MaxToasts, MaxOps,                  \* of the frame
          Starts, Span, Kilo                            \* of the amounts

VARIABLES which, \* the component that runs
          shown, page, stored, cache, load, late, notify, form, save, invalid, edits, writes, fails,
          next, error, filter, focus, editor, steps,
          part, asked,
          keys, require, list, setting, fetch, event, calls, dialog, ask, created, draft, warn, after,
          made, other, lost,
          kind, refocus, ended,
          now, wake, sched, taken, promise, cached, seed, touched, saves,
          text, timer, going, url, log, persist, params, tick, selection, width, moves,
          ops, open, opener, before, wide, row, query, anchor, toasts, pathToasts, synced, silent, manual,
          remote, latest, announced, theme, systemDark, dark, reveal, transitions,
          first, n, message

Forms    == INSTANCE SettingsForms WITH fetch <- load
Mappings == INSTANCE ModelMappings
Keys     == INSTANCE ApiKeysPage
Backups  == INSTANCE BackupsPage
Schedule == INSTANCE BackupSchedule WITH Tick <- TickTime
Requests == INSTANCE RequestsPage WITH PageSize <- LogPage
Frame    == INSTANCE Shell WITH Ids <- ToastIds
Amounts  == INSTANCE Display WITH K <- Kilo

(***************************************************************************)
(* Values that the instance gives to constants                              *)
(***************************************************************************)
Periods   == [hourly |-> 6, daily |-> 9]
FirstAmounts == [duration |-> {980, 9980, 59900, 119450}, bytes |-> {10, 4000, 262050},
                 credits |-> {0, 9980}, uptime |-> {3550, 86350}]

(***************************************************************************)
(* One component runs                                                       *)
(***************************************************************************)
\* The variables that the component does not use are empty.
AtRest ==
  /\ IF which \in {"forms", "requests", "shell"} THEN TRUE ELSE shown = 0
  /\ IF which \in {"forms", "keys", "backups", "shell"} THEN TRUE ELSE page = 0
  /\ IF which \in {"forms", "mappings", "backups", "shell"} THEN TRUE ELSE stored = 0
  /\ IF which \in {"forms", "requests"} THEN TRUE ELSE cache = 0
  /\ IF which = "forms" THEN TRUE
     ELSE load = 0 /\ late = 0 /\ notify = 0 /\ edits = 0 /\ writes = 0 /\ fails = 0
  /\ IF which \in {"forms", "mappings", "schedule"} THEN TRUE ELSE form = 0 /\ save = 0
  /\ IF which \in {"forms", "schedule"} THEN TRUE ELSE invalid = 0
  /\ IF which \in {"mappings", "keys"} THEN TRUE ELSE next = 0
  /\ IF which = "mappings" THEN TRUE ELSE error = 0 /\ filter = 0 /\ editor = 0 /\ steps = 0
  /\ IF which \in {"mappings", "keys", "backups", "shell"} THEN TRUE ELSE focus = 0
  /\ IF which \in {"keys", "schedule", "requests", "shell"} THEN TRUE ELSE part = 0
  /\ IF which = "keys" THEN TRUE
     ELSE keys = 0 /\ require = 0 /\ setting = 0 /\ created = 0 /\ draft = 0 /\ warn = 0
          /\ after = 0
  /\ IF which \in {"keys", "backups"} THEN TRUE
     ELSE list = 0 /\ fetch = 0 /\ event = 0 /\ calls = 0 /\ ask = 0 /\ made = 0 /\ other = 0
          /\ lost = 0
  /\ IF which \in {"keys", "shell"} THEN TRUE ELSE dialog = 0
  /\ IF which \in {"backups", "amounts"} THEN TRUE ELSE kind = 0
  /\ IF which = "backups" THEN TRUE ELSE refocus = 0 /\ ended = 0
  /\ IF which = "schedule" THEN TRUE
     ELSE now = 0 /\ wake = 0 /\ sched = 0 /\ taken = 0 /\ promise = 0 /\ cached = 0 /\ seed = 0
          /\ touched = 0 /\ saves = 0
  /\ IF which = "requests" THEN TRUE
     ELSE text = 0 /\ timer = 0 /\ going = 0 /\ url = 0 /\ log = 0 /\ persist = 0 /\ params = 0
          /\ asked = 0 /\ tick = 0 /\ selection = 0 /\ width = 0 /\ moves = 0
  /\ IF which = "shell" THEN TRUE
     ELSE ops = 0 /\ open = 0 /\ opener = 0 /\ before = 0 /\ wide = 0 /\ row = 0 /\ query = 0
          /\ anchor = 0 /\ toasts = 0 /\ pathToasts = 0 /\ synced = 0 /\ silent = 0 /\ manual = 0
          /\ remote = 0 /\ latest = 0 /\ announced = 0 /\ theme = 0 /\ systemDark = 0 /\ dark = 0
          /\ reveal = 0 /\ transitions = 0
  /\ IF which = "amounts" THEN TRUE ELSE first = 0 /\ n = 0 /\ message = 0

\* Variables of one component, and those that several use.
formVars     == <<load, late, notify, edits, writes, fails>>
mappingVars  == <<error, filter, editor, steps>>
keyVars      == <<keys, require, setting, created, draft, warn, after>>
backupVars   == <<refocus, ended>>
scheduleVars == <<now, wake, sched, taken, promise, cached, seed, touched, saves>>
requestVars  == <<text, timer, going, url, log, persist, params, asked, tick, selection, width,
                  moves>>
frameVars    == <<ops, open, opener, before, wide, row, query, anchor, toasts, pathToasts, synced,
                  silent, manual, remote, latest, announced, theme, systemDark, dark, reveal,
                  transitions>>
amountVars   == <<first, n, message>>
sharedVars   == <<shown, page, stored, cache, form, save, invalid, next, focus, part, list, fetch,
                  event, calls, dialog, ask, made, other, lost, kind>>
vars == <<which, sharedVars, formVars, mappingVars, keyVars, backupVars, scheduleVars,
          requestVars, frameVars, amountVars>>

Init ==
  \/ which = "forms"       /\ Forms!Init    /\ AtRest
  \/ which = "mappings"    /\ Mappings!Init /\ AtRest
  \/ which = "keys"        /\ Keys!Init     /\ AtRest
  \/ which = "backups"     /\ Backups!Init  /\ AtRest
  \/ which = "schedule"    /\ Schedule!Init /\ AtRest
  \/ which = "requests"    /\ Requests!Init /\ AtRest
  \/ which = "shell"       /\ Frame!Init    /\ AtRest
  \/ which = "amounts"     /\ Amounts!Init  /\ AtRest

Next ==
  /\ UNCHANGED which
  /\ \/ which = "forms" /\ Forms!Next
        /\ UNCHANGED <<mappingVars, keyVars, backupVars, scheduleVars, requestVars, frameVars,
                       amountVars, next, focus, part, list, fetch, event, calls, dialog, ask, made,
                       other, lost, kind>>
     \/ which = "mappings" /\ Mappings!Next
        /\ UNCHANGED <<formVars, keyVars, backupVars, scheduleVars, requestVars, frameVars,
                       amountVars, shown, page, cache, invalid, part, list, fetch, event, calls,
                       dialog, ask, made, other, lost, kind>>
     \/ which = "keys" /\ Keys!Next
        /\ UNCHANGED <<formVars, mappingVars, backupVars, scheduleVars, requestVars, frameVars,
                       amountVars, shown, stored, cache, form, save, invalid, kind>>
     \/ which = "backups" /\ Backups!Next
        /\ UNCHANGED <<formVars, mappingVars, keyVars, scheduleVars, requestVars, frameVars,
                       amountVars, shown, cache, form, save, invalid, next, part, dialog>>
     \/ which = "schedule" /\ Schedule!Next
        /\ UNCHANGED <<formVars, mappingVars, keyVars, backupVars, requestVars, frameVars,
                       amountVars, shown, page, stored, cache, next, focus, list, fetch, event,
                       calls, dialog, ask, made, other, lost, kind>>
     \/ which = "requests" /\ Requests!Next
        /\ UNCHANGED <<formVars, mappingVars, keyVars, backupVars, scheduleVars, frameVars,
                       amountVars, page, stored, form, save, invalid, next, focus, list, fetch,
                       event, calls, dialog, ask, made, other, lost, kind>>
     \/ which = "shell" /\ Frame!Next
        /\ UNCHANGED <<formVars, mappingVars, keyVars, backupVars, scheduleVars, requestVars,
                       amountVars, cache, form, save, invalid, next, list, fetch, event, calls,
                       ask, made, other, lost, kind>>
     \/ which = "amounts" /\ Amounts!Next
        /\ UNCHANGED <<formVars, mappingVars, keyVars, backupVars, scheduleVars, requestVars,
                       frameVars, shown, page, stored, cache, form, save, invalid, next, focus,
                       part, list, fetch, event, calls, dialog, ask, made, other, lost>>

Spec == Init /\ [][Next]_vars

(***************************************************************************)
(* Properties                                                               *)
(***************************************************************************)
\* Once no news is on its way, a settings card shows or was edited from what the server holds, or
\* has noted that the setting changed under the edit, also while a save is unanswered.
StaleFormNoted ==
  which = "forms" => Forms!StaleFormNoted

\* A refused save is shown on the row that was refused, also when rows moved meanwhile, and
\* reading back a saved list keeps every row mounted.
MappingRowsKeepTheirId ==
  [][which = "mappings" => Mappings!ErrorNamesRefusedRow /\ Mappings!RowsSurviveSave]_vars

\* A scheduled backup is never later than the run the server named; the schedule card calls
\* unsaved only what was typed.
ScheduleKeepsItsWord ==
  which = "schedule" => Schedule!ScheduleKeepsItsWord

\* When every request, event and timer has settled, a page shows what is in force: the API page the
\* keys, usage and access switch of the server, and an edit dialog only over a key that exists; the
\* backups page the backups of the server; the search field the search of the log.
PagesSettle ==
  /\ which = "keys"     => Keys!KeysPageIsServer
  /\ which = "backups"  => Backups!BackupRowsAreServer
  /\ which = "requests" => Requests!FieldShowsSearch

\* The detail sheet keeps the request it was opened for, and at every width each fact of a request
\* has exactly one place.
RequestsShownRight ==
  which = "requests" => Requests!TypeOK /\ Requests!SheetShowsChosen /\ Requests!EachFactOnce

\* Dismissing the command palette gives focus back to what had it, never to the opener of an
\* earlier time.
PaletteReturnsFocus ==
  [][which = "shell" => Frame!FocusReturns]_vars

\* No toast points at the page the user is on, and a theme reveal ends with its class gone; an amount
\* is shown within its last digit and its unit, and an error phrase is told as what it is.
FrameTellsRight ==
  /\ which = "shell"   => Frame!ShellTellsRight
  /\ which = "amounts" => Amounts!AmountsToldRight
=============================================================================
