------------------------------- MODULE Shell -------------------------------
(***************************************************************************)
(* The app shell around the pages.  Part "palette": the command palette and *)
(* where focus goes when it closes.  Part "notices": toasts, which may      *)
(* point at a page, with the two update checks that raise some of them.     *)
(* Part "theme": theme changes, each drawn by a view transition.            *)
(***************************************************************************)
EXTENDS Naturals, Sequences, FiniteSets

CONSTANTS Ids,       \* ids of toasts; UpdateToast is AVAILABLE_TOAST_ID
          MaxToasts, \* bound: toasts shown
          MaxOps     \* bound: palette openings, navigations, checks and theme changes

VARIABLES
  part, page, ops,
  \* palette
  open, opener, focus,
  before,      \* what had focus when it was opened
  wide,        \* the window shows the search field, else the search icon
  row,         \* an element of the page that has focus at times is mounted
  query, anchor,
  \* notices
  toasts,      \* records: id, gen, path it points at, whether it loads and whether it is closing
  pathToasts,  \* id -> gen of the toast it is kept for; 0 is no entry
  synced,      \* useToastPathSync has run for the page
  silent,      \* the silent check: "timer", "flight", "over"
  manual,      \* the manual check: "idle", "flight"
  remote,      \* the release the project publishes; 1 is the one that runs
  latest, dialog, announced, shown,
  \* theme
  theme, stored, systemDark, dark, reveal,
  transitions  \* view transitions, oldest first: the theme to set, "pending" or "running", skipped or not

pal    == <<open, opener, focus, before, wide, row, query, anchor>>
update == <<silent, manual, remote, latest, dialog, announced>>
notes  == <<toasts, pathToasts, synced, shown, update>>
look   == <<theme, stored, systemDark, dark, reveal, transitions>>
vars   == <<part, page, ops, pal, notes, look>>

UpdateToast == "update-available"
Pages == {"overview", "settings", "login"}
Op    == ops < MaxOps /\ ops' = ops + 1

(***************************************************************************)
(* The palette (command-menu.tsx)                                           *)
(***************************************************************************)
\* The trigger with a box; the palette hangs under it.
Trigger == IF wide THEN "field" ELSE "icon"
Place   == anchor' = IF wide' THEN "field" ELSE "icon"

\* Elements that can take focus: focusing one that is hidden leaves it on the body.
Takes(e) == e = Trigger \/ (e = "row" /\ row)
Connected(e) == e \in {"field", "icon"} \/ (e = "row" /\ row)

Groups == [pages |-> {"overview", "settings"}, actions |-> {"privacy", "update", "sign-out"},
           theme |-> {"system", "light", "dark"}, language |-> {"en", "zh"}]
Entries == UNION {Groups[g] : g \in DOMAIN Groups}
Matches(e, q) == q = "" \/ e = q \/ \E g \in DOMAIN Groups : g = q /\ e \in Groups[g]

\* Each opening starts from an empty search, under the trigger on screen.
OpenPalette == /\ open' = TRUE /\ focus' = "palette" /\ query' = ""
               /\ UNCHANGED <<wide, row>> /\ Place
               /\ before' = focus

\* Faulty variant: with nothing focused, the opener of last time stays.
ShortcutOpenerKept == IF focus = "body" THEN opener ELSE focus

\* What has focus when the shortcut opens it; the body is nothing.
ShortcutOpener == IF focus = "body" THEN "none" ELSE focus

\* finalFocus; false leaves focus on the body once the popup is gone.
FinalFocus(o) == IF Connected(o) /\ Takes(o) THEN o ELSE "body"
Close(o) == /\ open' = FALSE /\ focus' = FinalFocus(o) /\ opener' = o
            /\ UNCHANGED <<before, wide, row, query, anchor>>

Shortcut ==
  /\ part = "palette" /\ UNCHANGED <<page, notes, look>>
  /\ \/ ~open /\ Op /\ OpenPalette /\ opener' = ShortcutOpener
     \/ open /\ Close(opener) /\ UNCHANGED ops

OpenFrom ==
  /\ part = "palette" /\ ~open /\ Op
  /\ open' = TRUE /\ focus' = "palette" /\ query' = ""
  /\ UNCHANGED <<wide, row>> /\ Place
  /\ opener' = Trigger /\ before' = Trigger
  /\ UNCHANGED <<page, notes, look>>

Dismiss == /\ part = "palette" /\ open /\ Close(opener)
           /\ UNCHANGED <<page, ops, notes, look>>

Type(q) == /\ part = "palette" /\ open /\ q # query
           /\ query' = q
           /\ UNCHANGED <<page, ops, open, opener, focus, before, wide, row, anchor, notes, look>>

\* An entry closes the palette first, and gives focus to nobody: the command may move it.  A page
\* mounts its own elements; the other commands are the actions of the other parts.
Select(e) ==
  /\ part = "palette" /\ open /\ Matches(e, query)
  /\ open' = FALSE /\ opener' = "none" /\ focus' = "body"
  /\ page' = IF e \in Groups.pages THEN e ELSE page
  /\ row' = IF page' # page THEN FALSE ELSE row
  /\ UNCHANGED <<ops, before, wide, query, anchor, notes, look>>

Refocus(e) == /\ part = "palette" /\ ~open /\ (e = "body" \/ Takes(e)) /\ e # focus
              /\ focus' = e
              /\ UNCHANGED <<page, ops, open, opener, before, wide, row, query, anchor, notes, look>>
Rerender   == /\ part = "palette" /\ row' = ~row
              /\ focus' = IF focus = "row" THEN "body" ELSE focus
              /\ UNCHANGED <<page, ops, open, opener, before, wide, query, anchor, notes, look>>
Resize     == /\ part = "palette" /\ wide' = ~wide
              /\ focus' = IF focus = Trigger THEN "body" ELSE focus
              /\ IF open THEN Place ELSE UNCHANGED anchor
              /\ UNCHANGED <<page, ops, open, opener, before, row, query, notes, look>>

(***************************************************************************)
(* Toasts (lib/toast.ts, app-toasts.tsx)                                    *)
(***************************************************************************)
IsOnPath(p) == p # "" /\ page = p
Live(id)    == {t \in toasts : t.id = id /\ ~t.closing}
Closed(ids) == {IF t.id \in ids THEN [t EXCEPT !.closing = TRUE] ELSE t : t \in toasts}

\* Not shown on the page it points at.  The one it takes the id of is replaced, with its path.
Added(id, path, loads) ==
  IF IsOnPath(path) THEN UNCHANGED <<toasts, pathToasts, shown>>
  ELSE /\ shown' = shown + 1
       /\ toasts' = (toasts \ Live(id)) \cup
                      {[id |-> id, gen |-> shown + 1, path |-> path, loads |-> loads, closing |-> FALSE]}
       /\ pathToasts' = [pathToasts EXCEPT ![id] = IF path = "" THEN 0 ELSE shown + 1]

Show(id, path, loads) ==
  /\ part = "notices" /\ shown < MaxToasts /\ page # "login"
  /\ Added(id, path, loads)
  /\ UNCHANGED <<page, ops, synced, update, pal, look>>

\* A loading toast settles in place; one that is gone is not brought back.
UpdateToastTo(id) ==
  /\ part = "notices" /\ \E t \in Live(id) : t.loads
  /\ toasts' = {IF t \in Live(id) THEN [t EXCEPT !.loads = FALSE] ELSE t : t \in toasts}
  /\ UNCHANGED <<page, ops, pathToasts, synced, shown, update, pal, look>>

\* The close button, the action and the timeout; a loading toast has no timeout.
CloseToast(t) ==
  /\ part = "notices" /\ t \in toasts /\ ~t.closing
  /\ toasts' = (toasts \ {t}) \cup {[t EXCEPT !.closing = TRUE]}
  /\ UNCHANGED <<page, ops, pathToasts, synced, shown, update, pal, look>>

\* Faulty variant: the entry goes whoever it is kept for.
ForgottenAny(t) == IF t.path = "" THEN pathToasts ELSE [pathToasts EXCEPT ![t.id] = 0]

\* onRemove: forget the path, unless a newer toast took over the id.
Forgotten(t) ==
  IF t.path # "" /\ pathToasts[t.id] = t.gen THEN [pathToasts EXCEPT ![t.id] = 0] ELSE pathToasts

Removed(t) ==
  /\ part = "notices" /\ t \in toasts /\ t.closing
  /\ toasts' = toasts \ {t} /\ pathToasts' = Forgotten(t)
  /\ UNCHANGED <<page, ops, synced, shown, update, pal, look>>

Navigate(p) ==
  /\ part = "notices" /\ page # "login" /\ p # page /\ p # "login" /\ Op
  /\ page' = p /\ synced' = FALSE
  /\ UNCHANGED <<toasts, pathToasts, shown, update, pal, look>>

\* The effect of the path: close the toasts kept for it.
SyncToastPath ==
  /\ part = "notices" /\ ~synced
  /\ synced' = TRUE
  /\ LET here == {id \in Ids : pathToasts[id] # 0 /\ IsOnPath("settings")} IN
       /\ toasts' = Closed(here)
       /\ pathToasts' = [id \in Ids |-> IF id \in here THEN 0 ELSE pathToasts[id]]
  /\ UNCHANGED <<page, ops, shown, update, pal, look>>

\* A language switch dismisses the open toasts; signing out does, and leaves the shell: its silent
\* check is cancelled, a manual one is not.
SetLang == /\ part = "notices" /\ Op
           /\ toasts' = Closed(Ids)
           /\ UNCHANGED <<page, pathToasts, synced, shown, update, pal, look>>
SignOut == /\ part = "notices" /\ page # "login" /\ Op
           /\ toasts' = Closed(Ids)
           /\ page' = "login" /\ synced' = TRUE
           /\ silent' = "over" /\ dialog' = FALSE
           /\ UNCHANGED <<pathToasts, shown, manual, remote, latest, announced, pal, look>>

(***************************************************************************)
(* Update checks (update-check.tsx)                                         *)
(***************************************************************************)
Release == /\ part = "notices" /\ remote < 3 /\ Op
           /\ remote' = remote + 1
           /\ UNCHANGED <<page, toasts, pathToasts, synced, shown, silent, manual, latest, dialog, announced, pal, look>>

\* lookUp: what it found stays known.
Newer == remote > 1
LookUp == latest' = IF Newer THEN remote ELSE latest

SilentStart == /\ part = "notices" /\ silent = "timer" /\ page # "login"
               /\ silent' = "flight"
               /\ UNCHANGED <<page, ops, toasts, pathToasts, synced, shown, manual, remote, latest, dialog, announced, pal, look>>

\* Each release is announced by one toast; errors are not reported.
SilentAnswer(ok) ==
  /\ part = "notices" /\ silent = "flight" /\ shown < MaxToasts
  /\ silent' = "over"
  /\ IF ok THEN LookUp ELSE UNCHANGED latest
  /\ IF ok /\ Newer /\ announced # remote
     THEN announced' = remote /\ Added(UpdateToast, "", FALSE)
     ELSE UNCHANGED <<announced, toasts, pathToasts, shown>>
  /\ UNCHANGED <<page, ops, synced, manual, remote, dialog, pal, look>>

CheckNow == /\ part = "notices" /\ manual = "idle" /\ page # "login" /\ Op
            /\ manual' = "flight"
            /\ UNCHANGED <<page, toasts, pathToasts, synced, shown, silent, remote, latest, dialog, announced, pal, look>>

\* The dialog says what the toast said, so opening it dismisses the toast.
OpenUpdateDialog == toasts' = Closed({UpdateToast}) /\ dialog' = TRUE

CheckAnswer(ok) ==
  /\ part = "notices" /\ manual = "flight" /\ shown < MaxToasts
  /\ manual' = "idle"
  /\ IF ok THEN LookUp ELSE UNCHANGED latest
  /\ IF ok /\ Newer THEN OpenUpdateDialog /\ UNCHANGED <<pathToasts, shown>>
     ELSE \E id \in Ids \ {UpdateToast} : Added(id, "", FALSE) /\ UNCHANGED dialog
  /\ UNCHANGED <<page, ops, synced, silent, remote, announced, pal, look>>

\* The header's button, the menu and the toast's action open it too, once a release is known.
OpenDialog  == /\ part = "notices" /\ latest # 0 /\ page # "login" /\ ~dialog
               /\ OpenUpdateDialog
               /\ UNCHANGED <<page, ops, pathToasts, synced, shown, silent, manual, remote, latest, announced, pal, look>>
CloseDialog == /\ part = "notices" /\ dialog /\ dialog' = FALSE
               /\ UNCHANGED <<page, ops, toasts, pathToasts, synced, shown, silent, manual, remote, latest, announced, pal, look>>

\* A reload starts over with what is stored.
Reload == /\ part = "notices" /\ page # "login" /\ Op
          /\ toasts' = {} /\ pathToasts' = [id \in Ids |-> 0] /\ synced' = TRUE
          /\ silent' = "timer" /\ manual' = "idle" /\ latest' = 0 /\ dialog' = FALSE
          /\ UNCHANGED <<page, shown, remote, announced, pal, look>>

(***************************************************************************)
(* Themes (theme-provider.tsx)                                              *)
(***************************************************************************)
Resolved(t, sys) == IF t = "system" THEN sys ELSE t = "dark"

\* The layout effect of a render.
Render(t, sys) == theme' = t /\ systemDark' = sys /\ dark' = Resolved(t, sys)

\* A choice that changes the screen is set inside a view transition, which skips the one before.
SetTheme(t, canReveal) ==
  /\ part = "theme" /\ Op
  /\ stored' = t
  /\ IF Resolved(t, systemDark) = dark \/ ~canReveal
     THEN Render(t, systemDark) /\ UNCHANGED <<reveal, transitions>>
     ELSE /\ reveal' = TRUE
          /\ transitions' = Append([i \in DOMAIN transitions |-> [transitions[i] EXCEPT !.skipped = TRUE]],
                                   [theme |-> t, phase |-> "pending", skipped |-> FALSE])
          /\ UNCHANGED <<theme, systemDark, dark>>
  /\ UNCHANGED <<page, pal, notes>>

SystemTheme == /\ part = "theme" /\ Op
               /\ Render(theme, ~systemDark)
               /\ UNCHANGED <<page, stored, reveal, transitions, pal, notes>>

\* The browser calls the update callbacks in order, of skipped transitions too.
RunUpdate(i) ==
  /\ part = "theme" /\ i \in DOMAIN transitions /\ transitions[i].phase = "pending"
  /\ \A j \in 1 .. (i - 1) : transitions[j].phase # "pending"
  /\ Render(transitions[i].theme, systemDark)
  /\ transitions' = [transitions EXCEPT ![i].phase = "running"]
  /\ UNCHANGED <<page, ops, stored, reveal, pal, notes>>

\* The browser skips a transition on its own when the page is hidden.
SkipTransition(i) ==
  /\ part = "theme" /\ i \in DOMAIN transitions /\ ~transitions[i].skipped
  /\ transitions' = [transitions EXCEPT ![i].skipped = TRUE]
  /\ UNCHANGED <<page, ops, theme, stored, systemDark, dark, reveal, pal, notes>>

Unreveal(i) == reveal' = FALSE

\* transition.finished: skipped and updated, or played to the end.
Finish(i) ==
  /\ part = "theme" /\ i \in DOMAIN transitions /\ transitions[i].phase = "running"
  /\ Unreveal(i)
  /\ transitions' = SubSeq(transitions, 1, i - 1) \o SubSeq(transitions, i + 1, Len(transitions))
  /\ UNCHANGED <<page, ops, theme, stored, systemDark, dark, pal, notes>>

(***************************************************************************)
(* Specification                                                            *)
(***************************************************************************)
Init ==
  /\ part \in {"palette", "notices", "theme"} /\ page = "overview" /\ ops = 0
  /\ open = FALSE /\ opener = "none" /\ focus = "body" /\ before = "body" /\ wide = TRUE /\ row = TRUE
  /\ query = "" /\ anchor = "none"
  /\ toasts = {} /\ pathToasts = [id \in Ids |-> 0] /\ synced = TRUE /\ shown = 0
  /\ silent = "timer" /\ manual = "idle" /\ remote = 1 /\ latest = 0 /\ dialog = FALSE /\ announced = 0
  /\ theme = "system" /\ stored = "system" /\ systemDark \in {FALSE, part = "theme"} /\ dark = systemDark
  /\ reveal = FALSE /\ transitions = <<>>

PaletteNext == /\ UNCHANGED part
               /\ \/ Shortcut \/ OpenFrom \/ Dismiss \/ Rerender \/ Resize
                  \/ \E q \in {"", "theme", "zzz"} : Type(q)
                  \/ \E e \in Entries : Select(e)
                  \/ \E e \in {"body", "field", "icon", "row"} : Refocus(e)
NoticesNext == /\ UNCHANGED part
               /\ \/ \E id \in Ids, p \in {"", "settings"}, l \in BOOLEAN : Show(id, p, l)
                  \/ \E id \in Ids : UpdateToastTo(id)
                  \/ \E t \in toasts : CloseToast(t) \/ Removed(t)
                  \/ \E p \in Pages : Navigate(p)
                  \/ SyncToastPath \/ SetLang \/ SignOut \/ Release \/ SilentStart \/ CheckNow
                  \/ \E ok \in BOOLEAN : SilentAnswer(ok) \/ CheckAnswer(ok)
                  \/ OpenDialog \/ CloseDialog \/ Reload
ThemeNext   == /\ UNCHANGED part
               /\ \/ \E t \in {"system", "light", "dark"}, c \in BOOLEAN : SetTheme(t, c)
                  \/ SystemTheme
                  \/ \E i \in DOMAIN transitions : RunUpdate(i) \/ SkipTransition(i) \/ Finish(i)

Next == PaletteNext \/ NoticesNext \/ ThemeNext
Spec == Init /\ [][Next]_vars

(***************************************************************************)
(* Properties                                                               *)
(***************************************************************************)
TypeOK == /\ page \in Pages /\ open \in BOOLEAN /\ opener \in {"none", "field", "icon", "row"}
          /\ silent \in {"timer", "flight", "over"} /\ dark \in BOOLEAN /\ reveal \in BOOLEAN

\* Dismissing the palette gives focus back to what had it, when that can still take it, and to
\* nothing else; it never returns to the opener of an earlier time (command-menu.tsx:115-143,282).
FocusReturns ==
  (Shortcut \/ Dismiss) /\ open =>
     focus' = IF Takes(before) THEN before ELSE "body"

\* No toast points at the page the user is on, once the effect of the navigation has run: the ones
\* shown before the visit are closed, and later ones are not shown (lib/toast.ts:57-85).
NoToastForThisPage ==
  (page = "settings" /\ synced) => \A t \in toasts : t.path = "settings" => t.closing

\* When no view transition is left the page shows the theme that was set last, and the class that
\* restyles a transition is gone (theme-provider.tsx:89-115).
RevealEnds == transitions = <<>> => ~reveal /\ dark = Resolved(theme, systemDark)

\* Whatever part of the shell runs, it leaves nothing behind that says something untrue.
ShellTellsRight == TypeOK /\ NoToastForThisPage /\ RevealEnds

=============================================================================
