----------------------------- MODULE BackupsPage -----------------------------
(***************************************************************************)
(* The list of saved backups: create, download, restore, delete and upload, *)
(* the requests that keep a row busy, and the focus that a deleted row      *)
(* leaves behind.  The server lists newest first; another tab creates and   *)
(* deletes too.  A restore that succeeds ends the session and the page.     *)
(***************************************************************************)
EXTENDS Naturals, Sequences, SequencesExt, FiniteSets, FiniteSetsExt

CONSTANTS MaxIds,   \* bound: backups ever made; ids are given in order of time
          MaxCalls, \* bound: requests of this page
          MaxOther, \* bound: changes by another tab
          MaxLost,  \* bound: answers lost on the way back
          PageSize  \* rows of a page

VARIABLES
  stored,    \* server: ids of the backups
  kind,      \* server: id -> how it was made
  list,      \* the cached list, newest first
  fetch,     \* "no" | "asked" | "read", with what was read
  event,     \* a backup event is on its way
  calls,     \* the requests under way; id 0: create, upload
  ask,       \* the confirm dialog: action, row and the row's index when it was pressed
  page, focus,
  refocus,   \* the deleted row the focus has to leave: id and the index it had
  ended,     \* the session is cleared: the page is gone
  made, other, lost

server == <<stored, kind>>
count  == <<made, other, lost>>
vars   == <<server, list, fetch, event, calls, ask, page, focus, refocus, ended, count>>

Ids     == 1 .. MaxIds
Kinds   == {"manual", "auto", "pre-restore"}
Nothing == [action |-> "", id |-> 0, at |-> 0]
NoFetch == [st |-> "no", rows |-> <<>>]
Stay    == [id |-> 0, index |-> 0]
Create  == 0             \* focus on Create backup
Body    == MaxIds + 1    \* focus dropped to the page

TypeOK ==
  /\ stored \subseteq Ids /\ Range(list) \subseteq Ids /\ focus \in 0 .. MaxIds + 1
  /\ \A c \in calls : c.action \in {"create", "upload", "download", "restore", "delete"}
  /\ ended \in BOOLEAN /\ fetch.st \in {"no", "asked", "read"} /\ Range(kind) \subseteq Kinds \cup {""}

(***************************************************************************)
(* The server                                                               *)
(***************************************************************************)
\* sortBackups: newest first; automatic safety copies are listed only on request.
SortBackups(S) == SetToSortSeq(S, >)
Listed == SortBackups({i \in stored : kind[i] # "auto"})
Fresh  == Min(Ids \ {i \in Ids : kind[i] # ""})
CanAdd == \E i \in Ids : kind[i] = ""
AddBackup(k) == stored' = stored \cup {Fresh} /\ kind' = [kind EXCEPT ![Fresh] = k]

\* What an uploaded file can be: only a backup of this version with a password is taken.
Files == {"backup", "not json", "other version"}
ParseBackup(f) == f = "backup"

\* The badge of a row and what the account count speaks of.
KindTone(k) == CASE k = "manual" -> "primary" [] k = "pre-restore" -> "warning" [] OTHER -> "neutral"
AccountsCell(k) == IF k = "pre-restore" THEN "restored" ELSE "saved"
BackupRow(i) == <<i, KindTone(kind[i]), AccountsCell(kind[i])>>

(***************************************************************************)
(* The list                                                                 *)
(***************************************************************************)
PageCount(l)   == Max({1, (Len(l) + PageSize - 1) \div PageSize})
CurrentPage(l) == Min({page, PageCount(l)})
PageRows(l)    == Range(SubSeq(l, (CurrentPage(l) - 1) * PageSize + 1, Min({CurrentPage(l) * PageSize, Len(l)})))

\* Faulty variant: an invalidation joins the fetch that is already under way.
InvalidateJoins == fetch' = IF fetch.st = "no" THEN [NoFetch EXCEPT !.st = "asked"] ELSE fetch

Invalidate == fetch' = [NoFetch EXCEPT !.st = "asked"]

ServeList ==
  /\ fetch.st = "asked" /\ fetch' = [st |-> "read", rows |-> Listed]
  /\ UNCHANGED <<server, list, event, calls, ask, page, focus, refocus, ended, count>>

\* The layout effect after a delete: the row that took its place, or the one above it.
Refocus(l, at) ==
  IF l = <<>> THEN {Create} ELSE {l[Min({at, Len(l)})]} \cap PageRows(l)

\* A row that leaves the page drops the focus; the effect runs before the next paint, as soon as
\* the deleted row is out of the list.
Applied(l, r) ==
  LET dropped == IF focus \in Ids /\ focus \notin PageRows(l) THEN Body ELSE focus
      due     == r.id # 0 /\ r.id \notin Range(l)
      to      == Refocus(l, r.index)
  IN  /\ list' = l
      /\ focus' = IF due /\ to # {} THEN CHOOSE f \in to : TRUE ELSE dropped
      /\ refocus' = IF due THEN Stay ELSE r

ListArrives ==
  /\ fetch.st = "read" /\ fetch' = NoFetch /\ Applied(fetch.rows, refocus)
  /\ UNCHANGED <<server, event, calls, ask, page, ended, count>>

EventArrives ==
  /\ event /\ event' = FALSE /\ Invalidate
  /\ UNCHANGED <<server, list, calls, ask, page, focus, refocus, ended, count>>

ShowPage ==
  /\ ask = Nothing /\ \E p \in 1 .. PageCount(list) : p # CurrentPage(list) /\ page' = p
  /\ focus' = Create
  /\ UNCHANGED <<server, list, fetch, event, calls, ask, refocus, ended, count>>

(***************************************************************************)
(* useBusyRows and the row actions                                          *)
(***************************************************************************)
Busy(i) == \E c \in calls : c.id = i /\ c.action \in {"download", "restore", "delete"}
Send(i, action, at, file) ==
  /\ made < MaxCalls /\ made' = made + 1
  /\ calls' = calls \cup {[id |-> i, action |-> action, at |-> at, file |-> file, st |-> "sent"]}
Run(i, action, at) == ~Busy(i) /\ Send(i, action, at, "")

OnDownload(i) ==
  /\ ask = Nothing /\ i \in PageRows(list) /\ focus' = i /\ Run(i, "download", 0)
  /\ UNCHANGED <<server, list, fetch, event, ask, page, refocus, ended, other, lost>>

\* The index is the one of the list the pressed row was drawn from.
IndexOf(i) == CHOOSE n \in DOMAIN list : list[n] = i

OnRestoreOrDelete(i) ==
  /\ ask = Nothing /\ i \in PageRows(list) /\ focus' = i /\ ~Busy(i)
  /\ \E action \in {"restore", "delete"} : ask' = [action |-> action, id |-> i, at |-> IndexOf(i)]
  /\ UNCHANGED <<server, list, fetch, event, calls, page, refocus, ended, count>>

\* startCreate: a second press while one is under way is ignored.
StartCreate ==
  /\ ask = Nothing /\ ~\E c \in calls : c.action = "create"
  /\ Send(0, "create", 0, "") /\ focus' = Create
  /\ UNCHANGED <<server, list, fetch, event, ask, page, refocus, ended, other, lost>>

\* onFileChange: a file too large is refused here, any other one is asked about.
OnFileChange ==
  /\ ask = Nothing /\ ~\E c \in calls : c.action = "upload"
  /\ ask' = [Nothing EXCEPT !.action = "upload"] /\ focus' = Create
  /\ UNCHANGED <<server, list, fetch, event, calls, page, refocus, ended, count>>

Confirmed ==
  /\ ask # Nothing /\ ask' = Nothing
  /\ IF ask.action = "upload" THEN \E f \in Files : Send(0, "upload", 0, f) ELSE Run(ask.id, ask.action, ask.at)
  /\ UNCHANGED <<server, list, fetch, event, page, focus, refocus, ended, other, lost>>

Declined ==
  /\ ask # Nothing /\ ask' = Nothing
  /\ UNCHANGED <<server, list, fetch, event, calls, page, focus, refocus, ended, count>>

(***************************************************************************)
(* Serving and answering                                                    *)
(***************************************************************************)
Refused(c) == \/ c.action \in {"download", "restore", "delete"} /\ c.id \notin stored
              \/ c.action = "upload" /\ ~ParseBackup(c.file)

\* A restore, by row or by upload, first saves a rollback point.
Store(c) ==
  CASE c.action = "create" -> AddBackup("manual")
    [] c.action \in {"restore", "upload"} -> AddBackup("pre-restore")
    [] c.action = "delete" -> stored' = stored \ {c.id} /\ UNCHANGED kind
    [] OTHER -> UNCHANGED server

Serve ==
  \E c \in calls :
    /\ c.st = "sent" /\ (c.action \in {"create", "restore", "upload"} => CanAdd)
    /\ IF Refused(c)
       THEN calls' = (calls \ {c}) \cup {[c EXCEPT !.st = "refused"]} /\ UNCHANGED <<server, event>>
       ELSE /\ Store(c) /\ calls' = (calls \ {c}) \cup {[c EXCEPT !.st = "done"]}
            /\ event' = (event \/ c.action # "download")
    /\ UNCHANGED <<list, fetch, ask, page, focus, refocus, ended, count>>

OtherChanges ==
  /\ other < MaxOther /\ other' = other + 1 /\ event' = TRUE
  /\ \/ CanAdd /\ \E k \in {"manual", "auto"} : AddBackup(k)
     \/ \E i \in stored : stored' = stored \ {i} /\ UNCHANGED kind
  /\ UNCHANGED <<list, fetch, calls, ask, page, focus, refocus, ended, made, lost>>

\* finishRestore clears the session; a delete notes the row and asks for the list.
Settled(c, ok) ==
  /\ calls' = calls \ {c}
  /\ ended' = (ok /\ c.action \in {"restore", "upload"})
  /\ IF ok /\ c.action \in {"create", "delete"} THEN Invalidate ELSE UNCHANGED fetch
  /\ IF ok /\ c.action = "delete"
     THEN Applied(list, [id |-> c.id, index |-> c.at])
     ELSE UNCHANGED <<list, focus, refocus>>
  /\ UNCHANGED <<server, event, ask, page, made, other>>

Answer == \E c \in calls : c.st # "sent" /\ Settled(c, c.st = "done") /\ UNCHANGED lost
Lose   == \E c \in calls : lost < MaxLost /\ lost' = lost + 1 /\ Settled(c, FALSE)

Init ==
  /\ stored = 1 .. 3 /\ kind = [i \in Ids |-> IF i = 2 THEN "pre-restore" ELSE IF i <= 3 THEN "manual" ELSE ""]
  /\ list = Listed /\ fetch = NoFetch /\ event = FALSE /\ calls = {} /\ ask = Nothing
  /\ page = 1 /\ focus = Create /\ refocus = Stay /\ ended = FALSE /\ made = 0 /\ other = 0 /\ lost = 0

RowActions == \E i \in Ids : OnDownload(i) \/ OnRestoreOrDelete(i)
Next ==
  /\ ~ended
  /\ \/ RowActions \/ StartCreate \/ OnFileChange \/ Confirmed \/ Declined \/ ShowPage
     \/ Serve \/ Answer \/ Lose \/ OtherChanges \/ ServeList \/ ListArrives \/ EventArrives

Spec == Init /\ [][Next]_vars

(***************************************************************************)
(* Properties                                                               *)
(***************************************************************************)
\* Once every request is answered and every event applied, the rows are the server's, in its
\* order and with what their badges say, whatever refetches the changes of two tabs overlapped with.
BackupRowsAreServer ==
  (~ended /\ calls = {} /\ fetch.st = "no" /\ ~event) =>
     [n \in DOMAIN list |-> BackupRow(list[n])] = [n \in DOMAIN Listed |-> BackupRow(Listed[n])]
=============================================================================
