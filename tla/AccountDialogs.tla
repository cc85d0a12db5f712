--------------------------- MODULE AccountDialogs ---------------------------
(***************************************************************************)
(* The dialogs of the Accounts page: the export dialog, the test dialog and *)
(* the detail sheet with its editors, profile picker and model list.  Each  *)
(* can be closed and opened again while an answer it asked for is still on  *)
(* its way.  One of them is followed per behaviour (`part`).                *)
(***************************************************************************)
EXTENDS Naturals, Sequences, FiniteSets

CONSTANTS Acct,     \* account ids
          MaxSess,  \* bound: openings of a dialog
          MaxCalls, \* bound: requests of one behaviour
          MaxLines  \* lines the test log keeps (MAX_LOG_LINES)

Part   == {"export", "test", "field", "profile", "models"}
NoAcct == "none"
Input  == {"", "valid", "other", "invalid"} \* what an editor's field may hold
NoCall == [kind |-> "none", of |-> {}, sess |-> 0, st |-> "none"]

VARIABLES part,
          listed, \* accounts of the cached list
          target, \* useDialogTarget: the account, open or not, and the count of openings
          sel, view, json, \* the export dialog: ticked, shown view, the accounts in its JSON
          busy,   \* the request a dialog waits for
          calls,  \* requests under way, with the opening that sent them
          count,  \* requests sent
          lines, outcome, \* the test dialog's log and the account and opening of its result
          saved, draft, error, \* an editor: the account's value, the draft, a complaint
          choices, pick        \* the profile or model list that was loaded, the picked profile

vars == <<part, listed, target, sel, view, json, busy, calls, count, lines, outcome,
          saved, draft, error, choices, pick>>
exportVars == <<sel, view, json>>
testVars   == <<lines, outcome>>
sheetVars  == <<saved, draft, error, choices, pick>>

TypeOK ==
  /\ part \in Part /\ listed \subseteq Acct /\ target.id \in Acct \cup {NoAcct}
  /\ target.session \in 0 .. MaxSess /\ sel \subseteq Acct /\ json \subseteq Acct
  /\ view \in {"list", "json"} /\ Len(lines) <= MaxLines
  /\ saved \in Input /\ draft \in Input /\ error \in BOOLEAN

(***************************************************************************)
(* Opening and closing                                                      *)
(***************************************************************************)
Fresh == /\ lines' = <<>> /\ outcome' = NoCall /\ draft' = saved /\ error' = FALSE
         /\ choices' = FALSE /\ pick' = "" /\ busy' = {}

\* Faulty variant: the dialog keeps its key, and with it the state of the last visit.
OpenSameKey ==
  /\ part # "export" /\ ~target.open /\ target.session < MaxSess
  /\ \E a \in listed : target' = [id |-> a, open |-> TRUE, session |-> target.session + 1]
  /\ UNCHANGED <<part, listed, exportVars, busy, calls, count, testVars, sheetVars>>

\* Each opening is keyed by its number, so the dialog mounts afresh.
Open ==
  /\ part # "export" /\ ~target.open /\ target.session < MaxSess
  /\ \E a \in listed : target' = [id |-> a, open |-> TRUE, session |-> target.session + 1]
  /\ Fresh
  /\ UNCHANGED <<part, listed, exportVars, calls, count, saved>>

\* The export dialog stays mounted: it resets while rendering the opening, except for a request
\* that is still under way.
OpenExport ==
  /\ part = "export" /\ ~target.open /\ target.session < MaxSess /\ listed # {}
  /\ target' = [target EXCEPT !.open = TRUE, !.session = @ + 1]
  /\ \E ids \in {listed} \cup (SUBSET listed \ {{}}) : sel' = ids
  /\ view' = "list" /\ json' = {}
  /\ UNCHANGED <<part, listed, busy, calls, count, testVars, sheetVars>>

Close ==
  /\ target.open /\ target' = [target EXCEPT !.open = FALSE]
  /\ UNCHANGED <<part, listed, exportVars, busy, calls, count, testVars, sheetVars>>

\* The list is refetched: an account that is gone takes its test dialog and its sheet's sections
\* with it.
Relist ==
  /\ \E L \in SUBSET Acct : L # listed /\ listed' = L
  /\ UNCHANGED <<part, target, exportVars, busy, calls, count, testVars, sheetVars>>

Mounted == target.open /\ (part = "export" \/ target.id \in listed)

(***************************************************************************)
(* Requests                                                                 *)
(***************************************************************************)
Call(kind, of) == [kind |-> kind, of |-> of, sess |-> target.session, st |-> "sent"]
Sends(kind, of) ==
  count < MaxCalls /\ count' = count + 1 /\ calls' = calls \cup {Call(kind, of)}
    /\ busy' = busy \cup {kind}

Answer ==
  /\ \E c \in calls : \E st \in {"ok", "failed"} :
       c.st = "sent" /\ calls' = (calls \ {c}) \cup {[c EXCEPT !.st = st]}
  /\ UNCHANGED <<part, listed, target, exportVars, busy, count, testVars, sheetVars>>

(***************************************************************************)
(* Export                                                                   *)
(***************************************************************************)
\* toggle, and toggleVisible over the rows a search leaves.
Tick ==
  /\ part = "export" /\ Mounted /\ view = "list"
  /\ \/ \E a \in listed : sel' = (sel \ {a}) \cup ({a} \ sel)
     \/ \E vis \in SUBSET listed :
          vis # {} /\ sel' = IF vis \subseteq sel THEN sel \ vis ELSE sel \cup vis
  /\ sel' # sel
  /\ UNCHANGED <<part, listed, target, view, json, busy, calls, count, testVars, sheetVars>>

ToList ==
  /\ part = "export" /\ Mounted /\ view = "json" /\ busy = {} /\ view' = "list"
  /\ UNCHANGED <<part, listed, target, sel, json, busy, calls, count, testVars, sheetVars>>

\* onViewChange: the old JSON goes before the new one is asked for.
ToJson ==
  /\ part = "export" /\ Mounted /\ view = "list" /\ busy = {} /\ sel \cap listed # {}
  /\ json' = {} /\ view' = "json" /\ Sends("show", sel \cap listed)
  /\ UNCHANGED <<part, listed, target, sel, testVars, sheetVars>>

\* onCopy and onDownload fetch the selection for themselves.
CopyOrDownload ==
  /\ part = "export" /\ Mounted /\ busy = {} /\ sel \cap listed # {}
  /\ \E kind \in {"copy", "download"} : Sends(kind, sel \cap listed)
  /\ UNCHANGED <<part, listed, target, exportVars, testVars, sheetVars>>

\* A failed fetch goes back to the list.
ExportAnswered ==
  /\ part = "export"
  /\ \E c \in calls :
       /\ c.st # "sent" /\ calls' = calls \ {c} /\ busy' = busy \ {c.kind}
       /\ json' = IF c.kind = "show" /\ c.st = "ok" THEN c.of ELSE json
       /\ view' = IF c.kind = "show" /\ c.st # "ok" THEN "list" ELSE view
  /\ UNCHANGED <<part, listed, target, sel, count, testVars, sheetVars>>

(***************************************************************************)
(* Test                                                                     *)
(***************************************************************************)
Appended(new) ==
  LET all == lines \o new
  IN  SubSeq(all, IF Len(all) > MaxLines THEN Len(all) - MaxLines + 1 ELSE 1, Len(all))

\* run: one test of a dialog at a time, after the cached models have been asked for.
RunTest ==
  /\ part = "test" /\ Mounted /\ "test" \notin busy
  /\ Sends("test", {target.id}) /\ lines' = Appended(<<"info">>)
  /\ UNCHANGED <<part, listed, target, exportVars, outcome, sheetVars>>

ClearLog ==
  /\ part = "test" /\ Mounted /\ lines # <<>> /\ lines' = <<>>
  /\ UNCHANGED <<part, listed, target, exportVars, busy, calls, count, outcome, sheetVars>>

\* An answer reaches the dialog that asked for it, if that is still mounted.
TestAnswered ==
  /\ part = "test"
  /\ \E c \in calls :
       /\ c.st # "sent" /\ calls' = calls \ {c}
       /\ IF c.sess = target.session
          THEN /\ busy' = busy \ {"test"} /\ outcome' = c
               /\ \E hint \in {<<>>, <<"warn">>} :
                    lines' = Appended(IF c.st = "ok" THEN <<"ok", "info">> \o hint ELSE <<"err">>)
          ELSE UNCHANGED <<busy, outcome, lines>>
  /\ UNCHANGED <<part, listed, target, exportVars, count, sheetVars>>

(***************************************************************************)
(* The detail sheet                                                         *)
(***************************************************************************)
\* EditableFieldRow: Edit starts a draft from the saved value; `view` says whether it is open.
EditField ==
  /\ part = "field" /\ Mounted /\ view = "list"
  /\ view' = "json" /\ draft' = saved /\ error' = FALSE
  /\ UNCHANGED <<part, listed, target, sel, json, busy, calls, count, testVars, saved, choices, pick>>

Type ==
  /\ part = "field" /\ Mounted /\ view = "json"
  /\ \E v \in Input \ {draft} : draft' = v
  /\ error' = FALSE
  /\ UNCHANGED <<part, listed, target, exportVars, busy, calls, count, testVars, saved, choices, pick>>

CancelEdit ==
  /\ part = "field" /\ view = "json" /\ view' = "list"
  /\ UNCHANGED <<part, listed, target, sel, json, busy, calls, count, testVars, sheetVars>>

\* A machine id or proxy URL that does not parse is complained about and not sent; a weight is
\* clamped into range by the caller before.
Submit ==
  /\ part = "field" /\ Mounted /\ view = "json" /\ "save" \notin busy
  /\ IF draft = "invalid"
     THEN error' = TRUE /\ UNCHANGED <<busy, calls, count>>
     ELSE error' = FALSE /\ Sends("save", draft)
  /\ UNCHANGED <<part, listed, target, exportVars, testVars, saved, draft, choices, pick>>

\* The dice: a random machine id from the server fills the draft.
Generate ==
  /\ part = "field" /\ Mounted /\ view = "json" /\ "generate" \notin busy /\ Sends("generate", "")
  /\ UNCHANGED <<part, listed, target, exportVars, testVars, sheetVars>>

\* A save that lands closes the editor and refetches; a failed one leaves it open.
FieldAnswered ==
  /\ part = "field"
  /\ \E c \in calls :
       /\ c.st # "sent" /\ calls' = calls \ {c}
       /\ busy' = IF c.sess = target.session THEN busy \ {c.kind} ELSE busy
       /\ saved' = IF c.kind = "save" /\ c.st = "ok" THEN c.of ELSE saved
       /\ view' = IF c.kind = "save" /\ c.st = "ok" /\ c.sess = target.session THEN "list" ELSE view
       /\ draft' = IF c.kind = "generate" /\ c.st = "ok" /\ c.sess = target.session THEN "valid" ELSE draft
       /\ error' = (error /\ ~(c.kind = "generate" /\ c.st = "ok"))
  /\ UNCHANGED <<part, listed, target, sel, json, count, testVars, choices, pick>>

\* ProfileSection: load the profiles (the current one is picked), pick one, pin or unpin.
Profile ==
  /\ part = "profile" /\ Mounted
  /\ \/ "load" \notin busy /\ Sends("load", {}) /\ choices' = FALSE /\ UNCHANGED pick
     \/ choices /\ \E p \in {"current", "second"} \ {pick} : pick' = p
          /\ UNCHANGED <<choices, busy, calls, count>>
     \/ choices /\ "pin" \notin busy /\ \E p \in {pick, ""} : Sends("pin", {p})
          /\ UNCHANGED <<choices, pick>>
  /\ UNCHANGED <<part, listed, target, exportVars, testVars, saved, draft, error>>

\* A pin that lands drops the loaded profiles, which it has made stale.
ProfileAnswered ==
  /\ part = "profile"
  /\ \E c \in calls :
       /\ c.st # "sent" /\ calls' = calls \ {c}
       /\ IF c.sess # target.session THEN UNCHANGED <<busy, choices, pick>>
          ELSE /\ busy' = busy \ {c.kind}
               /\ choices' = IF c.st # "ok" THEN choices ELSE c.kind = "load"
               /\ pick' = IF c.st = "ok" /\ c.kind = "load" THEN "current" ELSE pick
  /\ UNCHANGED <<part, listed, target, exportVars, count, testVars, saved, draft, error>>

\* ModelsSection: load the live list, or refresh the account's route cache.
Models ==
  /\ part = "models" /\ Mounted
  /\ \E kind \in {"load", "refresh"} \ busy :
       Sends(kind, {}) /\ choices' = (choices /\ kind # "load")
  /\ UNCHANGED <<part, listed, target, exportVars, testVars, saved, draft, error, pick>>

ModelsAnswered ==
  /\ part = "models"
  /\ \E c \in calls :
       /\ c.st # "sent" /\ calls' = calls \ {c}
       /\ IF c.sess # target.session THEN UNCHANGED <<busy, choices>>
          ELSE busy' = busy \ {c.kind} /\ choices' = (choices \/ (c.kind = "load" /\ c.st = "ok"))
  /\ UNCHANGED <<part, listed, target, exportVars, count, testVars, saved, draft, error, pick>>

Init ==
  /\ part \in Part /\ listed = Acct /\ target = [id |-> NoAcct, open |-> FALSE, session |-> 0]
  /\ sel = {} /\ view = "list" /\ json = {} /\ busy = {} /\ calls = {} /\ count = 0
  /\ lines = <<>> /\ outcome = NoCall /\ saved = "" /\ draft = "" /\ error = FALSE
  /\ choices = FALSE /\ pick = ""

Dialogs == Open \/ OpenExport \/ Close \/ Relist \/ Answer
Export  == Tick \/ ToList \/ ToJson \/ CopyOrDownload \/ ExportAnswered
Test    == RunTest \/ ClearLog \/ TestAnswered
Sheet   == EditField \/ Type \/ CancelEdit \/ Submit \/ Generate \/ FieldAnswered
             \/ Profile \/ ProfileAnswered \/ Models \/ ModelsAnswered
Next == Dialogs \/ Export \/ Test \/ Sheet
Spec == Init /\ [][Next]_vars

(***************************************************************************)
(* Properties                                                               *)
(***************************************************************************)
\* The JSON on show holds only accounts that are ticked, however the dialog was closed and
\* reopened while an export was under way.
ExportShowsSelection == part = "export" /\ target.open /\ view = "json" => json \subseteq sel

\* The result on show is of a test this dialog ran, of the account it is open for.
TestShowsItsAccount ==
  part = "test" /\ target.open /\ outcome # NoCall =>
    outcome.of = {target.id} /\ outcome.sess = target.session

\* Both, however the dialogs were closed and opened over calls under way.
DialogsShowTheirOwn == ExportShowsSelection /\ TestShowsItsAccount
=============================================================================
