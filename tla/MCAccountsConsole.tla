------------------------- MODULE MCAccountsConsole -------------------------
(***************************************************************************)
(* The session of the console and its accounts pages, one after the other: *)
(* a behaviour runs one of the components and the variables of the others  *)
(* rest, so the state spaces add up and do not multiply.                   *)
(***************************************************************************)
EXTENDS AdminSession, Integers, Sequences

CONSTANTS Pool, Terms, PageSizes, MaxNow,              \* of the table
          Acct, MaxOps, MaxFaults,                     \* of the page, Acct of the dialogs too
          MaxSess, MaxTries, MaxLines,                 \* of the dialogs
          Items, MaxGen, MaxIds, MaxBatch, MaxLost     \* of the wizard

VARIABLES which, \* the component that runs
          rows, url, now, clock, counted, drawn,
          aspect, srv, held, list, fetch, event, changes, sel, ask, batch, excused, ops, faults,
          part, listed, target, ticked, view, json, busy, sent, count, lines, outcome, saved,
          draft, error, choices, pick,
          open, method, stage, pending, gen, ms, chosen, bld, iam, timer, reqs, logins, started,
          orphan, misfiled, lost

View    == INSTANCE AccountView
Page    == INSTANCE AccountsPage WITH calls <- changes
Dialogs == INSTANCE AccountDialogs WITH MaxCalls <- MaxTries, sel <- ticked, calls <- sent
Wizard  == INSTANCE AddAccount WITH sel <- chosen, calls <- reqs, live <- logins, minted <- started

viewVars   == <<rows, url, now, clock, counted, drawn>>
pageVars   == <<aspect, srv, held, list, fetch, event, changes, sel, ask, batch, excused, ops, faults>>
dialogVars == <<part, listed, target, ticked, view, json, busy, sent, count, lines, outcome, saved,
                draft, error, choices, pick>>
wizardVars == <<open, method, stage, pending, gen, ms, chosen, bld, iam, timer, reqs, logins,
                started, orphan, misfiled, lost>>
consoleVars == <<which, vars, viewVars, pageVars, dialogVars, wizardVars>>

(***************************************************************************)
(* The accounts of the table and the credentials that are pasted            *)
(***************************************************************************)
A(id, ban, lim, used, exp, on, plan, auth, region, req, last, trial) ==
  [id |-> id, ban |-> ban, hasToken |-> TRUE, limit |-> lim, used |-> used, expiresAt |-> exp,
   enabled |-> on, plan |-> plan, provider |-> "", authMethod |-> auth, region |-> region,
   requests |-> req, lastUsed |-> last, trial |-> trial, trialUsed |-> 5, name |-> 4 - id, words |-> {"w"}]
Fleet == << A(1, "", 4, 1, 1, TRUE, "pro", "idc", "", 3, 0, 0),
            A(2, "DISABLED", 0, 0, 0, FALSE, "free", "enterprise", "us-east-1", 3, 2, 2),
            A(3, "SUSPENDED", 2, 2, 2, TRUE, "pro", "github", "eu", 1, 1, 0) >>
Sizes == <<1, 2>>
Pasted == [key : BOOLEAN, refresh : BOOLEAN, access : {"", "tok", "ksk"},
           method : {"", "idc", "api_key", "external_idp"}, endpoint : BOOLEAN, client : BOOLEAN]

(***************************************************************************)
(* One component runs                                                       *)
(***************************************************************************)
\* The session of a behaviour that runs another component: nobody is signed in.
AtRest == Init /\ page = "login" /\ shown = "list" /\ ~remember

NoView    == /\ rows = 0 /\ url = 0 /\ now = 0 /\ clock = 0 /\ counted = 0 /\ drawn = 0
NoPages   == /\ aspect = 0 /\ srv = 0 /\ held = 0 /\ list = 0 /\ fetch = 0 /\ event = 0 /\ changes = 0
             /\ sel = 0 /\ ask = 0 /\ batch = 0 /\ excused = 0 /\ ops = 0 /\ faults = 0
NoDialogs == /\ part = 0 /\ listed = 0 /\ target = 0 /\ ticked = 0 /\ view = 0 /\ json = 0
             /\ busy = 0 /\ sent = 0 /\ count = 0 /\ lines = 0 /\ outcome = 0 /\ saved = 0
             /\ draft = 0 /\ error = 0 /\ choices = 0 /\ pick = 0
NoWizard  == /\ open = 0 /\ method = 0 /\ stage = 0 /\ pending = 0 /\ gen = 0 /\ ms = 0 /\ chosen = 0
             /\ bld = 0 /\ iam = 0 /\ timer = 0 /\ reqs = 0 /\ logins = 0 /\ started = 0
             /\ orphan = 0 /\ misfiled = 0 /\ lost = 0

ConsoleInit ==
  \/ which = "session" /\ Init         /\ NoView /\ NoPages /\ NoDialogs /\ NoWizard
  \/ which = "view"    /\ View!Init    /\ AtRest /\ NoPages /\ NoDialogs /\ NoWizard
  \/ which = "page"    /\ Page!Init    /\ AtRest /\ NoView /\ NoDialogs /\ NoWizard
  \/ which = "dialogs" /\ Dialogs!Init /\ AtRest /\ NoView /\ NoPages /\ NoWizard
  \/ which = "wizard"  /\ Wizard!Init  /\ AtRest /\ NoView /\ NoPages /\ NoDialogs

ConsoleNext ==
  /\ UNCHANGED which
  /\ \/ which = "session" /\ Next
          /\ UNCHANGED <<viewVars, pageVars, dialogVars, wizardVars>>
     \/ which = "view"    /\ View!Next
          /\ UNCHANGED <<vars, pageVars, dialogVars, wizardVars>>
     \/ which = "page"    /\ Page!Next
          /\ UNCHANGED <<vars, viewVars, dialogVars, wizardVars>>
     \/ which = "dialogs" /\ Dialogs!Next
          /\ UNCHANGED <<vars, viewVars, pageVars, wizardVars>>
     \/ which = "wizard"  /\ Wizard!Next
          /\ UNCHANGED <<vars, viewVars, pageVars, dialogVars>>

ConsoleSpec == ConsoleInit /\ [][ConsoleNext]_consoleVars

(***************************************************************************)
(* Properties: those of the session are stated in AdminSession.             *)
(***************************************************************************)
\* The accounts table shows the order asked for, rows without a value last, and every row that
\* passes the filters can be reached, whatever filters, page turns and refetches came before.
RowsReachableInOrder ==
  which = "view" => View!EveryRowReachable /\ View!OrderRight

\* When every optimistic update, revert, event and refetch has settled, the accounts list is the
\* one of the server and no vanished account stays ticked.
AccountListIsServer ==
  which = "page" => Page!AccountListIsServer

\* The export dialog shows JSON of ticked accounts only and the test dialog the result of its own
\* account, however they were closed and opened over calls under way.
DialogsShowTheirOwn ==
  which = "dialogs" => Dialogs!DialogsShowTheirOwn

\* The add-account wizard leaves no Microsoft login open on the server, has one request or poll
\* per flow and files an account under the method it was sent as, however it is left.
WizardKeepsItsLogins ==
  which = "wizard" => Wizard!WizardKeepsItsLogins
=============================================================================
