----------------------------- MODULE AddAccount -----------------------------
(***************************************************************************)
(* The add-account wizard: the method list, the sign-in flows with their    *)
(* server-side logins, the imports, and FlowSessions, whose generation      *)
(* tells an answer that outlived its flow.  Field complaints change nothing *)
(* but the form and are left out.                                           *)
(***************************************************************************)
EXTENDS Naturals, FiniteSets

CONSTANTS Items,    \* credentials that may be pasted (see MapCredential)
          MaxGen,   \* bound: generations, that is resets of FlowSessions
          MaxIds,   \* bound: logins the server starts
          MaxBatch, \* bound: items of one import
          MaxLost   \* bound: answers the network loses

None   == 0
Method == {"builderid", "iam", "microsoft", "sso", "local", "credentials", "cookie", "apikey"}
Id     == 1 .. MaxIds
Retries == 3    \* MAX_NETWORK_RETRIES
NoTimer == [gen |-> MaxGen + 1, tries |-> 0]
Microsoft == {"kiro", "microsoft", "selection"}

VARIABLES open, method, stage, \* the dialog, the flow shown and its step
          pending, \* the flow's request is under way: fields and submit wait
          gen,     \* FlowSessions.generation
          ms, sel, bld, iam, \* its session ids
          timer,   \* builderIdTimer: the generation it polls for, its network failures
          calls,   \* requests in flight
          live,    \* logins the server keeps
          minted,  \* logins started so far
          orphan,  \* logins whose id the network lost
          misfiled, \* an account was stored under another method than it was sent as
          lost

uiVars  == <<open, method, stage, pending>>
ids     == <<ms, sel, bld, iam>>
srvVars == <<live, minted, misfiled>>
vars == <<uiVars, gen, ids, timer, calls, srvVars, orphan, lost>>

TypeOK ==
  /\ open \in BOOLEAN /\ method \in Method \cup {"none"} /\ pending \in BOOLEAN
  /\ stage \in {"idle", "kiro", "microsoft", "profile", "started", "code"}
  /\ gen \in 0 .. MaxGen /\ {ms, sel, bld, iam} \subseteq Id \cup {None}
  /\ \A l \in live : l.id \in Id /\ l.leg \in Microsoft \cup {"builder", "iam"}
  /\ minted \in 0 .. MaxIds /\ orphan \subseteq Id /\ lost \in 0 .. MaxLost

(***************************************************************************)
(* What is sent for one pasted item                                         *)
(***************************************************************************)
IsMicrosoft(item) == item.method = "external_idp" \/ item.endpoint

\* A Kiro API key, or an access token that is one when there is no refresh token; else the
\* refresh token's kind; an item with neither is skipped.
MapCredential(item) ==
  LET looksLikeKey == item.method = "api_key" \/ item.access = "ksk"
  IN  IF item.key \/ (looksLikeKey /\ ~item.refresh /\ item.access # "") THEN "api_key"
      ELSE IF ~item.refresh THEN "skip"
      ELSE IF IsMicrosoft(item) THEN "external_idp"
      ELSE IF item.client \/ item.method = "idc" THEN "idc" ELSE "social"

\* POST /auth/credentials: which of the two imports takes the request.
ApiKeyPath(item) ==
  \/ MapCredential(item) = "api_key"
  \/ ~item.refresh /\ (item.method = "api_key" \/ item.access = "ksk")

Filed(item) ==
  LET hint == MapCredential(item)
  IN  IF ApiKeyPath(item) THEN "api_key"
      ELSE IF hint = "external_idp" \/ item.endpoint THEN "external_idp"
      ELSE IF hint = "idc" \/ item.client THEN "idc" ELSE "social"

Outcomes == {<<MapCredential(item), Filed(item)>> : item \in Items}

(***************************************************************************)
(* FlowSessions                                                             *)
(***************************************************************************)
Call(kind, i) == [kind |-> kind, gen |-> gen, id |-> i, st |-> "sent", new |-> None,
                  left |-> 0, got |-> FALSE, tries |-> 0]

\* Fire-and-forget: nobody reads the answer of a cancel.
CancelOf(is) == {[Call("cancel", i) EXCEPT !.gen = 0] : i \in is \ {None}}

\* reset: the Microsoft login is cancelled, the polling stopped, answers in flight are late now.
Reset(cs) ==
  /\ gen < MaxGen /\ gen' = gen + 1 /\ calls' = cs \cup CancelOf({ms, sel})
  /\ ms' = None /\ sel' = None /\ bld' = None /\ iam' = None /\ timer' = NoTimer

(***************************************************************************)
(* The dialog                                                               *)
(***************************************************************************)
FreshFlow(m) == method' = m /\ stage' = "idle" /\ pending' = FALSE

Open ==
  /\ ~open /\ gen < MaxGen /\ open' = TRUE
  /\ \E m \in Method \cup {"none"} : FreshFlow(m)
  /\ UNCHANGED <<gen, ids, timer, calls, srvVars, orphan, lost>>

SelectMethod ==
  /\ open /\ method = "none" /\ Reset(calls)
  /\ \E m \in Method : FreshFlow(m)
  /\ UNCHANGED <<open, srvVars, orphan, lost>>

Back ==
  /\ open /\ method # "none" /\ Reset(calls) /\ FreshFlow("none")
  /\ UNCHANGED <<open, srvVars, orphan, lost>>

\* Cancel, X, Escape, backdrop: the last three wait for a pending request, Cancel does not.
Close ==
  /\ open /\ Reset(calls) /\ open' = FALSE /\ FreshFlow("none")
  /\ UNCHANGED <<srvVars, orphan, lost>>

\* finishAdd: the dialog closes without a cancel, since the server closed the login, the lists
\* are refetched and each new account refreshed.
FinishAdd(cs) ==
  /\ gen < MaxGen /\ gen' = gen + 1 /\ calls' = cs /\ open' = FALSE
  /\ ms' = None /\ sel' = None /\ bld' = None /\ iam' = None /\ timer' = NoTimer
  /\ FreshFlow("none")

(***************************************************************************)
(* The flows                                                                *)
(***************************************************************************)
Starts(call) ==
  /\ calls' = calls \cup {call} /\ pending' = TRUE
  /\ UNCHANGED <<open, method, stage, gen, ids, timer, srvVars, orphan, lost>>

Submits == open /\ ~pending

SubmitMicrosoft ==
  /\ Submits /\ method = "microsoft"
  /\ \/ stage = "idle" /\ minted < MaxIds /\ Starts(Call("msStart", None))
     \/ stage \in {"kiro", "microsoft"} /\ Starts(Call("msComplete", ms))
     \/ stage = "profile" /\ Starts(Call("msSelect", sel))

SubmitIam ==
  /\ Submits /\ method = "iam"
  /\ \/ stage = "idle" /\ minted < MaxIds /\ Starts(Call("iamStart", None))
     \/ stage = "started" /\ Starts(Call("iamComplete", iam))

SubmitBuilderId ==
  Submits /\ method = "builderid" /\ stage = "idle" /\ minted < MaxIds
    /\ Starts(Call("bldStart", None))

\* n imports, one request after another.
Imports(n) == Starts([Call("import", None) EXCEPT !.left = n])

SubmitSsoToken    == Submits /\ method = "sso" /\ Imports(1)
SubmitLocalCache  == Submits /\ method = "local" /\ Imports(1)
SubmitCookie      == Submits /\ method = "cookie" /\ Imports(1)
SubmitCredentials == Submits /\ method = "credentials" /\ \E n \in 1 .. MaxBatch : Imports(n)
SubmitApiKeys     == Submits /\ method = "apikey" /\ \E n \in 1 .. MaxBatch : Imports(n)

\* The device code's poll timer.
Poll ==
  /\ timer # NoTimer /\ timer' = NoTimer
  /\ calls' = IF bld = None \/ timer.gen # gen THEN calls
              ELSE calls \cup {[Call("bldPoll", bld) EXCEPT !.tries = timer.tries]}
  /\ UNCHANGED <<uiVars, gen, ids, srvVars, orphan, lost>>

(***************************************************************************)
(* The server                                                               *)
(***************************************************************************)
Alive(i, legs) == \E l \in live : l.id = i /\ l.leg \in legs
Without(i)     == {l \in live : l.id # i}
Answers(c, a)  == calls' = (calls \ {c}) \cup {a}
Mints(c, leg)  == /\ minted < MaxIds /\ minted' = minted + 1
                  /\ live' = Without(c.id) \cup {[id |-> minted + 1, leg |-> leg]}
                  /\ Answers(c, [c EXCEPT !.st = "ok", !.new = minted + 1])
                  /\ UNCHANGED misfiled
Refuses(c)     == Answers(c, [c EXCEPT !.st = "error"]) /\ UNCHANGED <<live, minted, misfiled>>
Adds(c, meant, filed) ==
  /\ live' = Without(c.id) /\ misfiled' = (misfiled \/ meant # filed)
  /\ Answers(c, [c EXCEPT !.st = "ok", !.got = TRUE]) /\ UNCHANGED minted

ServeMicrosoft(c) ==
  \/ c.kind = "msStart" /\ (Mints(c, "kiro") \/ Refuses(c))
  \/ /\ c.kind = "msComplete" /\ Alive(c.id, {"kiro"})
     /\ live' = Without(c.id) \cup {[id |-> c.id, leg |-> "microsoft"]}
     /\ Answers(c, [c EXCEPT !.st = "leg"]) /\ UNCHANGED <<minted, misfiled>>
  \/ /\ c.kind = "msComplete" /\ Alive(c.id, {"microsoft"})
     /\ Adds(c, "external_idp", "external_idp") \/ Mints(c, "selection")
  \/ c.kind = "msSelect" /\ Alive(c.id, {"selection"}) /\ Adds(c, "external_idp", "external_idp")
  \/ c.kind \in {"msComplete", "msSelect"} /\ Refuses(c)

ServeIam(c) ==
  \/ c.kind = "iamStart" /\ (Mints(c, "iam") \/ Refuses(c))
  \/ c.kind = "iamComplete" /\ Alive(c.id, {"iam"}) /\ Adds(c, "idc", "idc")
  \/ c.kind = "iamComplete" /\ Refuses(c)

\* A poll: not approved yet, approved, or expired.
ServeBuilderId(c) ==
  \/ c.kind = "bldStart" /\ (Mints(c, "builder") \/ Refuses(c))
  \/ /\ c.kind = "bldPoll" /\ Alive(c.id, {"builder"})
     /\ \/ Answers(c, [c EXCEPT !.st = "leg"]) /\ UNCHANGED <<live, minted, misfiled>>
        \/ Adds(c, "idc", "idc")
        \/ Answers(c, [c EXCEPT !.st = "error"]) /\ live' = Without(c.id)
             /\ UNCHANGED <<minted, misfiled>>
  \/ c.kind = "bldPoll" /\ ~Alive(c.id, {"builder"}) /\ Refuses(c)

\* An item without a token never leaves the client, which counts it as failed.
ServeImport(c) ==
  /\ c.kind = "import"
  /\ \/ \E p \in Outcomes : p[1] # "skip" /\ Adds(c, p[1], p[2])
     \/ Refuses(c)

ServeCancel(c) ==
  /\ c.kind = "cancel" /\ live' = Without(c.id) /\ calls' = calls \ {c}
  /\ UNCHANGED <<minted, misfiled>>

Serve ==
  /\ \E c \in calls :
       c.st = "sent" /\ (ServeMicrosoft(c) \/ ServeIam(c) \/ ServeBuilderId(c) \/ ServeImport(c)
                           \/ ServeCancel(c))
  /\ UNCHANGED <<uiVars, gen, ids, timer, orphan, lost>>

\* A request or its answer is lost; a login it announced, or was to close, is orphaned.
Lose ==
  /\ lost < MaxLost /\ lost' = lost + 1
  /\ \E c \in calls :
       /\ c.st \in {"sent", "ok", "leg"}
       /\ orphan' = (orphan \cup {c.new} \cup (IF c.kind = "cancel" THEN {c.id} ELSE {})) \ {None}
       /\ calls' = (calls \ {c}) \cup (IF c.kind = "cancel" THEN {} ELSE {[c EXCEPT !.st = "down", !.new = None]})
  /\ UNCHANGED <<uiVars, gen, ids, timer, srvVars>>

(***************************************************************************)
(* Answers                                                                  *)
(***************************************************************************)
\* Faulty variant: a late answer is dropped, with the login it announces.
LateDropped(c) == {}

\* A late Microsoft answer cancels the login it announces.
Late(c) == IF c.kind \in {"msStart", "msComplete"} THEN CancelOf({c.new}) ELSE {}

\* An error, the failure of the network or an answer after a reset ends the request there.
Ends(c) == c.gen # gen \/ c.st \in {"error", "down"}

Step(c, st) ==
  /\ stage' = st /\ pending' = FALSE /\ calls' = calls \ {c} /\ UNCHANGED <<open, method, gen>>

\* step and its `apply` functions.
MicrosoftAnswered(c) ==
  /\ c.kind \in {"msStart", "msComplete", "msSelect"} /\ ~Ends(c)
  /\ \/ c.got /\ FinishAdd(calls \ {c})
     \/ c.kind = "msStart" /\ ms' = c.new /\ Step(c, "kiro") /\ UNCHANGED <<sel, bld, iam, timer>>
     \/ c.kind = "msComplete" /\ c.st = "leg" /\ Step(c, "microsoft") /\ UNCHANGED <<ids, timer>>
     \/ c.kind = "msComplete" /\ c.new # None /\ sel' = c.new /\ Step(c, "profile")
          /\ UNCHANGED <<ms, bld, iam, timer>>

IamAnswered(c) ==
  /\ c.kind \in {"iamStart", "iamComplete"} /\ ~Ends(c)
  /\ \/ c.got /\ FinishAdd(calls \ {c})
     \/ ~c.got /\ iam' = c.new /\ Step(c, "started") /\ UNCHANGED <<ms, sel, bld, timer>>

\* onStart's answer and the poll chain: a network failure is retried, three in a row give up.
BuilderIdAnswered(c) ==
  /\ c.kind \in {"bldStart", "bldPoll"} /\ (~Ends(c) \/ c.kind = "bldPoll")
  /\ \/ /\ c.kind = "bldStart" /\ bld' = c.new /\ Step(c, "code")
        /\ timer' = [gen |-> gen, tries |-> 0] /\ UNCHANGED <<ms, sel, iam>>
     \/ /\ c.kind = "bldPoll" /\ (c.gen # gen \/ bld # c.id) /\ calls' = calls \ {c}
        /\ UNCHANGED <<uiVars, gen, ids, timer>>
     \/ /\ c.kind = "bldPoll" /\ c.gen = gen /\ bld = c.id
        /\ \/ c.got /\ FinishAdd(calls \ {c})
           \/ /\ c.st = "leg" \/ (c.st = "down" /\ c.tries < Retries)
              /\ timer' = [gen |-> gen, tries |-> IF c.st = "leg" THEN 0 ELSE c.tries + 1]
              /\ calls' = calls \ {c} /\ UNCHANGED <<uiVars, gen, ids>>
           \/ /\ c.st = "error" \/ (c.st = "down" /\ c.tries = Retries)
              /\ bld' = None /\ timer' = NoTimer /\ Step(c, "idle") /\ UNCHANGED <<ms, sel, iam>>

\* One request after another; a batch goes on past a failed item and ends with what it added.
ImportAnswered(c) ==
  /\ c.kind = "import" /\ c.gen = gen
  /\ \/ /\ c.left > 1
        /\ calls' = (calls \ {c}) \cup {[c EXCEPT !.left = c.left - 1, !.st = "sent"]}
        /\ UNCHANGED <<uiVars, gen, ids, timer>>
     \/ c.left = 1 /\ c.got /\ FinishAdd(calls \ {c})
     \/ c.left = 1 /\ ~c.got /\ Step(c, "idle") /\ UNCHANGED <<ids, timer>>

\* A failed request leaves its step open for another try, a late one changes nothing.
NothingCame(c) ==
  /\ Ends(c) /\ c.kind # "bldPoll" /\ ~(c.kind = "import" /\ c.gen = gen)
  /\ calls' = (calls \ {c}) \cup (IF c.gen # gen THEN Late(c) ELSE {})
  /\ pending' = (pending /\ c.gen # gen)
  /\ UNCHANGED <<open, method, stage, gen, ids, timer>>

Receive ==
  /\ \E c \in calls :
       /\ c.st # "sent"
       /\ MicrosoftAnswered(c) \/ IamAnswered(c) \/ BuilderIdAnswered(c) \/ ImportAnswered(c)
            \/ NothingCame(c)
  /\ UNCHANGED <<srvVars, orphan, lost>>

Init ==
  /\ open = FALSE /\ method = "none" /\ stage = "idle" /\ pending = FALSE /\ gen = 0
  /\ ms = None /\ sel = None /\ bld = None /\ iam = None /\ timer = NoTimer
  /\ calls = {} /\ live = {} /\ minted = 0 /\ orphan = {} /\ misfiled = FALSE /\ lost = 0

Submit == SubmitMicrosoft \/ SubmitIam \/ SubmitBuilderId \/ SubmitSsoToken \/ SubmitLocalCache
            \/ SubmitCookie \/ SubmitCredentials \/ SubmitApiKeys
Next == Open \/ SelectMethod \/ Back \/ Close \/ Submit \/ Poll \/ Serve \/ Lose \/ Receive
Spec == Init /\ [][Next]_vars

(***************************************************************************)
(* Properties                                                               *)
(***************************************************************************)
\* However the wizard is left, and whichever answer comes late, no Microsoft login stays open on
\* the server: the dialog still holds it, its answer or its cancel is on the way, or the network
\* lost one of these.
NoLoginLeaks ==
  \A l \in live : l.leg \in Microsoft =>
    \/ l.id \in {ms, sel} \cup orphan
    \/ \E c \in calls : l.id = c.new \/ (c.kind = "cancel" /\ l.id = c.id)

\* A flow has one request under way or one poll waiting, never two, and nothing of an earlier
\* visit counts as the present one's; an account is filed under the sign-in method it was sent as.
OneAtATime ==
  /\ TypeOK
  /\ Cardinality({c \in calls : c.kind # "cancel" /\ c.gen = gen}) + (IF timer = NoTimer THEN 0 ELSE 1) <= 1
  /\ ~misfiled

\* Both, however the wizard is left.
WizardKeepsItsLogins == NoLoginLeaks /\ OneAtATime
=============================================================================
