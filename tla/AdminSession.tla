---------------------------- MODULE AdminSession ----------------------------
(***************************************************************************)
(* The web console's session: the token in Web Storage, the API client      *)
(* that sends it and reacts to a 401, the sign-in form, the password card,  *)
(* sign-out and restore, the route guards, and the query cache that a       *)
(* session's end empties.  A call is sent, served and answered in three     *)
(* steps, so every other step can fall between them.                        *)
(***************************************************************************)
EXTENDS Naturals, FiniteSets

CONSTANTS MaxTokens,  \* bound: tokens the server ever issues
          MaxCalls    \* bound: calls of the console in flight at once

ASSUME SessionBounds == MaxTokens \in Nat \ {0} /\ MaxCalls \in Nat

NoToken == 0
Token   == 1 .. MaxTokens
Area    == {"session", "local"}
AppPages == {"overview", "settings", "backups"}
AuthPages == {"login", "setup"}
NoPage  == "none"
Key     == {"list", "settings"}

VARIABLES live,     \* tokens the server honours
          minted,   \* number of tokens issued so far
          aged,     \* tokens past their expiry
          firstRun, \* the server still shows its generated password
          store,    \* kiro_admin_token in the two storage areas
          remember, \* kiro_remember
          page,     \* the route shown
          back,     \* the `redirect` search parameter of the sign-in page
          form,     \* the sign-in form
          calls,    \* requests in flight
          shown,    \* the query this behaviour follows: queries do not affect one another
          cache     \* that query's data: the token it was fetched or saved under, or none

serverVars == <<live, minted, aged, firstRun, shown>>
clientVars == <<store, remember, page, back, form, calls, cache>>
vars == <<serverVars, clientVars>>

Call == [kind : {"query", "orphan", "save", "signout", "password", "restore",
                 "signin", "reauth"},
         tok  : Token \cup {NoToken},
         ans  : {"none", "ok", "denied", "limited", "down"}]

TypeOK ==
  /\ live \subseteq Token /\ aged \subseteq Token /\ minted \in 0 .. MaxTokens
  /\ shown \in Key /\ firstRun \in BOOLEAN
  /\ store \in [Area -> Token \cup {NoToken}] /\ remember \in BOOLEAN
  /\ page \in AppPages \cup AuthPages /\ back \in AppPages \cup {NoPage}
  /\ form \in [pending : BOOLEAN, locked : BOOLEAN]
  /\ calls \subseteq Call
  /\ cache \in Token \cup {NoToken}

(***************************************************************************)
(* Reading the stored session                                               *)
(***************************************************************************)
Valid(a) == store[a] # NoToken /\ store[a] \notin aged

\* getToken: sessionStorage first, then localStorage.
Found == CASE Valid("session") -> store["session"]
           [] ~Valid("session") /\ Valid("local") -> store["local"]
           [] OTHER -> NoToken

\* Expired tokens met on the way are removed from storage.
Swept == [a \in Area |-> IF store[a] \in aged /\ (a = "session" \/ ~Valid("session"))
                         THEN NoToken ELSE store[a]]

SignInPage == IF firstRun THEN "setup" ELSE "login"

\* queryClient.clear(): the cache is emptied, and what is being fetched has no query any more.
Orphaned(cs) == {IF c.kind = "query" THEN [c EXCEPT !.kind = "orphan"] ELSE c : c \in cs}

ClearCache(cs) == cache' = NoToken /\ calls' = Orphaned(cs)

\* useSessionRedirects: expiry keeps the way back, sign-out and restore do not.
LeaveForSignIn(reason) ==
  /\ page' = SignInPage
  /\ back' = CASE reason # "expired" -> NoPage
               [] reason = "expired" /\ page \in AppPages -> page
               [] OTHER -> back

\* clearSession, with the calls cs that stay in flight.
ClearSession(reason, cs) ==
  /\ store' = [a \in Area |-> NoToken]
  /\ ClearCache(cs)
  /\ LeaveForSignIn(reason)
  /\ UNCHANGED remember

\* setSession writes one area and clears the other.
SetSession(t, stay) ==
  /\ store' = [a \in Area |-> IF a = (IF stay THEN "local" ELSE "session") THEN t ELSE NoToken]
  /\ remember' = stay

(***************************************************************************)
(* Sending                                                                  *)
(***************************************************************************)
Sent(kind, t) == [kind |-> kind, tok |-> t, ans |-> "none"]

RoomForCall == Cardinality(calls) < MaxCalls

\* A call with the stored token; without one nothing is sent.
Send(kind) ==
  /\ Found # NoToken
  /\ RoomForCall
  /\ calls' = calls \cup {Sent(kind, Found)}
  /\ store' = Swept
  /\ UNCHANGED <<serverVars, remember, page, back, form, cache>>

InFlight(kinds) == \E c \in calls : c.kind \in kinds

\* A mounted query fetches: on mount, on focus, on its interval.
Fetch == page \in AppPages /\ ~InFlight({"query"}) /\ Send("query")

SignOut == page \in AppPages /\ ~InFlight({"signout"}) /\ Send("signout")

ChangePassword == page = "settings" /\ ~InFlight({"password", "reauth"}) /\ Send("password")

Restore == page = "backups" /\ ~InFlight({"restore"}) /\ Send("restore")

SaveSettings == page = "settings" /\ shown = "settings" /\ ~InFlight({"save"}) /\ Send("save")

\* Any read of the session that meets an expired token: it is dropped and the app told.
NoticeExpiry ==
  /\ Found = NoToken /\ Swept # store
  /\ store' = Swept
  /\ ClearCache(calls)
  /\ LeaveForSignIn("expired")
  /\ UNCHANGED <<serverVars, remember, form>>

\* The route guard of the app pages (a lapsed token is NoticeExpiry).
Navigate(p) ==
  /\ page \in AppPages /\ p # page /\ Found # NoToken
  /\ page' = p
  /\ store' = Swept
  /\ UNCHANGED <<serverVars, remember, back, form, calls, cache>>

(***************************************************************************)
(* The sign-in form                                                         *)
(***************************************************************************)
Submit ==
  /\ page \in AuthPages /\ ~form.pending /\ ~form.locked
  /\ minted < MaxTokens /\ RoomForCall
  /\ form' = [form EXCEPT !.pending = TRUE]
  /\ calls' = calls \cup {Sent("signin", NoToken)}
  /\ UNCHANGED <<serverVars, store, remember, page, back, cache>>

CountdownEnds ==
  /\ form.locked
  /\ form' = [form EXCEPT !.locked = FALSE]
  /\ UNCHANGED <<serverVars, store, remember, page, back, calls, cache>>

\* /setup reads the first-run password again; claimed elsewhere, it goes to /login.
SetupClaimed ==
  /\ page = "setup" /\ ~firstRun /\ Found = NoToken
  /\ page' = "login"
  /\ UNCHANGED <<serverVars, store, remember, back, form, calls, cache>>

(***************************************************************************)
(* The server                                                               *)
(***************************************************************************)
Answered(c, a) == (calls \ {c}) \cup {a}

\* What an authenticated call does on the server.
Served(c) ==
  /\ c.kind \notin {"signin", "reauth"} /\ c.ans = "none"
  /\ IF c.tok \in live
     THEN /\ calls' = Answered(c, [c EXCEPT !.ans = "ok"])
          /\ live' = CASE c.kind = "signout" -> live \ {c.tok}
                       [] c.kind \in {"password", "restore"} -> {}
                       [] OTHER -> live
          /\ firstRun' = (firstRun /\ c.kind # "password")
     ELSE /\ calls' = Answered(c, [c EXCEPT !.ans = "denied"])
          /\ UNCHANGED <<live, firstRun>>
  /\ UNCHANGED <<minted, aged, shown, store, remember, page, back, form, cache>>

\* POST /session: a token, a wrong password, or the attempt limit.
ServedSession(c) ==
  /\ c.kind \in {"signin", "reauth"} /\ c.ans = "none"
  /\ \/ /\ minted < MaxTokens
        /\ minted' = minted + 1
        /\ live' = live \cup {minted + 1}
        /\ firstRun' = FALSE
        /\ calls' = Answered(c, [c EXCEPT !.ans = "ok", !.tok = minted + 1])
     \/ /\ \E a \in {"denied", "limited"} : calls' = Answered(c, [c EXCEPT !.ans = a])
        /\ UNCHANGED <<minted, live, firstRun>>
  /\ UNCHANGED <<aged, shown, store, remember, page, back, form, cache>>

\* The network fails: the server may have run the call or not.
Lost(c) ==
  /\ c.ans \in {"none", "ok"}
  /\ calls' = Answered(c, [c EXCEPT !.ans = "down"])
  /\ UNCHANGED <<serverVars, store, remember, page, back, form, cache>>

Expire(t) ==
  /\ t \in live
  /\ live' = live \ {t} /\ aged' = aged \cup {t}
  /\ UNCHANGED <<minted, firstRun, shown, clientVars>>

(***************************************************************************)
(* Receiving                                                                *)
(***************************************************************************)
\* Faulty variant: any 401 ends the session, whichever token it was for.
EndsSessionAny(c) == c.ans = "denied"

\* send: only the token this request carried can expire by its 401.
EndsSession(c) == c.ans = "denied" /\ Found = c.tok /\ c.tok # NoToken

\* Faulty variant: a fetch that outlived its query still writes the cache.
FetchedAlways(c) == IF c.ans = "ok" /\ c.kind \in {"query", "orphan", "save"}
                    THEN c.tok ELSE cache

\* A fetch writes its query; a save writes what it sent (setQueryData).
Fetched(c) == IF c.ans = "ok" /\ c.kind \in {"query", "save"}
              THEN c.tok ELSE cache

ReceiveData(c) ==
  /\ c.kind \in {"query", "orphan", "save"} /\ c.ans # "none"
  /\ \/ EndsSession(c) /\ ClearSession("expired", calls \ {c})
     \/ /\ ~EndsSession(c)
        /\ cache' = Fetched(c)
        /\ calls' = calls \ {c}
        /\ UNCHANGED <<store, remember, page, back>>
  /\ UNCHANGED <<serverVars, form>>

\* signOut: the local session ends whatever the server said.
ReceiveSignOut(c) ==
  /\ c.kind = "signout" /\ c.ans # "none"
  /\ ClearSession("signout", calls \ {c})
  /\ UNCHANGED <<serverVars, form>>

\* restore: the server revoked every session, so this one goes too.
ReceiveRestore(c) ==
  /\ c.kind = "restore" /\ c.ans # "none"
  /\ \/ c.ans = "ok" /\ ClearSession("restored", calls \ {c})
     \/ EndsSession(c) /\ ClearSession("expired", calls \ {c})
     \/ /\ c.ans # "ok" /\ ~EndsSession(c)
        /\ calls' = calls \ {c}
        /\ UNCHANGED <<store, remember, page, back, cache>>
  /\ UNCHANGED <<serverVars, form>>

\* The password card: after the save it signs in again with the new password.
ReceivePassword(c) ==
  /\ c.kind = "password" /\ c.ans # "none"
  /\ \/ EndsSession(c) /\ ClearSession("expired", calls \ {c})
     \/ /\ ~EndsSession(c)
        /\ calls' = IF c.ans = "ok" THEN Answered(c, Sent("reauth", NoToken))
                                    ELSE calls \ {c}
        /\ UNCHANGED <<store, remember, page, back, cache>>
  /\ UNCHANGED <<serverVars, form>>

\* reauthenticate: a new session in place, or none at all.
ReceiveReauth(c) ==
  /\ c.kind = "reauth" /\ c.ans # "none"
  /\ \/ /\ c.ans = "ok"
        /\ SetSession(c.tok, remember)
        /\ calls' = calls \ {c}
        /\ UNCHANGED <<page, back, cache>>
     \/ c.ans # "ok" /\ ClearSession("expired", calls \ {c})
  /\ UNCHANGED <<serverVars, form>>

\* The sign-in form: in, or one of its notices.
ReceiveSignIn(c, stay) ==
  /\ c.kind = "signin" /\ c.ans # "none"
  /\ calls' = calls \ {c}
  /\ \/ /\ c.ans = "ok"
        /\ SetSession(c.tok, stay)
        /\ page' = IF back \in AppPages THEN back ELSE "overview"
        /\ back' = NoPage
        /\ form' = [form EXCEPT !.pending = FALSE]
     \/ /\ c.ans # "ok"
        /\ form' = [pending |-> FALSE, locked |-> c.ans = "limited"]
        /\ UNCHANGED <<store, remember, page, back>>
  /\ UNCHANGED <<serverVars, cache>>

(***************************************************************************)
(* The session on its own                                                   *)
(***************************************************************************)
Init ==
  /\ \E t \in {NoToken, 1}, a \in Area :
       /\ store = [x \in Area |-> IF x = a THEN t ELSE NoToken]
       /\ remember = (a = "local")
       /\ live = IF t = NoToken THEN {} ELSE {t}
       /\ minted = t
       /\ firstRun \in (IF t = NoToken THEN BOOLEAN ELSE {FALSE})
       /\ page = IF t = NoToken THEN SignInPage ELSE "overview"
  /\ aged = {}
  /\ shown \in Key
  /\ back = NoPage
  /\ form = [pending |-> FALSE, locked |-> FALSE]
  /\ calls = {}
  /\ cache = NoToken

UserStep ==
  \/ SignOut \/ ChangePassword \/ Restore \/ SaveSettings
  \/ Submit
  \/ \E p \in AppPages : Navigate(p)

ClientStep ==
  \/ Fetch \/ NoticeExpiry \/ CountdownEnds \/ SetupClaimed
  \/ \E c \in calls :
       \/ ReceiveData(c) \/ ReceiveSignOut(c) \/ ReceiveRestore(c)
       \/ ReceivePassword(c) \/ ReceiveReauth(c)
       \/ \E stay \in BOOLEAN : ReceiveSignIn(c, stay)

ServerStep ==
  \/ \E c \in calls : Served(c) \/ ServedSession(c) \/ Lost(c)
  \/ \E t \in live : Expire(t)

Next == UserStep \/ ClientStep \/ ServerStep
Spec == Init /\ [][Next]_vars

(***************************************************************************)
(* Properties                                                               *)
(***************************************************************************)
\* The two storage areas never both hold a token, an app page is never shown
\* without one, and the form is busy exactly while its request is in flight.
SessionInv ==
  /\ TypeOK
  /\ ~(store["session"] # NoToken /\ store["local"] # NoToken)
  /\ page \in AppPages => \E a \in Area : store[a] # NoToken
  /\ form.pending <=> InFlight({"signin"})

\* Data fetched for one session is gone once that session has ended: on the
\* sign-in page no list is left in the query cache, whatever answers come late.
ListsGoWithSession ==
  shown # "settings" /\ (\A a \in Area : store[a] = NoToken) => cache = NoToken

\* A session the server still honours ends only when the user signs out or
\* restores a backup, or when the sign-in after a password change fails: a late
\* 401 for an earlier token never ends it.
EndsForCause ==
  (Found \in live /\ Found # NoToken /\ \A a \in Area : store'[a] = NoToken)
    => \E c \in calls \ calls' : \/ c.kind \in {"signout", "restore"}
                                 \/ c.kind = "reauth" /\ c.ans # "ok"

\* A token is in one storage area at most, an app page is never shown without one, and what was
\* fetched for a session is gone from the cache with it, whatever answers come late.
SessionKeepsNothing == SessionInv /\ ListsGoWithSession

\* EndsForCause of every step: a late 401 for an earlier token never ends the session.
SessionEndsForCause == [][EndsForCause]_vars
=============================================================================
