----------------------- MODULE AccountsConsole_proofs -----------------------
(***************************************************************************)
(* What the console's session and its accounts pages keep, for any number  *)
(* of tokens, calls, accounts, operations and losses.  Each section proves *)
(* an inductive invariant of one component; as a behaviour runs one        *)
(* component, the theorem about the whole follows.                         *)
(***************************************************************************)
EXTENDS MCAccountsConsole, FiniteSetTheorems, SequenceTheorems, NaturalsInduction, WellFoundedInduction, TLAPS

(***************************************************************************)
(* One component runs for good, and behaves as it does alone.              *)
(***************************************************************************)
LEMMA PageRuns == ConsoleSpec => Page!Spec \/ [](~(which = "page"))
<1>1. ConsoleInit /\ which = "page" => Page!Init
  BY DEF ConsoleInit
<1>2. [ConsoleNext]_consoleVars /\ which = "page" => (which = "page")' /\ [Page!Next]_(Page!vars)
  BY DEF ConsoleNext, consoleVars, pageVars, Page!vars
<1>3. [ConsoleNext]_consoleVars /\ ~(which = "page") => ~(which = "page")'
  BY DEF ConsoleNext, consoleVars
<1>4. QED
  BY <1>1, <1>2, <1>3, PTL DEF ConsoleSpec, Page!Spec

LEMMA DialogsRun == ConsoleSpec => Dialogs!Spec \/ [](~(which = "dialogs"))
<1>1. ConsoleInit /\ which = "dialogs" => Dialogs!Init
  BY DEF ConsoleInit
<1>2. [ConsoleNext]_consoleVars /\ which = "dialogs" => (which = "dialogs")' /\ [Dialogs!Next]_(Dialogs!vars)
  BY DEF ConsoleNext, consoleVars, dialogVars, Dialogs!vars
<1>3. [ConsoleNext]_consoleVars /\ ~(which = "dialogs") => ~(which = "dialogs")'
  BY DEF ConsoleNext, consoleVars
<1>4. QED
  BY <1>1, <1>2, <1>3, PTL DEF ConsoleSpec, Dialogs!Spec

LEMMA WizardRuns == ConsoleSpec => Wizard!Spec \/ [](~(which = "wizard"))
<1>1. ConsoleInit /\ which = "wizard" => Wizard!Init
  BY DEF ConsoleInit
<1>2. [ConsoleNext]_consoleVars /\ which = "wizard" => (which = "wizard")' /\ [Wizard!Next]_(Wizard!vars)
  BY DEF ConsoleNext, consoleVars, wizardVars, Wizard!vars, Wizard!uiVars, Wizard!ids, Wizard!srvVars
<1>3. [ConsoleNext]_consoleVars /\ ~(which = "wizard") => ~(which = "wizard")'
  BY DEF ConsoleNext, consoleVars
<1>4. QED
  BY <1>1, <1>2, <1>3, PTL DEF ConsoleSpec, Wizard!Spec

(***************************************************************************)
(* The session keeps and clears. The invariant ties every call to the      *)
(* session it was sent under: a fetch that still has its query belongs to  *)
(* a stored session, and a 401 is for a token that the server no longer    *)
(* honours.                                                                *)
(***************************************************************************)
SignedIn == \E a \in Area : store[a] # NoToken

\* Tokens are numbered in the order they are issued, so a new one is in no
\* storage area and in no call.
Issued ==
  /\ \A t \in live : t <= minted
  /\ \A a \in Area : store[a] <= minted
  /\ \A c \in calls : c.tok <= minted

\* What a call in flight says of the session: a fetch that has a query belongs
\* to a stored session, only the settings are saved, a token comes with every
\* session granted, and a 401 is for a token that is dead.
SoundCall(c) ==
  /\ c.kind = "query" => SignedIn
  /\ c.kind = "save" => shown = "settings"
  /\ c.kind \in {"signin", "reauth"} /\ c.ans = "ok" => c.tok # NoToken
  /\ c.kind \notin {"signin", "reauth"} /\ c.ans = "denied" => c.tok \notin live

OneSignIn == \A c, d \in calls : c.kind = "signin" /\ d.kind = "signin" => c = d

\* The inductive invariant.
SessionIInv ==
  /\ SessionInv
  /\ ListsGoWithSession
  /\ Issued
  /\ \A c \in calls : SoundCall(c)
  /\ OneSignIn

-----------------------------------------------------------------------------
\* The stored session is one of the tokens in storage, and one that has not
\* lapsed; sweeping keeps it.
LEMMA FoundStored ==
  ASSUME TypeOK, Found # NoToken
  PROVE  /\ \E a \in Area : Found = store[a] /\ Swept[a] = store[a]
         /\ Found \in Token /\ Found \notin aged
BY DEF Found, Swept, Valid, Area, NoToken, TypeOK

\* Sweeping only removes tokens.
LEMMA SweptLess ==
  ASSUME TypeOK
  PROVE  /\ Swept \in [Area -> Token \cup {NoToken}]
         /\ \A a \in Area : Swept[a] \in {store[a], NoToken}
BY DEF Swept, TypeOK

\* What orphaning does to the calls in flight: no fetch has a query any more,
\* and every other call stays as it is.
LEMMA OrphanedCalls ==
  ASSUME NEW cs \in SUBSET Call
  PROVE  /\ Orphaned(cs) \subseteq Call
         /\ \A d \in Orphaned(cs) : \/ d \in cs /\ d.kind # "query"
                                    \/ d.kind = "orphan" /\ \E c \in cs : d.tok = c.tok /\ d.ans = c.ans /\ c.kind = "query"
         /\ \A c \in cs : c.kind # "query" => c \in Orphaned(cs)
BY DEF Orphaned, Call

-----------------------------------------------------------------------------
\* A call sent with the stored token: sweeping on the way keeps that token.
LEMMA SendKeeps ==
  ASSUME SessionIInv, page \in AppPages,
         NEW kind \in {"query", "save", "signout", "password", "restore"},
         kind = "save" => shown = "settings",
         Send(kind)
  PROVE  SessionIInv'
<1>0. /\ TypeOK /\ Found # NoToken /\ store' = Swept
      /\ calls' = calls \cup {Sent(kind, Found)}
      /\ UNCHANGED <<serverVars, remember, page, back, form, cache>>
  BY DEF Send, SessionIInv, SessionInv
<1>1. SignedIn /\ SignedIn'
  BY <1>0, FoundStored DEF SignedIn, NoToken, Token
<1>2. Sent(kind, Found) \in Call /\ Sent(kind, Found).kind = kind /\ Sent(kind, Found).ans = "none"
        /\ Sent(kind, Found).tok = Found
  BY <1>0, FoundStored DEF Sent, Call
<1>3. TypeOK'
  BY <1>0, <1>2, SweptLess DEF TypeOK, serverVars
<1>4. SessionInv'
  BY <1>0, <1>1, <1>2, <1>3, SweptLess DEF SessionInv, SessionIInv, SignedIn, InFlight, Area
<1>5. ListsGoWithSession'
  BY <1>1 DEF ListsGoWithSession, SignedIn
<1>6. Issued'
  BY <1>0, <1>2, SweptLess, FoundStored, SessionBounds
     DEF Issued, SessionIInv, serverVars, TypeOK, NoToken
<1>7. \A c \in calls' : SoundCall(c)'
  BY <1>0, <1>1, <1>2 DEF SoundCall, SessionIInv, serverVars
<1>8. OneSignIn'
  BY <1>0, <1>2 DEF OneSignIn, SessionIInv
<1>9. QED
  BY <1>4, <1>5, <1>6, <1>7, <1>8 DEF SessionIInv

\* The end of a session leaves nothing of it: no token, no cached list, no
\* fetch with a query.
LEMMA ClearKeeps ==
  ASSUME SessionIInv, NEW reason \in {"expired", "signout", "restored"},
         NEW cs \in SUBSET calls, \A c \in calls \ cs : c.kind # "signin",
         store' \in [Area -> Token \cup {NoToken}],
         \A a \in Area : store'[a] \in {store[a], NoToken},
         ClearCache(cs), LeaveForSignIn(reason),
         UNCHANGED <<serverVars, remember, form>>
  PROVE  SessionIInv'
<1>0. /\ TypeOK /\ cache' = NoToken /\ calls' = Orphaned(cs) /\ cs \in SUBSET Call
      /\ page' \in AuthPages /\ page' \notin AppPages /\ back' \in AppPages \cup {NoPage}
  BY DEF ClearCache, LeaveForSignIn, SignInPage, SessionIInv, SessionInv, TypeOK, AuthPages, AppPages
<1>1. /\ calls' \subseteq Call
      /\ \A d \in calls' : d.kind # "query" /\ (d \in calls \/ d.kind = "orphan")
      /\ \A d \in calls' : \E c \in calls : d.tok = c.tok /\ d.ans = c.ans
                               /\ (d = c \/ (d.kind = "orphan" /\ c.kind = "query"))
      /\ \A c \in cs : c.kind # "query" => c \in calls'
  BY <1>0, OrphanedCalls
<1>2. TypeOK'
  BY <1>0, <1>1 DEF TypeOK, serverVars
<1>3. SessionInv'
  BY <1>0, <1>1, <1>2 DEF SessionInv, SessionIInv, InFlight, Area
<1>4. ListsGoWithSession'
  BY <1>0 DEF ListsGoWithSession
<1>5. Issued'
  BY <1>0, <1>1, SessionBounds DEF Issued, SessionIInv, serverVars, TypeOK, NoToken
<1>6. \A c \in calls' : SoundCall(c)'
  BY <1>1 DEF SoundCall, SessionIInv, serverVars
<1>7. OneSignIn'
  BY <1>1 DEF OneSignIn, SessionIInv
<1>8. QED
  BY <1>3, <1>4, <1>5, <1>6, <1>7 DEF SessionIInv

\* The calls that stay in flight when c is answered and removed stay sound.
LEMMA RemoveKeeps ==
  ASSUME SessionIInv, NEW c \in calls, calls' = calls \ {c},
         c.kind # "signin" \/ ~form'.pending,
         c.kind = "signin" \/ form' = form,
         form' \in [pending : BOOLEAN, locked : BOOLEAN],
         store' \in [Area -> Token \cup {NoToken}], remember' \in BOOLEAN,
         \A a \in Area : store'[a] <= minted,
         ~(store'["session"] # NoToken /\ store'["local"] # NoToken),
         SignedIn => SignedIn',
         page' \in AppPages \cup AuthPages, back' \in AppPages \cup {NoPage},
         page' \in AppPages => SignedIn',
         cache' \in Token \cup {NoToken}, ListsGoWithSession',
         UNCHANGED serverVars
  PROVE  SessionIInv'
<1>1. TypeOK'
  BY DEF TypeOK, serverVars, SessionIInv, SessionInv
<1>2. form'.pending <=> InFlight({"signin"})'
  <2>1. CASE c.kind = "signin"
    BY <2>1 DEF SessionIInv, OneSignIn, InFlight
  <2>2. CASE c.kind # "signin"
    BY <2>2 DEF SessionIInv, SessionInv, InFlight
  <2>3. QED
    BY <2>1, <2>2
<1>3. SessionInv'
  BY <1>1, <1>2 DEF SessionInv, SignedIn
<1>4. Issued' /\ OneSignIn'
  BY DEF Issued, OneSignIn, SessionIInv, serverVars
<1>5. \A d \in calls' : SoundCall(d)'
  BY DEF SoundCall, SessionIInv, serverVars
<1>6. QED
  BY <1>3, <1>4, <1>5 DEF SessionIInv

\* A call that the server answers, or the network loses, stays a call of its
\* kind; tokens are issued upwards and a dead one stays dead.
LEMMA AnswerKeeps ==
  ASSUME SessionIInv, NEW c \in calls, NEW a \in Call, a.kind = c.kind,
         calls' = Answered(c, a),
         minted' \in {minted, minted + 1}, minted' <= MaxTokens,
         live' \subseteq live \cup {minted'}, minted' = minted => live' \subseteq live,
         firstRun' \in BOOLEAN, a.tok <= minted', SoundCall(a)',
         UNCHANGED <<aged, shown, store, remember, page, back, form, cache>>
  PROVE  SessionIInv'
<1>0. TypeOK /\ minted \in Nat /\ MaxTokens \in Nat
  BY SessionBounds DEF TypeOK, SessionIInv, SessionInv
<1>1. TypeOK'
  <2>1. minted' \in 0 .. MaxTokens
    BY <1>0
  <2>2. live' \subseteq Token
    BY <1>0 DEF TypeOK, Token
  <2>3. calls' \subseteq Call
    BY <1>0 DEF TypeOK, Answered
  <2>4. QED
    BY <1>0, <2>1, <2>2, <2>3 DEF TypeOK
<1>2. InFlight({"signin"})' <=> InFlight({"signin"})
  BY DEF InFlight, Answered
<1>3. SessionInv' /\ ListsGoWithSession'
  BY <1>1, <1>2 DEF SessionInv, ListsGoWithSession, SessionIInv
<1>4. Issued'
  BY <1>0 DEF Issued, SessionIInv, Answered, TypeOK, Call, Token, NoToken
<1>5. ASSUME NEW d \in calls' PROVE SoundCall(d)'
  <2>1. CASE d = a
    BY <2>1
  <2>2. CASE d # a
    <3>1. d \in calls /\ SoundCall(d) /\ d.tok \in Nat /\ d.tok <= minted
      BY <1>0, <1>5, <2>2 DEF Answered, SessionIInv, Issued, TypeOK, Call, Token, NoToken
    <3>2. d.tok \notin live => d.tok \notin live'
      BY <1>0, <3>1
    <3>3. SignedIn' <=> SignedIn
      BY DEF SignedIn
    <3>4. QED
      BY <3>1, <3>2, <3>3 DEF SoundCall
  <2>3. QED
    BY <2>1, <2>2
<1>6. OneSignIn'
  BY DEF OneSignIn, Answered, SessionIInv
<1>7. QED
  BY <1>3, <1>4, <1>5, <1>6 DEF SessionIInv

-----------------------------------------------------------------------------
LEMMA SessionStarts == Init => SessionIInv
<1> SUFFICES ASSUME Init PROVE SessionIInv
  OBVIOUS
<1>1. PICK t \in {NoToken, 1}, a \in Area :
        /\ store = [x \in Area |-> IF x = a THEN t ELSE NoToken]
        /\ live = (IF t = NoToken THEN {} ELSE {t}) /\ minted = t
        /\ page = IF t = NoToken THEN SignInPage ELSE "overview"
        /\ remember \in BOOLEAN /\ firstRun \in BOOLEAN
  BY DEF Init
<1>2. /\ page = (IF t = NoToken THEN SignInPage ELSE "overview")
      /\ SignInPage \in AuthPages /\ AuthPages \cap AppPages = {} /\ "overview" \in AppPages
  BY <1>1 DEF SignInPage, AuthPages, AppPages
<1>3. TypeOK
  BY <1>1, <1>2, SessionBounds DEF TypeOK, Init, Token, NoToken
<1>4. SessionInv
  BY <1>1, <1>2, <1>3 DEF SessionInv, Init, InFlight, Area, NoToken
<1>5. Issued
  BY <1>1 DEF Issued, Init, NoToken
<1>6. QED
  BY <1>4, <1>5 DEF SessionIInv, Init, ListsGoWithSession, OneSignIn

\* Whatever the user does.
LEMMA UserKeeps == SessionIInv /\ UserStep => SessionIInv'
<1> SUFFICES ASSUME SessionIInv, UserStep PROVE SessionIInv'
  OBVIOUS
<1>0. TypeOK
  BY DEF SessionIInv, SessionInv
<1>1. CASE SignOut \/ ChangePassword \/ Restore \/ SaveSettings
  BY <1>1, SendKeeps DEF SignOut, ChangePassword, Restore, SaveSettings, AppPages
<1>2. CASE Submit
  <2>1. Sent("signin", NoToken) \in Call /\ Sent("signin", NoToken).kind = "signin"
          /\ Sent("signin", NoToken).ans = "none" /\ Sent("signin", NoToken).tok = NoToken
    BY DEF Sent, Call
  <2>2. TypeOK' /\ form'.pending
    BY <1>0, <1>2, <2>1 DEF Submit, TypeOK, serverVars
  <2>3. SessionInv'
    BY <1>0, <1>2, <2>1, <2>2 DEF Submit, SessionInv, SessionIInv, InFlight
  <2>4. ListsGoWithSession'
    BY <1>2 DEF Submit, ListsGoWithSession, SessionIInv, serverVars
  <2>5. Issued'
    BY <1>0, <1>2, <2>1 DEF Submit, Issued, SessionIInv, serverVars, TypeOK, NoToken
  <2>6. \A c \in calls' : SoundCall(c)'
    BY <1>2, <2>1 DEF Submit, SoundCall, SessionIInv, SignedIn, serverVars
  <2>7. OneSignIn'
    BY <1>2, <2>1 DEF Submit, OneSignIn, SessionIInv, SessionInv, InFlight
  <2>8. QED
    BY <2>3, <2>4, <2>5, <2>6, <2>7 DEF SessionIInv
<1>3. ASSUME NEW p \in AppPages, Navigate(p) PROVE SessionIInv'
  <2>1. SignedIn'
    BY <1>0, <1>3, FoundStored DEF Navigate, SignedIn
  <2>2. SignedIn
    BY <1>0, <1>3, FoundStored DEF Navigate, SignedIn
  <2>3. TypeOK'
    BY <1>0, <1>3, SweptLess DEF Navigate, TypeOK, serverVars
  <2>4. SessionInv'
    BY <1>0, <1>3, <2>1, <2>3, SweptLess DEF Navigate, SessionInv, SessionIInv, SignedIn, InFlight, Area
  <2>5. ListsGoWithSession'
    BY <2>1 DEF ListsGoWithSession, SignedIn
  <2>6. Issued'
    BY <1>0, <1>3, SweptLess DEF Navigate, Issued, SessionIInv, serverVars, TypeOK, NoToken
  <2>7. (\A c \in calls' : SoundCall(c)') /\ OneSignIn'
    BY <1>3, <2>1 DEF Navigate, SoundCall, OneSignIn, SessionIInv, serverVars
  <2>8. QED
    BY <2>4, <2>5, <2>6, <2>7 DEF SessionIInv
<1>4. QED
  BY <1>1, <1>2, <1>3 DEF UserStep

\* Whatever the server and the network do.
LEMMA ServerKeeps == SessionIInv /\ ServerStep => SessionIInv'
<1> SUFFICES ASSUME SessionIInv, ServerStep PROVE SessionIInv'
  OBVIOUS
<1>0. TypeOK /\ minted \in Nat /\ MaxTokens \in Nat /\ minted <= MaxTokens
  BY SessionBounds DEF SessionIInv, SessionInv, TypeOK
<1>1. ASSUME NEW c \in calls PROVE c \in Call /\ SoundCall(c) /\ c.tok <= minted
  BY <1>0 DEF SessionIInv, TypeOK, Issued
<1>2. ASSUME NEW c \in calls, Served(c) PROVE SessionIInv'
  <2>1. PICK ans \in {"ok", "denied"} : calls' = Answered(c, [c EXCEPT !.ans = ans])
                                          /\ (ans = "denied" => c.tok \notin live)
    BY <1>2 DEF Served
  <2>2. live' \subseteq live /\ firstRun' \in BOOLEAN /\ SignedIn' = SignedIn
    BY <1>0, <1>2 DEF Served, TypeOK, SignedIn
  <2>3. [c EXCEPT !.ans = ans] \in Call
    BY <1>1 DEF Call
  <2>4. SoundCall([c EXCEPT !.ans = ans])'
    BY <1>1, <1>2, <2>1, <2>2 DEF Served, SoundCall, Call
  <2>5. QED
    BY <1>0, <1>1, <1>2, <2>1, <2>2, <2>3, <2>4, AnswerKeeps DEF Served, Call
<1>3. ASSUME NEW c \in calls, ServedSession(c) PROVE SessionIInv'
  <2>1. CASE minted' = minted + 1 /\ minted < MaxTokens /\ live' = live \cup {minted + 1}
             /\ firstRun' = FALSE /\ calls' = Answered(c, [c EXCEPT !.ans = "ok", !.tok = minted + 1])
    <3>1. PICK n \in Token : n = minted + 1
      BY <1>0, <2>1 DEF Token
    <3> DEFINE a == [c EXCEPT !.ans = "ok", !.tok = n]
    <3>2. a \in Call /\ a.kind = c.kind /\ a.tok = n /\ a.ans = "ok"
      BY <1>1 DEF Call
    <3>3. SoundCall(a)'
      BY <1>0, <1>3, <3>1, <3>2 DEF ServedSession, SoundCall, NoToken
    <3>4. calls' = Answered(c, a)
      BY <2>1, <3>1
    <3>5. minted' <= MaxTokens /\ minted' # minted /\ a.tok <= minted'
      BY <1>0, <2>1, <3>1, <3>2
    <3>6. live' \subseteq live \cup {minted'} /\ firstRun' \in BOOLEAN
      BY <2>1
    <3>7. UNCHANGED <<aged, shown, store, remember, page, back, form, cache>>
      BY <1>3 DEF ServedSession
    <3> HIDE DEF a
    <3>8. QED
      BY <2>1, <3>2, <3>3, <3>4, <3>5, <3>6, <3>7, AnswerKeeps
  <2>2. CASE (\E n \in {"denied", "limited"} : calls' = Answered(c, [c EXCEPT !.ans = n]))
             /\ UNCHANGED <<minted, live, firstRun>>
    <3>1. PICK n \in {"denied", "limited"} : calls' = Answered(c, [c EXCEPT !.ans = n])
      BY <2>2
    <3> DEFINE a == [c EXCEPT !.ans = n]
    <3>2. a \in Call /\ a.kind = c.kind /\ a.tok = c.tok /\ a.ans = n
      BY <1>1 DEF Call
    <3>3. SoundCall(a)'
      BY <1>3, <3>2 DEF ServedSession, SoundCall
    <3>4. QED
      BY <1>0, <1>1, <1>3, <2>2, <3>1, <3>2, <3>3, AnswerKeeps DEF ServedSession, TypeOK
  <2>3. QED
    BY <1>3, <2>1, <2>2 DEF ServedSession
<1>4. ASSUME NEW c \in calls, Lost(c) PROVE SessionIInv'
  <2> DEFINE a == [c EXCEPT !.ans = "down"]
  <2>1. a \in Call /\ a.kind = c.kind /\ a.tok = c.tok /\ a.ans = "down"
    BY <1>1 DEF Call
  <2>2. SoundCall(a)'
    BY <1>1, <1>4, <2>1 DEF Lost, SoundCall, SignedIn, serverVars
  <2>3. QED
    BY <1>0, <1>1, <1>4, <2>1, <2>2, AnswerKeeps DEF Lost, TypeOK, serverVars
<1>5. ASSUME NEW t \in live, Expire(t) PROVE SessionIInv'
  <2>1. TypeOK' /\ SessionInv' /\ ListsGoWithSession'
    BY <1>0, <1>5 DEF Expire, clientVars, TypeOK, SessionInv, SessionIInv, ListsGoWithSession, InFlight
  <2>2. Issued' /\ OneSignIn' /\ \A c \in calls' : SoundCall(c)'
    BY <1>5 DEF Expire, clientVars, Issued, OneSignIn, SoundCall, SignedIn, SessionIInv
  <2>3. QED
    BY <2>1, <2>2 DEF SessionIInv
<1>6. QED
  BY <1>2, <1>3, <1>4, <1>5 DEF ServerStep

\* clearSession, after the answer of c.
LEMMA ClearSessionKeeps ==
  ASSUME SessionIInv, NEW c \in calls, c.kind # "signin",
         NEW reason \in {"expired", "signout", "restored"},
         ClearSession(reason, calls \ {c}), UNCHANGED <<serverVars, form>>
  PROVE  SessionIInv'
<1>1. /\ store' \in [Area -> Token \cup {NoToken}]
      /\ \A a \in Area : store'[a] \in {store[a], NoToken}
      /\ ClearCache(calls \ {c}) /\ LeaveForSignIn(reason) /\ UNCHANGED remember
  BY DEF ClearSession
<1>2. QED
  BY <1>1, ClearKeeps

\* setSession: one area holds the new token.
LEMMA SetSessionStores ==
  ASSUME NEW t \in Token, NEW stay \in BOOLEAN, SetSession(t, stay), t <= minted, minted \in Nat
  PROVE  /\ store' \in [Area -> Token \cup {NoToken}] /\ remember' \in BOOLEAN
         /\ \A a \in Area : store'[a] <= minted
         /\ ~(store'["session"] # NoToken /\ store'["local"] # NoToken)
         /\ SignedIn'
<1>1. t # NoToken
  BY SessionBounds DEF Token, NoToken
<1>2. PICK x \in Area : store' = [a \in Area |-> IF a = x THEN t ELSE NoToken]
  BY DEF SetSession, Area
<1>3. SignedIn'
  BY <1>1, <1>2 DEF SignedIn
<1>4. \A a \in Area : store'[a] <= minted
  BY <1>2 DEF NoToken
<1>5. remember' \in BOOLEAN
  BY DEF SetSession
<1>6. QED
  BY <1>2, <1>3, <1>4, <1>5 DEF Area

\* An answer that ends nothing: the storage and the page stay.
LEMMA QuietAnswerKeeps ==
  ASSUME SessionIInv, NEW c \in calls, c.kind # "signin", calls' = calls \ {c},
         cache' \in Token \cup {NoToken}, ListsGoWithSession',
         UNCHANGED <<serverVars, form, store, remember, page, back>>
  PROVE  SessionIInv'
<1>1. TypeOK /\ SessionInv /\ Issued /\ (SignedIn' <=> SignedIn)
  BY DEF SessionIInv, SessionInv, SignedIn
<1>2. QED
  BY <1>1, RemoveKeeps DEF SessionInv, TypeOK, Issued, SignedIn

\* Whatever the browser does, answers that come late included.
LEMMA ClientKeeps == SessionIInv /\ ClientStep => SessionIInv'
<1> SUFFICES ASSUME SessionIInv, ClientStep PROVE SessionIInv'
  OBVIOUS
<1>0. TypeOK /\ SessionInv /\ minted \in Nat /\ MaxTokens \in Nat
  BY SessionBounds DEF SessionIInv, SessionInv, TypeOK
<1>1. CASE Fetch
  BY <1>1, SendKeeps DEF Fetch
<1>2. CASE NoticeExpiry
  <2>1. /\ store' \in [Area -> Token \cup {NoToken}]
        /\ \A a \in Area : store'[a] \in {store[a], NoToken}
    BY <1>0, <1>2, SweptLess DEF NoticeExpiry
  <2>2. QED
    BY <1>2, <2>1, ClearKeeps DEF NoticeExpiry
<1>3. CASE CountdownEnds \/ SetupClaimed
  <2>1. SessionInv' /\ ListsGoWithSession'
    BY <1>0, <1>3 DEF CountdownEnds, SetupClaimed, serverVars, SessionInv, TypeOK, InFlight, SessionIInv,
                      ListsGoWithSession, AppPages, AuthPages
  <2>2. Issued' /\ OneSignIn' /\ \A c \in calls' : SoundCall(c)'
    BY <1>3 DEF CountdownEnds, SetupClaimed, serverVars, Issued, OneSignIn, SoundCall, SignedIn, SessionIInv
  <2>3. QED
    BY <2>1, <2>2 DEF SessionIInv
<1>4. ASSUME NEW c \in calls PROVE c \in Call /\ SoundCall(c) /\ c.tok <= minted
  BY <1>0 DEF SessionIInv, TypeOK, Issued
<1>5. ASSUME NEW c \in calls, ReceiveData(c) PROVE SessionIInv'
  <2>1. CASE ClearSession("expired", calls \ {c})
    BY <1>5, <2>1, ClearSessionKeeps DEF ReceiveData
  <2>2. CASE /\ cache' = Fetched(c) /\ calls' = calls \ {c}
             /\ UNCHANGED <<store, remember, page, back>>
    <3>1. cache' \in Token \cup {NoToken}
      BY <1>0, <1>4, <2>2 DEF Fetched, Call, TypeOK
    <3>2. ListsGoWithSession'
      BY <1>4, <1>5, <2>2 DEF ListsGoWithSession, Fetched, SoundCall, SignedIn, SessionIInv, ReceiveData,
                              serverVars
    <3>3. QED
      BY <1>5, <2>2, <3>1, <3>2, QuietAnswerKeeps DEF ReceiveData
  <2>3. QED
    BY <1>5, <2>1, <2>2 DEF ReceiveData
<1>6. ASSUME NEW c \in calls, ReceiveSignOut(c) PROVE SessionIInv'
  BY <1>6, ClearSessionKeeps DEF ReceiveSignOut
<1>7. ASSUME NEW c \in calls, calls' = calls \ {c}, c.kind # "signin",
             UNCHANGED <<serverVars, form, store, remember, page, back, cache>>
      PROVE  SessionIInv'
  <2>1. cache' \in Token \cup {NoToken} /\ ListsGoWithSession'
    BY <1>0, <1>7 DEF TypeOK, ListsGoWithSession, SessionIInv, serverVars
  <2>2. QED
    BY <1>7, <2>1, QuietAnswerKeeps
<1>8. ASSUME NEW c \in calls, ReceiveRestore(c) PROVE SessionIInv'
  BY <1>7, <1>8, ClearSessionKeeps DEF ReceiveRestore
<1>9. ASSUME NEW c \in calls, ReceivePassword(c) PROVE SessionIInv'
  <2>1. CASE ClearSession("expired", calls \ {c})
    BY <1>9, <2>1, ClearSessionKeeps DEF ReceivePassword
  <2>2. CASE calls' = calls \ {c} /\ UNCHANGED <<store, remember, page, back, cache>>
    BY <1>7, <1>9, <2>2 DEF ReceivePassword
  <2>3. CASE calls' = Answered(c, Sent("reauth", NoToken)) /\ UNCHANGED <<store, remember, page, back, cache>>
    <3> DEFINE a == Sent("reauth", NoToken)
    <3>1. a \in Call /\ a.kind = "reauth" /\ a.tok = NoToken /\ a.ans = "none"
      BY DEF Sent, Call
    <3> HIDE DEF a
    <3>2. TypeOK'
      BY <1>0, <1>9, <2>3, <3>1 DEF ReceivePassword, TypeOK, Answered, serverVars, a
    <3>3. InFlight({"signin"})' <=> InFlight({"signin"})
      BY <1>9, <2>3, <3>1 DEF ReceivePassword, InFlight, Answered, a
    <3>4. SessionInv' /\ ListsGoWithSession'
      BY <1>0, <1>9, <2>3, <3>2, <3>3 DEF ReceivePassword, SessionInv, ListsGoWithSession, SessionIInv, serverVars
    <3>5. Issued' /\ OneSignIn'
      BY <1>0, <1>9, <2>3, <3>1 DEF ReceivePassword, Issued, OneSignIn, SessionIInv, serverVars, Answered,
                                    NoToken, a
    <3>6. \A d \in calls' : SoundCall(d)'
      BY <1>9, <2>3, <3>1 DEF ReceivePassword, SoundCall, SignedIn, SessionIInv, serverVars, Answered, a
    <3>7. QED
      BY <3>4, <3>5, <3>6 DEF SessionIInv
  <2>4. QED
    BY <1>9, <2>1, <2>2, <2>3 DEF ReceivePassword
<1>10. ASSUME NEW c \in calls, ReceiveReauth(c) PROVE SessionIInv'
  <2>1. CASE c.ans = "ok" /\ SetSession(c.tok, remember) /\ calls' = calls \ {c}
             /\ UNCHANGED <<page, back, cache>>
    <3>1. c.tok \in Token /\ remember \in BOOLEAN
      BY <1>0, <1>4, <1>10, <2>1 DEF ReceiveReauth, SoundCall, Call, TypeOK
    <3>2. /\ store' \in [Area -> Token \cup {NoToken}] /\ remember' \in BOOLEAN
          /\ \A a \in Area : store'[a] <= minted
          /\ ~(store'["session"] # NoToken /\ store'["local"] # NoToken)
          /\ SignedIn'
      BY <1>0, <1>4, <2>1, <3>1, SetSessionStores
    <3>3. ListsGoWithSession'
      BY <3>2 DEF ListsGoWithSession, SignedIn
    <3>4. QED
      BY <1>0, <1>10, <2>1, <3>2, <3>3, RemoveKeeps DEF ReceiveReauth, TypeOK
  <2>2. CASE ClearSession("expired", calls \ {c})
    BY <1>10, <2>2, ClearSessionKeeps DEF ReceiveReauth
  <2>3. QED
    BY <1>10, <2>1, <2>2 DEF ReceiveReauth
<1>11. ASSUME NEW c \in calls, NEW stay \in BOOLEAN, ReceiveSignIn(c, stay) PROVE SessionIInv'
  <2>1. CASE c.ans = "ok"
    <3>1. c.tok \in Token /\ SetSession(c.tok, stay)
      BY <1>4, <1>11, <2>1 DEF ReceiveSignIn, SoundCall, Call
    <3>2. /\ store' \in [Area -> Token \cup {NoToken}] /\ remember' \in BOOLEAN
          /\ \A a \in Area : store'[a] <= minted
          /\ ~(store'["session"] # NoToken /\ store'["local"] # NoToken)
          /\ SignedIn'
      BY <1>0, <1>4, <3>1, SetSessionStores
    <3>3. ListsGoWithSession'
      BY <3>2 DEF ListsGoWithSession, SignedIn
    <3>4. page' \in AppPages /\ back' \in AppPages \cup {NoPage} /\ cache' \in Token \cup {NoToken}
      BY <1>0, <1>11, <2>1 DEF ReceiveSignIn, TypeOK, AppPages
    <3>5. form' \in [pending : BOOLEAN, locked : BOOLEAN] /\ ~form'.pending
      BY <1>0, <1>11, <2>1 DEF ReceiveSignIn, TypeOK
    <3>6. QED
      BY <1>11, <3>2, <3>3, <3>4, <3>5, RemoveKeeps DEF ReceiveSignIn
  <2>2. CASE c.ans # "ok"
    <3>0. PICK l \in BOOLEAN : form' = [pending |-> FALSE, locked |-> l]
      <4>1. (c.ans = "limited") \in BOOLEAN /\ form' = [pending |-> FALSE, locked |-> c.ans = "limited"]
        BY <1>11, <2>2, Zenon DEF ReceiveSignIn
      <4>2. QED
        BY <4>1, Zenon
    <3>1. form' \in [pending : BOOLEAN, locked : BOOLEAN] /\ ~form'.pending
      BY <3>0
    <3>2. UNCHANGED <<store, remember, page, back, cache, serverVars>> /\ c.kind = "signin" /\ calls' = calls \ {c}
      BY <1>11, <2>2 DEF ReceiveSignIn
    <3>3. ListsGoWithSession' /\ (SignedIn' <=> SignedIn) /\ Issued /\ SessionInv
      BY <3>2 DEF ListsGoWithSession, SessionIInv, SignedIn, serverVars
    <3>4. QED
      BY <1>0, <3>1, <3>2, <3>3, RemoveKeeps DEF TypeOK, SessionInv, Issued, SignedIn
  <2>3. QED
    BY <2>1, <2>2
<1>12. QED
  BY <1>1, <1>2, <1>3, <1>5, <1>6, <1>8, <1>9, <1>10, <1>11 DEF ClientStep

-----------------------------------------------------------------------------
\* The invariant of the session holds throughout.
LEMMA SessionInductive == Spec => []SessionIInv
<1>1. SessionIInv /\ [Next]_vars => SessionIInv'
  <2> SUFFICES ASSUME SessionIInv, [Next]_vars PROVE SessionIInv'
    OBVIOUS
  <2>1. CASE UNCHANGED vars
    BY <2>1 DEF vars, serverVars, clientVars, SessionIInv, SessionInv, TypeOK, InFlight, ListsGoWithSession,
                Issued, SoundCall, SignedIn, OneSignIn
  <2>2. QED
    BY <2>1, UserKeeps, ClientKeeps, ServerKeeps DEF Next
<1>2. QED
  BY <1>1, SessionStarts, PTL DEF Spec

\* For any number of tokens and calls: a token is in one storage area at most,
\* an app page is never shown without one, the sign-in form is busy exactly
\* while its request is under way, and no list fetched for a session outlives
\* it in the query cache (session.ts, query-client.ts).
THEOREM SessionLeavesNothing == Spec => []SessionKeepsNothing
<1>1. SessionIInv => SessionKeepsNothing
  BY DEF SessionIInv, SessionKeepsNothing
<1>2. QED
  BY <1>1, SessionInductive, PTL

\* A step that empties the storage under a session the server honours is the
\* answer of a sign-out, of a restore or of a failed sign-in after a password
\* change; a 401 never is (client.ts, send).
LEMMA EndsForCauseStep == SessionIInv /\ [Next]_vars => EndsForCause
<1> SUFFICES ASSUME SessionIInv, [Next]_vars, Found \in live, Found # NoToken,
                    \A a \in Area : store'[a] = NoToken
             PROVE  \E c \in calls \ calls' : \/ c.kind \in {"signout", "restore"}
                                              \/ c.kind = "reauth" /\ c.ans # "ok"
  BY DEF EndsForCause
<1>0. TypeOK /\ minted \in Nat
  BY SessionBounds DEF SessionIInv, SessionInv, TypeOK
<1>1. store' # store /\ store' # Swept
  BY <1>0, FoundStored
<1>2. ASSUME NEW c \in calls PROVE c \in Call /\ SoundCall(c) /\ c.tok <= minted
  BY <1>0 DEF SessionIInv, TypeOK, Issued
<1>3. ~UserStep /\ ~ServerStep /\ ~UNCHANGED vars
  BY <1>1 DEF UserStep, SignOut, ChangePassword, Restore, SaveSettings, Send, Submit, Navigate,
              ServerStep, Served, ServedSession, Lost, Expire, vars, serverVars, clientVars
<1>4. ClientStep /\ ~Fetch /\ ~NoticeExpiry /\ ~CountdownEnds /\ ~SetupClaimed
  BY <1>1, <1>3 DEF Next, Fetch, Send, NoticeExpiry, CountdownEnds, SetupClaimed
<1>5. ASSUME NEW c \in calls, EndsSession(c), c.kind \notin {"signin", "reauth"} PROVE FALSE
  BY <1>2, <1>5 DEF EndsSession, SoundCall
<1>6. ASSUME NEW c \in calls, NEW reason, ClearSession(reason, calls \ {c}),
             c.kind \in {"signout", "restore"} \/ (c.kind = "reauth" /\ c.ans # "ok")
      PROVE  c \in calls \ calls'
  <2>1. calls' = Orphaned(calls \ {c}) /\ (calls \ {c}) \in SUBSET Call
    BY <1>0, <1>6 DEF ClearSession, ClearCache, TypeOK
  <2>2. c \notin calls'
    BY <1>6, <2>1, OrphanedCalls
  <2>3. QED
    BY <2>2
<1>7. ASSUME NEW t \in Token, NEW stay \in BOOLEAN, SetSession(t, stay), t <= minted PROVE FALSE
  BY <1>0, <1>7, SetSessionStores DEF SignedIn
<1>8. PICK c \in calls : \/ ReceiveData(c) \/ ReceiveSignOut(c) \/ ReceiveRestore(c)
                         \/ ReceivePassword(c) \/ ReceiveReauth(c)
                         \/ \E stay \in BOOLEAN : ReceiveSignIn(c, stay)
  BY <1>4 DEF ClientStep
<1>9. ~ReceiveData(c) /\ ~ReceivePassword(c)
  BY <1>1, <1>5 DEF ReceiveData, ReceivePassword
<1>10. ASSUME NEW stay \in BOOLEAN, ReceiveSignIn(c, stay) PROVE FALSE
  BY <1>1, <1>2, <1>7, <1>10 DEF ReceiveSignIn, SoundCall, Call
<1>11. CASE ReceiveSignOut(c)
  BY <1>6, <1>11 DEF ReceiveSignOut
<1>12. CASE ReceiveRestore(c)
  BY <1>1, <1>6, <1>12 DEF ReceiveRestore
<1>13. CASE ReceiveReauth(c)
  <2>1. remember \in BOOLEAN
    BY <1>0 DEF TypeOK
  <2>2. c.ans # "ok"
    BY <1>2, <1>7, <1>13, <2>1 DEF ReceiveReauth, SoundCall, Call
  <2>3. QED
    BY <1>6, <1>13, <2>2 DEF ReceiveReauth
<1>14. QED
  BY <1>8, <1>9, <1>10, <1>11, <1>12, <1>13

\* For any number of tokens and calls: a session the server still honours ends
\* for a cause only, never by a 401 that a late call brings for an earlier
\* token.
THEOREM SessionOnlyEndsForCause == Spec => SessionEndsForCause
BY EndsForCauseStep, SessionInductive, PTL DEF Spec, SessionEndsForCause

(***************************************************************************)
(* The accounts list settles on the server's.  Each change of the server's *)
(* rows is on its way to the list: as an event, as a fetch that will read  *)
(* it, or as a loss that is remembered.  Only an optimistic switch moves   *)
(* the list ahead of the server, and it refetches when it settles.         *)
(***************************************************************************)
Ops == {"toggle", "overage", "sync", "save", "refresh", "delete"}
RowCall == [op : Ops, id : Acct, val : 0 .. 1, st : {"sent", "ok", "lost", "refused"}]

\* The types that the steps need.
PageType ==
  /\ aspect \in Page!Aspect /\ srv \in Page!Table /\ list \in Page!Table /\ held \subseteq Acct
  /\ fetch \in [st : {"idle", "sent", "ok", "failed"}, rows : Page!Table, late : BOOLEAN]
  /\ event \in BOOLEAN /\ excused \in BOOLEAN
  /\ changes \subseteq RowCall /\ sel \subseteq Acct
  /\ ask \in [op : Page!Batch \cup {"none", "deleteRow"}, ids : SUBSET Acct] /\ (ask.op = "none" => ask = Page!NoAsk)
  /\ batch \in [st : {"idle", "sent", "ok", "lost"}, op : Page!Batch, ids : SUBSET Acct]

\* A switch is used on one aspect of a row only, and an overage snapshot on another.
CallsFit ==
  \A c \in changes : /\ c.op = "toggle" => aspect = "enabled"
                   /\ c.op \in {"overage", "sync"} => aspect = "overage"

\* An answered fetch holds the server's rows, unless an event is still coming or was lost.
FetchFresh ==
  /\ fetch.late => excused
  /\ fetch.st = "ok" /\ ~fetch.late /\ ~event => fetch.rows = srv

\* With no event, fetch, switch or loss outstanding the list is the server's.
ListSettled ==
  ~event /\ fetch.st = "idle" /\ ~excused /\ (\A c \in changes : c.op # "toggle") =>
    /\ aspect # "overage" => list = srv
    /\ Page!Listed(list) = Page!Listed(srv)

\* The inductive invariant.
PageIInv ==
  /\ PageType
  /\ CallsFit
  /\ FetchFresh
  /\ ListSettled
  /\ sel \subseteq Page!Listed(list)

-----------------------------------------------------------------------------
\* Writing a value into a row that is listed leaves the same rows listed.
LEMMA SameRows ==
  ASSUME NEW t \in Page!Table, NEW a \in Page!Listed(t), NEW v \in 0 .. 1
  PROVE  [t EXCEPT ![a] = v] \in Page!Table /\ Page!Listed([t EXCEPT ![a] = v]) = Page!Listed(t)
BY DEF Page!Table, Page!Listed, Page!Gone

LEMMA SetRowKeeps ==
  ASSUME list \in Page!Table, NEW a \in Acct, NEW v \in 0 .. 1
  PROVE  Page!SetRow(a, v) \in Page!Table /\ Page!Listed(Page!SetRow(a, v)) = Page!Listed(list)
<1>1. CASE list[a] = Page!Gone
  BY <1>1 DEF Page!SetRow
<1>2. CASE list[a] # Page!Gone
  <2>1. a \in Page!Listed(list)
    BY <1>2 DEF Page!Listed
  <2>2. QED
    BY <1>2, <2>1, SameRows DEF Page!SetRow
<1>3. QED
  BY <1>1, <1>2

LEMMA IdleFetch ==
  /\ Page!Idle \in [st : {"idle", "sent", "ok", "failed"}, rows : Page!Table, late : BOOLEAN]
  /\ Page!Idle.st = "idle" /\ ~Page!Idle.late
  /\ \A st \in {"sent", "failed"} :
       LET f == [Page!Idle EXCEPT !.st = st]
       IN  /\ f \in [st : {"idle", "sent", "ok", "failed"}, rows : Page!Table, late : BOOLEAN]
           /\ f.st = st /\ ~f.late
BY DEF Page!Idle, Page!Table, Page!Gone

\* A step that moves neither the rows nor what is on its way to them.
LEMMA QuietKeeps ==
  ASSUME PageIInv, PageType', CallsFit',
         \A c \in changes : c.op = "toggle" => \E d \in changes' : d.op = "toggle",
         sel' \subseteq Page!Listed(list),
         UNCHANGED <<aspect, srv, list, fetch, event, excused>>
  PROVE  PageIInv'
<1>1. FetchFresh'
  BY DEF PageIInv, FetchFresh
<1>2. ListSettled'
  BY DEF PageIInv, ListSettled, Page!Listed
<1>3. QED
  BY <1>1, <1>2 DEF PageIInv, Page!Listed

\* A write on the server, announced by an event.
LEMMA WriteKeeps ==
  ASSUME PageIInv, PageType', CallsFit', event',
         UNCHANGED <<aspect, list, fetch, sel, excused>>
  PROVE  PageIInv'
BY DEF PageIInv, FetchFresh, ListSettled, Page!Listed

\* A fetch that starts over.
LEMMA InvalidateKeeps ==
  ASSUME PageIInv, PageType', CallsFit', Page!Invalidate,
         sel' \subseteq Page!Listed(list'),
         UNCHANGED <<aspect, srv, excused>>
  PROVE  PageIInv'
BY IdleFetch DEF PageIInv, FetchFresh, ListSettled, Page!Invalidate

\* The answer of a call, which stays a call of its kind.
LEMMA AnswerFits ==
  ASSUME PageIInv, NEW c \in changes, NEW d \in RowCall, d.op = c.op,
         changes' = (changes \ {c}) \cup {d}, UNCHANGED aspect
  PROVE  /\ changes' \subseteq RowCall /\ CallsFit'
         /\ \A x \in changes : x.op = "toggle" => \E y \in changes' : y.op = "toggle"
BY DEF PageIInv, PageType, CallsFit

-----------------------------------------------------------------------------
LEMMA PageStarts == Page!Init => PageIInv
<1> SUFFICES ASSUME Page!Init PROVE PageIInv
  OBVIOUS
<1>1. srv \in Page!Table /\ Page!Listed(srv) = Acct
  BY DEF Page!Init, Page!Table, Page!Listed, Page!Gone
<1>2. PageType
  BY <1>1, IdleFetch DEF Page!Init, PageType, Page!NoAsk, Page!Batch
<1>3. QED
  BY <1>1, <1>2, IdleFetch DEF Page!Init, PageIInv, CallsFit, FetchFresh, ListSettled

\* The user's steps.  A switch turns its row at once and drops the fetch under way.
LEMMA PageUserKeeps == PageIInv /\ Page!UserStep => PageIInv'
<1> SUFFICES ASSUME PageIInv, Page!UserStep PROVE PageIInv'
  OBVIOUS
<1>0. PageType /\ CallsFit /\ FetchFresh /\ sel \subseteq Page!Listed(list) /\ Page!Listed(list) \subseteq Acct
  BY DEF PageIInv, Page!Listed
<1>1. CASE Page!Toggle
  <2>1. PICK a \in Page!Listed(list) \ held :
          /\ changes' = changes \cup {Page!Row("toggle", a, 1 - list[a])}
          /\ list' = [list EXCEPT ![a] = 1 - list[a]]
    BY <1>1 DEF Page!Toggle
  <2>2. a \in Acct /\ 1 - list[a] \in 0 .. 1
    BY <1>0, <2>1 DEF Page!Listed, Page!Table, Page!Gone, PageType
  <2>3. list' \in Page!Table /\ Page!Listed(list') = Page!Listed(list)
    BY <1>0, <2>1, <2>2, SameRows DEF PageType
  <2>4. Page!Row("toggle", a, 1 - list[a]) \in RowCall /\ Page!Row("toggle", a, 1 - list[a]).op = "toggle"
    BY <2>2 DEF Page!Row, RowCall, Ops
  <2>5. aspect = "enabled" /\ fetch' = Page!Idle
        /\ UNCHANGED <<aspect, srv, held, event, sel, ask, batch, excused, faults>>
    BY <1>1 DEF Page!Toggle
  <2>6. PageType'
    BY <1>0, <2>1, <2>3, <2>4, <2>5, IdleFetch DEF PageType
  <2>7. CallsFit'
    BY <1>0, <2>1, <2>4, <2>5 DEF CallsFit
  <2>8. FetchFresh' /\ ListSettled' /\ sel' \subseteq Page!Listed(list')
    BY <1>0, <2>1, <2>3, <2>4, <2>5, IdleFetch DEF FetchFresh, ListSettled
  <2>9. QED
    BY <2>6, <2>7, <2>8 DEF PageIInv, Page!Listed
<1>2. ASSUME NEW c \in RowCall, changes' = changes \cup {c}, c.op \in {"overage", "sync"} => aspect = "overage",
             c.op # "toggle",
             UNCHANGED <<aspect, srv, held, list, fetch, event, sel, ask, batch, excused>>
      PROVE  PageIInv'
  <2>1. PageType' /\ CallsFit'
    BY <1>0, <1>2 DEF PageType, CallsFit
  <2>2. QED
    BY <1>0, <1>2, <2>1, QuietKeeps
<1>3. CASE Page!EditSheet
  <2>1. PICK a \in Page!Listed(list), op \in {"overage", "sync", "save"}, v \in 0 .. 1 :
          changes' = changes \cup {Page!Row(op, a, v)} /\ (op # "save" => aspect = "overage")
    <3>1. PICK a \in Page!Listed(list) :
            \/ aspect = "overage" /\ changes' = changes \cup {Page!Row("overage", a, 1 - list[a])}
            \/ aspect = "overage" /\ changes' = changes \cup {Page!Row("sync", a, 0)}
            \/ \E v \in 0 .. 1 : changes' = changes \cup {Page!Row("save", a, v)}
      BY <1>3 DEF Page!EditSheet
    <3>2. 1 - list[a] \in 0 .. 1
      BY <1>0, <3>1 DEF Page!Listed, Page!Table, Page!Gone, PageType
    <3>3. QED
      BY <3>1, <3>2
  <2>2. Page!Row(op, a, v) \in RowCall /\ Page!Row(op, a, v).op = op
    BY <1>0, <2>1 DEF Page!Row, RowCall, Ops
  <2>3. QED
    BY <1>2, <1>3, <2>1, <2>2 DEF Page!EditSheet
<1>4. CASE Page!RefreshRow
  <2>1. PICK a \in Page!Listed(list) : changes' = changes \cup {Page!Row("refresh", a, 0)}
    BY <1>4 DEF Page!RefreshRow
  <2>2. Page!Row("refresh", a, 0) \in RowCall /\ Page!Row("refresh", a, 0).op = "refresh"
    BY <1>0, <2>1 DEF Page!Row, RowCall, Ops
  <2>3. QED
    BY <1>2, <1>4, <2>1, <2>2 DEF Page!RefreshRow
<1>5. CASE Page!AskDelete \/ Page!AskBatch \/ Page!Cancel
  <2>1. ask' \in [op : Page!Batch \cup {"none", "deleteRow"}, ids : SUBSET Acct] /\ (ask'.op = "none" => ask' = Page!NoAsk)
    BY <1>0, <1>5 DEF Page!AskDelete, Page!AskBatch, Page!Cancel, Page!NoAsk, PageType, Page!Batch
  <2>2. UNCHANGED <<aspect, srv, held, list, fetch, event, changes, sel, batch, excused>>
    BY <1>5 DEF Page!AskDelete, Page!AskBatch, Page!Cancel
  <2>3. PageType' /\ CallsFit'
    BY <1>0, <2>1, <2>2 DEF PageType, CallsFit
  <2>4. QED
    BY <1>0, <2>2, <2>3, QuietKeeps
<1>6. CASE Page!Select \/ Page!ClearSelection
  <2>1. sel' \subseteq Page!Listed(list)
    BY <1>0, <1>6 DEF Page!Select, Page!ClearSelection
  <2>2. UNCHANGED <<aspect, srv, held, list, fetch, event, changes, ask, batch, excused>>
    BY <1>6 DEF Page!Select, Page!ClearSelection
  <2>3. PageType' /\ CallsFit'
    BY <1>0, <2>1, <2>2 DEF PageType, CallsFit
  <2>4. QED
    BY <1>0, <2>1, <2>2, <2>3, QuietKeeps
<1>7. CASE Page!Confirm
  <2>1. UNCHANGED <<aspect, srv, held, list, fetch, event, sel, excused>> /\ ask' = Page!NoAsk
    BY <1>7 DEF Page!Confirm
  <2>2. Page!NoAsk \in [op : Page!Batch \cup {"none", "deleteRow"}, ids : SUBSET Acct]
    BY DEF Page!NoAsk
  <2>3. CASE ask.op = "deleteRow"
    <3>1. changes' = changes \cup {Page!Row("delete", a, 0) : a \in ask.ids} /\ batch' = batch
      BY <1>7, <2>3 DEF Page!Confirm
    <3>2. \A c \in {Page!Row("delete", a, 0) : a \in ask.ids} : c \in RowCall /\ c.op = "delete"
      BY <1>0 DEF PageType, Page!Row, RowCall, Ops
    <3>3. PageType' /\ CallsFit'
      BY <1>0, <2>1, <2>2, <3>1, <3>2 DEF PageType, CallsFit
    <3>4. QED
      BY <1>0, <2>1, <3>1, <3>3, QuietKeeps
  <2>4. CASE ask.op # "deleteRow"
    <3>1. changes' = changes /\ batch' = [st |-> "sent", op |-> ask.op, ids |-> ask.ids] /\ ask.op \in Page!Batch
      BY <1>0, <1>7, <2>4 DEF Page!Confirm, PageType
    <3>2. PageType' /\ CallsFit'
      BY <1>0, <2>1, <2>2, <3>1 DEF PageType, CallsFit
    <3>3. QED
      BY <1>0, <2>1, <3>1, <3>2, QuietKeeps
  <2>5. QED
    BY <2>3, <2>4
<1>8. QED
  BY <1>1, <1>3, <1>4, <1>5, <1>6, <1>7 DEF Page!UserStep

\* What the browser does with answers and events.
LEMMA PageClientKeeps == PageIInv /\ Page!ClientStep => PageIInv'
<1> SUFFICES ASSUME PageIInv, Page!ClientStep PROVE PageIInv'
  OBVIOUS
<1>0. PageType /\ CallsFit /\ FetchFresh /\ ListSettled /\ sel \subseteq Page!Listed(list)
  BY DEF PageIInv
<1>1. CASE Page!FetchDone
  <2>1. UNCHANGED <<aspect, srv, held, event, changes, ask, batch>> /\ fetch' = Page!Idle
    BY <1>1 DEF Page!FetchDone
  <2>2. CASE fetch.st = "ok"
    <3>1. list' = fetch.rows /\ sel' = sel \cap Page!Listed(fetch.rows) /\ excused' = (excused /\ fetch.late)
      BY <1>1, <2>2 DEF Page!FetchDone
    <3>2. list' \in Page!Table /\ sel' \subseteq Acct /\ excused' \in BOOLEAN
      BY <1>0, <3>1 DEF PageType
    <3>3. PageType' /\ CallsFit'
      BY <1>0, <2>1, <3>2, IdleFetch DEF PageType, CallsFit
    <3>4. ~event /\ ~excused' => list' = srv
      BY <1>0, <2>2, <3>1 DEF FetchFresh
    <3>5. FetchFresh' /\ ListSettled'
      BY <2>1, <3>4, IdleFetch DEF FetchFresh, ListSettled
    <3>6. QED
      BY <3>1, <3>3, <3>5 DEF PageIInv, Page!Listed
  <2>3. CASE fetch.st # "ok"
    <3>1. excused' = TRUE /\ list' = list /\ sel' = sel
      BY <1>1, <2>3 DEF Page!FetchDone
    <3>2. PageType' /\ CallsFit'
      BY <1>0, <2>1, <3>1, IdleFetch DEF PageType, CallsFit
    <3>3. FetchFresh' /\ ListSettled'
      BY <2>1, <3>1, IdleFetch DEF FetchFresh, ListSettled
    <3>4. QED
      BY <1>0, <3>1, <3>2, <3>3 DEF PageIInv, Page!Listed
  <2>4. QED
    BY <2>2, <2>3
<1>2. CASE Page!Refocus \/ Page!EventArrives
  <2>1. Page!Invalidate /\ UNCHANGED <<aspect, srv, held, list, changes, sel, ask, batch, excused>> /\ event' \in BOOLEAN
    BY <1>0, <1>2 DEF Page!Refocus, Page!EventArrives, PageType
  <2>2. PageType' /\ CallsFit'
    BY <1>0, <2>1, IdleFetch DEF PageType, CallsFit, Page!Invalidate
  <2>3. QED
    BY <1>0, <2>1, <2>2, InvalidateKeeps
<1>3. CASE Page!CallSettled
  <2>1. PICK c \in changes : changes' = changes \ {c} /\ (Page!ToggleSettled(c) \/ Page!OverageSettled(c) \/ Page!RowSettled(c))
    BY <1>3 DEF Page!CallSettled
  <2>2. UNCHANGED <<aspect, srv, held, event, sel, ask, batch, excused>>
    BY <1>3 DEF Page!CallSettled
  <2>3. c.id \in Acct /\ c.val \in 0 .. 1 /\ 1 - c.val \in 0 .. 1
    BY <1>0 DEF PageType, RowCall
  <2>4. CallsFit' /\ changes' \subseteq RowCall
    BY <1>0, <2>1, <2>2 DEF CallsFit, PageType
  <2>5. list' \in Page!Table /\ Page!Listed(list') = Page!Listed(list)
    BY <1>0, <2>1, <2>3, SetRowKeeps DEF Page!ToggleSettled, Page!OverageSettled, Page!RowSettled, PageType
  <2>6. CASE Page!Invalidate
    <3>1. PageType'
      BY <1>0, <2>2, <2>4, <2>5, <2>6, IdleFetch DEF PageType, Page!Invalidate
    <3>2. QED
      BY <1>0, <2>2, <2>4, <2>5, <2>6, <3>1, InvalidateKeeps DEF Page!Listed
  <2>7. CASE fetch' = fetch /\ c.op # "toggle"
    <3>1. PageType'
      BY <1>0, <2>2, <2>4, <2>5, <2>7 DEF PageType
    <3>2. FetchFresh'
      BY <1>0, <2>2, <2>7 DEF FetchFresh
    <3>3. aspect # "overage" => list' = list
      BY <1>0, <2>1, <2>7 DEF Page!ToggleSettled, Page!OverageSettled, Page!RowSettled, CallsFit
    <3>4. (\A d \in changes' : d.op # "toggle") => \A d \in changes : d.op # "toggle"
      BY <2>1, <2>7
    <3>5. ListSettled'
      BY <1>0, <2>2, <2>5, <2>7, <3>3, <3>4 DEF ListSettled, Page!Listed
    <3>6. QED
      BY <1>0, <2>2, <2>4, <2>5, <3>1, <3>2, <3>5 DEF PageIInv, Page!Listed
  <2>8. QED
    BY <2>1, <2>6, <2>7 DEF Page!ToggleSettled, Page!OverageSettled, Page!RowSettled
<1>4. CASE Page!BatchSettled
  <2>1. /\ batch' = [batch EXCEPT !.st = "idle", !.ids = {}] /\ sel' \in {{}, sel} /\ Page!Invalidate
        /\ UNCHANGED <<aspect, srv, held, list, event, changes, ask, excused>>
    BY <1>4 DEF Page!BatchSettled
  <2>2. batch' \in [st : {"idle", "sent", "ok", "lost"}, op : Page!Batch, ids : SUBSET Acct]
    BY <1>0, <2>1 DEF PageType
  <2>3. PageType' /\ CallsFit'
    BY <1>0, <2>1, <2>2, IdleFetch DEF PageType, CallsFit, Page!Invalidate
  <2>4. QED
    BY <1>0, <2>1, <2>3, InvalidateKeeps
<1>5. QED
  BY <1>1, <1>2, <1>3, <1>4 DEF Page!ClientStep

\* A refresh or a batch leaves a table of rows.
LEMMA BatchResultTable ==
  ASSUME NEW t \in Page!Table, NEW op \in Page!Batch, NEW ids
  PROVE  Page!Refreshed(t, ids) \in Page!Table /\ Page!BatchResult(t, op, ids) \in Page!Table
<1>1. Page!Refreshed(t, ids) \in Page!Table
  BY DEF Page!Refreshed, Page!Table
<1>2. CASE op \in {"enable", "disable"}
  <2>1. Page!BatchResult(t, op, ids) = [a \in Acct |-> IF a \in ids /\ t[a] # Page!Gone /\ aspect = "enabled"
                                                  THEN IF op = "enable" THEN 1 ELSE 0 ELSE t[a]]
    BY <1>2, Zenon DEF Page!BatchResult
  <2>2. QED
    BY <1>1, <2>1 DEF Page!Table
<1>3. CASE op = "refresh"
  BY <1>1, <1>3, Zenon DEF Page!BatchResult
<1>4. CASE op = "refreshModels"
  BY <1>1, <1>4, Zenon DEF Page!BatchResult
<1>5. CASE op = "delete"
  <2>1. Page!BatchResult(t, op, ids) = [a \in Acct |-> IF a \in ids THEN Page!Gone ELSE t[a]]
    BY <1>5, Zenon DEF Page!BatchResult
  <2>2. QED
    BY <1>1, <2>1 DEF Page!Table
<1>6. QED
  BY <1>2, <1>3, <1>4, <1>5 DEF Page!Batch

\* What the server does, and what the network and others do.
LEMMA PageServerKeeps == PageIInv /\ (Page!ServerStep \/ Page!Faults) => PageIInv'
<1> SUFFICES ASSUME PageIInv, Page!ServerStep \/ Page!Faults PROVE PageIInv'
  OBVIOUS
<1>0. PageType /\ CallsFit /\ FetchFresh /\ ListSettled /\ sel \subseteq Page!Listed(list)
  BY DEF PageIInv
<1>1. CASE Page!AnswerFetch
  <2>1. /\ fetch' = [st |-> "ok", rows |-> srv, late |-> FALSE]
        /\ UNCHANGED <<aspect, srv, held, list, event, changes, sel, ask, batch, excused>>
    BY <1>1 DEF Page!AnswerFetch
  <2>2. PageType' /\ CallsFit'
    BY <1>0, <2>1 DEF PageType, CallsFit
  <2>3. QED
    BY <1>0, <2>1, <2>2 DEF PageIInv, FetchFresh, ListSettled, Page!Listed
<1>2. CASE Page!LoseFetch
  <2>1. /\ fetch' = [Page!Idle EXCEPT !.st = "failed"]
        /\ UNCHANGED <<aspect, srv, held, list, event, changes, sel, ask, batch, excused>>
    BY <1>2 DEF Page!LoseFetch
  <2>2. PageType' /\ CallsFit'
    BY <1>0, <2>1, IdleFetch DEF PageType, CallsFit
  <2>3. QED
    BY <1>0, <2>1, <2>2, IdleFetch DEF PageIInv, FetchFresh, ListSettled, Page!Listed
<1>3. CASE Page!LoseEvent
  <2>1. /\ fetch' = [fetch EXCEPT !.late = fetch.st = "ok"] /\ excused' = TRUE /\ event' = FALSE
        /\ UNCHANGED <<aspect, srv, held, list, changes, sel, ask, batch>>
    BY <1>3 DEF Page!LoseEvent
  <2>2. PICK l \in BOOLEAN : fetch' = [fetch EXCEPT !.late = l] /\ (fetch.st = "ok" => l)
    <3>1. (fetch.st = "ok") \in BOOLEAN
      OBVIOUS
    <3>2. QED
      BY <2>1, <3>1, Zenon
  <2>3. fetch' \in [st : {"idle", "sent", "ok", "failed"}, rows : Page!Table, late : BOOLEAN]
        /\ fetch'.st = fetch.st /\ (fetch'.st = "ok" => fetch'.late)
    BY <1>0, <2>2 DEF PageType
  <2>4. PageType' /\ CallsFit'
    BY <1>0, <2>1, <2>3 DEF PageType, CallsFit
  <2>5. QED
    BY <1>0, <2>1, <2>3, <2>4 DEF PageIInv, FetchFresh, ListSettled, Page!Listed
<1>4. CASE Page!ServeCall
  <2>1. PICK c \in changes : Page!ServeUpdate(c) \/ Page!ServeOverage(c) \/ Page!ServeRefresh(c) \/ Page!ServeDelete(c)
    BY <1>4 DEF Page!ServeCall
  <2>2. UNCHANGED <<aspect, held, list, fetch, sel, ask, batch, excused>>
    BY <1>4 DEF Page!ServeCall
  <2>3. c \in RowCall /\ c.id \in Acct
    BY <1>0 DEF PageType, RowCall
  <2>4. CASE \E d \in RowCall : d.op = c.op /\ changes' = (changes \ {c}) \cup {d}
             /\ UNCHANGED <<srv, event>>
    <3>1. PICK d \in RowCall : d.op = c.op /\ changes' = (changes \ {c}) \cup {d} /\ UNCHANGED <<srv, event>>
      BY <2>4
    <3>2. /\ changes' \subseteq RowCall /\ CallsFit'
          /\ \A x \in changes : x.op = "toggle" => \E y \in changes' : y.op = "toggle"
      BY <2>2, <3>1, AnswerFits
    <3>3. PageType'
      BY <1>0, <2>2, <3>1, <3>2 DEF PageType
    <3>4. QED
      BY <1>0, <2>2, <3>1, <3>2, <3>3, QuietKeeps
  <2>5. CASE \E d \in RowCall : d.op = c.op /\ changes' = (changes \ {c}) \cup {d}
             /\ srv' \in Page!Table /\ event' = TRUE
    <3>1. PICK d \in RowCall : d.op = c.op /\ changes' = (changes \ {c}) \cup {d} /\ srv' \in Page!Table /\ event' = TRUE
      BY <2>5
    <3>2. changes' \subseteq RowCall /\ CallsFit'
      BY <2>2, <3>1, AnswerFits
    <3>3. PageType'
      BY <1>0, <2>2, <3>1, <3>2 DEF PageType
    <3>4. QED
      BY <2>2, <3>1, <3>2, <3>3, WriteKeeps
  <2>6. \A st \in {"ok", "refused"} : [c EXCEPT !.st = st] \in RowCall /\ [c EXCEPT !.st = st].op = c.op
    BY <2>3 DEF RowCall
  <2>7. \A v \in 0 .. 1 : [c EXCEPT !.st = "ok", !.val = v] \in RowCall /\ [c EXCEPT !.st = "ok", !.val = v].op = c.op
    BY <2>3 DEF RowCall
  <2>8. CASE Page!ServeUpdate(c)
    <3>1. CASE srv[c.id] = Page!Gone
      BY <2>4, <2>6, <2>8, <3>1 DEF Page!ServeUpdate
    <3>2. CASE srv[c.id] # Page!Gone
      <4>1. [srv EXCEPT ![c.id] = c.val] \in Page!Table
        BY <1>0, <2>3 DEF PageType, Page!Table, RowCall
      <4>2. changes' = (changes \ {c}) \cup {[c EXCEPT !.st = "ok"]}
            /\ srv' = [srv EXCEPT ![c.id] = c.val] /\ event' = TRUE
        BY <2>8, <3>2 DEF Page!ServeUpdate, Page!Writes
      <4>3. QED
        BY <2>5, <2>6, <4>1, <4>2
    <3>3. QED
      BY <3>1, <3>2
  <2>9. CASE Page!ServeOverage(c)
    <3>1. CASE srv[c.id] = Page!Gone
      BY <2>4, <2>6, <2>9, <3>1 DEF Page!ServeOverage
    <3>2. CASE srv[c.id] # Page!Gone
      <4> DEFINE v == IF c.op = "sync" THEN srv[c.id] ELSE c.val
      <4>1. v \in 0 .. 1 /\ [srv EXCEPT ![c.id] = v] \in Page!Table
        BY <1>0, <2>3, <3>2 DEF PageType, Page!Table, Page!Gone, RowCall
      <4>2. changes' = (changes \ {c}) \cup {[c EXCEPT !.st = "ok", !.val = v]}
            /\ srv' = [srv EXCEPT ![c.id] = v] /\ event' = TRUE
        BY <2>9, <3>2 DEF Page!ServeOverage, Page!Writes
      <4>3. QED
        BY <2>5, <2>7, <4>1, <4>2
    <3>3. QED
      BY <3>1, <3>2
  <2>10. CASE Page!ServeRefresh(c)
    <3>1. Page!Refreshed(srv, {c.id}) \in Page!Table
      BY <1>0, BatchResultTable DEF PageType, Page!Batch
    <3>2. QED
      BY <2>4, <2>5, <2>6, <2>10, <3>1 DEF Page!ServeRefresh, Page!Writes
  <2>11. CASE Page!ServeDelete(c)
    <3>1. [srv EXCEPT ![c.id] = Page!Gone] \in Page!Table
      BY <1>0, <2>3 DEF PageType, Page!Table
    <3>2. QED
      BY <2>5, <2>6, <2>11, <3>1 DEF Page!ServeDelete, Page!Writes
  <2>12. QED
    BY <2>1, <2>8, <2>9, <2>10, <2>11
<1>5. CASE Page!ServeBatch
  <2>1. /\ batch' = [batch EXCEPT !.st = "ok"] /\ srv' = Page!BatchResult(srv, batch.op, batch.ids)
        /\ event' = (event \/ batch.op # "refreshModels") /\ held' \subseteq held
        /\ UNCHANGED <<aspect, list, fetch, changes, sel, ask, excused>>
    BY <1>5 DEF Page!ServeBatch
  <2>2. srv' \in Page!Table /\ (batch.op = "refreshModels" => srv' = srv)
    <3>1. srv \in Page!Table /\ batch.op \in Page!Batch
      BY <1>0 DEF PageType
    <3>2. Page!BatchResult(srv, batch.op, batch.ids) \in Page!Table
      BY <3>1, BatchResultTable
    <3>3. batch.op = "refreshModels" => Page!BatchResult(srv, batch.op, batch.ids) = srv
      BY Zenon DEF Page!BatchResult
    <3>4. QED
      BY <2>1, <3>2, <3>3
  <2>3. batch' \in [st : {"idle", "sent", "ok", "lost"}, op : Page!Batch, ids : SUBSET Acct]
    BY <1>0, <2>1 DEF PageType
  <2>4. PageType' /\ CallsFit'
    BY <1>0, <2>1, <2>2, <2>3 DEF PageType, CallsFit
  <2>5. CASE event'
    BY <2>1, <2>4, <2>5, WriteKeeps
  <2>6. CASE ~event'
    <3>1. batch.op = "refreshModels" /\ event' = event /\ srv' = srv
      BY <1>0, <2>1, <2>2, <2>6 DEF PageType
    <3>2. QED
      BY <1>0, <2>1, <2>4, <3>1, QuietKeeps
  <2>7. QED
    BY <2>5, <2>6
<1>6. CASE Page!LoseCall
  <2>1. UNCHANGED <<aspect, srv, held, list, fetch, event, sel, ask, excused>>
    BY <1>6 DEF Page!LoseCall
  <2>2. CASE \E c \in changes : changes' = (changes \ {c}) \cup {[c EXCEPT !.st = "lost"]} /\ batch' = batch
    <3>1. PICK c \in changes : changes' = (changes \ {c}) \cup {[c EXCEPT !.st = "lost"]} /\ batch' = batch
      BY <2>2
    <3>2. [c EXCEPT !.st = "lost"] \in RowCall /\ [c EXCEPT !.st = "lost"].op = c.op
      BY <1>0 DEF PageType, RowCall
    <3>3. /\ changes' \subseteq RowCall /\ CallsFit'
          /\ \A x \in changes : x.op = "toggle" => \E y \in changes' : y.op = "toggle"
      BY <2>1, <3>1, <3>2, AnswerFits
    <3>4. PageType'
      BY <1>0, <2>1, <3>1, <3>3 DEF PageType
    <3>5. QED
      BY <1>0, <2>1, <3>3, <3>4, QuietKeeps
  <2>3. CASE batch' = [batch EXCEPT !.st = "lost"] /\ changes' = changes
    <3>1. PageType' /\ CallsFit'
      BY <1>0, <2>1, <2>3 DEF PageType, CallsFit
    <3>2. QED
      BY <1>0, <2>1, <2>3, <3>1, QuietKeeps
  <2>4. QED
    BY <1>6, <2>2, <2>3 DEF Page!LoseCall
<1>7. CASE Page!OthersChange
  <2>1. srv' \in Page!Table /\ event' = TRUE /\ held' \subseteq Acct
    BY <1>0, <1>7 DEF Page!OthersChange, Page!Writes, PageType, Page!Table, Page!Listed
  <2>2. UNCHANGED <<aspect, list, fetch, changes, sel, ask, batch, excused>>
    BY <1>7 DEF Page!OthersChange
  <2>3. PageType' /\ CallsFit'
    BY <1>0, <2>1, <2>2 DEF PageType, CallsFit
  <2>4. QED
    BY <2>1, <2>2, <2>3, WriteKeeps
<1>8. QED
  BY <1>1, <1>2, <1>3, <1>4, <1>5, <1>6, <1>7 DEF Page!ServerStep, Page!Faults

LEMMA PageInductive == Page!Spec => []PageIInv
<1>1. PageIInv /\ [Page!Next]_(Page!vars) => PageIInv'
  <2> SUFFICES ASSUME PageIInv, [Page!Next]_(Page!vars) PROVE PageIInv'
    OBVIOUS
  <2>1. CASE UNCHANGED Page!vars
    BY <2>1 DEF Page!vars, Page!bounds, PageIInv, PageType, CallsFit, FetchFresh, ListSettled, Page!Listed
  <2>2. QED
    BY <2>1, PageUserKeeps, PageClientKeeps, PageServerKeeps DEF Page!Next
<1>2. QED
  BY <1>1, PageStarts, PTL DEF Page!Spec

\* For any accounts and however many operations, other writers and losses: a
\* list that has settled is the server's, and no vanished account is ticked
\* (use-account-actions.ts, accounts-page.tsx).
THEOREM AccountListSettles == ConsoleSpec => []AccountListIsServer
<1>1. PageIInv => Page!AccountListIsServer
  <2> SUFFICES ASSUME PageIInv, Page!Quiet, ~excused
               PROVE  /\ aspect # "overage" => list = srv
                      /\ Page!Listed(list) = Page!Listed(srv) /\ sel \subseteq Page!Listed(srv)
    BY DEF Page!AccountListIsServer
  <2>1. fetch.st = "idle" /\ ~event /\ changes = {}
    BY IdleFetch DEF Page!Quiet
  <2>2. QED
    BY <2>1 DEF PageIInv, ListSettled
<1>2. ~(which = "page") \/ PageIInv => AccountListIsServer
  BY <1>1 DEF AccountListIsServer
<1>3. QED
  BY <1>2, PageInductive, PageRuns, PTL


(***************************************************************************)
(* The export and test dialogs show only what belongs to them.             *)
(*                                                                         *)
(* The export dialog waits for its one request before it sends another, so *)
(* the JSON it may still get is of the selection that stays locked in the  *)
(* JSON view.  A test carries the number of the opening that ran it.       *)
(***************************************************************************)
IsCall(c) == c = [kind |-> c.kind, of |-> c.of, sess |-> c.sess, st |-> c.st]

DialogType ==
  /\ target = [id |-> target.id, open |-> target.open, session |-> target.session]
  /\ target.session \in Nat
  /\ \A c \in sent : IsCall(c)

\* One request at a time, and what it brings to the JSON view is ticked.
ExportInv ==
  /\ \A c \in sent : c.kind \in busy
  /\ \A c, d \in sent : c = d
  /\ view = "json" => json \subseteq ticked /\ \A c \in sent : c.kind = "show" => c.of \subseteq ticked

\* A test of this opening is of its account; those of earlier openings are told apart.
TestInv ==
  /\ \A c \in sent : c.sess \in Nat /\ c.sess <= target.session
                       /\ (c.sess = target.session => c.of = {target.id})
  /\ outcome # Dialogs!NoCall => outcome.of = {target.id} /\ outcome.sess = target.session

\* The inductive invariant of the dialogs.
DialogIInv ==
  /\ DialogType
  /\ part = "export" => ExportInv
  /\ part = "test" => TestInv

\* What an answered request keeps of the request.
LEMMA CallAnswered ==
  ASSUME NEW c, IsCall(c), NEW st
  PROVE  LET d == [c EXCEPT !.st = st]
         IN  IsCall(d) /\ d.kind = c.kind /\ d.of = c.of /\ d.sess = c.sess
BY DEF IsCall

\* Opening, closing, refetching and answering.
LEMMA DialogsKeep == DialogIInv /\ Dialogs!Dialogs => DialogIInv'
<1> SUFFICES ASSUME DialogIInv, Dialogs!Dialogs PROVE DialogIInv'
  OBVIOUS
<1>0. DialogType /\ (part = "export" => ExportInv) /\ (part = "test" => TestInv)
  BY DEF DialogIInv
<1>1. CASE Dialogs!Open
  <2>1. /\ part # "export" /\ part' = part /\ sent' = sent /\ outcome' = Dialogs!NoCall
        /\ \E a : target' = [id |-> a, open |-> TRUE, session |-> target.session + 1] /\ a \in listed
    BY <1>1 DEF Dialogs!Open, Dialogs!Fresh
  <2>2. QED
    BY <1>0, <2>1 DEF DialogIInv, DialogType, TestInv, IsCall
<1>2. CASE Dialogs!OpenExport
  <2>1. /\ part = "export" /\ part' = part /\ sent' = sent /\ busy' = busy /\ view' = "list"
        /\ target' = [target EXCEPT !.open = TRUE, !.session = target.session + 1]
    BY <1>2 DEF Dialogs!OpenExport
  <2>2. DialogType'
    <3>1. target' = [id |-> target.id, open |-> TRUE, session |-> target.session + 1]
      BY <1>0, <2>1 DEF DialogType
    <3>2. target'.id = target.id /\ target'.open = TRUE /\ target'.session = target.session + 1
      BY <3>1
    <3>3. target' = [id |-> target'.id, open |-> target'.open, session |-> target'.session]
      BY <3>1, <3>2, Zenon
    <3>4. target'.session \in Nat /\ \A c \in sent' : IsCall(c)
      BY <1>0, <2>1, <3>2 DEF DialogType
    <3>5. QED
      BY <3>3, <3>4 DEF DialogType
  <2>3. ExportInv'
    BY <1>0, <2>1 DEF ExportInv
  <2>4. QED
    BY <2>1, <2>2, <2>3 DEF DialogIInv
<1>3. CASE Dialogs!Close
  BY <1>0, <1>3 DEF Dialogs!Close, Dialogs!exportVars, Dialogs!testVars, DialogIInv, DialogType, ExportInv, TestInv
<1>4. CASE Dialogs!Relist
  BY <1>0, <1>4 DEF Dialogs!Relist, Dialogs!exportVars, Dialogs!testVars, DialogIInv, DialogType, ExportInv, TestInv
<1>5. CASE Dialogs!Answer
  <2>1. PICK c \in sent, st \in {"ok", "failed"} : sent' = (sent \ {c}) \cup {[c EXCEPT !.st = st]}
    BY <1>5 DEF Dialogs!Answer
  <2>2. UNCHANGED <<part, target, ticked, view, json, busy, outcome>>
    BY <1>5 DEF Dialogs!Answer, Dialogs!exportVars, Dialogs!testVars
  <2>3. PICK d : d = [c EXCEPT !.st = st]
    OBVIOUS
  <2>4. IsCall(d) /\ d.kind = c.kind /\ d.of = c.of /\ d.sess = c.sess
    BY <1>0, <2>3, CallAnswered DEF DialogType
  <2>5. sent' = (sent \ {c}) \cup {d}
    BY <2>1, <2>3
  <2>6. DialogType'
    BY <1>0, <2>2, <2>4, <2>5 DEF DialogType
  <2>7. part = "export" => ExportInv'
    BY <1>0, <2>2, <2>4, <2>5 DEF ExportInv
  <2>8. part = "test" => TestInv'
    BY <1>0, <2>2, <2>4, <2>5 DEF TestInv
  <2>9. QED
    BY <2>2, <2>6, <2>7, <2>8 DEF DialogIInv
<1>6. QED
  BY <1>1, <1>2, <1>3, <1>4, <1>5 DEF Dialogs!Dialogs

LEMMA ExportKeeps == DialogIInv /\ Dialogs!Export => DialogIInv'
<1> SUFFICES ASSUME DialogIInv, Dialogs!Export PROVE DialogIInv'
  OBVIOUS
<1>0. DialogType /\ part = "export" /\ ExportInv /\ part' = part /\ target' = target
  BY DEF DialogIInv, Dialogs!Export, Dialogs!Tick, Dialogs!ToList, Dialogs!ToJson, Dialogs!CopyOrDownload, Dialogs!ExportAnswered
<1> SUFFICES (\A c \in sent' : IsCall(c)) /\ ExportInv'
  BY <1>0 DEF DialogIInv, DialogType
<1>1. CASE Dialogs!Tick \/ Dialogs!ToList
  BY <1>0, <1>1 DEF Dialogs!Tick, Dialogs!ToList, DialogType, ExportInv
<1>2. CASE Dialogs!ToJson \/ Dialogs!CopyOrDownload
  <2>1. PICK kind, of : /\ sent' = sent \cup {Dialogs!Call(kind, of)} /\ busy' = busy \cup {kind}
                        /\ of \subseteq ticked /\ ((view' = view /\ json' = json /\ kind # "show") \/ json' = {})
    BY <1>2 DEF Dialogs!ToJson, Dialogs!CopyOrDownload, Dialogs!Sends, Dialogs!exportVars
  <2>2. busy = {} /\ ticked' = ticked
    BY <1>2 DEF Dialogs!ToJson, Dialogs!CopyOrDownload, Dialogs!exportVars
  <2>3. sent = {}
    BY <1>0, <2>2 DEF ExportInv
  <2>4. IsCall(Dialogs!Call(kind, of)) /\ Dialogs!Call(kind, of).kind = kind /\ Dialogs!Call(kind, of).of = of
    BY DEF IsCall, Dialogs!Call
  <2>5. QED
    BY <1>0, <2>1, <2>2, <2>3, <2>4 DEF ExportInv
<1>3. CASE Dialogs!ExportAnswered
  <2>1. PICK c \in sent : /\ sent' = sent \ {c}
                          /\ json' = IF c.kind = "show" /\ c.st = "ok" THEN c.of ELSE json
                          /\ view' = IF c.kind = "show" /\ c.st # "ok" THEN "list" ELSE view
    BY <1>3 DEF Dialogs!ExportAnswered
  <2>2. ticked' = ticked
    BY <1>3 DEF Dialogs!ExportAnswered
  <2>3. sent' = {}
    BY <1>0, <2>1 DEF ExportInv
  <2>4. view' = "json" => json' \subseteq ticked
    BY <1>0, <2>1 DEF ExportInv
  <2>5. QED
    BY <2>2, <2>3, <2>4 DEF ExportInv
<1>4. QED
  BY <1>1, <1>2, <1>3 DEF Dialogs!Export

LEMMA TestKeeps == DialogIInv /\ Dialogs!Test => DialogIInv'
<1> SUFFICES ASSUME DialogIInv, Dialogs!Test PROVE DialogIInv'
  OBVIOUS
<1>0. DialogType /\ part = "test" /\ TestInv /\ part' = part /\ target' = target
  BY DEF DialogIInv, Dialogs!Test, Dialogs!RunTest, Dialogs!ClearLog, Dialogs!TestAnswered
<1> SUFFICES (\A c \in sent' : IsCall(c)) /\ TestInv'
  BY <1>0 DEF DialogIInv, DialogType
<1>1. CASE Dialogs!RunTest
  <2>1. sent' = sent \cup {Dialogs!Call("test", {target.id})} /\ outcome' = outcome
    BY <1>1 DEF Dialogs!RunTest, Dialogs!Sends
  <2>2. /\ IsCall(Dialogs!Call("test", {target.id})) /\ Dialogs!Call("test", {target.id}).of = {target.id}
        /\ Dialogs!Call("test", {target.id}).sess = target.session
    BY DEF IsCall, Dialogs!Call
  <2>3. QED
    BY <1>0, <2>1, <2>2 DEF DialogType, TestInv
<1>2. CASE Dialogs!ClearLog
  BY <1>0, <1>2 DEF Dialogs!ClearLog, DialogType, TestInv
<1>3. CASE Dialogs!TestAnswered
  <2>1. PICK c \in sent : sent' = sent \ {c} /\ (outcome' = outcome \/ (outcome' = c /\ c.sess = target.session))
    BY <1>3 DEF Dialogs!TestAnswered
  <2>2. QED
    BY <1>0, <2>1 DEF DialogType, TestInv
<1>4. QED
  BY <1>1, <1>2, <1>3 DEF Dialogs!Test

\* The sheet belongs to other behaviours: it only adds and settles its own requests.
LEMMA SheetKeeps == DialogIInv /\ Dialogs!Sheet => DialogIInv'
<1> SUFFICES ASSUME DialogIInv, Dialogs!Sheet PROVE DialogIInv'
  OBVIOUS
<1>1. DialogType /\ part \notin {"export", "test"} /\ UNCHANGED <<part, target>>
  BY DEF DialogIInv, Dialogs!Sheet, Dialogs!EditField, Dialogs!Type, Dialogs!CancelEdit, Dialogs!Submit, Dialogs!Generate, Dialogs!FieldAnswered,
         Dialogs!Profile, Dialogs!ProfileAnswered, Dialogs!Models, Dialogs!ModelsAnswered
<1>2. \A kind, of : IsCall(Dialogs!Call(kind, of))
  BY DEF IsCall, Dialogs!Call
<1>3. sent' \subseteq sent \/ \E kind, of : sent' = sent \cup {Dialogs!Call(kind, of)}
  BY DEF Dialogs!Sheet, Dialogs!EditField, Dialogs!Type, Dialogs!CancelEdit, Dialogs!Submit, Dialogs!Generate, Dialogs!FieldAnswered,
         Dialogs!Profile, Dialogs!ProfileAnswered, Dialogs!Models, Dialogs!ModelsAnswered, Dialogs!Sends
<1>4. QED
  BY <1>1, <1>2, <1>3 DEF DialogIInv, DialogType

LEMMA DialogInductive == Dialogs!Spec => []DialogIInv
<1>1. Dialogs!Init => DialogIInv
  <2> SUFFICES ASSUME Dialogs!Init PROVE DialogIInv
    OBVIOUS
  <2>1. target = [id |-> Dialogs!NoAcct, open |-> FALSE, session |-> 0] /\ sent = {} /\ outcome = Dialogs!NoCall
        /\ view = "list"
    BY DEF Dialogs!Init
  <2>2. DialogType
    BY <2>1 DEF DialogType
  <2>3. QED
    BY <2>1, <2>2 DEF DialogIInv, ExportInv, TestInv
<1>2. DialogIInv /\ [Dialogs!Next]_Dialogs!vars => DialogIInv'
  <2> SUFFICES ASSUME DialogIInv, [Dialogs!Next]_Dialogs!vars PROVE DialogIInv'
    OBVIOUS
  <2>1. CASE UNCHANGED Dialogs!vars
    BY <2>1 DEF Dialogs!vars, DialogIInv, DialogType, ExportInv, TestInv
  <2>2. QED
    BY <2>1, DialogsKeep, ExportKeeps, TestKeeps, SheetKeeps DEF Dialogs!Next
<1>3. QED
  BY <1>1, <1>2, PTL DEF Dialogs!Spec

\* For any accounts and however often the dialogs are closed and opened over
\* requests under way: the exported JSON on show is of ticked accounts, the
\* test result on show of the account the dialog is open for
\* (export-dialog.tsx, test-account-dialog.tsx).
THEOREM DialogsShowOnlyTheirOwn == ConsoleSpec => []DialogsShowTheirOwn
<1>1. DialogIInv => Dialogs!DialogsShowTheirOwn
  BY DEF DialogIInv, ExportInv, TestInv, Dialogs!DialogsShowTheirOwn, Dialogs!ExportShowsSelection, Dialogs!TestShowsItsAccount
<1>2. ~(which = "dialogs") \/ DialogIInv => DialogsShowTheirOwn
  BY <1>1 DEF DialogsShowTheirOwn
<1>3. QED
  BY <1>2, DialogInductive, DialogsRun, PTL


(***************************************************************************)
(* The add-account wizard leaves no Microsoft login open on the server and *)
(* has one request or poll of a flow at a time.                            *)
(*                                                                         *)
(* The server gives each login an id once, so a login that is gone stays   *)
(* gone.  The dialog forgets an id without a cancel only after the answer  *)
(* that says an account was added or a selection opened in its place, and  *)
(* by then the login is gone; the step of the flow tells which of the two  *)
(* ids such an answer is about.                                            *)
(***************************************************************************)
\* The bounds are numbers; nothing else is assumed of them or of what is pasted.
WizardBounds == MaxGen \in Nat /\ MaxIds \in Nat /\ MaxBatch \in Nat \ {0} /\ MaxLost \in Nat

MsKinds    == {"msStart", "msComplete", "msSelect"}
OtherKinds == {"iamStart", "iamComplete", "bldStart", "bldPoll", "import"}
MintKinds  == {"msStart", "msComplete", "iamStart", "bldStart"}
Ids0       == 0 .. MaxIds
WCall == [kind : MsKinds \cup OtherKinds \cup {"cancel"}, gen : 0 .. MaxGen, id : Ids0,
          st : {"sent", "ok", "leg", "error", "down"}, new : Ids0, left : 0 .. MaxBatch,
          got : BOOLEAN, tries : 0 .. 3]

WizardType ==
  /\ WizardBounds
  /\ open \in BOOLEAN /\ pending \in BOOLEAN /\ method \in Wizard!Method \cup {"none"}
  /\ stage \in {"idle", "kiro", "microsoft", "profile", "started", "code"}
  /\ gen \in 0 .. MaxGen /\ started \in Ids0 /\ orphan \subseteq Wizard!Id /\ lost \in 0 .. MaxLost
  /\ ms \in 0 .. started /\ chosen \in 0 .. started /\ bld \in 0 .. started /\ iam \in 0 .. started
  /\ timer \in [gen : 0 .. MaxGen + 1, tries : 0 .. 3]
  /\ reqs \subseteq WCall
  /\ logins \subseteq [id : 1 .. started, leg : Wizard!Microsoft \cup {"builder", "iam"}]

Closed(i) == \A l \in logins : l.id # i

\* What each request carries: a login it announces is fresh and its own, and the one it replaced
\* or finished is gone.
CallSound(c) ==
  /\ c.gen <= gen /\ c.id <= started /\ c.new <= started
  /\ c.kind = "cancel" => c.st = "sent"
  /\ c.kind # "import" /\ c.st = "sent" => ~c.got
  /\ c.kind = "msStart" => ~c.got
  /\ c.new # 0 => ~c.got /\ c.st = "ok" /\ c.kind \in MintKinds
  /\ c.new # 0 /\ c.kind \in OtherKinds => \A l \in logins : l.id = c.new => l.leg \notin Wizard!Microsoft
  /\ c.kind \in {"msComplete", "msSelect"} /\ (c.got \/ c.new # 0) => Closed(c.id)

\* A request of the present visit.
Current(c) == c.kind # "cancel" /\ c.gen = gen

\* It belongs to the flow and the step shown.
CallFits(c) ==
  Current(c) =>
    /\ c.kind = "msStart" => method = "microsoft" /\ stage = "idle"
    /\ c.kind = "msComplete" => method = "microsoft" /\ stage \in {"kiro", "microsoft"} /\ c.id = ms
    /\ c.kind = "msSelect" => method = "microsoft" /\ stage = "profile" /\ c.id = chosen
    /\ c.kind = "bldStart" => method = "builderid"
    /\ c.kind = "bldPoll" => method = "builderid" /\ stage = "code"
    /\ c.kind \in OtherKinds => method # "microsoft"

\* The ids the dialog holds, by the step it shows.
StepHolds ==
  /\ method # "microsoft" \/ stage = "idle" => ms = 0 /\ chosen = 0
  /\ stage # "profile" => chosen = 0
  /\ stage = "profile" => Closed(ms)
  /\ ~open => method = "none" /\ ~pending

\* One request or poll, and none that the shown step does not wait for.
OneWaits ==
  /\ \A c, d \in reqs : Current(c) /\ Current(d) => c = d
  /\ timer # Wizard!NoTimer =>
       timer.gen = gen /\ method = "builderid" /\ stage = "code" /\ \A c \in reqs : ~Current(c)
  /\ ~pending /\ ~(method = "builderid" /\ stage = "code") =>
       timer = Wizard!NoTimer /\ \A c \in reqs : ~Current(c)

\* The inductive invariant of the wizard.
WizardIInv ==
  /\ WizardType
  /\ \A c \in reqs : CallSound(c) /\ CallFits(c)
  /\ StepHolds
  /\ OneWaits
  /\ Wizard!NoLoginLeaks
  /\ ~misfiled

\* A pasted item that is sent at all is filed under the method it was sent as.
LEMMA FiledAsSent == ASSUME NEW item, Wizard!MapCredential(item) # "skip"
                     PROVE  Wizard!Filed(item) = Wizard!MapCredential(item)
BY DEF Wizard!Filed, Wizard!MapCredential, Wizard!ApiKeyPath, Wizard!IsMicrosoft

IsCancel(c) ==
  c \in WCall /\ c.kind = "cancel" /\ c.gen = 0 /\ c.st = "sent" /\ c.new = 0 /\ c.got = FALSE /\ c.id <= started

LEMMA CancelCalls ==
  ASSUME WizardType, NEW is \in SUBSET (0 .. started)
  PROVE  /\ \A c \in Wizard!CancelOf(is) : IsCancel(c)
         /\ \A i \in is \ {0} : \E c \in Wizard!CancelOf(is) : c.kind = "cancel" /\ c.id = i
<1>1. ASSUME NEW i \in is \ {0}
      PROVE  IsCancel([Wizard!Call("cancel", i) EXCEPT !.gen = 0]) /\ [Wizard!Call("cancel", i) EXCEPT !.gen = 0].id = i
  <2>1. i \in Ids0 /\ i <= started /\ 0 \in 0 .. MaxGen
    BY DEF WizardType, WizardBounds, Ids0
  <2>2. PICK c : c = Wizard!Call("cancel", i)
    OBVIOUS
  <2>3. /\ c \in WCall /\ c.kind = "cancel" /\ c.id = i /\ c.st = "sent" /\ c.new = 0 /\ c.got = FALSE
    BY <2>1, <2>2 DEF WizardType, WizardBounds, Wizard!Call, Wizard!None, WCall, Ids0
  <2>4. QED
    BY <2>1, <2>2, <2>3 DEF IsCancel, WCall
<1>2. Wizard!CancelOf(is) = {[Wizard!Call("cancel", i) EXCEPT !.gen = 0] : i \in is \ {0}}
  BY DEF Wizard!CancelOf, Wizard!None
<1>3. \A c \in Wizard!CancelOf(is) : IsCancel(c)
  BY <1>1, <1>2
<1>4. ASSUME NEW i \in is \ {0}
      PROVE  \E c \in Wizard!CancelOf(is) : c.kind = "cancel" /\ c.id = i
  <2>1. PICK c : c = [Wizard!Call("cancel", i) EXCEPT !.gen = 0]
    OBVIOUS
  <2>2. c \in Wizard!CancelOf(is) /\ c.id = i
    BY <1>1, <1>2, <2>1
  <2>3. QED
    BY <1>3, <2>2 DEF IsCancel
<1>5. QED
  BY <1>3, <1>4

\* What the invariant says of a request does not depend on the dialog's step.
LEMMA SoundKept ==
  ASSUME WizardIInv, gen' \in 0 .. MaxGen, gen <= gen', UNCHANGED <<logins, started>>,
         NEW c, c \in reqs \/ IsCancel(c)
  PROVE  c \in WCall /\ CallSound(c)'
<1>1. c \in WCall /\ c.gen \in Nat /\ c.gen <= gen
  BY DEF WizardIInv, WizardType, WCall, CallSound, IsCancel
<1>2. CASE c \in reqs
  <2>1. CallSound(c)
    BY <1>2 DEF WizardIInv
  <2>2. QED
    BY <1>1, <2>1 DEF WizardIInv, WizardType, CallSound, Closed
<1>3. CASE IsCancel(c)
  BY <1>1, <1>3 DEF WizardIInv, WizardType, WizardBounds, CallSound, IsCancel, Ids0
<1>4. QED
  BY <1>2, <1>3

\* The dialog is left for another flow, or closed: what was asked before is late from then on.
LEMMA LeaveKeeps ==
  ASSUME WizardIInv, gen < MaxGen, gen' = gen + 1, UNCHANGED <<logins, started, misfiled, orphan, lost>>,
         ms' = 0, chosen' = 0, bld' = 0, iam' = 0, timer' = Wizard!NoTimer,
         \A c \in reqs' : c \in reqs \/ IsCancel(c),
         NEW m \in Wizard!Method \cup {"none"}, Wizard!FreshFlow(m), open' \in BOOLEAN, ~open' => m = "none",
         Wizard!NoLoginLeaks'
  PROVE  WizardIInv'
<1>0. WizardType /\ gen' \in 0 .. MaxGen /\ gen <= gen'
  BY DEF WizardIInv, WizardType, WizardBounds
<1>1. \A c \in reqs' : c \in WCall /\ CallSound(c)'
  BY <1>0, SoundKept
<1>2. \A c \in reqs' : c.gen \in Nat /\ c.gen <= gen
  BY <1>0 DEF WizardIInv, WizardType, CallSound, IsCancel, WCall
<1>3. \A c \in reqs' : ~Current(c)'
  BY <1>0, <1>2 DEF Current, WizardType, WizardBounds
<1>4. WizardType'
  <2>1. timer' \in [gen : 0 .. MaxGen + 1, tries : 0 .. 3]
    BY <1>0 DEF Wizard!NoTimer, WizardType, WizardBounds
  <2>2. pending' \in BOOLEAN /\ stage' = "idle" /\ method' = m
    BY DEF Wizard!FreshFlow
  <2>3. reqs' \subseteq WCall
    BY <1>1
  <2>4. 0 \in 0 .. started
    BY <1>0 DEF WizardType, Ids0
  <2>5. QED
    BY <1>0, <2>1, <2>2, <2>3, <2>4 DEF WizardType
<1>5. StepHolds'
  BY DEF StepHolds, Wizard!FreshFlow
<1>6. OneWaits'
  BY <1>3 DEF OneWaits
<1>7. ~misfiled'
  BY DEF WizardIInv
<1>8. QED
  BY <1>1, <1>3, <1>4, <1>5, <1>6, <1>7 DEF WizardIInv, CallFits

\* reset.
LEMMA ResetKeeps ==
  ASSUME WizardIInv, Wizard!Reset(reqs), UNCHANGED <<logins, started, misfiled, orphan, lost>>,
         NEW m \in Wizard!Method \cup {"none"}, Wizard!FreshFlow(m), open' \in BOOLEAN, ~open' => m = "none"
  PROVE  WizardIInv'
<1>1. /\ gen < MaxGen /\ gen' = gen + 1 /\ reqs' = reqs \cup Wizard!CancelOf({ms, chosen})
      /\ ms' = 0 /\ chosen' = 0 /\ bld' = 0 /\ iam' = 0 /\ timer' = Wizard!NoTimer
  BY DEF Wizard!Reset, Wizard!None
<1>2. WizardType /\ {ms, chosen} \in SUBSET (0 .. started)
  BY DEF WizardIInv, WizardType
<1>3. /\ \A c \in Wizard!CancelOf({ms, chosen}) : IsCancel(c)
      /\ \A i \in {ms, chosen} \ {0} : \E c \in Wizard!CancelOf({ms, chosen}) : c.kind = "cancel" /\ c.id = i
  BY <1>2, CancelCalls
<1>4. \A l \in logins : l.id # 0
  BY <1>2 DEF WizardType
<1>5. Wizard!NoLoginLeaks'
  <2> SUFFICES ASSUME NEW l \in logins, l.leg \in Wizard!Microsoft
               PROVE  \/ l.id \in orphan
                      \/ \E c \in reqs' : l.id = c.new \/ (c.kind = "cancel" /\ l.id = c.id)
    BY <1>1 DEF Wizard!NoLoginLeaks
  <2>1. CASE l.id \in {ms, chosen}
    BY <1>1, <1>3, <1>4, <2>1
  <2>2. CASE l.id \notin {ms, chosen}
    BY <1>1, <2>2 DEF WizardIInv, Wizard!NoLoginLeaks
  <2>3. QED
    BY <2>1, <2>2
<1>6. QED
  BY <1>1, <1>3, <1>5, LeaveKeeps

\* finishAdd, for an answer that says the account was added.
LEMMA FinishKeeps ==
  ASSUME WizardIInv, NEW c \in reqs, c.got, Current(c), Wizard!FinishAdd(reqs \ {c}),
         UNCHANGED <<logins, started, misfiled, orphan, lost>>
  PROVE  WizardIInv'
<1>1. /\ gen < MaxGen /\ gen' = gen + 1 /\ reqs' = reqs \ {c} /\ open' = FALSE /\ Wizard!FreshFlow("none")
      /\ ms' = 0 /\ chosen' = 0 /\ bld' = 0 /\ iam' = 0 /\ timer' = Wizard!NoTimer
  BY DEF Wizard!FinishAdd, Wizard!None
<1>2. WizardType /\ CallSound(c) /\ CallFits(c) /\ StepHolds
  BY DEF WizardIInv
<1>3. c.kind \in MsKinds \cup OtherKinds
  BY <1>2 DEF WizardType, WCall, Current
<1>4. Closed(0)
  BY <1>2 DEF WizardType, Closed
<1>5. Closed(ms) /\ Closed(chosen)
  <2>1. CASE c.kind \in OtherKinds
    BY <1>2, <1>4, <2>1 DEF CallFits, StepHolds
  <2>2. CASE c.kind = "msComplete"
    BY <1>2, <1>4, <2>2 DEF CallFits, CallSound, StepHolds
  <2>3. CASE c.kind = "msSelect"
    BY <1>2, <1>4, <2>3 DEF CallFits, CallSound, StepHolds
  <2>4. c.kind # "msStart"
    BY <1>2 DEF CallSound
  <2>5. QED
    BY <1>3, <2>1, <2>2, <2>3, <2>4 DEF MsKinds
<1>6. c.new = 0 /\ c.kind # "cancel"
  BY <1>2 DEF CallSound, Current
<1>7. Wizard!NoLoginLeaks'
  BY <1>1, <1>4, <1>5, <1>6 DEF WizardIInv, Wizard!NoLoginLeaks, Closed
<1>8. "none" \in Wizard!Method \cup {"none"} /\ open' \in BOOLEAN /\ \A d \in reqs' : d \in reqs
  BY <1>1
<1>9. QED
  BY <1>1, <1>7, <1>8, LeaveKeeps

\* A request of the present visit is sent while nothing else is under way.
LEMMA StartKeeps ==
  ASSUME WizardIInv, NEW c \in WCall, c.gen = gen, c.st = "sent", c.new = 0, c.got = FALSE,
         c.id <= started, c.kind # "cancel", CallFits(c),
         \A d \in reqs : ~Current(d), reqs' = reqs \cup {c}, timer' = Wizard!NoTimer,
         pending' \in BOOLEAN, pending' \/ (method = "builderid" /\ stage = "code"), pending' => open \/ pending,
         UNCHANGED <<open, method, stage, gen, ms, chosen, bld, iam, logins, started, misfiled, orphan, lost>>
  PROVE  WizardIInv'
<1>0. WizardType /\ StepHolds /\ gen' \in 0 .. MaxGen /\ gen <= gen'
  BY DEF WizardIInv, WizardType, WizardBounds
<1>1. \A d \in reqs : d \in WCall /\ CallSound(d)'
  BY <1>0, SoundKept
<1>2. CallSound(c)'
  BY <1>0 DEF WizardType, WizardBounds, CallSound, WCall, Ids0
<1>3. \A d \in reqs' : d = c \/ ~Current(d)'
  BY DEF Current
<1>4. CallFits(c)'
  BY DEF CallFits, Current
<1>5. WizardType'
  <2>1. timer' \in [gen : 0 .. MaxGen + 1, tries : 0 .. 3]
    BY <1>0 DEF Wizard!NoTimer, WizardType, WizardBounds
  <2>2. reqs' \subseteq WCall
    BY <1>1
  <2>3. QED
    BY <1>0, <2>1, <2>2 DEF WizardType
<1>6. StepHolds'
  BY <1>0 DEF StepHolds, Closed
<1>7. OneWaits'
  BY <1>3 DEF OneWaits
<1>8. Wizard!NoLoginLeaks'
  BY DEF WizardIInv, Wizard!NoLoginLeaks
<1>9. ~misfiled' /\ \A d \in reqs' : CallFits(d)'
  BY <1>3, <1>4 DEF WizardIInv, CallFits
<1>10. QED
  BY <1>1, <1>2, <1>5, <1>6, <1>7, <1>8, <1>9 DEF WizardIInv

\* A flow submits one of its steps.
LEMMA SubmitKeeps ==
  ASSUME WizardIInv, Wizard!Submits, ~(method = "builderid" /\ stage = "code"), NEW c \in WCall, Wizard!Starts(c),
         c.gen = gen, c.st = "sent", c.new = 0, c.got = FALSE, c.id <= started, c.kind # "cancel", CallFits(c)
  PROVE  WizardIInv'
<1>1. open /\ ~pending
  BY DEF Wizard!Submits
<1>2. timer = Wizard!NoTimer /\ \A d \in reqs : ~Current(d)
  BY <1>1 DEF WizardIInv, OneWaits
<1>3. /\ reqs' = reqs \cup {c} /\ pending' = TRUE /\ timer' = timer
      /\ UNCHANGED <<open, method, stage, gen, ms, chosen, bld, iam, logins, started, misfiled, orphan, lost>>
  BY DEF Wizard!Starts, Wizard!ids, Wizard!srvVars
<1>4. QED
  BY <1>1, <1>2, <1>3, StartKeeps

LEMMA SubmitsKeep == WizardIInv /\ Wizard!Submit => WizardIInv'
<1> SUFFICES ASSUME WizardIInv, Wizard!Submit PROVE WizardIInv'
  OBVIOUS
<1>0. WizardType /\ started \in Nat /\ started <= MaxIds /\ MaxBatch \in Nat \ {0}
  BY DEF WizardIInv, WizardType, WizardBounds, Ids0
<1>1. /\ \A i \in 0 .. started : i \in Ids0 /\ i <= started
      /\ 0 \in 0 .. started /\ ms \in 0 .. started /\ chosen \in 0 .. started /\ iam \in 0 .. started
  BY <1>0 DEF WizardType, WizardBounds, Ids0
<1>2. ASSUME NEW kind \in MsKinds \cup OtherKinds, NEW i \in 0 .. started, Wizard!Submits, Wizard!Starts(Wizard!Call(kind, i)),
             kind = "msStart" => method = "microsoft" /\ stage = "idle",
             kind = "msComplete" => method = "microsoft" /\ stage \in {"kiro", "microsoft"} /\ i = ms,
             kind = "msSelect" => method = "microsoft" /\ stage = "profile" /\ i = chosen,
             kind = "bldStart" => method = "builderid" /\ stage = "idle",
             kind # "bldPoll", kind \in OtherKinds => method # "microsoft", kind # "bldStart" => method # "builderid"
      PROVE  WizardIInv'
  <2>1. PICK c : c = Wizard!Call(kind, i)
    OBVIOUS
  <2>2. /\ c \in WCall /\ c.kind = kind /\ c.gen = gen /\ c.id = i /\ c.st = "sent" /\ c.new = 0
        /\ c.got = FALSE
    BY <1>0, <1>1, <2>1 DEF WizardType, WizardBounds, Wizard!Call, Wizard!None, WCall, Ids0
  <2>3. CallFits(c) /\ c.kind # "cancel" /\ c.id <= started
    BY <1>1, <1>2, <2>2 DEF CallFits, MsKinds, OtherKinds
  <2>4. Wizard!Starts(c) /\ Wizard!Submits /\ ~(method = "builderid" /\ stage = "code")
    BY <1>2, <2>1
  <2>5. QED
    BY <2>2, <2>3, <2>4, SubmitKeeps
<1>3. ASSUME NEW n \in 1 .. MaxBatch, Wizard!Submits, Wizard!Imports(n),
             method \notin {"microsoft", "builderid"}
      PROVE  WizardIInv'
  <2>1. PICK d : d = Wizard!Call("import", 0)
    OBVIOUS
  <2>2. /\ d \in WCall /\ d.kind = "import" /\ d.gen = gen /\ d.id = 0 /\ d.st = "sent" /\ d.new = 0
        /\ d.got = FALSE
    BY <1>0, <2>1 DEF WizardType, WizardBounds, Wizard!Call, Wizard!None, WCall, Ids0, OtherKinds
  <2>3. PICK c : c = [d EXCEPT !.left = n]
    OBVIOUS
  <2>4. /\ c \in WCall /\ c.kind = "import" /\ c.gen = gen /\ c.id = 0 /\ c.st = "sent" /\ c.new = 0
        /\ c.got = FALSE
    BY <1>0, <1>3, <2>2, <2>3 DEF WCall
  <2>5. Wizard!Starts(c)
    BY <1>3, <2>1, <2>3 DEF Wizard!Imports, Wizard!None
  <2>6. CallFits(c) /\ c.kind # "cancel" /\ c.id <= started
    BY <1>0, <1>3, <2>4 DEF CallFits, OtherKinds
  <2>7. QED
    BY <1>3, <2>4, <2>5, <2>6, SubmitKeeps
<1>4. CASE Wizard!SubmitMicrosoft
  <2>1. Wizard!Submits /\ method = "microsoft"
    BY <1>4 DEF Wizard!SubmitMicrosoft
  <2>2. CASE stage = "idle" /\ Wizard!Starts(Wizard!Call("msStart", 0))
    BY <1>1, <1>2, <2>1, <2>2 DEF MsKinds, OtherKinds
  <2>3. CASE stage \in {"kiro", "microsoft"} /\ Wizard!Starts(Wizard!Call("msComplete", ms))
    BY <1>1, <1>2, <2>1, <2>3 DEF MsKinds, OtherKinds
  <2>4. CASE stage = "profile" /\ Wizard!Starts(Wizard!Call("msSelect", chosen))
    BY <1>1, <1>2, <2>1, <2>4 DEF MsKinds, OtherKinds
  <2>5. QED
    BY <1>4, <2>2, <2>3, <2>4 DEF Wizard!SubmitMicrosoft, Wizard!None
<1>5. CASE Wizard!SubmitIam
  <2>1. Wizard!Submits /\ method = "iam"
    BY <1>5 DEF Wizard!SubmitIam
  <2>2. CASE Wizard!Starts(Wizard!Call("iamStart", 0))
    BY <1>1, <1>2, <2>1, <2>2 DEF MsKinds, OtherKinds
  <2>3. CASE Wizard!Starts(Wizard!Call("iamComplete", iam))
    BY <1>1, <1>2, <2>1, <2>3 DEF MsKinds, OtherKinds
  <2>4. QED
    BY <1>5, <2>2, <2>3 DEF Wizard!SubmitIam, Wizard!None
<1>6. CASE Wizard!SubmitBuilderId
  <2>1. Wizard!Submits /\ method = "builderid" /\ stage = "idle" /\ Wizard!Starts(Wizard!Call("bldStart", 0))
    BY <1>6 DEF Wizard!SubmitBuilderId, Wizard!None
  <2>2. QED
    BY <1>1, <1>2, <2>1 DEF MsKinds, OtherKinds
<1>7. CASE Wizard!SubmitSsoToken \/ Wizard!SubmitLocalCache \/ Wizard!SubmitCookie \/ Wizard!SubmitCredentials \/ Wizard!SubmitApiKeys
  <2>1. PICK n \in 1 .. MaxBatch : Wizard!Imports(n)
    BY <1>0, <1>7 DEF Wizard!SubmitSsoToken, Wizard!SubmitLocalCache, Wizard!SubmitCookie, Wizard!SubmitCredentials, Wizard!SubmitApiKeys
  <2>2. Wizard!Submits /\ method \notin {"microsoft", "builderid"}
    BY <1>7 DEF Wizard!SubmitSsoToken, Wizard!SubmitLocalCache, Wizard!SubmitCookie, Wizard!SubmitCredentials, Wizard!SubmitApiKeys
  <2>3. QED
    BY <1>0, <1>3, <2>1, <2>2
<1>8. QED
  BY <1>4, <1>5, <1>6, <1>7 DEF Wizard!Submit

LEMMA WizardStarts == WizardBounds /\ Wizard!Init => WizardIInv
<1> SUFFICES ASSUME WizardBounds, Wizard!Init PROVE WizardIInv
  OBVIOUS
<1>1. /\ open = FALSE /\ method = "none" /\ stage = "idle" /\ pending = FALSE /\ gen = 0
      /\ ms = 0 /\ chosen = 0 /\ bld = 0 /\ iam = 0 /\ timer = Wizard!NoTimer
      /\ reqs = {} /\ logins = {} /\ started = 0 /\ orphan = {} /\ misfiled = FALSE /\ lost = 0
  BY DEF Wizard!Init, Wizard!None
<1>2. Wizard!NoTimer \in [gen : 0 .. MaxGen + 1, tries : 0 .. 3]
  BY DEF Wizard!NoTimer, WizardBounds
<1>3. WizardType
  <2>1. open \in BOOLEAN /\ pending \in BOOLEAN
    BY <1>1
  <2>2. gen \in 0 .. MaxGen /\ started \in Ids0 /\ lost \in 0 .. MaxLost /\ 0 \in 0 .. started
    BY <1>1 DEF WizardBounds, Ids0
  <2>3. QED
    BY <1>1, <1>2, <2>1, <2>2 DEF WizardType
<1>4. QED
  BY <1>1, <1>3 DEF WizardIInv, StepHolds, OneWaits, Wizard!NoLoginLeaks, Closed

\* Opening the dialog, choosing a method, going back and closing it.
LEMMA VisitKeeps == WizardIInv /\ (Wizard!Open \/ Wizard!SelectMethod \/ Wizard!Back \/ Wizard!Close) => WizardIInv'
<1> SUFFICES ASSUME WizardIInv, Wizard!Open \/ Wizard!SelectMethod \/ Wizard!Back \/ Wizard!Close PROVE WizardIInv'
  OBVIOUS
<1>0. WizardType
  BY DEF WizardIInv
<1>1. CASE Wizard!Open
  <2>1. /\ ~open /\ open' = TRUE
        /\ UNCHANGED <<gen, ms, chosen, bld, iam, timer, reqs, logins, started, misfiled, orphan, lost>>
    BY <1>1 DEF Wizard!Open, Wizard!ids, Wizard!srvVars
  <2>2. PICK m \in Wizard!Method \cup {"none"} : method' = m /\ stage' = "idle" /\ pending' = FALSE
    BY <1>1 DEF Wizard!Open, Wizard!FreshFlow
  <2>3. method = "none" /\ ~pending
    BY <2>1 DEF WizardIInv, StepHolds
  <2>4. timer = Wizard!NoTimer /\ ms = 0 /\ chosen = 0 /\ \A c \in reqs : ~Current(c)
    BY <2>3 DEF WizardIInv, StepHolds, OneWaits
  <2>5. gen' \in 0 .. MaxGen /\ gen <= gen'
    BY <1>0, <2>1 DEF WizardType, WizardBounds
  <2>6. \A c \in reqs' : CallSound(c)'
    BY <2>1, <2>5, SoundKept
  <2>7. \A c \in reqs' : ~Current(c)'
    BY <2>1, <2>4 DEF Current
  <2>8. WizardType'
    BY <1>0, <2>1, <2>2 DEF WizardType
  <2>9. StepHolds' /\ OneWaits'
    BY <2>1, <2>2, <2>4, <2>7 DEF StepHolds, OneWaits
  <2>10. Wizard!NoLoginLeaks' /\ ~misfiled'
    BY <2>1 DEF WizardIInv, Wizard!NoLoginLeaks
  <2>11. QED
    BY <2>6, <2>7, <2>8, <2>9, <2>10 DEF WizardIInv, CallFits
<1>2. CASE Wizard!SelectMethod \/ Wizard!Back \/ Wizard!Close
  <2>1. Wizard!Reset(reqs) /\ UNCHANGED <<logins, started, misfiled, orphan, lost>>
    BY <1>2 DEF Wizard!SelectMethod, Wizard!Back, Wizard!Close, Wizard!srvVars
  <2>2. PICK m \in Wizard!Method \cup {"none"} : Wizard!FreshFlow(m) /\ ((open' = open /\ open) \/ (open' = FALSE /\ m = "none"))
    BY <1>2 DEF Wizard!SelectMethod, Wizard!Back, Wizard!Close
  <2>3. open' \in BOOLEAN /\ (~open' => m = "none")
    BY <1>0, <2>2 DEF WizardType
  <2>4. QED
    BY <2>1, <2>2, <2>3, ResetKeeps
<1>3. QED
  BY <1>1, <1>2

\* The poll timer fires.
LEMMA PollKeeps == WizardIInv /\ Wizard!Poll => WizardIInv'
<1> SUFFICES ASSUME WizardIInv, Wizard!Poll PROVE WizardIInv'
  OBVIOUS
<1>0. WizardType /\ timer # Wizard!NoTimer /\ timer' = Wizard!NoTimer
  BY DEF WizardIInv, Wizard!Poll
<1>1. UNCHANGED <<open, method, stage, pending, gen, ms, chosen, bld, iam, logins, started, misfiled, orphan, lost>>
  BY DEF Wizard!Poll, Wizard!uiVars, Wizard!ids, Wizard!srvVars
<1>2. timer.gen = gen /\ method = "builderid" /\ stage = "code" /\ \A d \in reqs : ~Current(d)
  BY <1>0 DEF WizardIInv, OneWaits
<1>3. CASE bld = 0
  <2>1. reqs' = reqs
    BY <1>3 DEF Wizard!Poll, Wizard!None
  <2>2. gen' \in 0 .. MaxGen /\ gen <= gen'
    BY <1>0, <1>1 DEF WizardType, WizardBounds
  <2>3. \A c \in reqs' : CallSound(c)'
    BY <1>1, <2>1, <2>2, SoundKept
  <2>4. \A c \in reqs' : ~Current(c)'
    BY <1>1, <1>2, <2>1 DEF Current
  <2>5. WizardType'
    <3>1. timer' \in [gen : 0 .. MaxGen + 1, tries : 0 .. 3]
      BY <1>0 DEF Wizard!NoTimer, WizardType, WizardBounds
    <3>2. QED
      BY <1>0, <1>1, <2>1, <3>1 DEF WizardType
  <2>6. StepHolds' /\ OneWaits'
    BY <1>0, <1>1, <2>4 DEF WizardIInv, StepHolds, OneWaits, Closed
  <2>7. Wizard!NoLoginLeaks' /\ ~misfiled'
    BY <1>1, <2>1 DEF WizardIInv, Wizard!NoLoginLeaks
  <2>8. QED
    BY <2>3, <2>4, <2>5, <2>6, <2>7 DEF WizardIInv, CallFits
<1>4. CASE bld # 0
  <2>1. PICK d : d = Wizard!Call("bldPoll", bld)
    OBVIOUS
  <2>2. PICK c : c = [d EXCEPT !.tries = timer.tries]
    OBVIOUS
  <2>3. /\ d \in WCall /\ d.kind = "bldPoll" /\ d.gen = gen /\ d.id = bld /\ d.st = "sent" /\ d.new = 0
        /\ d.got = FALSE
    BY <1>0, <2>1 DEF WizardType, WizardBounds, Wizard!Call, Wizard!None, WCall, Ids0, OtherKinds
  <2>4. timer.tries \in 0 .. 3
    BY <1>0 DEF WizardType
  <2>5. /\ c \in WCall /\ c.kind = "bldPoll" /\ c.gen = gen /\ c.id = bld /\ c.st = "sent" /\ c.new = 0
        /\ c.got = FALSE
    BY <2>2, <2>3, <2>4 DEF WCall
  <2>6. reqs' = reqs \cup {c}
    BY <1>2, <1>4, <2>1, <2>2 DEF Wizard!Poll, Wizard!None
  <2>7. c.id <= started /\ c.kind # "cancel" /\ CallFits(c)
    BY <1>0, <1>2, <2>5 DEF WizardType, Ids0, CallFits
  <2>8. pending' \in BOOLEAN /\ (pending' => open \/ pending)
    BY <1>0, <1>1 DEF WizardType
  <2>9. QED
    BY <1>0, <1>1, <1>2, <2>5, <2>6, <2>7, <2>8, StartKeeps
<1>5. QED
  BY <1>3, <1>4

-----------------------------------------------------------------------------
\* The server answers request c by a.
LEMMA ServeKeeps ==
  ASSUME WizardIInv, NEW c \in reqs, c.st = "sent", c.kind # "cancel",
         NEW a \in WCall, a.kind = c.kind, a.gen = c.gen, a.id = c.id, a.st # "sent",
         reqs' = (reqs \ {c}) \cup {a}, misfiled' = FALSE,
         UNCHANGED <<open, method, stage, pending, gen, ms, chosen, bld, iam, timer, orphan, lost>>,
         \* Logins are closed, opened under the next id, or go on under their own.
         started' \in {started, started + 1}, started' <= MaxIds,
         logins' \subseteq [id : 1 .. started', leg : Wizard!Microsoft \cup {"builder", "iam"}],
         \A l \in logins' :
           \/ l \in logins
           \/ l.id = started + 1 /\ a.new = l.id
           \/ \E k \in logins : k.id = l.id /\ k.leg \in Wizard!Microsoft,
         \* The answer names the login it opened, and none it closed.
         a.new # 0 =>
           /\ ~a.got /\ a.st = "ok" /\ a.kind \in MintKinds /\ a.new = started + 1 /\ started' = started + 1
           /\ a.kind \in OtherKinds => \A l \in logins' : l.id = a.new => l.leg \notin Wizard!Microsoft,
         a.kind = "msStart" => ~a.got,
         a.kind \in {"msComplete", "msSelect"} /\ (a.got \/ a.new # 0) => \A l \in logins' : l.id # c.id
  PROVE  WizardIInv'
<1>0. /\ WizardType /\ StepHolds /\ OneWaits /\ CallSound(c) /\ CallFits(c) /\ c \in WCall
      /\ started \in Nat /\ started' \in Nat /\ started <= started' /\ gen \in Nat
  BY DEF WizardIInv, WizardType, WizardBounds, Ids0
<1>1. \A i \in 0 .. started : Closed(i) => Closed(i)'
  BY <1>0 DEF Closed
<1>2. c.new = 0
  BY <1>0 DEF CallSound
<1>3. ASSUME NEW d \in reqs \ {c} PROVE CallSound(d)'
  <2>1. CallSound(d) /\ d \in WCall
    BY DEF WizardIInv, WizardType
  <2>2. d.id \in 0 .. started /\ d.new \in 0 .. started
    BY <1>0, <2>1 DEF CallSound, WCall, Ids0
  <2>3. ASSUME d.new # 0, d.kind \in OtherKinds, NEW l \in logins', l.id = d.new PROVE l.leg \notin Wizard!Microsoft
    <3>1. l.id # started + 1
      BY <1>0, <2>2, <2>3
    <3>2. \A k \in logins : k.id = d.new => k.leg \notin Wizard!Microsoft
      BY <2>1, <2>3 DEF CallSound
    <3>3. QED
      BY <2>3, <3>1, <3>2
  <2>4. d.kind \in {"msComplete", "msSelect"} /\ (d.got \/ d.new # 0) => Closed(d.id)'
    BY <1>1, <2>1, <2>2 DEF CallSound
  <2>5. d.gen <= gen' /\ d.id <= started' /\ d.new <= started'
    BY <1>0, <2>1, <2>2 DEF CallSound, WCall
  <2>6. QED
    BY <2>1, <2>3, <2>4, <2>5 DEF CallSound
<1>4. CallSound(a)'
  <2>1. a.gen <= gen' /\ a.id <= started' /\ a.new <= started'
    BY <1>0 DEF CallSound, WCall, Ids0
  <2>2. a.kind \in {"msComplete", "msSelect"} /\ (a.got \/ a.new # 0) => Closed(a.id)'
    BY DEF Closed
  <2>3. QED
    BY <2>1, <2>2 DEF CallSound
<1>5. CallFits(a)' /\ \A d \in reqs : CallFits(d)'
  BY <1>0 DEF WizardIInv, CallFits, Current
<1>6. WizardType'
  <2>1. reqs' \subseteq WCall /\ started' \in Ids0
    BY <1>0 DEF WizardType, WizardBounds, Ids0
  <2>2. /\ ms' \in 0 .. started' /\ chosen' \in 0 .. started' /\ bld' \in 0 .. started' /\ iam' \in 0 .. started'
    BY <1>0 DEF WizardType
  <2>3. QED
    BY <1>0, <2>1, <2>2 DEF WizardType
<1>7. StepHolds'
  <2>1. ms \in 0 .. started
    BY <1>0 DEF WizardType
  <2>2. QED
    BY <1>0, <1>1, <2>1 DEF StepHolds
<1>8. OneWaits'
  BY <1>0 DEF OneWaits, Current
<1>9. Wizard!NoLoginLeaks'
  <2> SUFFICES ASSUME NEW l \in logins', l.leg \in Wizard!Microsoft
               PROVE  \/ l.id \in {ms, chosen} \cup orphan
                      \/ \E d \in reqs' : l.id = d.new \/ (d.kind = "cancel" /\ l.id = d.id)
    BY DEF Wizard!NoLoginLeaks
  <2>1. CASE l.id = a.new
    BY <2>1
  <2>2. CASE \E k \in logins : k.id = l.id /\ k.leg \in Wizard!Microsoft
    <3>1. \/ l.id \in {ms, chosen} \cup orphan
          \/ \E d \in reqs : l.id = d.new \/ (d.kind = "cancel" /\ l.id = d.id)
      BY <2>2 DEF WizardIInv, Wizard!NoLoginLeaks
    <3>2. l.id # 0
      BY <1>0, <2>2 DEF WizardType
    <3>3. QED
      BY <1>2, <3>1, <3>2
  <2>3. QED
    BY <2>1, <2>2
<1>10. QED
  BY <1>3, <1>4, <1>5, <1>6, <1>7, <1>8, <1>9 DEF WizardIInv

ClientStays == UNCHANGED <<open, method, stage, pending, gen, ms, chosen, bld, iam, timer, orphan, lost>>

\* The facts of the invariant that serving a request uses.
LEMMA AtServer ==
  ASSUME WizardIInv, NEW c \in reqs, c.st = "sent"
  PROVE  /\ c \in WCall /\ c.new = 0 /\ c.id \in 0 .. started /\ started \in Ids0 /\ MaxIds \in Nat
         /\ c.kind # "import" => ~c.got
         /\ logins \subseteq [id : 1 .. started, leg : Wizard!Microsoft \cup {"builder", "iam"}]
<1>1. WizardType /\ CallSound(c)
  BY DEF WizardIInv
<1>2. QED
  BY <1>1 DEF WizardType, WizardBounds, CallSound, WCall, Ids0

\* A login is opened.
LEMMA MintsKeep ==
  ASSUME WizardIInv, NEW c \in reqs, c.st = "sent", c.kind \in MintKinds,
         NEW leg \in Wizard!Microsoft \cup {"builder", "iam"}, c.kind \in OtherKinds => leg \notin Wizard!Microsoft,
         Wizard!Mints(c, leg), ClientStays
  PROVE  WizardIInv'
<1>0. /\ c \in WCall /\ c.new = 0 /\ c.id \in 0 .. started /\ started \in Ids0 /\ MaxIds \in Nat
      /\ c.kind # "import" => ~c.got
      /\ logins \subseteq [id : 1 .. started, leg : Wizard!Microsoft \cup {"builder", "iam"}]
  BY AtServer
<1>1. PICK a : a = [c EXCEPT !.st = "ok", !.new = started + 1]
  OBVIOUS
<1>2. /\ started < MaxIds /\ started' = started + 1 /\ misfiled' = misfiled
      /\ logins' = {l \in logins : l.id # c.id} \cup {[id |-> started + 1, leg |-> leg]}
      /\ reqs' = (reqs \ {c}) \cup {a}
  BY <1>1 DEF Wizard!Mints, Wizard!Without, Wizard!Answers
<1>3. /\ a \in WCall /\ a.kind = c.kind /\ a.gen = c.gen /\ a.id = c.id /\ a.st = "ok" /\ a.new = started + 1
      /\ a.got = c.got
  <2>1. started + 1 \in Ids0
    BY <1>0, <1>2 DEF Ids0
  <2>2. a \in WCall
    BY <1>0, <1>1, <2>1 DEF WCall
  <2>3. a.kind = c.kind /\ a.gen = c.gen /\ a.id = c.id /\ a.st = "ok" /\ a.new = started + 1
    BY <1>0, <1>1 DEF WCall
  <2>4. a.got = c.got
    BY <1>0, <1>1 DEF WCall
  <2>5. QED
    BY <2>2, <2>3, <2>4
<1>4. ~a.got /\ c.kind # "cancel" /\ misfiled' = FALSE
  BY <1>0, <1>2, <1>3 DEF MintKinds, WizardIInv
<1>5. started' \in {started, started + 1} /\ started' <= MaxIds /\ started \in Nat
  BY <1>0, <1>2 DEF Ids0
<1>6. logins' \subseteq [id : 1 .. started', leg : Wizard!Microsoft \cup {"builder", "iam"}]
  BY <1>0, <1>2, <1>5
<1>7. \A l \in logins' : l \in logins \/ (l.id = started + 1 /\ a.new = l.id)
  BY <1>2, <1>3
<1>8. a.kind \in OtherKinds => \A l \in logins' : l.id = a.new => l.leg \notin Wizard!Microsoft
  BY <1>0, <1>2, <1>3, <1>5
<1>9. \A l \in logins' : l.id # c.id
  BY <1>0, <1>2, <1>5
<1>10. QED
  BY <1>2, <1>3, <1>4, <1>5, <1>6, <1>7, <1>8, <1>9, ServeKeeps DEF ClientStays

\* A request is answered and no login opened: it is refused, its login goes on or is closed, or
\* an account is added.
LEMMA WizardAnswerKeeps ==
  ASSUME WizardIInv, NEW c \in reqs, c.st = "sent", c.kind # "cancel", ClientStays,
         NEW st \in {"ok", "leg", "error"}, NEW got \in BOOLEAN, NEW a, a = [c EXCEPT !.st = st, !.got = got],
         got => c.got \/ (logins' = Wizard!Without(c.id) /\ c.kind # "msStart"),
         Wizard!Answers(c, a), started' = started, misfiled' = FALSE,
         \/ logins' \subseteq logins
         \/ Wizard!Alive(c.id, {"kiro"}) /\ logins' = Wizard!Without(c.id) \cup {[id |-> c.id, leg |-> "microsoft"]} /\ ~got
  PROVE  WizardIInv'
<1>0. /\ c \in WCall /\ c.new = 0 /\ c.id \in 0 .. started /\ started \in Ids0 /\ MaxIds \in Nat
      /\ c.kind # "import" => ~c.got
      /\ logins \subseteq [id : 1 .. started, leg : Wizard!Microsoft \cup {"builder", "iam"}]
  BY AtServer
<1>1. /\ a \in WCall /\ a.kind = c.kind /\ a.gen = c.gen /\ a.id = c.id /\ a.st = st /\ a.new = 0
      /\ a.got = got
  BY <1>0 DEF WCall
<1>2. reqs' = (reqs \ {c}) \cup {a}
  BY DEF Wizard!Answers
<1>3. /\ \A l \in logins' : l \in logins \/ \E k \in logins : k.id = l.id /\ k.leg \in Wizard!Microsoft
      /\ logins' \subseteq [id : 1 .. started', leg : Wizard!Microsoft \cup {"builder", "iam"}]
  <2>1. CASE logins' \subseteq logins
    BY <1>0, <2>1
  <2>2. CASE Wizard!Alive(c.id, {"kiro"}) /\ logins' = Wizard!Without(c.id) \cup {[id |-> c.id, leg |-> "microsoft"]}
    <3>1. PICK k \in logins : k.id = c.id /\ k.leg = "kiro"
      BY <2>2 DEF Wizard!Alive
    <3>2. c.id \in 1 .. started
      BY <1>0, <3>1
    <3>3. QED
      BY <1>0, <2>2, <3>1, <3>2 DEF Wizard!Without, Wizard!Microsoft
  <2>3. QED
    BY <2>1, <2>2
<1>4. started' \in {started, started + 1} /\ started' <= MaxIds
  BY <1>0 DEF Ids0
<1>5. a.kind = "msStart" => ~a.got
  BY <1>0, <1>1
<1>6. a.kind \in {"msComplete", "msSelect"} /\ (a.got \/ a.new # 0) => \A l \in logins' : l.id # c.id
  BY <1>0, <1>1 DEF Wizard!Without
<1>7. a.st # "sent"
  BY <1>1
<1>8. QED
  BY <1>1, <1>2, <1>3, <1>4, <1>5, <1>6, <1>7, ServeKeeps DEF ClientStays

LEMMA RefusesKeep ==
  ASSUME WizardIInv, NEW c \in reqs, c.st = "sent", c.kind # "cancel", ClientStays, Wizard!Refuses(c)
  PROVE  WizardIInv'
<1>1. c \in WCall /\ c.got \in BOOLEAN
  BY AtServer DEF WCall
<1>2. PICK a : a = [c EXCEPT !.st = "error", !.got = c.got]
  OBVIOUS
<1>3. a = [c EXCEPT !.st = "error"]
  BY <1>1, <1>2 DEF WCall
<1>4. Wizard!Answers(c, a) /\ started' = started /\ misfiled' = FALSE /\ logins' \subseteq logins
  BY <1>3 DEF Wizard!Refuses, WizardIInv
<1>5. QED
  BY <1>1, <1>2, <1>4, WizardAnswerKeeps

LEMMA AddsKeep ==
  ASSUME WizardIInv, NEW c \in reqs, c.st = "sent", c.kind \notin {"cancel", "msStart"}, ClientStays,
         NEW meant, Wizard!Adds(c, meant, meant)
  PROVE  WizardIInv'
<1>1. PICK a : a = [c EXCEPT !.st = "ok", !.got = TRUE]
  OBVIOUS
<1>2. Wizard!Answers(c, a) /\ started' = started /\ logins' = Wizard!Without(c.id)
  BY <1>1 DEF Wizard!Adds
<1>3. misfiled' = FALSE
  BY DEF Wizard!Adds, WizardIInv
<1>4. logins' \subseteq logins
  BY <1>2 DEF Wizard!Without
<1>5. QED
  BY <1>1, <1>2, <1>3, <1>4, WizardAnswerKeeps

\* A poll or a first leg that goes on, or an expired device code.
LEMMA GoesOnKeeps ==
  ASSUME WizardIInv, NEW c \in reqs, c.st = "sent", c.kind \notin {"cancel", "import"}, ClientStays,
         NEW st \in {"leg", "error"}, Wizard!Answers(c, [c EXCEPT !.st = st]), UNCHANGED <<started, misfiled>>,
         \/ logins' \subseteq logins
         \/ Wizard!Alive(c.id, {"kiro"}) /\ logins' = Wizard!Without(c.id) \cup {[id |-> c.id, leg |-> "microsoft"]}
  PROVE  WizardIInv'
<1>1. c \in WCall /\ c.got = FALSE
  BY AtServer DEF WCall
<1>2. PICK a : a = [c EXCEPT !.st = st, !.got = FALSE]
  OBVIOUS
<1>3. a = [c EXCEPT !.st = st]
  BY <1>1, <1>2 DEF WCall
<1>4. Wizard!Answers(c, a) /\ started' = started /\ misfiled' = FALSE
  BY <1>3 DEF WizardIInv
<1>5. QED
  BY <1>2, <1>4, WizardAnswerKeeps

LEMMA ServesKeep == WizardIInv /\ Wizard!Serve => WizardIInv'
<1> SUFFICES ASSUME WizardIInv, Wizard!Serve PROVE WizardIInv'
  OBVIOUS
<1>1. PICK c \in reqs : c.st = "sent" /\ (\/ Wizard!ServeMicrosoft(c) \/ Wizard!ServeIam(c) \/ Wizard!ServeBuilderId(c)
                                           \/ Wizard!ServeImport(c) \/ Wizard!ServeCancel(c))
  BY DEF Wizard!Serve
<1>2. ClientStays
  BY DEF Wizard!Serve, Wizard!uiVars, Wizard!ids, ClientStays
<1>3. CASE Wizard!ServeMicrosoft(c)
  <2>1. CASE c.kind = "msStart" /\ Wizard!Mints(c, "kiro")
    BY <1>1, <1>2, <2>1, MintsKeep DEF MintKinds, Wizard!Microsoft, OtherKinds
  <2>2. CASE c.kind \in MsKinds /\ Wizard!Refuses(c)
    BY <1>1, <1>2, <2>2, RefusesKeep DEF MsKinds
  <2>3. CASE /\ c.kind = "msComplete" /\ Wizard!Alive(c.id, {"kiro"})
             /\ logins' = Wizard!Without(c.id) \cup {[id |-> c.id, leg |-> "microsoft"]}
             /\ Wizard!Answers(c, [c EXCEPT !.st = "leg"]) /\ UNCHANGED <<started, misfiled>>
    BY <1>1, <1>2, <2>3, GoesOnKeeps
  <2>4. CASE c.kind \in {"msComplete", "msSelect"} /\ Wizard!Adds(c, "external_idp", "external_idp")
    BY <1>1, <1>2, <2>4, AddsKeep
  <2>5. CASE c.kind = "msComplete" /\ Wizard!Mints(c, "selection")
    BY <1>1, <1>2, <2>5, MintsKeep DEF MintKinds, Wizard!Microsoft, OtherKinds
  <2>6. QED
    BY <1>3, <2>1, <2>2, <2>3, <2>4, <2>5 DEF Wizard!ServeMicrosoft, MsKinds
<1>4. CASE Wizard!ServeIam(c)
  <2>1. CASE c.kind = "iamStart" /\ Wizard!Mints(c, "iam")
    BY <1>1, <1>2, <2>1, MintsKeep DEF MintKinds, Wizard!Microsoft, OtherKinds
  <2>2. CASE c.kind \in {"iamStart", "iamComplete"} /\ Wizard!Refuses(c)
    BY <1>1, <1>2, <2>2, RefusesKeep
  <2>3. CASE c.kind = "iamComplete" /\ Wizard!Adds(c, "idc", "idc")
    BY <1>1, <1>2, <2>3, AddsKeep
  <2>4. QED
    BY <1>4, <2>1, <2>2, <2>3 DEF Wizard!ServeIam
<1>5. CASE Wizard!ServeBuilderId(c)
  <2>1. CASE c.kind = "bldStart" /\ Wizard!Mints(c, "builder")
    BY <1>1, <1>2, <2>1, MintsKeep DEF MintKinds, Wizard!Microsoft, OtherKinds
  <2>2. CASE c.kind \in {"bldStart", "bldPoll"} /\ Wizard!Refuses(c)
    BY <1>1, <1>2, <2>2, RefusesKeep
  <2>3. CASE c.kind = "bldPoll" /\ Wizard!Answers(c, [c EXCEPT !.st = "leg"]) /\ UNCHANGED <<logins, started, misfiled>>
    BY <1>1, <1>2, <2>3, GoesOnKeeps
  <2>4. CASE c.kind = "bldPoll" /\ Wizard!Adds(c, "idc", "idc")
    BY <1>1, <1>2, <2>4, AddsKeep
  <2>5. CASE /\ c.kind = "bldPoll" /\ Wizard!Answers(c, [c EXCEPT !.st = "error"]) /\ logins' = Wizard!Without(c.id)
             /\ UNCHANGED <<started, misfiled>>
    <3>1. logins' \subseteq logins
      BY <2>5 DEF Wizard!Without
    <3>2. QED
      BY <1>1, <1>2, <2>5, <3>1, GoesOnKeeps
  <2>6. QED
    BY <1>5, <2>1, <2>2, <2>3, <2>4, <2>5 DEF Wizard!ServeBuilderId
<1>6. CASE Wizard!ServeImport(c)
  <2>1. CASE c.kind = "import" /\ Wizard!Refuses(c)
    BY <1>1, <1>2, <2>1, RefusesKeep
  <2>2. CASE c.kind = "import" /\ \E p \in Wizard!Outcomes : p[1] # "skip" /\ Wizard!Adds(c, p[1], p[2])
    <3>1. PICK p \in Wizard!Outcomes : p[1] # "skip" /\ Wizard!Adds(c, p[1], p[2])
      BY <2>2
    <3>2. PICK item \in Items : p = <<Wizard!MapCredential(item), Wizard!Filed(item)>>
      BY DEF Wizard!Outcomes
    <3>3. p[1] = p[2]
      BY <3>1, <3>2, FiledAsSent
    <3>4. Wizard!Adds(c, p[1], p[1])
      BY <3>1, <3>3
    <3>5. QED
      BY <1>1, <1>2, <2>2, <3>4, AddsKeep
  <2>3. QED
    BY <1>6, <2>1, <2>2 DEF Wizard!ServeImport
<1>7. CASE Wizard!ServeCancel(c)
  <2>1. /\ c.kind = "cancel" /\ logins' = {l \in logins : l.id # c.id} /\ reqs' = reqs \ {c}
        /\ UNCHANGED <<started, misfiled>>
    BY <1>7 DEF Wizard!ServeCancel, Wizard!Without
  <2>2. WizardType /\ StepHolds /\ OneWaits /\ c.new = 0
    BY <1>1, AtServer DEF WizardIInv
  <2>3. \A d \in reqs' : CallSound(d)' /\ CallFits(d)'
    BY <1>2, <2>1 DEF ClientStays, WizardIInv, CallSound, CallFits, Current, Closed
  <2>4. WizardType'
    BY <1>2, <2>1, <2>2 DEF ClientStays, WizardType
  <2>5. StepHolds' /\ OneWaits'
    BY <1>2, <2>1, <2>2 DEF ClientStays, StepHolds, OneWaits, Current, Closed
  <2>6. \A l \in logins : l.id # 0
    BY <2>2 DEF WizardType
  <2>7. Wizard!NoLoginLeaks' /\ ~misfiled'
    BY <1>2, <2>1, <2>2, <2>6 DEF ClientStays, WizardIInv, Wizard!NoLoginLeaks
  <2>8. QED
    BY <2>3, <2>4, <2>5, <2>7 DEF WizardIInv
<1>8. QED
  BY <1>1, <1>3, <1>4, <1>5, <1>6, <1>7

\* The network loses a request or an answer.
LEMMA LoseKeeps == WizardIInv /\ Wizard!Lose => WizardIInv'
<1> SUFFICES ASSUME WizardIInv, Wizard!Lose PROVE WizardIInv'
  OBVIOUS
<1>1. /\ lost < MaxLost /\ lost' = lost + 1
      /\ UNCHANGED <<open, method, stage, pending, gen, ms, chosen, bld, iam, timer, logins, started, misfiled>>
  BY DEF Wizard!Lose, Wizard!uiVars, Wizard!ids, Wizard!srvVars
<1>2. PICK c \in reqs :
        /\ orphan' = (orphan \cup {c.new} \cup (IF c.kind = "cancel" THEN {c.id} ELSE {})) \ {0}
        /\ reqs' = (reqs \ {c}) \cup (IF c.kind = "cancel" THEN {} ELSE {[c EXCEPT !.st = "down", !.new = 0]})
  BY DEF Wizard!Lose, Wizard!None
<1>3. WizardType /\ StepHolds /\ OneWaits /\ CallSound(c) /\ CallFits(c) /\ c \in WCall
  BY DEF WizardIInv, WizardType
<1>4. PICK a : a = [c EXCEPT !.st = "down", !.new = 0]
  OBVIOUS
<1>5. /\ a \in WCall /\ a.kind = c.kind /\ a.gen = c.gen /\ a.id = c.id /\ a.st = "down" /\ a.new = 0
      /\ a.got = c.got
  <2>1. 0 \in Ids0
    BY <1>3 DEF WizardType, WizardBounds, Ids0
  <2>2. a \in WCall
    BY <1>3, <1>4, <2>1 DEF WCall
  <2>3. a.kind = c.kind /\ a.gen = c.gen /\ a.id = c.id /\ a.st = "down" /\ a.new = 0
    BY <1>3, <1>4 DEF WCall
  <2>4. a.got = c.got
    BY <1>3, <1>4 DEF WCall
  <2>5. QED
    BY <2>2, <2>3, <2>4
<1>6. reqs' \subseteq (reqs \ {c}) \cup {a} /\ (c.kind # "cancel" => a \in reqs') /\ reqs \ {c} \subseteq reqs'
      /\ (c.kind = "cancel" => reqs' = reqs \ {c})
  BY <1>2, <1>4
<1>7. \A d \in reqs \ {c} : CallSound(d)' /\ CallFits(d)'
  BY <1>1 DEF WizardIInv, CallSound, CallFits, Current, Closed
<1>8. c.kind # "cancel" => CallSound(a)' /\ CallFits(a)'
  <2>1. a.gen <= gen' /\ a.id <= started' /\ a.new <= started'
    BY <1>1, <1>3, <1>5 DEF CallSound, WizardType, Ids0, WizardBounds
  <2>2. CallFits(a)'
    BY <1>1, <1>3, <1>5 DEF CallFits, Current
  <2>3. QED
    BY <1>1, <1>3, <1>5, <2>1, <2>2 DEF CallSound, Closed
<1>9. WizardType'
  <2>1. orphan' \subseteq Wizard!Id /\ reqs' \subseteq WCall
    BY <1>2, <1>3, <1>5, <1>6 DEF WizardType, WCall, Ids0, Wizard!Id, WizardBounds
  <2>2. lost' \in 0 .. MaxLost
    BY <1>1, <1>3 DEF WizardType, WizardBounds
  <2>3. QED
    BY <1>1, <1>3, <2>1, <2>2 DEF WizardType
<1>10. StepHolds'
  BY <1>1, <1>3 DEF StepHolds, Closed
<1>11. OneWaits'
  BY <1>1, <1>3, <1>5, <1>6 DEF OneWaits, Current
<1>12. Wizard!NoLoginLeaks'
  <2>1. \A l \in logins : l.id # 0
    BY <1>3 DEF WizardType
  <2> SUFFICES ASSUME NEW l \in logins, l.leg \in Wizard!Microsoft
               PROVE  \/ l.id \in {ms, chosen} \cup orphan'
                      \/ \E d \in reqs' : l.id = d.new \/ (d.kind = "cancel" /\ l.id = d.id)
    BY <1>1 DEF Wizard!NoLoginLeaks
  <2>2. \/ l.id \in {ms, chosen} \cup orphan
        \/ \E d \in reqs : l.id = d.new \/ (d.kind = "cancel" /\ l.id = d.id)
    BY DEF WizardIInv, Wizard!NoLoginLeaks
  <2>3. QED
    BY <1>2, <1>6, <2>1, <2>2
<1>13. QED
  BY <1>1, <1>6, <1>7, <1>8, <1>9, <1>10, <1>11, <1>12 DEF WizardIInv

-----------------------------------------------------------------------------
Stages == {"idle", "kiro", "microsoft", "profile", "started", "code"}

\* The request under way is answered and its flow goes on or fails.
LEMMA DoneKeeps ==
  ASSUME WizardIInv, NEW c \in reqs, Current(c), reqs' = reqs \ {c},
         UNCHANGED <<open, method, gen, logins, started, misfiled, orphan, lost>>,
         stage' \in Stages, pending' \in BOOLEAN, pending' => pending,
         ms' \in 0 .. started, chosen' \in 0 .. started, bld' \in 0 .. started, iam' \in 0 .. started,
         \/ timer' = Wizard!NoTimer
         \/ timer' \in [gen : {gen}, tries : 0 .. 3] /\ method = "builderid" /\ stage' = "code",
         method # "microsoft" \/ stage' = "idle" => ms' = 0 /\ chosen' = 0,
         stage' # "profile" => chosen' = 0, stage' = "profile" => Closed(ms'),
         \A l \in logins : l.leg \in Wizard!Microsoft /\ l.id \in {ms, chosen, c.new} => l.id \in {ms', chosen'}
  PROVE  WizardIInv'
<1>0. WizardType /\ StepHolds /\ OneWaits /\ gen' \in 0 .. MaxGen /\ gen <= gen' /\ MaxGen \in Nat
  BY DEF WizardIInv, WizardType, WizardBounds
<1>1. \A d \in reqs' : d \in WCall /\ CallSound(d)'
  BY <1>0, SoundKept
<1>2. \A d \in reqs' : ~Current(d)'
  BY <1>0 DEF OneWaits, Current
<1>3. timer' \in [gen : 0 .. MaxGen + 1, tries : 0 .. 3] /\ (timer' # Wizard!NoTimer => timer'.gen = gen)
  BY <1>0 DEF Wizard!NoTimer
<1>4. WizardType'
  <2>1. reqs' \subseteq WCall
    BY <1>1
  <2>2. QED
    BY <1>0, <1>3, <2>1 DEF WizardType, Stages
<1>5. StepHolds'
  BY <1>0 DEF StepHolds, Closed
<1>6. OneWaits'
  BY <1>2, <1>3 DEF OneWaits
<1>7. Wizard!NoLoginLeaks' /\ ~misfiled'
  <2>1. c.kind # "cancel"
    BY DEF Current
  <2>2. QED
    BY <2>1 DEF WizardIInv, Wizard!NoLoginLeaks
<1>8. QED
  BY <1>1, <1>2, <1>4, <1>5, <1>6, <1>7 DEF WizardIInv, CallFits

\* An answer that outlived its visit is dropped, and the login it announces cancelled.
LEMMA DropKeeps ==
  ASSUME WizardIInv, NEW c \in reqs, ~Current(c), c.kind # "cancel", NEW cancels, reqs' = (reqs \ {c}) \cup cancels,
         \A d \in cancels : IsCancel(d),
         UNCHANGED <<open, method, stage, pending, gen, ms, chosen, bld, iam, timer, logins, started, misfiled, orphan, lost>>,
         \A l \in logins : l.leg \in Wizard!Microsoft /\ l.id = c.new => \E d \in cancels : d.id = l.id
  PROVE  WizardIInv'
<1>0. WizardType /\ StepHolds /\ OneWaits /\ gen' \in 0 .. MaxGen /\ gen <= gen'
  BY DEF WizardIInv, WizardType, WizardBounds
<1>1. \A d \in reqs' : d \in WCall /\ CallSound(d)'
  BY <1>0, SoundKept
<1>2. \A d \in reqs' : Current(d)' => d \in reqs /\ Current(d)
  BY DEF Current, IsCancel
<1>3. \A d \in reqs' : CallFits(d)'
  BY <1>2 DEF WizardIInv, CallFits
<1>4. WizardType'
  <2>1. reqs' \subseteq WCall
    BY <1>1
  <2>2. QED
    BY <1>0, <2>1 DEF WizardType
<1>5. StepHolds'
  BY <1>0 DEF StepHolds, Closed
<1>6. OneWaits'
  BY <1>0, <1>2 DEF OneWaits
<1>7. \A d \in cancels : d.kind = "cancel"
  BY DEF IsCancel
<1>8. Wizard!NoLoginLeaks' /\ ~misfiled'
  <2> SUFFICES ASSUME NEW l \in logins, l.leg \in Wizard!Microsoft
               PROVE  \/ l.id \in {ms, chosen} \cup orphan
                      \/ \E d \in reqs' : l.id = d.new \/ (d.kind = "cancel" /\ l.id = d.id)
    BY DEF Wizard!NoLoginLeaks, WizardIInv
  <2>1. \/ l.id \in {ms, chosen} \cup orphan
        \/ \E d \in reqs : l.id = d.new \/ (d.kind = "cancel" /\ l.id = d.id)
    BY DEF WizardIInv, Wizard!NoLoginLeaks
  <2>2. CASE l.id = c.new
    BY <1>7, <2>2
  <2>3. CASE l.id # c.new
    BY <2>1, <2>3
  <2>4. QED
    BY <2>2, <2>3
<1>9. QED
  BY <1>1, <1>3, <1>4, <1>5, <1>6, <1>8 DEF WizardIInv

\* What the invariant says of an answer.
LEMMA AtClient ==
  ASSUME WizardIInv, NEW c \in reqs, c.st # "sent"
  PROVE  /\ c \in WCall /\ c.new \in 0 .. started /\ CallSound(c) /\ CallFits(c) /\ StepHolds
         /\ c.kind # "cancel" /\ (c.gen = gen => Current(c)) /\ (Current(c) => timer = Wizard!NoTimer)
         /\ ms \in 0 .. started /\ chosen \in 0 .. started /\ bld \in 0 .. started /\ iam \in 0 .. started
         /\ 0 \in 0 .. started /\ stage \in Stages /\ pending \in BOOLEAN
         /\ \A l \in logins : l.id # 0
         /\ c.kind \in OtherKinds => \A l \in logins : l.leg \in Wizard!Microsoft => l.id # c.new
         /\ Current(c) /\ c.kind \in OtherKinds => method # "microsoft" /\ ms = 0 /\ chosen = 0
<1>1. WizardType /\ CallSound(c) /\ CallFits(c) /\ StepHolds /\ OneWaits /\ c \in WCall
  BY DEF WizardIInv, WizardType
<1>2. c.kind # "cancel" /\ c.new \in 0 .. started
  BY <1>1 DEF CallSound, WizardType, WCall, Ids0
<1>3. (c.gen = gen => Current(c)) /\ (Current(c) => timer = Wizard!NoTimer)
  BY <1>1, <1>2 DEF Current, OneWaits
<1>4. \A l \in logins : l.id # 0
  BY <1>1 DEF WizardType
<1>5. c.kind \in OtherKinds => \A l \in logins : l.leg \in Wizard!Microsoft => l.id # c.new
  BY <1>1, <1>4 DEF CallSound
<1>6. Current(c) /\ c.kind \in OtherKinds => method # "microsoft" /\ ms = 0 /\ chosen = 0
  BY <1>1 DEF CallFits, StepHolds
<1>7. /\ ms \in 0 .. started /\ chosen \in 0 .. started /\ bld \in 0 .. started /\ iam \in 0 .. started
      /\ 0 \in 0 .. started /\ stage \in Stages /\ pending \in BOOLEAN
  BY <1>1 DEF WizardType, Stages, Ids0
<1>8. QED
  BY <1>1, <1>2, <1>3, <1>4, <1>5, <1>6, <1>7

ServerStays == UNCHANGED <<logins, started, misfiled, orphan, lost>>

LEMMA MicrosoftKeeps ==
  ASSUME WizardIInv, NEW c \in reqs, c.st # "sent", Wizard!MicrosoftAnswered(c), ServerStays
  PROVE  WizardIInv'
<1>0. /\ c \in WCall /\ c.new \in 0 .. started /\ CallSound(c) /\ CallFits(c) /\ StepHolds
      /\ (c.gen = gen => Current(c)) /\ (Current(c) => timer = Wizard!NoTimer)
      /\ ms \in 0 .. started /\ chosen \in 0 .. started /\ bld \in 0 .. started /\ iam \in 0 .. started
      /\ 0 \in 0 .. started /\ \A l \in logins : l.id # 0
  BY AtClient
<1>1. c.kind \in MsKinds /\ Current(c) /\ timer = Wizard!NoTimer
  BY <1>0 DEF Wizard!MicrosoftAnswered, Wizard!Ends, MsKinds
<1>2. CASE c.got /\ Wizard!FinishAdd(reqs \ {c})
  BY <1>1, <1>2, FinishKeeps DEF ServerStays
<1>3. CASE c.kind = "msStart" /\ ms' = c.new /\ Wizard!Step(c, "kiro") /\ UNCHANGED <<chosen, bld, iam, timer>>
  <2>1. reqs' = reqs \ {c} /\ stage' = "kiro" /\ pending' = FALSE /\ UNCHANGED <<open, method, gen>>
    BY <1>3 DEF Wizard!Step
  <2>2. method = "microsoft" /\ ms = 0 /\ chosen = 0
    BY <1>0, <1>1, <1>3 DEF CallFits, StepHolds
  <2>3. QED
    BY <1>0, <1>1, <1>3, <2>1, <2>2, DoneKeeps DEF ServerStays, Stages
<1>4. CASE c.kind = "msComplete" /\ c.st = "leg" /\ Wizard!Step(c, "microsoft") /\ UNCHANGED <<Wizard!ids, timer>>
  <2>1. reqs' = reqs \ {c} /\ stage' = "microsoft" /\ pending' = FALSE
        /\ UNCHANGED <<open, method, gen, ms, chosen, bld, iam>>
    BY <1>4 DEF Wizard!Step, Wizard!ids
  <2>2. method = "microsoft" /\ chosen = 0 /\ c.new = 0
    BY <1>0, <1>1, <1>4 DEF CallFits, StepHolds, CallSound
  <2>3. QED
    BY <1>0, <1>1, <1>4, <2>1, <2>2, DoneKeeps DEF ServerStays, Stages
<1>5. CASE /\ c.kind = "msComplete" /\ c.new # 0 /\ chosen' = c.new /\ Wizard!Step(c, "profile")
           /\ UNCHANGED <<ms, bld, iam, timer>>
  <2>1. reqs' = reqs \ {c} /\ stage' = "profile" /\ pending' = FALSE /\ UNCHANGED <<open, method, gen>>
    BY <1>5 DEF Wizard!Step
  <2>2. method = "microsoft" /\ chosen = 0 /\ Closed(ms)
    BY <1>0, <1>1, <1>5 DEF CallFits, StepHolds, CallSound
  <2>3. \A l \in logins : l.id \in {ms, chosen, c.new} => l.id = c.new
    BY <1>0, <2>2 DEF Closed
  <2>4. Closed(ms')
    BY <1>5, <2>2
  <2>5. QED
    BY <1>0, <1>1, <1>5, <2>1, <2>2, <2>3, <2>4, DoneKeeps DEF ServerStays, Stages
<1>6. QED
  BY <1>2, <1>3, <1>4, <1>5 DEF Wizard!MicrosoftAnswered, Wizard!None

\* A step of another flow: the dialog holds no Microsoft login.
LEMMA OtherStepKeeps ==
  ASSUME WizardIInv, NEW c \in reqs, c.st # "sent", ServerStays, Current(c), c.kind \in OtherKinds,
         reqs' = reqs \ {c}, UNCHANGED <<open, method, gen, ms, chosen>>,
         stage' \in Stages \ {"profile"}, pending' \in BOOLEAN, pending' => pending,
         bld' \in {0, bld, c.new}, iam' \in {iam, c.new},
         \/ timer' = Wizard!NoTimer
         \/ timer' \in [gen : {gen}, tries : 0 .. 3] /\ method = "builderid" /\ stage' = "code"
  PROVE  WizardIInv'
<1>1. /\ c.new \in 0 .. started /\ method # "microsoft" /\ ms = 0 /\ chosen = 0
      /\ bld \in 0 .. started /\ iam \in 0 .. started /\ 0 \in 0 .. started
      /\ \A l \in logins : l.id # 0
      /\ \A l \in logins : l.leg \in Wizard!Microsoft => l.id # c.new
  BY AtClient
<1>2. \A l \in logins : ~(l.leg \in Wizard!Microsoft /\ l.id \in {ms, chosen, c.new})
  BY <1>1
<1>3. QED
  BY <1>1, <1>2, DoneKeeps DEF ServerStays

LEMMA IamKeeps ==
  ASSUME WizardIInv, NEW c \in reqs, c.st # "sent", Wizard!IamAnswered(c), ServerStays
  PROVE  WizardIInv'
<1>0. (c.gen = gen => Current(c)) /\ (Current(c) => timer = Wizard!NoTimer)
  BY AtClient
<1>1. c.kind \in OtherKinds /\ Current(c) /\ timer = Wizard!NoTimer
  BY <1>0 DEF Wizard!IamAnswered, Wizard!Ends, OtherKinds
<1>2. CASE c.got /\ Wizard!FinishAdd(reqs \ {c})
  BY <1>1, <1>2, FinishKeeps DEF ServerStays
<1>3. CASE iam' = c.new /\ Wizard!Step(c, "started") /\ UNCHANGED <<ms, chosen, bld, timer>>
  <2>1. reqs' = reqs \ {c} /\ stage' = "started" /\ pending' = FALSE /\ UNCHANGED <<open, method, gen>>
    BY <1>3 DEF Wizard!Step
  <2>2. QED
    BY <1>1, <1>3, <2>1, OtherStepKeeps DEF Stages
<1>4. QED
  BY <1>2, <1>3 DEF Wizard!IamAnswered

LEMMA BuilderIdKeeps ==
  ASSUME WizardIInv, NEW c \in reqs, c.st # "sent", Wizard!BuilderIdAnswered(c), ServerStays
  PROVE  WizardIInv'
<1>0. /\ c \in WCall /\ CallSound(c) /\ CallFits(c) /\ c.kind # "cancel" /\ stage \in Stages /\ pending \in BOOLEAN
      /\ (c.gen = gen => Current(c)) /\ (Current(c) => timer = Wizard!NoTimer)
  BY AtClient
<1>1. c.kind \in OtherKinds
  BY DEF Wizard!BuilderIdAnswered, OtherKinds
<1>2. CASE /\ c.kind = "bldStart" /\ bld' = c.new /\ Wizard!Step(c, "code")
           /\ timer' = [gen |-> gen, tries |-> 0] /\ UNCHANGED <<ms, chosen, iam>>
  <2>1. reqs' = reqs \ {c} /\ stage' = "code" /\ pending' = FALSE /\ UNCHANGED <<open, method, gen>>
    BY <1>2 DEF Wizard!Step
  <2>2. Current(c) /\ method = "builderid"
    BY <1>0, <1>2 DEF Wizard!BuilderIdAnswered, Wizard!Ends, CallFits
  <2>3. timer' \in [gen : {gen}, tries : 0 .. 3]
    BY <1>2
  <2>4. QED
    BY <1>1, <1>2, <2>1, <2>2, <2>3, OtherStepKeeps DEF Stages
<1>3. CASE /\ c.kind = "bldPoll" /\ (c.gen # gen \/ bld # c.id) /\ reqs' = reqs \ {c}
           /\ UNCHANGED <<Wizard!uiVars, gen, Wizard!ids, timer>>
  <2>1. UNCHANGED <<open, method, stage, pending, gen, ms, chosen, bld, iam, timer>> /\ c.new = 0
    BY <1>0, <1>3 DEF Wizard!uiVars, Wizard!ids, CallSound, MintKinds
  <2>2. CASE Current(c)
    <3>1. stage # "profile" /\ timer' = Wizard!NoTimer
      BY <1>0, <1>3, <2>1, <2>2 DEF CallFits
    <3>2. QED
      BY <1>0, <1>1, <1>3, <2>1, <2>2, <3>1, OtherStepKeeps
  <2>3. CASE ~Current(c)
    <3>1. \A l \in logins : l.id # c.new
      BY <2>1, AtClient
    <3>2. PICK cancels : cancels = {}
      OBVIOUS
    <3>3. reqs' = (reqs \ {c}) \cup cancels /\ \A d \in cancels : IsCancel(d)
      BY <1>3, <3>2
    <3>4. QED
      BY <1>0, <2>1, <2>3, <3>1, <3>3, DropKeeps DEF ServerStays
  <2>4. QED
    BY <2>2, <2>3
<1>4. CASE c.kind = "bldPoll" /\ c.gen = gen /\ bld = c.id
  <2>0. Current(c) /\ method = "builderid" /\ stage = "code"
    BY <1>0, <1>4 DEF CallFits
  <2>1. CASE c.got /\ Wizard!FinishAdd(reqs \ {c})
    BY <2>0, <2>1, FinishKeeps DEF ServerStays
  <2>2. CASE /\ c.st = "leg" \/ (c.st = "down" /\ c.tries < Wizard!Retries)
             /\ timer' = [gen |-> gen, tries |-> IF c.st = "leg" THEN 0 ELSE c.tries + 1]
             /\ reqs' = reqs \ {c} /\ UNCHANGED <<Wizard!uiVars, gen, Wizard!ids>>
    <3>1. UNCHANGED <<open, method, stage, pending, gen, ms, chosen, bld, iam>>
      BY <2>2 DEF Wizard!uiVars, Wizard!ids
    <3>2. timer' \in [gen : {gen}, tries : 0 .. 3]
      BY <1>0, <2>2 DEF WCall, Wizard!Retries
    <3>3. stage' \in Stages \ {"profile"} /\ stage' = "code" /\ pending' \in BOOLEAN /\ (pending' => pending)
      BY <1>0, <2>0, <3>1
    <3>4. QED
      BY <1>1, <2>0, <2>2, <3>1, <3>2, <3>3, OtherStepKeeps
  <2>3. CASE bld' = 0 /\ timer' = Wizard!NoTimer /\ Wizard!Step(c, "idle") /\ UNCHANGED <<ms, chosen, iam>>
    <3>1. reqs' = reqs \ {c} /\ stage' = "idle" /\ pending' = FALSE /\ UNCHANGED <<open, method, gen>>
      BY <2>3 DEF Wizard!Step
    <3>2. QED
      BY <1>1, <2>0, <2>3, <3>1, OtherStepKeeps DEF Stages
  <2>4. QED
    BY <1>2, <1>3, <1>4, <2>1, <2>2, <2>3 DEF Wizard!BuilderIdAnswered, Wizard!None
<1>5. QED
  BY <1>2, <1>3, <1>4 DEF Wizard!BuilderIdAnswered, Wizard!None

LEMMA ImportKeeps ==
  ASSUME WizardIInv, NEW c \in reqs, c.st # "sent", Wizard!ImportAnswered(c), ServerStays
  PROVE  WizardIInv'
<1>0. /\ c \in WCall /\ CallSound(c) /\ CallFits(c) /\ StepHolds
      /\ c.kind = "import" /\ c.gen = gen /\ Current(c) /\ timer = Wizard!NoTimer
  BY AtClient DEF Wizard!ImportAnswered
<1>1. c.kind \in OtherKinds
  BY <1>0 DEF OtherKinds
<1>2. CASE c.got /\ Wizard!FinishAdd(reqs \ {c})
  BY <1>0, <1>2, FinishKeeps DEF ServerStays
<1>3. CASE Wizard!Step(c, "idle") /\ UNCHANGED <<Wizard!ids, timer>>
  <2>1. /\ reqs' = reqs \ {c} /\ stage' = "idle" /\ pending' = FALSE
        /\ UNCHANGED <<open, method, gen, ms, chosen, bld, iam>>
    BY <1>3 DEF Wizard!Step, Wizard!ids
  <2>2. QED
    BY <1>0, <1>1, <1>3, <2>1, OtherStepKeeps DEF Stages
<1>4. CASE /\ c.left > 1 /\ reqs' = (reqs \ {c}) \cup {[c EXCEPT !.left = c.left - 1, !.st = "sent"]}
           /\ UNCHANGED <<Wizard!uiVars, gen, Wizard!ids, timer>>
  <2>1. UNCHANGED <<open, method, stage, pending, gen, ms, chosen, bld, iam, timer, logins, started, misfiled, orphan, lost>>
    BY <1>4 DEF Wizard!uiVars, Wizard!ids, ServerStays
  <2>2. PICK a : a = [c EXCEPT !.left = c.left - 1, !.st = "sent"]
    OBVIOUS
  <2>3. WizardType /\ OneWaits /\ MaxBatch \in Nat /\ gen' \in 0 .. MaxGen /\ gen <= gen'
    BY <2>1 DEF WizardIInv, WizardType, WizardBounds
  <2>4. a.kind = "import" /\ a.gen = c.gen /\ a.id = c.id /\ a.new = c.new
    BY <1>0, <2>2 DEF WCall
  <2>5. a \in WCall
    <3>1. c.left - 1 \in 0 .. MaxBatch
      BY <1>0, <1>4, <2>3 DEF WCall
    <3>2. QED
      BY <1>0, <2>2, <3>1 DEF WCall
  <2>6. c.new = 0
    BY <1>0 DEF CallSound, MintKinds
  <2>7. CallSound(a)' /\ CallFits(a)'
    BY <1>0, <2>1, <2>4, <2>6 DEF CallSound, CallFits, Current, OtherKinds
  <2>8. \A d \in reqs \ {c} : d \in WCall /\ CallSound(d)' /\ CallFits(d)'
    BY <2>1, <2>3, SoundKept DEF WizardIInv, CallFits, Current
  <2>9. reqs' = (reqs \ {c}) \cup {a}
    BY <1>4, <2>2
  <2>10. WizardType'
    <3>1. reqs' \subseteq WCall
      BY <2>5, <2>8, <2>9
    <3>2. QED
      BY <2>1, <2>3, <3>1 DEF WizardType
  <2>11. StepHolds' /\ OneWaits'
    BY <1>0, <2>1, <2>3, <2>4, <2>9 DEF StepHolds, OneWaits, Current, Closed
  <2>12. \A l \in logins : l.id # 0
    BY <2>3 DEF WizardType
  <2>13. Wizard!NoLoginLeaks' /\ ~misfiled'
    BY <1>0, <2>1, <2>6, <2>9, <2>12 DEF WizardIInv, Wizard!NoLoginLeaks
  <2>14. QED
    BY <2>7, <2>8, <2>9, <2>10, <2>11, <2>13 DEF WizardIInv
<1>5. QED
  BY <1>2, <1>3, <1>4 DEF Wizard!ImportAnswered

LEMMA NothingKeeps ==
  ASSUME WizardIInv, NEW c \in reqs, c.st # "sent", Wizard!NothingCame(c), ServerStays
  PROVE  WizardIInv'
<1>0. /\ c \in WCall /\ c.new \in 0 .. started /\ CallSound(c) /\ CallFits(c) /\ StepHolds
      /\ c.kind # "cancel" /\ (c.gen = gen => Current(c)) /\ (Current(c) => timer = Wizard!NoTimer)
      /\ ms \in 0 .. started /\ chosen \in 0 .. started /\ bld \in 0 .. started /\ iam \in 0 .. started
      /\ stage \in Stages /\ pending \in BOOLEAN /\ \A l \in logins : l.id # 0
      /\ c.kind \in OtherKinds => \A l \in logins : l.leg \in Wizard!Microsoft => l.id # c.new
  BY AtClient
<1>1. UNCHANGED <<open, method, stage, gen, ms, chosen, bld, iam, timer>>
  BY DEF Wizard!NothingCame, Wizard!ids
<1>2. CASE c.gen = gen
  <2>1. reqs' = reqs \ {c} /\ pending' = FALSE /\ c.st \in {"error", "down"}
    BY <1>2 DEF Wizard!NothingCame, Wizard!Ends
  <2>2. c.new = 0
    BY <1>0, <2>1 DEF CallSound
  <2>3. /\ method # "microsoft" \/ stage = "idle" => ms = 0 /\ chosen = 0
        /\ stage # "profile" => chosen = 0
        /\ stage = "profile" => Closed(ms)
    BY <1>0 DEF StepHolds
  <2>4. stage' = "profile" => Closed(ms')
    BY <1>1, <2>3
  <2>5. \A l \in logins : l.id \in {ms, chosen, c.new} => l.id \in {ms', chosen'}
    BY <1>0, <1>1, <2>2
  <2>6. QED
    BY <1>0, <1>1, <1>2, <2>1, <2>3, <2>4, <2>5, DoneKeeps DEF ServerStays
<1>3. CASE c.gen # gen
  <2>1. reqs' = (reqs \ {c}) \cup Wizard!Late(c) /\ ~Current(c)
    BY <1>3 DEF Wizard!NothingCame, Current
  <2>2. pending' = pending
    BY <1>0, <1>3 DEF Wizard!NothingCame
  <2>3. WizardType /\ {c.new} \in SUBSET (0 .. started)
    BY <1>0 DEF WizardIInv
  <2>4. /\ \A d \in Wizard!CancelOf({c.new}) : IsCancel(d)
        /\ \A i \in {c.new} \ {0} : \E d \in Wizard!CancelOf({c.new}) : d.kind = "cancel" /\ d.id = i
    BY <2>3, CancelCalls
  <2>5. CASE c.kind \in {"msStart", "msComplete"}
    <3>1. Wizard!Late(c) = Wizard!CancelOf({c.new})
      BY <2>5 DEF Wizard!Late
    <3>2. \A l \in logins : l.leg \in Wizard!Microsoft /\ l.id = c.new => \E d \in Wizard!Late(c) : d.id = l.id
      BY <1>0, <2>4, <3>1
    <3>3. \A d \in Wizard!Late(c) : IsCancel(d)
      BY <2>4, <3>1
    <3>4. QED
      BY <1>0, <1>1, <2>1, <2>2, <3>2, <3>3, DropKeeps DEF ServerStays
  <2>6. CASE c.kind \notin {"msStart", "msComplete"}
    <3>1. Wizard!Late(c) = {}
      BY <2>6 DEF Wizard!Late
    <3>2. \A l \in logins : l.leg \in Wizard!Microsoft => l.id # c.new
      <4>1. c.new # 0 => c.kind \in OtherKinds
        BY <1>0, <2>6 DEF CallSound, MintKinds, OtherKinds
      <4>2. QED
        BY <1>0, <4>1
    <3>3. QED
      BY <1>0, <1>1, <2>1, <2>2, <3>1, <3>2, DropKeeps DEF ServerStays
  <2>7. QED
    BY <2>5, <2>6
<1>4. QED
  BY <1>2, <1>3

LEMMA WizardInductive == WizardBounds /\ Wizard!Spec => []WizardIInv
<1>1. WizardIInv /\ [Wizard!Next]_Wizard!vars => WizardIInv'
  <2> SUFFICES ASSUME WizardIInv, [Wizard!Next]_Wizard!vars PROVE WizardIInv'
    OBVIOUS
  <2>1. CASE UNCHANGED Wizard!vars
    <3>1. UNCHANGED <<open, method, stage, pending, gen, ms, chosen, bld, iam, timer, reqs, logins, started, misfiled,
                      orphan, lost>>
      BY <2>1 DEF Wizard!vars, Wizard!uiVars, Wizard!ids, Wizard!srvVars
    <3>2. WizardType' /\ StepHolds' /\ OneWaits'
      BY <3>1 DEF WizardIInv, WizardType, StepHolds, OneWaits, Current, Closed
    <3>3. \A c \in reqs' : CallSound(c)' /\ CallFits(c)'
      BY <3>1 DEF WizardIInv, CallSound, CallFits, Current, Closed
    <3>4. Wizard!NoLoginLeaks' /\ ~misfiled'
      BY <3>1 DEF WizardIInv, Wizard!NoLoginLeaks
    <3>5. QED
      BY <3>2, <3>3, <3>4 DEF WizardIInv
  <2>2. CASE Wizard!Receive
    <3>1. PICK c \in reqs : c.st # "sent" /\ (\/ Wizard!MicrosoftAnswered(c) \/ Wizard!IamAnswered(c) \/ Wizard!BuilderIdAnswered(c)
                                               \/ Wizard!ImportAnswered(c) \/ Wizard!NothingCame(c))
      BY <2>2 DEF Wizard!Receive
    <3>2. ServerStays
      BY <2>2 DEF Wizard!Receive, Wizard!srvVars, ServerStays
    <3>3. QED
      BY <3>1, <3>2, MicrosoftKeeps, IamKeeps, BuilderIdKeeps, ImportKeeps, NothingKeeps
  <2>3. QED
    BY <2>1, <2>2, VisitKeeps, SubmitsKeep, PollKeeps, ServesKeep, LoseKeeps DEF Wizard!Next
<1>2. QED
  BY <1>1, WizardStarts, PTL DEF Wizard!Spec

\* For any bounds, pasted credentials and order of visits, answers and losses:
\* no Microsoft login is left open on the server, a flow has one request or
\* poll under way, and an account is filed under the method it was sent as
\* (flow-sessions.ts, microsoft-flow.tsx, builder-id-flow.tsx,
\* credentials-mapping.ts).
THEOREM WizardLeavesNoLogin == WizardBounds /\ ConsoleSpec => []WizardKeepsItsLogins
<1>1. WizardIInv => Wizard!WizardKeepsItsLogins
  <2> SUFFICES ASSUME WizardIInv PROVE Wizard!OneAtATime
    BY DEF WizardIInv, Wizard!WizardKeepsItsLogins
  <2>1. Wizard!TypeOK
    BY DEF WizardIInv, WizardType, WizardBounds, Ids0, Wizard!TypeOK, Wizard!Id, Wizard!None
  <2> DEFINE cur == {c \in reqs : c.kind # "cancel" /\ c.gen = gen}
  <2>2. \A c, d \in cur : c = d
    BY DEF WizardIInv, OneWaits, Current
  <2>3. timer # Wizard!NoTimer => cur = {}
    BY DEF WizardIInv, OneWaits, Current
  <2>4. cur = {} \/ \E c : cur = {c}
    BY <2>2
  <2>5. PICK n : n = Cardinality(cur) + (IF timer = Wizard!NoTimer THEN 0 ELSE 1)
    OBVIOUS
  <2>6. n <= 1
    <3> HIDE DEF cur
    <3>1. CASE cur = {}
      BY <2>5, <3>1, FS_EmptySet
    <3>2. CASE cur # {}
      <4>1. Cardinality(cur) = 1
        BY <2>4, <3>2, FS_Singleton
      <4>2. QED
        BY <2>3, <2>5, <3>2, <4>1
    <3>3. QED
      BY <3>1, <3>2
  <2>7. Wizard!Cardinality(cur) = Cardinality(cur)
    BY Zenon DEF Wizard!Cardinality, Cardinality
  <2>8. QED
    BY <2>1, <2>5, <2>6, <2>7, Zenon DEF Wizard!OneAtATime, WizardIInv
<1>2. ~(which = "wizard") \/ WizardIInv => WizardKeepsItsLogins
  BY <1>1 DEF WizardKeepsItsLogins
<1>3. QED
  BY <1>2, WizardInductive, WizardRuns, PTL
=============================================================================
