---------------------------- MODULE OutboundProxy ----------------------------
(***************************************************************************)
(* The outbound-proxy card: the saved route, the dialog that edits it and   *)
(* the conversion between the form and the proxy URL.  A text is a sequence *)
(* of tokens: "n" a plain run of characters, ":", "@", "/" and "[" "]" the  *)
(* characters the URL gives a meaning, "%:" and so on their escaped forms.  *)
(***************************************************************************)
EXTENDS Naturals, Sequences, SequencesExt, FiniteSetsExt

CONSTANTS Users,   \* texts for a user name
          Secrets, \* texts for a password
          Hosts,   \* texts for a host
          MaxOpens \* bound: openings of the dialog

Scheme == {"socks5", "socks5h", "http", "https"}
TypeOf(scheme) == IF scheme \in {"socks5", "socks5h"} THEN "socks5" ELSE "http"
Direct == [type |-> "none", scheme |-> "socks5", host |-> <<>>, port |-> <<>>, user |-> <<>>, pass |-> <<>>]

\* encodeURIComponent and its inverse, token by token.
Special == {":", "@", "/"}
Escaped == [t \in Special |-> CASE t = ":" -> "%:" [] t = "@" -> "%@" [] OTHER -> "%/"]
Encode(text) == [i \in DOMAIN text |-> IF text[i] \in Special THEN Escaped[text[i]] ELSE text[i]]
Plain(t) == IF \E s \in Special : Escaped[s] = t THEN CHOOSE s \in Special : Escaped[s] = t ELSE t
Decode(text) == [i \in DOMAIN text |-> Plain(text[i])]

SchemeForType(type, current) == IF TypeOf(current) = type THEN current ELSE type

\* Faulty variant: the credentials are joined as they were typed.
AuthRaw(user, pass) ==
  IF user = <<>> THEN <<>> ELSE user \o (IF pass = <<>> THEN <<>> ELSE <<":">> \o pass) \o <<"@">>

\* A password without a user name is dropped.
Auth(user, pass) ==
  IF user = <<>> THEN <<>>
  ELSE Encode(user) \o (IF pass = <<>> THEN <<>> ELSE <<":">> \o Encode(pass)) \o <<"@">>

\* buildProxyUrl
Build(m) ==
  IF m.type = "none" THEN <<>>
  ELSE LET host == IF ":" \in Range(m.host) /\ Head(m.host) # "[" THEN <<"[">> \o m.host \o <<"]">> ELSE m.host
       IN  <<SchemeForType(m.type, m.scheme), "://">> \o Auth(m.user, m.pass) \o host \o <<":">> \o m.port

\* parseProxyUrl
First(text, t) == SelectInSeq(text, LAMBDA x : x = t)
FinalOf(text, t) == SelectLastInSeq(text, LAMBDA x : x = t)
Upto(text, i)  == SubSeq(text, 1, i)
After(text, i) == SubSeq(text, i + 1, Len(text))
Parse(url) ==
  IF Len(url) < 2 \/ url[1] \notin Scheme \/ url[2] # "://" THEN Direct
  ELSE LET rest     == After(url, 2)
           cut      == First(rest, "/")
           auth     == IF cut = 0 THEN rest ELSE Upto(rest, cut - 1)
           at       == FinalOf(auth, "@")
           userinfo == IF at = 0 THEN <<>> ELSE Upto(auth, at - 1)
           hostPort == After(auth, at)
           colon    == First(userinfo, ":")
           close    == First(hostPort, "]")
           bracket  == hostPort # <<>> /\ Head(hostPort) = "["
           portAt   == IF bracket THEN IF close # 0 /\ Len(hostPort) > close /\ hostPort[close + 1] = ":"
                                       THEN close + 1 ELSE 0
                       ELSE FinalOf(hostPort, ":")
           host     == IF bracket THEN SubSeq(hostPort, 2, IF close = 0 THEN Len(hostPort) ELSE close - 1)
                       ELSE IF portAt = 0 THEN hostPort ELSE Upto(hostPort, portAt - 1)
       IN  [type |-> TypeOf(url[1]), scheme |-> url[1], host |-> host,
            port |-> IF portAt = 0 THEN <<>> ELSE After(hostPort, portAt),
            user |-> Decode(IF colon = 0 THEN userinfo ELSE Upto(userinfo, colon - 1)),
            pass |-> Decode(IF colon = 0 THEN <<>> ELSE After(userinfo, colon))]

VARIABLES stored, \* the proxy URL on the server
          shown,  \* the cached copy the card shows
          asked,  \* the route the administrator last submitted
          editor, \* the dialog: open, its form, a complaint about the address
          save,   \* the save under way
          opens

vars == <<stored, shown, asked, editor, save, opens>>
Idle == [st |-> "idle", url |-> <<>>]
Closed == [open |-> FALSE, form |-> Direct, complaint |-> FALSE] \* the form is gone when closed

TypeOK == save.st \in {"idle", "sent", "ok", "failed"} /\ opens \in 0 .. MaxOpens

Init ==
  /\ stored = <<>> /\ shown = <<>> /\ asked = Direct /\ save = Idle /\ opens = 0
  /\ editor = Closed

\* The form starts from the saved proxy, or from an empty SOCKS5 one.
Open ==
  /\ ~editor.open /\ opens < MaxOpens /\ opens' = opens + 1
  /\ LET m == Parse(shown)
     IN  editor' = [open |-> TRUE, complaint |-> FALSE,
                    form |-> IF m.type = "none" THEN [m EXCEPT !.type = "socks5"] ELSE m]
  /\ UNCHANGED <<stored, shown, asked, save>>

Close ==
  /\ editor.open /\ editor' = Closed
  /\ UNCHANGED <<stored, shown, asked, save, opens>>

Update(form) == editor' = [editor EXCEPT !.form = form, !.complaint = FALSE]
WithKind(m, kind) ==
  IF kind = "socks5" THEN [m EXCEPT !.type = "socks5", !.scheme = SchemeForType("socks5", @)]
  ELSE [m EXCEPT !.type = "http", !.scheme = kind]

\* The fields; a whole URL pasted into Host fills every one of them.
Edit ==
  /\ editor.open
  /\ LET m == editor.form
     IN  \/ \E k \in {"socks5", "http", "https"} : Update(WithKind(m, k))
         \/ \E h \in Hosts, p \in {<<>>, <<"1">>} : Update([m EXCEPT !.host = h, !.port = p])
         \/ \E u \in Users, s \in Secrets : Update([m EXCEPT !.user = u, !.pass = s])
         \/ \E s \in Scheme, u \in Users : Update(Parse(<<s, "://">> \o Auth(u, <<>>) \o <<"n", ":", "1">>))
  /\ UNCHANGED <<stored, shown, asked, save, opens>>

Submit ==
  /\ editor.open /\ save.st = "idle"
  /\ LET m == editor.form
     IN  IF m.host = <<>> \/ m.port = <<>>
         THEN ~editor.complaint /\ editor' = [editor EXCEPT !.complaint = TRUE] /\ UNCHANGED <<save, asked>>
         ELSE save' = [st |-> "sent", url |-> Build(m)] /\ asked' = m /\ editor' = editor
  /\ UNCHANGED <<stored, shown, opens>>

\* Remove asks first, then saves the empty URL.
OnRemove ==
  /\ ~editor.open /\ Parse(shown).type # "none" /\ save.st = "idle"
  /\ save' = [st |-> "sent", url |-> <<>>] /\ asked' = Direct
  /\ UNCHANGED <<stored, shown, editor, opens>>

Serve ==
  /\ save.st = "sent"
  /\ \/ stored' = save.url /\ save' = [save EXCEPT !.st = "ok"] /\ asked' = asked
     \/ save' = [save EXCEPT !.st = "failed"] /\ asked' = Parse(stored) /\ stored' = stored
  /\ UNCHANGED <<shown, editor, opens>>

\* A saved proxy is shown at once and closes the dialog, also one that was opened again meanwhile.
Saved ==
  /\ save.st = "ok" /\ save' = Idle /\ shown' = save.url /\ editor' = Closed
  /\ UNCHANGED <<stored, asked, opens>>

Failed ==
  /\ save.st = "failed" /\ save' = Idle
  /\ UNCHANGED <<stored, shown, asked, editor, opens>>

Next == Open \/ Close \/ Edit \/ Submit \/ OnRemove \/ Serve \/ Saved \/ Failed
Spec == Init /\ [][Next]_vars

(***************************************************************************)
(* Properties                                                               *)
(***************************************************************************)
\* The same route, however it is written: brackets and a password without a user do not count.
Bare(host) == IF host # <<>> /\ Head(host) = "[" THEN SubSeq(host, 2, Len(host) - 1) ELSE host
SameRoute(a, b) ==
  /\ a.type = b.type
  /\ a.type # "none" =>
       /\ SchemeForType(a.type, a.scheme) = b.scheme /\ Bare(a.host) = Bare(b.host) /\ a.port = b.port
       /\ a.user = b.user /\ (a.user # <<>> => a.pass = b.pass)

\* Once no save is under way, the stored URL means the route the administrator submitted, whatever
\* separators its user name and password hold, and the card shows it.
StoredRouteIsAsked == save.st = "idle" => SameRoute(asked, Parse(stored)) /\ shown = stored
=============================================================================
