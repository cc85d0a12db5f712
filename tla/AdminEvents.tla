----------------------------- MODULE AdminEvents -----------------------------
(***************************************************************************)
(* AdminEventsProvider: one event stream per session, opened with a         *)
(* single-use ticket and reopened after an error, whose events invalidate   *)
(* queries after a debounce; with the query it keeps fresh, its fetches,    *)
(* retries and poll.  Sessions come and go as AdminSession lets them.       *)
(***************************************************************************)
EXTENDS Naturals

CONSTANTS MaxSessions, \* bound: sessions of one behaviour
          MaxVer,      \* bound: changes of the data the query shows
          MaxLost      \* bound: answers the network loses

ASSUME EventBounds == MaxSessions \in Nat \ {0} /\ MaxVer \in Nat /\ MaxLost \in Nat

NoToken == 0
Token   == 1 .. MaxSessions
Key     == {"accounts", "overview", "settings"}
NoSeq   == MaxVer + 1
Retries == 2
NoFetch == [st |-> "idle", ver |-> 0, try |-> 0]
Idle    == [tok |-> NoToken, st |-> "closed"]

VARIABLES shown,   \* the query followed: queries do not affect one another
          token,   \* the token the mounted console renders with
          revoked, \* the server no longer honours it
          ver,     \* version of the query's data on the server
          cache,   \* version in the query cache
          fetch,   \* the query's fetch in flight
          conn,    \* the provider's effect: the token it runs for, the stream's state
          seq,     \* observeSeq: the counter of the last observe_tick, or NoSeq
          wire,    \* events the server published and the stream has not delivered
          timers,  \* debounced events, changeTimers and observeTimer
          lost     \* answers lost so far

vars == <<shown, token, revoked, ver, cache, fetch, conn, seq, wire, timers, lost>>
sessionVars == <<shown, token, revoked>>
streamVars  == <<conn, seq, wire, timers>>

\* What each event refetches.
Invalidates ==
  [accounts_changed |-> {"accounts", "status", "overview"},
   api_keys_changed |-> {"apiKeys"},
   settings_changed |-> {"settings", "overview"},
   stats_reset      |-> {"status", "overview", "requests"},
   backup_deleted   |-> {"backups"},
   observe_tick     |-> {"overview"},
   backup_created   |-> {"backups"},
   backup_restored  |-> {"accounts", "settings", "backups", "status"}]

Debounced == {"accounts_changed", "api_keys_changed", "settings_changed", "stats_reset",
              "backup_deleted", "observe_tick"}

\* The events the server publishes when what the query shows changes.
EventsOf(k) == {e \in DOMAIN Invalidates : k \in Invalidates[e]} \ {"backup_restored"}

TypeOK ==
  /\ shown \in Key /\ token \in Token \cup {NoToken} /\ revoked \in BOOLEAN
  /\ ver \in 0 .. MaxVer /\ cache \in 0 .. MaxVer /\ lost \in 0 .. MaxLost
  /\ fetch \in [st : {"idle", "sent", "ok", "denied", "down"}, ver : 0 .. MaxVer, try : 0 .. Retries]
  /\ conn \in [tok : Token \cup {NoToken},
               st : {"closed", "ticket", "granted", "refused", "open", "waiting"}]
  /\ seq \in 0 .. NoSeq /\ wire \subseteq DOMAIN Invalidates /\ timers \subseteq Debounced

(***************************************************************************)
(* The session, as the provider sees it                                     *)
(***************************************************************************)
Revoke ==
  /\ token # NoToken /\ ~revoked /\ revoked' = TRUE
  /\ wire' = IF conn.st = "open" THEN wire \cup {"backup_restored"} ELSE wire
  /\ UNCHANGED <<shown, token, ver, cache, fetch, conn, seq, timers, lost>>

\* clearSession: the pages unmount and the query cache is emptied.
EndSession == token' = NoToken /\ revoked' = FALSE /\ cache' = 0 /\ fetch' = NoFetch

SignOut == token # NoToken /\ EndSession /\ UNCHANGED <<shown, ver, streamVars, lost>>

\* A sign-in, or the new session after a password change, which keeps the cache.
NewSession ==
  \E t \in Token :
    /\ t > token /\ t > conn.tok /\ (token = NoToken \/ revoked)
    /\ token' = t /\ revoked' = FALSE
    /\ UNCHANGED <<shown, ver, cache, fetch, streamVars, lost>>

(***************************************************************************)
(* The query                                                                *)
(***************************************************************************)
Sent(n) == [st |-> "sent", ver |-> 0, try |-> n]

\* On mount, on focus, on the interval: one fetch at a time.
Fetch ==
  /\ token # NoToken /\ fetch.st = "idle"
  /\ fetch' = Sent(0)
  /\ UNCHANGED <<sessionVars, ver, cache, streamVars, lost>>

ServeFetch ==
  /\ fetch.st = "sent"
  /\ fetch' = IF revoked THEN [fetch EXCEPT !.st = "denied"]
                         ELSE [fetch EXCEPT !.st = "ok", !.ver = ver]
  /\ UNCHANGED <<sessionVars, ver, cache, streamVars, lost>>

LoseFetch ==
  /\ fetch.st \in {"sent", "ok"} /\ lost < MaxLost
  /\ fetch' = [fetch EXCEPT !.st = "down"]
  /\ lost' = lost + 1
  /\ UNCHANGED <<sessionVars, ver, cache, streamVars>>

\* Faulty variant: a lost answer is not asked for again.
AfterLossNone == NoFetch

\* shouldRetry: a lost answer is asked for again, twice at most.
AfterLoss == IF fetch.try < Retries THEN Sent(fetch.try + 1) ELSE NoFetch

ReceiveFetch ==
  \/ /\ fetch.st = "ok"
     /\ cache' = fetch.ver /\ fetch' = NoFetch
     /\ UNCHANGED <<sessionVars, ver, streamVars, lost>>
  \/ /\ fetch.st = "down"
     /\ fetch' = AfterLoss
     /\ UNCHANGED <<sessionVars, ver, cache, streamVars, lost>>
  \/ /\ fetch.st = "denied"
     /\ IF revoked THEN EndSession
                   ELSE fetch' = NoFetch /\ UNCHANGED <<token, revoked, cache>>
     /\ UNCHANGED <<shown, ver, streamVars, lost>>

\* invalidateQueries: what is being fetched is dropped and fetched again.
Invalidate(ks) == fetch' = IF shown \in ks /\ token # NoToken THEN Sent(0) ELSE fetch

(***************************************************************************)
(* The provider's effect                                                    *)
(***************************************************************************)
\* The token changed: the old effect is disposed with its timers, a new one connects.
RunEffect ==
  /\ conn.tok # token
  /\ timers' = {} /\ wire' = {} /\ seq' = NoSeq
  /\ conn' = IF token = NoToken THEN Idle ELSE [tok |-> token, st |-> "ticket"]
  /\ UNCHANGED <<sessionVars, ver, cache, fetch, lost>>

\* POST /session/ticket.
ServeTicket ==
  /\ conn.st = "ticket"
  /\ \/ /\ conn' = [conn EXCEPT !.st = IF revoked \/ conn.tok # token THEN "refused" ELSE "granted"]
        /\ UNCHANGED lost
     \/ /\ lost < MaxLost /\ lost' = lost + 1
        /\ conn' = [conn EXCEPT !.st = "refused"]
  /\ UNCHANGED <<sessionVars, ver, cache, fetch, seq, wire, timers>>

\* The ticket's answer opens the stream or schedules a reconnect; its 401 ends the session.
TicketAnswered ==
  /\ conn.tok = token
  /\ \/ /\ conn.st = "granted" /\ conn' = [conn EXCEPT !.st = "open"] /\ seq' = NoSeq
        /\ UNCHANGED <<token, revoked, cache, fetch>>
     \/ /\ conn.st = "refused" /\ conn' = [conn EXCEPT !.st = "waiting"] /\ UNCHANGED seq
        /\ IF revoked THEN EndSession ELSE UNCHANGED <<token, revoked, cache, fetch>>
  /\ UNCHANGED <<shown, ver, wire, timers, lost>>

\* onerror: the stream is closed and a reconnect scheduled.
StreamError ==
  /\ conn.st = "open"
  /\ conn' = [conn EXCEPT !.st = "waiting"]
  /\ wire' = {}
  /\ UNCHANGED <<sessionVars, ver, cache, fetch, seq, timers, lost>>

Reconnect ==
  /\ conn.st = "waiting" /\ conn.tok = token
  /\ conn' = [conn EXCEPT !.st = "ticket"]
  /\ UNCHANGED <<sessionVars, ver, cache, fetch, seq, wire, timers, lost>>

\* One pending timer per event type.
Pending(e) == timers' = timers \cup {e}

\* react: an event starts its timer, unless the tick repeats the last counter.
Deliver(e) ==
  /\ conn.st = "open" /\ conn.tok = token /\ e \in wire
  /\ wire' = wire \ {e}
  /\ \/ e = "observe_tick" /\ seq = ver /\ UNCHANGED <<seq, timers, fetch>>
     \/ e = "observe_tick" /\ seq # ver /\ seq' = ver /\ Pending(e) /\ UNCHANGED fetch
     \/ e \in Debounced \ {"observe_tick"} /\ Pending(e) /\ UNCHANGED <<seq, fetch>>
     \/ e \notin Debounced /\ Invalidate(Invalidates[e]) /\ UNCHANGED <<seq, timers>>
  /\ UNCHANGED <<sessionVars, ver, cache, conn, lost>>

TimerFires(e) ==
  /\ e \in timers
  /\ timers' = timers \ {e}
  /\ Invalidate(Invalidates[e])
  /\ UNCHANGED <<sessionVars, ver, cache, conn, seq, wire, lost>>

\* The server's data changes; connected consoles are told, in one event or several.
ServerChanges ==
  /\ ver < MaxVer /\ ver' = ver + 1
  /\ wire' \in IF conn.st = "open" THEN {wire \cup {e} : e \in EventsOf(shown)} ELSE {wire}
  /\ UNCHANGED <<sessionVars, cache, fetch, conn, seq, timers, lost>>

(***************************************************************************)
Init ==
  /\ shown \in Key /\ token = 1 /\ revoked = FALSE
  /\ ver = 0 /\ cache = 0 /\ fetch = NoFetch
  /\ conn = Idle /\ seq = NoSeq /\ wire = {} /\ timers = {} /\ lost = 0

Next ==
  \/ Revoke \/ SignOut \/ NewSession
  \/ Fetch \/ ServeFetch \/ LoseFetch \/ ReceiveFetch
  \/ RunEffect \/ ServeTicket \/ TicketAnswered \/ StreamError \/ Reconnect \/ ServerChanges
  \/ \E e \in DOMAIN Invalidates : Deliver(e) \/ TimerFires(e)

\* The browser runs effects, timers and answers; the overview polls every minute.
Fairness ==
  /\ WF_vars(RunEffect) /\ WF_vars(Reconnect) /\ WF_vars(ServeTicket) /\ WF_vars(TicketAnswered)
  /\ WF_vars(ServeFetch) /\ WF_vars(ReceiveFetch)
  /\ WF_vars(shown = "overview" /\ Fetch)
  /\ \A e \in Debounced : WF_vars(TimerFires(e))

Spec == Init /\ [][Next]_vars /\ Fairness

(***************************************************************************)
(* Properties                                                               *)
(***************************************************************************)
\* A stream is asked for, awaited or open only on behalf of a session, and
\* nothing is on the wire without a stream.
EventsInv ==
  /\ TypeOK
  /\ conn.st # "closed" => conn.tok # NoToken
  /\ wire # {} => conn.st = "open"

\* A change event that reached the console reaches the list it is about: neither the
\* debounce, a fetch already under way nor a lost answer keeps the old rows, unless the
\* session it came in on is replaced.
EventReachesCache ==
  \A t \in Token, v \in 1 .. MaxVer :
    (timers # {} /\ conn.tok = t /\ token = t /\ ver = v) ~> (cache >= v \/ token # t)

\* The overview's tiles never freeze: with or without an event stream, what the page
\* shows catches up with the server, or the session is over.
TilesCatchUp ==
  \A v \in 1 .. MaxVer : (shown = "overview" /\ ver = v /\ token # NoToken)
                           ~> (cache >= v \/ token = NoToken)

\* Nothing keeps the console behind the server: the lists an event is about, and the tiles.
ConsoleCatchesUp == []EventsInv /\ EventReachesCache /\ TilesCatchUp
=============================================================================
