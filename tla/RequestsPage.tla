---------------------------- MODULE RequestsPage ----------------------------
(***************************************************************************)
(* The request log page.  Three parts are followed apart: the search field, *)
(* its debounce and the URL; the list with its pages, its order and the     *)
(* detail sheet over a log that grows and is trimmed; and the columns of    *)
(* the table at every width.                                                *)
(***************************************************************************)
EXTENDS Integers, Sequences, FiniteSets, FiniteSetsExt

CONSTANTS Letters,  \* what is typed
          MaxText,  \* bound: letters in the field
          MaxMoves, \* bound: steps of the viewer
          MaxLog,   \* bound: requests ever logged
          PageSize, \* rows of a page
          Widths    \* container widths in rem at which the table is looked at

VARIABLES
  part,      \* "search", "list" or "width"
  text,      \* the search field
  timer,     \* what the debounce will report, as << >> or <<text>>
  going,     \* navigations under way: the search each puts into the URL, and where it comes from
  url,       \* the search in the URL
  log,       \* server: the requests, newest first
  persist,   \* server: whether rows have ids (else the in-memory ring answers)
  params,    \* the URL of the list: page, sort, order
  cache,     \* params -> what was served for them, or Unread
  asked,     \* the params being fetched, with what was served; << >> when idle
  tick,      \* new rows were announced
  shown,     \* the data on the page: that of the URL, or the previous page while it loads
  selection, \* the chosen row: its key and the record it had, and which one it is
  width, moves

search == <<text, timer, going, url>>
list   == <<log, persist, params, cache, asked, tick, shown, selection>>
vars   == <<part, search, list, width, moves>>

(***************************************************************************)
(* The search field (requests-toolbar.tsx)                                  *)
(***************************************************************************)
\* The effect on the typed text: the timer starts again unless the URL has the text already.
Debounce(t) == IF t = url THEN <<>> ELSE <<t>>

Type ==
  /\ part = "search" /\ moves < MaxMoves /\ moves' = moves + 1
  /\ \/ Len(text) < MaxText /\ \E l \in Letters : text' = Append(text, l)
     \/ text # <<>> /\ text' \in {<<>>, SubSeq(text, 1, Len(text) - 1)}
  /\ timer' = Debounce(text')
  /\ UNCHANGED <<part, going, url, list, width>>

\* 250 ms after the last letter: the page navigates with the text.
Fire ==
  /\ timer # <<>> /\ timer' = <<>> /\ going' = Append(going, [to |-> timer[1], own |-> TRUE])
  /\ UNCHANGED <<part, text, url, list, width, moves>>

\* Clear filters or the back button.
ChangeUrl ==
  /\ part = "search" /\ moves < MaxMoves /\ moves' = moves + 1
  /\ \E u \in {<<>>} \cup {<<l>> : l \in Letters} :
       u # url /\ going' = Append(going, [to |-> u, own |-> FALSE])
  /\ UNCHANGED <<part, text, timer, url, list, width>>

\* Faulty variant: the field keeps what was typed.
FieldKeeps(u) == text

\* The effect on the URL's search: a field that says something else is overwritten.
FieldFollows(u) == IF text = u THEN text ELSE u

\* A navigation takes effect.  Each effect runs when what it watches changed: the URL, the text.
Arrive ==
  /\ going # <<>> /\ going' = Tail(going) /\ url' = Head(going).to
  /\ text' = IF url' = url THEN text ELSE FieldFollows(url')
  /\ timer' = IF text' = text THEN timer ELSE <<>>
  /\ UNCHANGED <<part, list, width, moves>>

(***************************************************************************)
(* The server (mocks.ts, as proxy/observe.go answers)                       *)
(***************************************************************************)
Params == [page : 1 .. 2, order : {"asc", "desc"}]
Unread == [rows |-> <<>>, total |-> -1, page |-> 0]
Default == [page |-> 1, order |-> "desc"]

\* By time (the other columns give orders of the same kind); equal times by id or, in the
\* in-memory ring, as they stand there: newest first in both orders.
Before(a, b, p) == IF p.order = "asc" /\ (persist \/ a.ts # b.ts) THEN a.id < b.id ELSE b.id < a.id
\* How many requests stand before one in an order.
Place(r, p) == Cardinality({q \in Range(log) : Before(q, r, p)})
SortRecords(p) == [n \in 1 .. Cardinality(Range(log)) |-> CHOOSE r \in Range(log) : Place(r, p) = n - 1]

Answer(p) ==
  LET rows  == SortRecords(p)
      start == Min({(p.page - 1) * PageSize, Len(rows)})
      end   == Min({start + PageSize, Len(rows)})
  IN  [rows |-> SubSeq(rows, start + 1, end), total |-> Len(rows), page |-> p.page]

\* Two requests share a second; the oldest rows are dropped after their time.
LogRequest ==
  /\ part = "list" /\ log # <<>> /\ Head(log).id < MaxLog
  /\ log' = <<[id |-> Head(log).id + 1, ts |-> (Head(log).id + 1) \div 2]>> \o log
  /\ tick' = TRUE
  /\ UNCHANGED <<part, search, persist, params, cache, asked, shown, selection, width, moves>>

Trim ==
  /\ part = "list" /\ Len(log) > PageSize /\ log' = SubSeq(log, 1, Len(log) - 1)
  /\ UNCHANGED <<part, search, persist, params, cache, asked, tick, shown, selection, width, moves>>

(***************************************************************************)
(* The list (requests-page.tsx)                                             *)
(***************************************************************************)
\* Faulty variant: every row is known by its time and its place.
RowKeyByPlace(r, n) == <<r.ts, n>>

\* rowKey: the id, or the time and the place of a row of the in-memory ring.
RowKey(r, n) == IF persist THEN <<r.id, 0>> ELSE <<r.ts, n>>

\* Data of the URL's own query once it is there; until then the page keeps what it showed.
Shown(p, c, old) == IF c[p] = Unread THEN old ELSE c[p]
Show(p, c) == shown' = Shown(p, c, shown)
Ask(p) == asked' = <<[params |-> p, data |-> Unread]>>

\* A new order or sort goes back to the first page.
UpdateSearch ==
  /\ part = "list" /\ moves < MaxMoves /\ moves' = moves + 1
  /\ \E p \in Params : /\ p # params /\ (p.order = params.order \/ p.page = 1)
                       /\ params' = p /\ Show(p, cache) /\ Ask(p)
  /\ UNCHANGED <<part, search, log, persist, cache, tick, selection, width>>

Tick ==
  /\ tick /\ tick' = FALSE /\ Ask(params)
  /\ UNCHANGED <<part, search, log, persist, params, cache, shown, selection, width, moves>>

Serve ==
  /\ asked # <<>> /\ asked[1].data = Unread /\ asked' = <<[asked[1] EXCEPT !.data = Answer(asked[1].params)]>>
  /\ UNCHANGED <<part, search, log, persist, params, cache, tick, shown, selection, width, moves>>

Served ==
  /\ asked # <<>> /\ asked[1].data # Unread /\ asked' = <<>>
  /\ cache' = [cache EXCEPT ![asked[1].params] = asked[1].data] /\ Show(params, cache')
  /\ UNCHANGED <<part, search, log, persist, params, tick, selection, width, moves>>

NoSelection == [key |-> <<0, 0>>, record |-> [id |-> 0, ts |-> 0]]
Keys        == [n \in DOMAIN shown.rows |-> RowKey(shown.rows[n], n)]
Choose(n)   == selection' = [key |-> Keys[n], record |-> shown.rows[n]]

\* Where the chosen row is now; the sheet falls back to the record it was opened with.
SelectedIndex  == IF \E n \in DOMAIN Keys : Keys[n] = selection.key
                  THEN CHOOSE n \in DOMAIN Keys : Keys[n] = selection.key ELSE 0
SelectedRecord == IF SelectedIndex > 0 THEN shown.rows[SelectedIndex] ELSE selection.record

OpenRow ==
  /\ part = "list" /\ selection = NoSelection /\ \E n \in DOMAIN shown.rows : Choose(n)
  /\ UNCHANGED <<part, search, log, persist, params, cache, asked, tick, shown, width, moves>>

StepTo ==
  /\ SelectedIndex > 0 /\ moves < MaxMoves /\ moves' = moves + 1
  /\ \E n \in DOMAIN shown.rows \cap {SelectedIndex - 1, SelectedIndex + 1} : Choose(n)
  /\ UNCHANGED <<part, search, log, persist, params, cache, asked, tick, shown, width>>

(***************************************************************************)
(* The table (requests-columns.tsx): what each column shows at a width      *)
(***************************************************************************)
WideOnly(w)      == w >= 64
ApiKeyColumn(w)  == w >= 68
EndpointColumn(w) == w >= 80
StatusCell(w)  == {<<"status", "status">>} \cup IF w >= 64 THEN {} ELSE {<<"error", "status">>}
AccountCell(w) == {<<"account", "account">>} \cup IF w >= 68 THEN {} ELSE {<<"api_key", "account">>}
ModelCell(w)   == {<<"model", "model">>} \cup IF w >= 80 THEN {} ELSE {<<"endpoint", "model">>}
CreditsCell(w) == {<<"credits", "credits">>} \cup IF w >= 64 THEN {} ELSE {<<"duration", "credits">>}

ErrorCell(w) == IF WideOnly(w) THEN {<<"error", "error">>} ELSE {}
RequestColumns(w) ==
  {<<"time", "time">>, <<"tokens", "tokens">>} \cup StatusCell(w) \cup AccountCell(w) \cup ModelCell(w)
  \cup CreditsCell(w) \cup ErrorCell(w)
  \cup (IF ApiKeyColumn(w) THEN {<<"api_key", "api_key">>} ELSE {})
  \cup (IF EndpointColumn(w) THEN {<<"endpoint", "endpoint">>} ELSE {})
  \cup (IF WideOnly(w) THEN {<<"duration", "duration">>} ELSE {})

\* Below 42 rem the rows are cards, which leave the API key to the sheet.
RequestCard ==
  {<<f, "card">> : f \in {"time", "status", "account", "model", "endpoint", "tokens", "credits", "duration", "error"}}
RequestDetail ==
  {"status", "endpoint", "model", "duration", "credits", "error", "tokens", "account", "api_key", "time"}
Facts(w) == IF w < 42 THEN RequestCard ELSE RequestColumns(w)

Resize ==
  /\ part = "width" /\ width' \in Widths
  /\ UNCHANGED <<part, search, list, moves>>

Init ==
  /\ part \in {"search", "list", "width"} /\ text = <<>> /\ timer = <<>> /\ going = <<>> /\ url = <<>>
  /\ log = [n \in 1 .. 3 |-> [id |-> 4 - n, ts |-> (4 - n) \div 2]]
  /\ persist \in BOOLEAN /\ params = Default
  /\ cache = [[p \in Params |-> Unread] EXCEPT ![Default] = Answer(Default)]
  /\ asked = <<>> /\ tick = FALSE /\ shown = cache[Default] /\ selection = NoSelection
  /\ width = Min(Widths) /\ moves = 0

Next == Type \/ Fire \/ ChangeUrl \/ Arrive \/ LogRequest \/ Trim \/ UpdateSearch \/ Tick \/ Serve \/ Served
        \/ OpenRow \/ StepTo \/ Resize
Spec == Init /\ [][Next]_vars

(***************************************************************************)
(* Properties                                                               *)
(***************************************************************************)
TypeOK ==
  /\ text \in Seq(Letters) /\ url \in Seq(Letters) /\ params \in Params /\ width \in Widths
  /\ Len(timer) <= 1 /\ Len(asked) <= 1 /\ DOMAIN cache = Params /\ moves <= MaxMoves

\* When the debounce has run and no navigation is under way, the field shows the search the list
\* is filtered by, whatever typing, clearing and back buttons overlapped with navigations.
FieldShowsSearch == (timer = <<>> /\ going = <<>>) => text = url

\* With a persistent log (rows that have ids) the detail sheet keeps showing the request that was
\* opened or stepped to, while rows arrive above it, old ones are dropped, and pages and orders
\* change under it.
SheetShowsChosen == persist => SelectedRecord = selection.record

\* At every width each fact of a request is shown in exactly one place: a column that is hidden
\* hands its content to another cell, which gives it up when the column returns; what the cards
\* of a narrow page leave out is in the sheet they open.
EachFactOnce ==
  \A f \in {p[1] : p \in RequestColumns(80)} :
    LET places == {p \in Facts(width) : p[1] = f}
    IN  IF width < 42 THEN Cardinality(places) <= 1 /\ (places # {} \/ f \in RequestDetail)
        ELSE Cardinality(places) = 1

=============================================================================
