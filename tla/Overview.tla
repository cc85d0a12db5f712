------------------------------ MODULE Overview ------------------------------
(***************************************************************************)
(* The overview page and the counters behind it.  Three parts are followed  *)
(* apart.  "traffic": the server counts requests per minute in rings that   *)
(* are reused slot by slot; the test server (lib/mocks) computes the same   *)
(* answers from the log; the page makes a chart, bars per account, totals   *)
(* and sparklines of them.  "mix": the shares of the models.  "errors": the *)
(* queries of the cards fail and are retried under one banner.              *)
(***************************************************************************)
EXTENDS Integers, Sequences, SequencesExt, FiniteSets, FiniteSetsExt

CONSTANTS Account,   \* configured accounts, as numbers (ids in order)
          Hour,      \* minutes of an hour (60)
          Bucket,    \* minutes of a chart bucket and of a bar (2)
          Series,    \* minutes of the live series (30)
          Recent,    \* minutes of the live rates (5)
          Top,       \* accounts drawn with a colour of their own (5)
          Model,     \* models, as numbers
          Ring,      \* models drawn with a colour of their own
          MaxNow,    \* bound: minutes
          MaxEvents  \* bound: requests and failed attempts

VARIABLES
  part,
  now,    \* the current minute
  rings,  \* server: id -> slot -> the counts of one minute
  log,    \* the request log and the error log: id -> minute -> counts
  mix,    \* server: model -> its requests and credits
  cards,  \* query -> whether it has data and whether it failed
  tab     \* the panel of recent activity

vars == <<part, now, rings, log, mix, cards, tab>>

Slots  == 2 * Hour                 \* minutes a ring keeps (a day; the page reads two hours)
Nobody == 0                        \* the account of a request that was refused before one was chosen
Global == -1
Start  == Slots
Zero   == [reqs |-> 0, failures |-> 0, retries |-> 0]
Sum(cells) == [f \in DOMAIN Zero |-> FoldLeft(LAMBDA n, c : n + c[f], 0, cells)]
NoLess(a, b) == Max({0, a - b})

(***************************************************************************)
(* The server's rings (proxy/observe.go)                                    *)
(***************************************************************************)
CurSlot == now % Slots

\* A slot is emptied when its minute comes round again.
TouchBucket(b) == IF b.min = now THEN b ELSE [min |-> now, cell |-> Zero]

Add(cell, ok, retry) == [reqs     |-> cell.reqs + (IF retry THEN 0 ELSE 1),
                         failures |-> cell.failures + (IF retry \/ ok THEN 0 ELSE 1),
                         retries  |-> cell.retries + (IF retry THEN 1 ELSE 0)]

\* countRequestLocked, RecordFailure: the ring of all requests, and the account's own.
Count(id, ok, retry) ==
  LET Touched(ring) == LET b == TouchBucket(ring[CurSlot])
                       IN  [ring EXCEPT ![CurSlot] = [b EXCEPT !.cell = Add(b.cell, ok, retry)]]
  IN  /\ rings' = [r \in DOMAIN rings |-> IF r \in {Global, id} THEN Touched(rings[r]) ELSE rings[r]]
      /\ log'   = [log EXCEPT ![id][now] = Add(@, ok, retry)]

Logged(ids, min) == [f \in DOMAIN Zero |-> MapThenSumSet(LAMBDA a : log[a][min][f], ids)]
All == Account \cup {Nobody}
Total == MapThenSumSet(LAMBDA min : Logged(All, min).reqs + Logged(All, min).retries, Start .. MaxNow)

Request ==
  /\ part = "traffic" /\ Total < MaxEvents
  /\ \E id \in All, ok \in BOOLEAN : Count(id, ok, FALSE)
  /\ UNCHANGED <<part, now, mix, cards, tab>>

Attempt ==
  /\ part = "traffic" /\ Total < MaxEvents
  /\ \E id \in Account : Count(id, FALSE, TRUE)
  /\ UNCHANGED <<part, now, mix, cards, tab>>

Minute ==
  /\ part = "traffic" /\ now < MaxNow /\ now' = now + 1
  /\ UNCHANGED <<part, rings, log, mix, cards, tab>>

\* What a ring says of the minute i minutes ago.
Ago(id, i) == LET b == rings[id][(CurSlot - i + Slots) % Slots]
              IN  IF b.min = now - i THEN b.cell ELSE Zero

Collect(id, window, size) ==
  [n \in 1 .. (window + size - 1) \div size |->
     Sum([k \in 1 .. size |-> IF (n - 1) * size + k - 1 < window THEN Ago(id, (n - 1) * size + k - 1) ELSE Zero])]

Rank(id) == LET c == Sum([k \in 1 .. Hour |-> Ago(id, k - 1)]) IN c.reqs + c.retries

Busiest(score) ==
  SetToSortSeq({a \in Account : score[a] > 0},
               LAMBDA a, b : IF score[a] # score[b] THEN score[a] > score[b] ELSE a < b)
Cut(ids) == SubSeq(ids, 1, Min({Top, Len(ids)}))

HeatmapWith(window, size) ==
  LET busy == Busiest([a \in Account |-> Rank(a)])
  IN  [global |-> Collect(Global, window, size), ids |-> Cut(busy), rest |-> NoLess(Len(busy), Top),
       cells  |-> [n \in DOMAIN Cut(busy) |-> Collect(busy[n], window, size)]]

Fraction(part_, whole) == IF whole = 0 THEN <<0, 1>> ELSE <<part_, whole>>
\* at[i] is the cell of i minutes ago.
LiveSeries(at) == [rpm     |-> [k \in 1 .. Series |-> at[Series - k].reqs],
                   errRate |-> [k \in 1 .. Series |-> Fraction(at[Series - k].failures, at[Series - k].reqs)]]

OverviewNow ==
  LET At(i)   == Ago(Global, i)
      five    == Sum([k \in 1 .. Recent |-> At(k - 1)])
      hour    == Sum([k \in 1 .. Hour |-> At(k - 1)])
  IN  [rpm1 |-> At(0).reqs, errRate5 |-> Fraction(five.failures, five.reqs), hour |-> hour,
       active |-> Cardinality({a \in Account : \E i \in 0 .. Recent - 1 : Ago(a, i).reqs > 0}),
       series |-> LiveSeries([i \in 0 .. Series |-> At(i)])]

(***************************************************************************)
(* The test server: the same answers from the log (lib/mocks/fixtures.ts)   *)
(***************************************************************************)
InWindow(min, window) == min <= now /\ now - min < window
Minutes(window) == {min \in Start .. MaxNow : InWindow(min, window)}
MinuteOffset(min) == now - min

BuildHeatmap(window, size) ==
  LET Cells(ids) == [n \in 1 .. (window + size - 1) \div size |->
                       LET mins == {m \in Minutes(window) : MinuteOffset(m) \div size = n - 1}
                       IN  [f \in DOMAIN Zero |-> MapThenSumSet(LAMBDA m : Logged(ids, m)[f], mins)]]
      score == [a \in Account |->
                  MapThenSumSet(LAMBDA m : Logged({a}, m).reqs + Logged({a}, m).retries, Minutes(Hour))]
      busy == Busiest(score)
  IN  [global |-> Cells(All), ids |-> Cut(busy), rest |-> NoLess(Len(busy), Top),
       cells  |-> [n \in DOMAIN Cut(busy) |-> Cells({busy[n]})]]

BuildOverview ==
  LET At(i) == IF now - i \in Start .. MaxNow THEN Logged(All, now - i) ELSE Zero
      Over(window) == [f \in DOMAIN Zero |-> MapThenSumSet(LAMBDA m : Logged(All, m)[f], Minutes(window))]
  IN  [rpm1 |-> At(0).reqs, errRate5 |-> Fraction(Over(Recent).failures, Over(Recent).reqs), hour |-> Over(Hour),
       active |-> Cardinality({a \in Account : \E m \in Minutes(Recent) : Logged({a}, m).reqs > 0}),
       series |-> LiveSeries([i \in 0 .. Series |-> At(i)])]

(***************************************************************************)
(* The page (aggregate.ts and the cards)                                    *)
(***************************************************************************)
\* Sparse rows travel; the client fills in the cells that were left out.
Sparse(cells)  == {<<n - 1, cells[n]>> : n \in {k \in DOMAIN cells : cells[k] # Zero}}
Densify(wire, count) ==
  [n \in 1 .. count |-> IF \E c \in wire : c[1] = n - 1 THEN (CHOOSE c \in wire : c[1] = n - 1)[2] ELSE Zero]

Succeeded(cell) == NoLess(cell.reqs, cell.failures)

\* Oldest first, one point per bucket of the window; cells past the window are left out.
BucketGlobal(cells, size, window) ==
  LET count == (window + size - 1) \div size
  IN  [p \in 1 .. count |->
         LET cell == {k \in DOMAIN cells : (k - 1) \div size = count - p}
         IN  [succeeded |-> MapThenSumSet(LAMBDA k : Succeeded(cells[k]), cell),
              failed    |-> MapThenSumSet(LAMBDA k : cells[k].failures, cell)]]

\* Faulty variant: the earlier window starts one minute late.
EarlierLate(cells, window) == SubSeq(cells, window + 2, Min({2 * window + 1, Len(cells)}))

Earlier(cells, window) == SubSeq(cells, window + 1, Min({2 * window, Len(cells)}))
WithPreviousWindow(cells, size, window) ==
  LET current  == BucketGlobal(cells, size, window)
      previous == BucketGlobal(Earlier(cells, window), size, window)
  IN  [p \in DOMAIN current |-> current[p] @@ [previous |-> previous[p].succeeded]]

\* The change over the hour of a status card, from the same cells.
HourDelta(values) ==
  [current  |-> MapThenSumSet(LAMBDA k : values[k], {k \in DOMAIN values : k <= Hour}),
   previous |-> MapThenSumSet(LAMBDA k : values[k], {k \in DOMAIN values : Hour < k /\ k <= 2 * Hour})]

WindowCells(cells, window) ==
  [n \in 1 .. window |-> IF window - n + 1 \in DOMAIN cells THEN cells[window - n + 1] ELSE Zero]

\* Groups are cut from the newest end.
Groups(seq, size) == LET count == (Len(seq) + size - 1) \div size
                     IN  [g \in 1 .. count |-> SubSeq(seq, Max({1, Len(seq) - (count - g + 1) * size + 1}),
                                                            Len(seq) - (count - g) * size)]
MergeCells(cells, size) == [g \in DOMAIN Groups(cells, size) |-> Sum(Groups(cells, size)[g])]

\* As the server ranked them; one with only failed attempts stays.
BusyAccounts(heat) == {n \in DOMAIN heat.ids : n <= Top /\ \E k \in DOMAIN heat.cells[n] :
                         heat.cells[n][k].reqs > 0 \/ heat.cells[n][k].retries > 0}

\* The bars: each of the busiest accounts, and what they do not cover.
Bars(heat) ==
  LET global  == MergeCells(WindowCells(heat.global, Hour), Bucket)
      busiest == BusyAccounts(heat)
      own     == [n \in busiest |-> MergeCells(WindowCells(heat.cells[n], Hour), Bucket)]
      other   == [g \in DOMAIN global |->
                    [reqs     |-> NoLess(global[g].reqs, MapThenSumSet(LAMBDA n : own[n][g].reqs, busiest)),
                     failures |-> NoLess(global[g].failures, MapThenSumSet(LAMBDA n : own[n][g].failures, busiest))]]
  IN  [global |-> global, own |-> own, other |-> other, rest |-> heat.rest]

\* Sums of BAR_MINUTES, the last bar holding the current minute.
SumBars(values) == [g \in DOMAIN Groups(values, Bucket) |-> FoldLeft(+, 0, Groups(values, Bucket)[g])]
FailuresPerMinute(s) == [k \in DOMAIN s.rpm |-> Min({s.rpm[k], (s.rpm[k] * s.errRate[k][1]) \div s.errRate[k][2]})]
OutcomeBars(s) == [requests  |-> SumBars(s.rpm), failed |-> SumBars(FailuresPerMinute(s)),
                   succeeded |-> SumBars([k \in DOMAIN s.rpm |-> NoLess(s.rpm[k], FailuresPerMinute(s)[k])])]

(***************************************************************************)
(* The shares of the models (model-mix-card.tsx)                            *)
(***************************************************************************)
CountModel ==
  /\ part = "mix" /\ MapThenSumSet(LAMBDA m : mix[m].reqs, Model) < MaxEvents
  /\ \E m \in Model, c \in 0 .. 2 : mix' = [mix EXCEPT ![m] = [reqs |-> @.reqs + 1, credits |-> @.credits + c]]
  /\ UNCHANGED <<part, now, rings, log, cards, tab>>

\* What the server lists: by credits, and the test server then by requests and name.
BuildModelMix ==
  SetToSortSeq({m \in Model : mix[m].reqs > 0},
    LAMBDA a, b : IF mix[a].credits # mix[b].credits THEN mix[a].credits > mix[b].credits
                  ELSE IF mix[a].reqs # mix[b].reqs THEN mix[a].reqs > mix[b].reqs ELSE a < b)

\* Credits, or requests when no model has used credits yet.
Metric == IF \E m \in Model : mix[m].credits > 0 THEN "credits" ELSE "reqs"
MetricOf(m) == mix[m][Metric]

\* The sort is stable: equal shares stay in the server's order.
ByShare(models) == SetToSortSeq(DOMAIN models,
                     LAMBDA i, j : IF MetricOf(models[i]) # MetricOf(models[j])
                                   THEN MetricOf(models[i]) > MetricOf(models[j]) ELSE i < j)

RestFrom(sorted) == SubSeq(sorted, Ring + 1, Len(sorted))
ModelSlices ==
  LET models == BuildModelMix
      sorted == [k \in DOMAIN models |-> models[ByShare(models)[k]]]
      value  == [k \in DOMAIN sorted |-> MetricOf(sorted[k])]
      rest   == FoldLeft(LAMBDA n, m : n + MetricOf(m), 0, RestFrom(sorted))
  IN  SubSeq(value, 1, Min({Ring, Len(value)})) \o (IF Len(sorted) > Ring THEN <<rest>> ELSE <<>>)

(***************************************************************************)
(* Failed loads (overview-page.tsx, status-cards.tsx and the cards)         *)
(***************************************************************************)
Query   == {"status", "live", "traffic", "byAccount", "mix", "errors", "requests"}
Mounted == Query \ {IF tab = "errors" THEN "requests" ELSE "errors"}

\* useTotalsFailed: then the page has one banner, and the cards no error block of their own.
TotalsFailed == cards["status"].error \/ cards["live"].error

\* The tiles keep their titles and last values; the banner alone reports the failure.
StatusCards == IF cards["status"].data THEN "content" ELSE IF cards["status"].error THEN "titles" ELSE "loading"
LiveTiles   == IF cards["live"].data THEN "content" ELSE IF cards["live"].error THEN "titles" ELSE "loading"

\* What a section card shows in place of, or over, its content.
SectionBody(q) == CASE ~cards[q].data /\ ~cards[q].error -> "loading"
                    [] ~cards[q].error -> "content"
                    [] TotalsFailed -> IF cards[q].data THEN "content" ELSE "not loaded"
                    [] OTHER -> IF cards[q].data THEN "content and error" ELSE "error"
TrafficCard      == SectionBody("traffic")
TrafficByAccount == SectionBody("byAccount")
ModelMixCard     == SectionBody("mix")
ErrorsPanel      == SectionBody("errors")
RequestsPanel    == SectionBody("requests")

Page == [status |-> StatusCards, live |-> LiveTiles, traffic |-> TrafficCard, byAccount |-> TrafficByAccount,
         mix |-> ModelMixCard, errors |-> ErrorsPanel, requests |-> RequestsPanel]
Failing == {q \in Mounted : Page[q] \in {"error", "content and error"}}

\* The buttons of the page and the queries each refetches: the banner those of the whole page.
Controls == (IF TotalsFailed THEN {<<"banner", q>> : q \in Query} ELSE {})
            \cup {<<"card", q>> : q \in Failing}

\* A query that has no data goes back to loading when it is fetched again.
Refetch(qs) ==
  cards' = [q \in Query |-> IF q \in qs /\ ~cards[q].data THEN [cards[q] EXCEPT !.error = FALSE] ELSE cards[q]]

PressRetry ==
  /\ \E c \in Controls : Refetch(IF c[1] = "banner" THEN Query ELSE {c[2]})
  /\ UNCHANGED <<part, now, rings, log, mix, tab>>

\* The page's refresh button, an event or a poll.
Refresh ==
  /\ part = "errors" /\ \E qs \in {Mounted, {"live"}, {"traffic"}} : Refetch(qs)
  /\ UNCHANGED <<part, now, rings, log, mix, tab>>

Answer ==
  /\ part = "errors"
  /\ \E q \in Mounted, ok \in BOOLEAN : cards' = [cards EXCEPT ![q] = [data |-> ok \/ @.data, error |-> ~ok]]
  /\ UNCHANGED <<part, now, rings, log, mix, tab>>

ChooseTab ==
  /\ part = "errors" /\ tab' \in {"errors", "requests"} \ {tab}
  /\ UNCHANGED <<part, now, rings, log, mix, cards>>

Init ==
  /\ part \in {"traffic", "mix", "errors"} /\ now = Start /\ tab = "errors"
  /\ rings = [id \in Account \cup {Global} |-> [s \in 0 .. Slots - 1 |-> [min |-> 0, cell |-> Zero]]]
  /\ log = [id \in All |-> [min \in Start .. MaxNow |-> Zero]]
  /\ mix = [m \in Model |-> [reqs |-> 0, credits |-> 0]]
  /\ cards = [q \in Query |-> [data |-> FALSE, error |-> FALSE]]

Next == Request \/ Attempt \/ Minute \/ CountModel \/ PressRetry \/ Refresh \/ Answer \/ ChooseTab
Spec == Init /\ [][Next]_vars

(***************************************************************************)
(* Properties                                                               *)
(***************************************************************************)
\* The rings, reused minute by minute, give every figure that the log gives: the test server the
\* interface is tested against answers "like Go", for the windows and bucket sizes in use.
ServersAgree ==
  part = "traffic" =>
    /\ \A window \in {Hour, 2 * Hour}, size \in {1, Bucket} :
         HeatmapWith(window, size) = BuildHeatmap(window, size)
    /\ OverviewNow = BuildOverview

Wire == LET cells == HeatmapWith(2 * Hour, 1).global IN Densify(Sparse(cells), Len(cells))

\* The chart over this hour shows every request of the log once, in its bucket, failed or not,
\* over those of the same minutes an hour before; the totals of the cards are the chart's.
ChartIsTheLog ==
  part = "traffic" =>
    \A wire \in {Wire} : \A points \in {WithPreviousWindow(wire, Bucket, Hour)} :
    LET In(p, k)  == LET last == now - (Len(points) - p) * Bucket - k * Hour
                     IN  {m \in Start .. MaxNow : last - Bucket < m /\ m <= last}
        Kind(p, k, f) == MapThenSumSet(LAMBDA m : Logged(All, m)[f], In(p, k))
        ChartSum(f)   == FoldLeft(LAMBDA n, q : n + q[f], 0, points)
        delta  == HourDelta([k \in DOMAIN wire |-> Succeeded(wire[k])])
    IN  /\ \A p \in DOMAIN points :
             /\ points[p].failed = Kind(p, 0, "failures")
             /\ points[p].succeeded = Kind(p, 0, "reqs") - Kind(p, 0, "failures")
             /\ points[p].previous = Kind(p, 1, "reqs") - Kind(p, 1, "failures")
        /\ delta = [current |-> ChartSum("succeeded"), previous |-> ChartSum("previous")]

\* In every bar the accounts and "Other accounts" add up to all requests, an account left out was
\* not busier than one that is drawn, and the sparkline of the tiles splits each bar in two.
BarsAddUp ==
  part = "traffic" =>
    \A heat \in {HeatmapWith(Hour, 1)} : \A bars \in {Bars(heat)} :
    LET spark == OutcomeBars(OverviewNow.series)
        drawn == {heat.ids[n] : n \in DOMAIN bars.own}
    IN  /\ \A g \in DOMAIN bars.global, f \in {"reqs", "failures"} :
             bars.global[g][f] = bars.other[g][f] + MapThenSumSet(LAMBDA n : bars.own[n][g][f], DOMAIN bars.own)
        /\ \A a \in Account \ drawn : \A b \in drawn : Rank(a) <= Rank(b)
        /\ bars.rest = Cardinality({a \in Account \ drawn : Rank(a) > 0})
        /\ \A g \in DOMAIN spark.requests : spark.requests[g] = spark.succeeded[g] + spark.failed[g]

\* The slices of the ring add up to all credits (or requests), each at most as large as the one
\* before it until "Other".
SharesAddUp ==
  part = "mix" =>
    /\ FoldLeft(LAMBDA n, v : n + v, 0, ModelSlices) = MapThenSumSet(LAMBDA m : MetricOf(m), Model)
    /\ \A k \in 1 .. Min({Ring, Len(ModelSlices)}) - 1 : ModelSlices[k] >= ModelSlices[k + 1]

\* A failed load has exactly one button that repeats it: the banner's, which "reloads every one
\* of them", or its card's own (overview-page.tsx: "instead of an error block in each card group").
OneWayToRetry ==
  \A q \in Mounted : cards[q].error => Cardinality({c \in Controls : c[2] = q}) = 1
=============================================================================
