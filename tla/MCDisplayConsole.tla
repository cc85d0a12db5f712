-------------------------- MODULE MCDisplayConsole --------------------------
(***************************************************************************)
(* What the console computes for the eye: the overview, its charts and the *)
(* tooltip panel, and the two editors of the settings that foretell what   *)
(* the server makes of a text, the prompt filter and the outbound proxy.   *)
(* A behaviour runs one of them, so the state spaces add up and do not     *)
(* multiply.                                                               *)
(***************************************************************************)
EXTENDS Integers, Sequences, FiniteSets

VARIABLES which, \* the component that runs
          s1, s2, s3, s4, s5, s6, s7, s8, s9, s10, s11, s12, s13, s14, s15, s16, s17, s18

slots == <<
  s1, s2, s3, s4, s5, s6, s7, s8, s9, s10, s11, s12, s13, s14, s15, s16, s17, s18>>
vars == <<which, slots>>

R(w, h) == [w |-> w, h |-> h]
Pieces == {"item", "(", ")", "|", "*", "{0}", "{3}", "flags", "{9}", "bad"}

Overview == INSTANCE Overview WITH
  Account <- {1, 2}, Hour <- 4, Bucket <- 2, Series <- 3, Recent <- 2, Top <- 1,
  Model <- {1, 2, 3}, Ring <- 1, MaxNow <- 16, MaxEvents <- 2, part <- s1, now <- s2,
  rings <- s3, log <- s4, mix <- s5, cards <- s6, tab <- s7

Chart == INSTANCE ChartPhases WITH
  MaxFlips <- 3, MaxMoves <- 2, Width <- 2, Plot <- 6, MaxBars <- 30, Values <- {0, 1, 3}, part <- s1, status <- s2, moving <- s3, tweens <- s4,
  phase <- s5, loaded <- s6, domain <- s7, data <- s8, lastX <- s9, tooltip <- s10,
  pending <- s11, lastKey <- s12, frame <- s13, dragging <- s14, selection <- s15,
  touched <- s16, flips <- s17, moves <- s18

Donut == INSTANCE ModelDonut WITH
  Lists <- {<<>>, <<2>>, <<2, 1>>, <<1, 0>>, <<3, 2, 1>>, <<2, 1, 1, 1>>}, Ring <- 2, MaxChanges <- 3,
  models <- s1, hovered <- s2, slice <- s3, at <- s4, doubt <- s5, changes <- s6

Axis == INSTANCE ChartAxis WITH
  MaxRows <- 7, MaxGap <- 2, Counts <- {3, 4}, Grains <- {1, 3}, Horizon <- 3, MaxLayouts <- 6,
  TickSteps <- <<1, 2, 4>>, MinTickGap <- 2, Half <- 2, PlotWidths <- {4, 9}, times <- s1,
  target <- s2, grain <- s3, mode <- s4, brush <- s5, ahead <- s6, width <- s7

Spark == INSTANCE Sparkline WITH
  Series <- {<<>>, <<0, 2>>, <<0, 2, 1>>, <<2, -1, 0>>}, Widths <- {0, 6, 10}, Pad <- 1,
  Height <- 128, MaxChanges <- 3, data <- s1, width <- s2, moving <- s3, displayed <- s4,
  running <- s5, tween <- s6, path <- s7, entrances <- s8, hover <- s9, pointer <- s10,
  moved <- s11, restroke <- s12, changes <- s13

Tooltip == INSTANCE TooltipBox WITH
  Panels <- {R(2, 2), R(4, 4)}, Default <- R(3, 2), Containers <- {R(6, 7), R(11, 8)}, Gap <- 1,
  Off <- 1, MaxShows <- 1, MaxChanges <- 2, shown <- s1, at <- s2, box <- s3, panel <- s4,
  moving <- s5, place <- s6, replays <- s7, placedFor <- s8, target <- s9, from <- s10,
  progress <- s11, spring <- s12, shows <- s13, changes <- s14

Filter == INSTANCE PromptFilter WITH
  Tokens <- Pieces, MaxLen <- 6, MaxRepeat <- 5, MaxRules <- 2, part <- s1, builtin <- s2,
  rules <- s3, editor <- s4, pattern <- s5, clock <- s6

Proxy == INSTANCE OutboundProxy WITH
  Users <- {<<>>, <<"@", ":">>}, Secrets <- {<<>>, <<":", "@", "/">>},
  Hosts <- {<<":", "n">>}, MaxOpens <- 2, stored <- s1, shown <- s2, asked <- s3,
  editor <- s4, save <- s5, opens <- s6

\* A component with n variables uses the first n slots; the others stay empty.
Empty(n) ==
  /\ IF n <= 6 THEN s7 = 0 ELSE TRUE
  /\ IF n <= 7 THEN s8 = 0 /\ s9 = 0 /\ s10 = 0 /\ s11 = 0 /\ s12 = 0 /\ s13 = 0 ELSE TRUE
  /\ IF n <= 13 THEN s14 = 0 ELSE TRUE
  /\ IF n <= 14 THEN s15 = 0 /\ s16 = 0 /\ s17 = 0 /\ s18 = 0 ELSE TRUE
Kept(n) ==
  /\ UNCHANGED which
  /\ IF n <= 6 THEN UNCHANGED <<s7>> ELSE TRUE
  /\ IF n <= 7 THEN UNCHANGED <<s8, s9, s10, s11, s12, s13>> ELSE TRUE
  /\ IF n <= 13 THEN UNCHANGED <<s14>> ELSE TRUE
  /\ IF n <= 14 THEN UNCHANGED <<s15, s16, s17, s18>> ELSE TRUE

Init ==
  \/ which = "overview" /\ Overview!Init /\ Empty(7)
  \/ which = "chart"    /\ Chart!Init    /\ Empty(18)
  \/ which = "donut"    /\ Donut!Init    /\ Empty(6)
  \/ which = "axis"     /\ Axis!Init     /\ Empty(7)
  \/ which = "spark"    /\ Spark!Init    /\ Empty(13)
  \/ which = "tooltip"  /\ Tooltip!Init  /\ Empty(14)
  \/ which = "filter"   /\ Filter!Init   /\ Empty(6)
  \/ which = "proxy"    /\ Proxy!Init    /\ Empty(6)

Next ==
  \/ which = "overview" /\ Overview!Next /\ Kept(7)
  \/ which = "chart"    /\ Chart!Next    /\ Kept(18)
  \/ which = "donut"    /\ Donut!Next    /\ Kept(6)
  \/ which = "axis"     /\ Axis!Next     /\ Kept(7)
  \/ which = "spark"    /\ Spark!Next    /\ Kept(13)
  \/ which = "tooltip"  /\ Tooltip!Next  /\ Kept(14)
  \/ which = "filter"   /\ Filter!Next   /\ Kept(6)
  \/ which = "proxy"    /\ Proxy!Next    /\ Kept(6)

Spec == Init /\ [][Next]_vars

(***************************************************************************)
(* Properties                                                               *)
(***************************************************************************)
\* The overview draws the log: the minute rings give what the log gives, the chart has every
\* request once, bars and shares add up, and a failed load has exactly one button that repeats
\* it.
OverviewAddsUp ==
  which = "overview" =>
    /\ Overview!ServersAgree /\ Overview!ChartIsTheLog /\ Overview!BarsAddUp
    /\ Overview!SharesAddUp /\ Overview!OneWayToRetry

\* New data never makes a sparkline jump and new content never makes a tooltip panel jump, in the
\* middle of an animation too.
NothingJumps ==
  [][/\ which = "spark" => Spark!LineNeverJumps
     /\ which = "tooltip" => Tooltip!PanelNeverJumps]_vars

\* Whatever cuts an animation short, what is at rest is exact: a sparkline is the path of its
\* data, a tooltip panel has the size of its content, a chart is drawn on the scale of its own
\* data, and the segments of a stacked bar add up to it.
RestIsExact ==
  /\ which = "spark" => Spark!TypeOK /\ Spark!QuietPathIsData
  /\ which = "tooltip" => Tooltip!TypeOK /\ Tooltip!QuietPanelIsContent
  /\ which = "chart" => Chart!SeriesOnItsScale /\ Chart!StacksWhole

\* What is marked is what is pointed at: the tooltip and the marker are of the nearest point or of
\* the bar, the panel lies inside the chart and beside the pointer, and the donut and its table
\* lift and dim the same model.
PointerMarksRight ==
  /\ which = "chart" => Chart!TooltipIsPointed /\ Chart!BarIsPointed
  /\ which = "spark" => Spark!MarksTheNearest
  /\ which = "tooltip" => Tooltip!PanelPlaced
  /\ which = "donut" => Donut!TypeOK /\ Donut!PointsAtOne /\ Donut!RingStaysHonest

\* The labels of a time axis are distinct, in order and whole, and no other choice of ticks would
\* have scored better; the labels under bars are as many as fit.
AxisReadsRight ==
  /\ which = "axis" =>
       /\ Axis!LabelsApart /\ Axis!TicksOptimal
       /\ Axis!RoundTicksAll /\ Axis!EdgeLabelsWhole
  /\ which = "chart" => Chart!BarLabelsFit

\* The hint under a filter pattern is shown exactly when Go refuses the pattern and the proxy
\* skips the rule.
HintTellsGoVerdict ==
  which = "filter" => Filter!HintIsGoVerdict

\* The stored proxy URL means the route that was submitted, whatever separators its credentials
\* hold.
ProxyRouteIsAsked ==
  which = "proxy" => Proxy!StoredRouteIsAsked
=============================================================================
