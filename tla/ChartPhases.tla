---------------------------- MODULE ChartPhases ----------------------------
(***************************************************************************)
(* The time-series chart.  Part "motion": the phases between loading and    *)
(* ready, each ended by an animation, with the y-domain that follows them.  *)
(* Part "hover": the tooltip, which pointer events schedule and an          *)
(* animation frame commits, over data that is refetched under the pointer.  *)
(* Part "bars": the stacked bars of traffic by account, whose tooltip is    *)
(* scheduled the same way but follows no refetch.                           *)
(***************************************************************************)
EXTENDS Naturals, Integers, Sequences, SequencesExt, FiniteSets, FiniteSetsExt

CONSTANTS MaxFlips,  \* bound: changes of status, of the motion preference and of the data
          MaxMoves,  \* bound: pointer events
          Width,     \* pixels of the plot
          Plot,      \* pixels of the bar chart's plot
          MaxBars,   \* buckets of a whole window
          Values     \* requests of one account in one bucket

VARIABLES
  part,      \* "motion", "hover" or "bars"
  status,    \* prop: "loading" or "ready"
  moving,    \* prop: animationDuration > 0 (no reduced motion)
  tweens,    \* prop: yDomainTweenDuration > 0
  phase,     \* chartPhase
  loaded,    \* isLoaded
  domain,    \* animatedByAxis: that of the "skeleton", of the "target", or "between"
  data,      \* the target's points and its version
  lastX,     \* lastHoveredXRef; -1 is null (bars: where in the plot the pointer is, pointerInPlotRef)
  tooltip,   \* the tooltip that is up, or None
  pending,   \* pendingRef, or None
  lastKey,   \* lastKeyRef: index and rounded x
  frame,     \* an animation frame is requested
  dragging, selection, touched,
  flips, moves

motion == <<status, moving, tweens, phase, loaded, domain>>
tip    == <<tooltip, pending, lastKey, frame>>
hover  == <<lastX, tip, dragging, selection, touched>>
vars   == <<part, motion, data, hover, flips, moves>>

None  == [index |-> 0, x |-> -1, ver |-> -1, len |-> 0]
NoKey == <<0, -1>>

(***************************************************************************)
(* What a phase shows                                                       *)
(***************************************************************************)
RestingPhase(s) == IF s = "loading" THEN "loading" ELSE "ready"
InitialPhase(s, d) == IF s = "ready" /\ d THEN "revealing" ELSE RestingPhase(s)

PlotData == IF phase = "exiting" \/ (phase = "loading" /\ status = "loading") THEN "skeleton" ELSE "target"
TweenPhase(p) == p \in {"gridTweenLoading", "gridTweenReady"}

\* resolveAnimatedYDestinationDomains: the scale stays while the series leaves the plot.
Destination(p) == IF p \in {"loading", "exiting", "gridTweenLoading"} THEN "skeleton" ELSE "target"

\* In the grid-tween phases, and in "ready" when motion is allowed, the animated domain is what
\* is drawn; everywhere else it is set to the destination in the same render.
MayTween(p) == TweenPhase(p) \/ (p = "ready" /\ moving)
Rendered(p) == IF MayTween(p) THEN domain ELSE Destination(p)
ShownDomain == IF MayTween(phase) THEN domain ELSE Destination(phase)

PulseMode     == IF phase = "loading" THEN "loop" ELSE IF phase = "exiting" THEN "exit" ELSE "none"
SeriesContent == phase \in {"revealing", "ready", "exitingReady"}
LoadingLabel  == phase \in {"loading", "exiting", "gridTweenReady"}
CanInteract   == loaded /\ phase = "ready"

(***************************************************************************)
(* The tooltip (use-scheduled-tooltip.ts, use-chart-interaction.ts)         *)
(***************************************************************************)
X(i, n) == ((i - 1) * Width) \div (n - 1)

\* The point nearest to a pixel; the left one of two that are equally near.
Nearest(x, n) ==
  Min({i \in 1 .. n : \A j \in 1 .. n : Max({x - X(i, n), X(i, n) - x}) <= Max({x - X(j, n), X(j, n) - x})})
Resolve(x, d) == LET i == Nearest(x, d.len) IN [index |-> i, x |-> X(i, d.len), ver |-> d.ver, len |-> d.len]
Key(t) == <<t.index, t.x>>

\* A tooltip that is up already asks for no frame, but is remembered for one that is under way.
Schedule(t) == /\ pending' = t
               /\ frame' = (frame \/ Key(t) # lastKey)
               /\ UNCHANGED <<tooltip, lastKey>>

\* Faulty variant: the frame that is under way is not cancelled.
ClearTooltipOnly == tooltip' = None /\ lastKey' = NoKey /\ UNCHANGED <<pending, frame>>

ClearTooltip == tooltip' = None /\ lastKey' = NoKey /\ pending' = None /\ frame' = FALSE

Frame ==
  /\ frame /\ frame' = FALSE
  /\ IF pending # None /\ Key(pending) # lastKey
     THEN lastKey' = Key(pending) /\ tooltip' = pending ELSE UNCHANGED <<lastKey, tooltip>>
  /\ UNCHANGED <<part, motion, data, lastX, pending, dragging, selection, touched, flips, moves>>

\* The effect on new data, scales or interactivity.
Reanchor(can, d) == IF can /\ lastX >= 0 THEN Schedule(Resolve(lastX, d)) ELSE UNCHANGED tip

Heard == part = "hover" /\ CanInteract /\ moves < MaxMoves /\ moves' = moves + 1
         /\ UNCHANGED <<part, motion, data, flips>>
Select(a, b) == selection' = <<Nearest(Min({a, b}), data.len), Nearest(Max({a, b}), data.len)>>

MouseMove(x) ==
  /\ Heard /\ UNCHANGED <<dragging, touched>>
  /\ IF dragging >= 0 THEN Select(dragging, x) /\ UNCHANGED <<lastX, tip>>
     ELSE lastX' = x /\ Schedule(Resolve(x, data)) /\ UNCHANGED selection
MouseLeave == Heard /\ lastX' = -1 /\ ClearTooltip /\ dragging' = -1 /\ selection' = <<>> /\ UNCHANGED touched
MouseDown(x) == Heard /\ dragging' = x /\ ClearTooltip /\ selection' = <<>> /\ UNCHANGED <<lastX, touched>>
MouseUp == Heard /\ dragging' = -1 /\ selection' = <<>> /\ UNCHANGED <<lastX, tip, touched>>

\* One finger hovers, two select.
TouchStart(x) ==
  /\ Heard /\ touched' = TRUE /\ UNCHANGED dragging
  /\ \/ lastX' = x /\ Schedule(Resolve(x, data)) /\ UNCHANGED selection
     \/ \E y \in 0 .. Width : ClearTooltip /\ Select(x, y) /\ UNCHANGED lastX
TouchMove(x) ==
  /\ Heard /\ touched /\ UNCHANGED <<dragging, touched>>
  /\ \/ lastX' = x /\ Schedule(Resolve(x, data)) /\ UNCHANGED selection
     \/ selection # <<>> /\ (\E y \in 0 .. Width : Select(x, y)) /\ UNCHANGED <<lastX, tip>>
TouchEnd == Heard /\ touched /\ selection # <<>> /\ selection' = <<>> /\ UNCHANGED <<lastX, tip, dragging, touched>>
PointerDownOutside ==
  Heard /\ touched /\ touched' = FALSE /\ lastX' = -1 /\ ClearTooltip /\ UNCHANGED <<dragging, selection>>

(***************************************************************************)
(* The phases (use-chart-phase-orchestrator.ts)                             *)
(***************************************************************************)
Enter(p) == phase' = p /\ domain' = Rendered(p)

StatusTransition(s) ==
  IF s = "ready" THEN (IF moving THEN "exiting" ELSE IF tweens THEN "gridTweenReady" ELSE "revealing")
  ELSE (IF moving THEN "exitingReady" ELSE IF tweens THEN "gridTweenLoading" ELSE "loading")

FlipStatus ==
  /\ part = "motion" /\ flips < MaxFlips /\ flips' = flips + 1
  /\ status' \in {"loading", "ready"} \ {status} /\ loaded' = FALSE
  /\ Enter(StatusTransition(status'))
  /\ UNCHANGED <<part, moving, tweens, data, hover, moves>>

\* The viewer's motion preference changes: a chart at rest plays its reveal again.  (While the
\* series leaves or the grid tweens it is not changed here: see the README.)
ShouldReplay == status = "ready" /\ phase = "ready"
ChangeMotion ==
  /\ part # "bars" /\ flips < MaxFlips /\ flips' = flips + 1 /\ moving' = ~moving
  /\ phase \notin {"exitingReady", "gridTweenReady", "gridTweenLoading"}
  /\ IF ShouldReplay THEN phase' = "revealing" /\ loaded' = FALSE /\ domain' = "target"
     ELSE UNCHANGED <<phase, loaded, domain>>
  /\ UNCHANGED <<part, status, tweens, data, hover, moves>>

\* The points are fetched again: in "ready" the scale tweens to the new target.
Refetch ==
  /\ part # "bars" /\ flips < MaxFlips /\ flips' = flips + 1
  /\ \E n \in {2, 3} : data' = [len |-> n, ver |-> data.ver + 1]
  /\ domain' = IF phase = "ready" /\ moving THEN "between" ELSE domain
  /\ Reanchor(CanInteract, data')
  /\ UNCHANGED <<part, status, moving, tweens, phase, loaded, lastX, dragging, selection, touched, moves>>

LoadingPulseComplete ==
  /\ PulseMode = "exit" /\ Enter("gridTweenReady")
  /\ UNCHANGED <<part, status, moving, tweens, loaded, data, hover, flips, moves>>
RevealConcealComplete ==
  /\ phase = "exitingReady" /\ Enter("gridTweenLoading")
  /\ UNCHANGED <<part, status, moving, tweens, loaded, data, hover, flips, moves>>

AfterTween(p) == CASE p = "gridTweenLoading" -> "loading" [] p = "gridTweenReady" -> "revealing" [] OTHER -> p

\* A tween moves the domain, or is over (at once when the domains are close or motion is off).
TweenUpdate ==
  /\ TweenPhase(phase) /\ moving /\ domain # Destination(phase) /\ domain' = "between" /\ domain # "between"
  /\ UNCHANGED <<part, status, moving, tweens, phase, loaded, data, hover, flips, moves>>
TweenComplete ==
  /\ TweenPhase(phase) \/ domain # Destination(phase)
  /\ domain' = Destination(phase) /\ phase' = AfterTween(phase)
  /\ UNCHANGED <<part, status, moving, tweens, loaded, data, hover, flips, moves>>

RevealTimer ==
  /\ phase = "revealing" /\ Enter("ready") /\ loaded' = TRUE
  /\ Reanchor(TRUE, data)
  /\ UNCHANGED <<part, status, moving, tweens, data, lastX, dragging, selection, touched, flips, moves>>

(***************************************************************************)
(* Stacked bars (bar-chart.tsx, bar.tsx, bar-x-axis.tsx)                    *)
(***************************************************************************)
\* scaleBand with padding 0.3, both ends of the i-th of n bands, times 10n + 3: the bands share the
\* plot with a gap of three tenths of a step before each and after the last.
BandEnds(i, n) == <<Plot * (10 * i - 7), Plot * 10 * i>>
OnBar(x, i, n) == BandEnds(i, n)[1] <= x * (10 * n + 3) /\ x * (10 * n + 3) <= BandEnds(i, n)[2]

\* The pointer is resolved on columns that leave no gaps; the tooltip stands at the band's centre.
Column(x, n) == 1 + Max({0, Min({n - 1, (x * n) \div Plot})})
Centre(i, n) == (Plot * (20 * i - 7) + (10 * n + 3)) \div (2 * (10 * n + 3))
ResolveBar(x, d) == LET i == Column(x, d.len) IN [index |-> i, x |-> Centre(i, d.len), ver |-> d.ver, len |-> d.len]

Faded(i) == tooltip # None /\ tooltip.index # i

\* A bucket's stack: where the segment of the i-th series starts, the end the tooltip gives for it,
\* the extents of all stacks and the domain, in tenths, they are drawn on.
Total(v) == FoldLeft(+, 0, v)
StackOffset(v, i) == Total(SubSeq(v, 1, i - 1))
Segment(v, i) == <<StackOffset(v, i), StackOffset(v, i) + v[i]>>
TooltipEnd(v, i) == Total(SubSeq(v, 1, i))
MaxExtent(rows) == Max({0} \cup {Total(SubSeq(v, 1, i)) : v \in rows, i \in 1 .. 2})
ValueDomain(rows) == <<0, 11 * (IF MaxExtent(rows) > 0 THEN MaxExtent(rows) ELSE 100)>>

\* The labels under the bars: all of them, or every step-th from the first.
LabelCount(w) == IF w >= 768 THEN 6 ELSE IF w >= 640 THEN 4 ELSE 3
Step(n, most) == (n + most - 1) \div most
BarLabels(n, most) == IF n <= most THEN 1 .. n ELSE {i \in 1 .. n : (i - 1) % Step(n, most) = 0}

\* The listeners are attached once the bars have grown; the margins are no part of the plot.
BarHeard == part = "bars" /\ loaded /\ moves < MaxFlips /\ moves' = moves + 1
            /\ UNCHANGED <<part, motion, data, dragging, selection, touched, flips>>
PlotMove(x) == BarHeard /\ lastX' = x /\ Schedule(ResolveBar(x, data))
PlotLeave == /\ BarHeard /\ lastX' = -1
             /\ IF lastX >= 0 THEN ClearTooltip ELSE UNCHANGED tip

BarsGrown ==
  /\ part = "bars" /\ ~loaded /\ loaded' = TRUE
  /\ UNCHANGED <<part, status, moving, tweens, phase, domain, data, hover, flips, moves>>

\* New buckets; the tooltip stays what it is until the pointer reaches another column.
BarsRefetch ==
  /\ part = "bars" /\ flips < MaxFlips /\ flips' = flips + 1
  /\ \E n \in 1 .. 3 : data' = [len |-> n, ver |-> data.ver + 1]
  /\ UNCHANGED <<part, motion, hover, moves>>

\* The hour has no traffic left, or the plot no width: the chart is gone, and grows again later.
BarsUnmount ==
  /\ part = "bars" /\ flips < MaxFlips /\ flips' = flips + 1
  /\ lastX' = -1 /\ ClearTooltip /\ loaded' = FALSE
  /\ UNCHANGED <<part, status, moving, tweens, phase, domain, data, dragging, selection, touched, moves>>

Bars == (\E x \in 0 .. Plot : PlotMove(x)) \/ PlotLeave \/ BarsGrown \/ BarsRefetch \/ BarsUnmount

Init ==
  /\ part \in {"motion", "hover", "bars"} /\ status \in {"loading", "ready"} /\ moving \in BOOLEAN /\ tweens \in BOOLEAN
  /\ part # "motion" => status = "ready"
  /\ part = "bars" => moving /\ ~tweens
  /\ phase = (IF part = "bars" THEN RestingPhase(status) ELSE InitialPhase(status, moving))
  /\ loaded = (status = "ready" /\ ~moving) /\ domain = Destination(phase)
  /\ data = [len |-> 3, ver |-> 0] /\ lastX = -1
  /\ tooltip = None /\ pending = None /\ lastKey = NoKey /\ frame = FALSE
  /\ dragging = -1 /\ selection = <<>> /\ touched = FALSE /\ flips = 0 /\ moves = 0

Pointer == \/ \E x \in 0 .. Width : MouseMove(x) \/ MouseDown(x) \/ TouchStart(x) \/ TouchMove(x)
           \/ MouseLeave \/ MouseUp \/ TouchEnd \/ PointerDownOutside
Animation == LoadingPulseComplete \/ RevealConcealComplete \/ TweenUpdate \/ TweenComplete \/ RevealTimer
Next == FlipStatus \/ ChangeMotion \/ Refetch \/ Pointer \/ Frame \/ Animation \/ Bars

Spec == Init /\ [][Next]_vars

(***************************************************************************)
(* Properties                                                               *)
(***************************************************************************)
\* The series is drawn only from its own data and never on the skeleton's scale, the loading pulse
\* and label only when it is not, and a chart that answers the pointer draws its series.
SeriesOnItsScale ==
  /\ SeriesContent => PlotData = "target" /\ ShownDomain # "skeleton" /\ PulseMode = "none" /\ ~LoadingLabel
  /\ PulseMode # "none" => PlotData = "skeleton" /\ ShownDomain = "skeleton"
  /\ CanInteract => SeriesContent /\ status = "ready"

\* Without a frame under way, a tooltip that is up is that of the point nearest to where the
\* pointer was last seen, in the data of now; when it left there is none.
TooltipIsPointed ==
  (part # "bars" /\ tooltip # None /\ ~frame) =>
     /\ lastX >= 0
     /\ CanInteract => /\ tooltip.index = Nearest(lastX, data.len)
                       /\ tooltip.x = X(tooltip.index, data.len)

\* Without a frame under way, the bar whose tooltip is up is the one of the column the pointer was
\* last seen in, of the buckets there were then; a pointer on a drawn bar has that bar's, no other
\* bar of the same data stays bright, and a pointer that left the plot, or a chart that is gone,
\* has none, whatever frame was under way (handlePlotMouseLeave, useScheduledTooltip).
BarIsPointed ==
  (part = "bars" /\ tooltip # None /\ ~frame) =>
     /\ loaded /\ lastX >= 0
     /\ Key(tooltip) = Key(pending) /\ pending.index = Column(lastX, pending.len)
     /\ pending.ver = data.ver =>
          /\ \A i \in 1 .. data.len : OnBar(lastX, i, data.len) => i = tooltip.index
          /\ {i \in 1 .. data.len : ~Faded(i)} = {tooltip.index}

\* The segments of a bar follow each other from the zero line to its total, the tooltip puts a
\* series at the end of its own segment, and the domain has room for the tallest bar.  (The geometry
\* does not depend on the pointer: it is looked at while the bars grow.)
StacksWhole ==
  (part = "bars" /\ ~loaded) =>
    \A v \in [1 .. 2 -> Values], w \in [1 .. 2 -> Values] :
      /\ Segment(v, 1)[1] = 0 /\ Segment(v, 2)[1] = Segment(v, 1)[2] /\ Segment(v, 2)[2] = Total(v)
      /\ \A i \in 1 .. 2 : TooltipEnd(v, i) = Segment(v, i)[2]
      /\ LET d == ValueDomain({v, w}) IN d[1] < d[2] /\ 10 * Total(v) <= d[2] /\ 10 * Total(w) <= d[2]

\* No more labels than the width has room for stand under the bars, the first bar has one, they are
\* evenly spaced, and a smaller step would give too many.
BarLabelsFit ==
  (part = "bars" /\ ~loaded) =>
    \A n \in 1 .. MaxBars, w \in {320, 640, 768} :
      \A labels \in {BarLabels(n, LabelCount(w))} :
        /\ 1 \in labels /\ Cardinality(labels) <= LabelCount(w)
        /\ \A i \in labels : i + Step(n, LabelCount(w)) <= n => i + Step(n, LabelCount(w)) \in labels
        /\ Step(n, LabelCount(w)) > 1 => (n - 1) \div (Step(n, LabelCount(w)) - 1) >= LabelCount(w)

=============================================================================
