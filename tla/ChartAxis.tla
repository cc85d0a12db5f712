----------------------------- MODULE ChartAxis -----------------------------
(***************************************************************************)
(* The labels of the time axis: the round times the traffic chart asks for, *)
(* and the rows that carry a label when the axis chooses them itself.       *)
(* Indices of rows start at 0, as in the code; a label is a time cut to the *)
(* grain of its format.                                                     *)
(***************************************************************************)
EXTENDS Naturals, Integers, Sequences, SequencesExt, FiniteSets, FiniteSetsExt

CONSTANTS MaxRows,    \* bound: rows of the data
          MaxGap,     \* bound: time between two rows
          Counts,     \* label counts asked for
          Grains,     \* grains of the label's format
          Horizon,    \* how far a projection goes past the data
          MaxLayouts, \* MAX_GAP_LAYOUTS
          TickSteps,  \* TICK_STEPS, in minutes
          MinTickGap, \* MIN_TICK_GAP
          Half,       \* half the width of a label
          PlotWidths  \* widths of the plot

VARIABLES times,    \* the rows' times
          target,   \* labels asked for
          grain,    \* of the format
          mode,     \* "data", "domain", "filter" or "value"
          brush,    \* an x domain is set
          ahead,    \* the domain goes past the data
          width     \* of the plot
vars == <<times, target, grain, mode, brush, ahead, width>>

N         == Len(times)
T(i)      == times[i + 1]
DomainEnd == T(N - 1) + IF ahead THEN Horizon ELSE 0
Label(t)  == t \div grain

(***************************************************************************)
(* Which rows carry a label (data mode)                                     *)
(***************************************************************************)
Binomial(n, k) == Cardinality(kSubset(k, 1 .. n))

\* composePositiveSum: the ways to split a span into gaps of at least one row.
ComposePositiveSum(sum, parts) == {g \in [1 .. parts -> 1 .. (sum - parts + 1)] : FoldLeft(+, 0, g) = sum}
GapsToIndices(g) == {0} \cup {FoldLeft(+, 0, SubSeq(g, 1, k)) : k \in DOMAIN g}

\* Evenly spaced by row number, rounded half up; both ends are always in.
IndicesForTickCount(n, c) ==
  {(2 * i * (n - 1) + c - 1) \div (2 * (c - 1)) : i \in 0 .. (c - 1)} \cup {0, n - 1}

AllIndexLayouts(n, c) ==
  IF Binomial(n - 2, c - 2) > MaxLayouts THEN {IndicesForTickCount(n, c)}
  ELSE {GapsToIndices(g) : g \in ComposePositiveSum(n - 1, c - 1)}

\* Of rows with one label the first is kept.
DedupeIndicesByLabel(l) == {i \in l : \A j \in l : j < i => Label(T(j)) # Label(T(i))}

Sorted(s)    == SetToSortSeq(s, <)
Steps(s)     == [k \in 1 .. Len(s) - 1 |-> s[k + 1] - s[k]]
Abs(x)       == Max({x, -x})
Smallest(g)  == Min({k \in DOMAIN g : \A j \in DOMAIN g : g[k] <= g[j]})

\* The score in whole numbers: the spread of the gaps on screen over their mean, 0.1 for each label
\* too many or too few, 0.08 for a smallest gap inside, 0.02 for each row of asymmetry.
ScoreTickLayout(l) ==
  LET rows   == Sorted(l)
      gaps   == Steps(rows)
      px     == Steps([k \in DOMAIN rows |-> T(rows[k])])
      parts  == Len(gaps)
      unit   == 60 \div parts
      spread == Max(Range(px)) - Min(Range(px))
      total  == T(rows[Len(rows)]) - T(rows[1])
      off    == Abs(Len(rows) - target)
      least  == Smallest(gaps)
      inside == IF least > 1 /\ least < parts THEN 8 ELSE 0
      skew   == FoldLeft(+, 0, [k \in DOMAIN gaps |-> Abs(gaps[k] - gaps[parts + 1 - k])])
  IN  << (100 * spread * parts * 60 + (10 * off + inside) * 60 * total + 2 * skew * unit * total), total,
         off, skew * unit, IF least = parts THEN 0 ELSE IF least = 1 THEN 1 ELSE 2 >>

IsBetterTickLayout(a, b) ==
  LET x == a[1] * b[2]  y == b[1] * a[2]
  IN  x < y \/ (x = y /\ \E k \in 3 .. 5 : a[k] < b[k] /\ \A j \in 3 .. (k - 1) : a[j] = b[j])

\* Faulty variant: one label less than asked for is never tried.
CandidateCountsMore == target .. Min({N, target + 1})

CandidateCounts == Max({2, target - 1}) .. Min({N, target + 1})

Candidates ==
  {IndicesForTickCount(N, target)}
  \cup {l \in {DedupeIndicesByLabel(l) : l \in UNION {AllIndexLayouts(N, c) : c \in CandidateCounts}} :
          Cardinality(l) >= 2}

SelectEvenlySpacedIndices ==
  IF N <= target THEN 0 .. (N - 1)
  ELSE LET score == [l \in Candidates |-> ScoreTickLayout(l)]
       IN  CHOOSE l \in DOMAIN score : \A o \in DOMAIN score : ~IsBetterTickLayout(score[o], score[l])

(***************************************************************************)
(* The ticks of each mode: sequences of times                               *)
(***************************************************************************)
\* seenLabels: a time whose label is already shown gets none.
DropRepeats(ts) == LET keep == {k \in DOMAIN ts : \A j \in 1 .. (k - 1) : Label(ts[j]) # Label(ts[k])}
                   IN  [k \in 1 .. Cardinality(keep) |-> ts[Sorted(keep)[k]]]

DataAligned  == LET l == Sorted(SelectEvenlySpacedIndices) IN DropRepeats([k \in DOMAIN l |-> T(l[k])])
DomainTicks  == LET c == Max({2, target})
                IN  DropRepeats([k \in 1 .. c |-> T(0) + ((k - 1) * (DomainEnd - T(0))) \div (c - 1)])
FilteredTicks(kept)    == DropRepeats(SelectSeq(times, LAMBDA t : t \in kept))
ValueTicks(values)     == DropRepeats(SelectSeq(values, LAMBDA t : t >= T(0) /\ t <= DomainEnd))

\* At most three labels between the data and the domain's end, and the end itself.
AppendProjectionTail(ticks) ==
  LET count  == Min({Max({1, target - Len(ticks) + 1}), 3})
      last   == T(N - 1)
      extras == [i \in 1 .. count |-> last + (i * (DomainEnd - last)) \div (count + 1)] \o <<DomainEnd>>
  IN  DropRepeats(ticks \o extras)

\* labelsToShow.
Ticks ==
  CASE mode = "value"  -> ValueTicks([k \in 1 .. 4 |-> 2 * k - 2])
    [] mode = "domain" -> DomainTicks
    [] mode = "filter" -> FilteredTicks({t \in Range(times) : t % 2 = 0})
    [] OTHER -> IF ~ahead THEN DataAligned
                ELSE IF ~brush THEN DomainTicks ELSE AppendProjectionTail(DataAligned)

(***************************************************************************)
(* Round times (roundTimeTicks; two units make a minute, so that a start    *)
(* may lie between two minutes)                                             *)
(***************************************************************************)
NextMinute(u) == (u + 1) \div 2

FirstTick(u, step) == NextMinute(u) + IF NextMinute(u) % step = 0 THEN 0 ELSE step - (NextMinute(u) % step)
RoundTimeTicks(start, end, step) ==
  LET first == FirstTick(start, step)
  IN  [k \in 1 .. (IF first > end THEN 0 ELSE (end - first) \div step + 1) |-> first + (k - 1) * step]

\* tickStep: the finest step whose labels have room, else the coarsest.
TickStep(span) ==
  LET fits == {k \in DOMAIN TickSteps : width * TickSteps[k] >= MinTickGap * span}
  IN  TickSteps[IF fits = {} THEN Len(TickSteps) ELSE Min(fits)]

(***************************************************************************)
(* Where a label is drawn: its left edge, for a label centred on its tick   *)
(***************************************************************************)
X(t)          == ((t - T(0)) * width) \div Max({1, DomainEnd - T(0)})

\* clamp(min - x, -50%, max - x - 100%): the left bound wins.
LabelShift(x) == Max({0, Min({x - Half, width - 2 * Half})})

\* Hidden under the crosshair's pill (here as wide as a label) or when it says the same.
LabelOpacity(t, cross) == IF Abs(X(t) - X(cross)) < Half \/ Label(t) = Label(cross) THEN "hidden" ELSE "shown"

(***************************************************************************)
(* The chart is given other data, another width, another kind of axis       *)
(***************************************************************************)
AddRow == /\ N < MaxRows /\ \E g \in 1 .. MaxGap : times' = Append(times, T(N - 1) + g)
          /\ UNCHANGED <<target, grain, mode, brush, ahead, width>>
Retarget == /\ target' \in Counts /\ grain' \in Grains
            /\ UNCHANGED <<times, mode, brush, ahead, width>>
ChangeAxis == /\ mode' \in {"data", "domain", "filter", "value"} /\ brush' \in BOOLEAN /\ ahead' \in BOOLEAN
              /\ brush' => mode' = "data" /\ ahead'
              /\ UNCHANGED <<times, target, grain, width>>
Resize == width' \in PlotWidths /\ UNCHANGED <<times, target, grain, mode, brush, ahead>>

Init == /\ times = <<0, 1>> /\ target = Min(Counts) /\ grain = Min(Grains) /\ mode = "data"
        /\ brush = FALSE /\ ahead = FALSE /\ width = Min(PlotWidths)
Next == AddRow \/ Retarget \/ ChangeAxis \/ Resize
Spec == Init /\ [][Next]_vars

(***************************************************************************)
(* Properties                                                               *)
(***************************************************************************)
\* In every mode, with or without a projection, no label is said twice, the labels stand in the
\* order of time and inside the domain, and what the pointer's pill covers or repeats is hidden.
LabelsApart ==
  \A ticks \in {Ticks} :
      /\ \A i, j \in DOMAIN ticks : i < j => ticks[i] < ticks[j] /\ Label(ticks[i]) # Label(ticks[j])
      /\ \A i \in DOMAIN ticks : ticks[i] >= T(0) /\ ticks[i] <= DomainEnd
      /\ \A t \in Range(times) : \A i \in DOMAIN ticks :
           LabelOpacity(ticks[i], t) = "shown" => Label(ticks[i]) # Label(t) /\ X(ticks[i]) # X(t)

\* With a label of its own for every row, the rows chosen begin and end with the data and no
\* choice of rows of about the size asked for scores better, had each been tried.
TicksOptimal ==
  (grain = 1 /\ N > target /\ mode = "data" /\ ~ahead) =>
    LET best  == SelectEvenlySpacedIndices
        score == ScoreTickLayout(best)
    IN  /\ {0, N - 1} \subseteq best /\ Cardinality(best) \in target - 1 .. target + 1
        /\ \A l \in SUBSET (0 .. N - 1) :
             (/\ {0, N - 1} \subseteq l /\ Cardinality(l) \in Max({2, target - 1}) .. target + 1
              /\ Binomial(N - 2, Cardinality(l) - 2) <= MaxLayouts)
               => ~IsBetterTickLayout(ScoreTickLayout(l), score)

\* The round times of the traffic chart are all the multiples of its step from a start on or between
\* two minutes to the last row, and as far apart as a label needs unless the step is the coarsest.
RoundTicksAll ==
  LET span  == T(N - 1) - T(0)
      step  == TickStep(span)
  IN  /\ \A u \in 0 .. 3 : Range(RoundTimeTicks(u, DomainEnd, step)) = {t \in 0 .. DomainEnd : 2 * t >= u /\ t % step = 0}
      /\ step = TickSteps[Len(TickSteps)] \/ width * step >= MinTickGap * span

\* A label at the edge of a plot that has room for it is drawn whole, and covers its tick.
EdgeLabelsWhole ==
  width >= 2 * Half => \A t \in Range(times) :
    LET left == LabelShift(X(t)) IN left >= 0 /\ left + 2 * Half <= width /\ X(t) \in left .. left + 2 * Half
=============================================================================
