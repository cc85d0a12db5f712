----------------------------- MODULE Sparkline -----------------------------
(***************************************************************************)
(* The small area chart of a tile.  React writes the path of the data it    *)
(* renders; a layout effect then morphs the path from what is drawn to the  *)
(* new shape by writing to the DOM itself, a frame at a time, so the two    *)
(* writers have to agree when a morph is cut short.  A pointer marks the    *)
(* nearest point and strokes the line again around it.                      *)
(***************************************************************************)
EXTENDS Integers, Sequences, FiniteSets, FiniteSetsExt, SequencesExt

CONSTANTS Series,     \* the data the tile may show: sequences over Nat and Missing
          Widths,     \* measured widths; 0 is a container that is not laid out
          Pad,        \* resolveSparklinePadding
          Height,     \* pixels between the paddings
          MaxChanges  \* bound: renders with new data, a new width or another motion preference

VARIABLES
  data, width,  \* props of the frame
  moving,       \* no reduced motion, and a duration
  displayed,    \* displayed.current: the layout last drawn, or None
  running,      \* running.current
  tween,        \* the animation under way: from, to and half steps done, or NoTween
  path,         \* what the path elements hold
  entrances,    \* enter animations played by this mount
  hover,        \* hoverIndex; 0 is null
  pointer,      \* where the last pointer event was; -1 after a leave
  moved,        \* the data or the width changed after it
  restroke,     \* what the highlight's path holds, or None
  changes

morph == <<displayed, running, tween, path, entrances>>
mark  == <<hover, pointer, moved, restroke>>
vars  == <<data, width, moving, morph, mark, changes>>

Missing == -1
None    == [pts |-> <<>>, base |-> -1]

(***************************************************************************)
(* Geometry (sparkline-geometry.ts)                                         *)
(***************************************************************************)
Finite(values) == {values[i] : i \in DOMAIN values} \ {Missing}

\* A flat series is centred: its domain is one below and one above.
Domain(values) ==
  LET lo == IF Finite(values) = {} THEN 0 ELSE Min(Finite(values))
      hi == IF Finite(values) = {} THEN 0 ELSE Max(Finite(values))
  IN  IF lo = hi THEN <<lo - 1, hi + 1>> ELSE <<lo, hi>>

Inner(w) == Max({0, w - 2 * Pad})

Layout(values, w) ==
  LET d    == Domain(values)
      n    == Len(values)
      Y(v) == (Pad + Height) - (((v - d[1]) * Height) \div (d[2] - d[1]))
      X(i) == Pad + (IF n > 1 THEN (Inner(w) * (i - 1)) \div (n - 1) ELSE Inner(w) \div 2)
  IN  [pts  |-> [i \in 1 .. n |-> [x |-> X(i), y |-> IF values[i] = Missing THEN Missing ELSE Y(values[i])]],
       base |-> Y(Min({Max({0, d[1]}), d[2]}))]

\* Half way between, t times: the frames of the animation.
Mix(a, b, t) == a + (((b - a) * t) \div 2)

\* The old shape read at the place of the i-th of n new points.
FromY(from, i, n) ==
  LET m   == Len(from.pts)
      num == (i - 1) * (m - 1)
      lo  == IF n > 1 THEN num \div (n - 1) ELSE 0
      rem == IF n > 1 THEN num % (n - 1) ELSE 0
      a   == from.pts[lo + 1].y
      b   == from.pts[Min({m, lo + 2})].y
  IN  IF m = 0 THEN Missing
      ELSE IF m = n THEN from.pts[i].y
      ELSE IF a = Missing \/ b = Missing THEN Missing
      ELSE a + (((b - a) * rem) \div Max({1, n - 1}))

Interpolate(from, to, t) ==
  LET n == Len(to.pts)
  IN  [pts  |-> [i \in 1 .. n |->
                   LET y == FromY(from, i, n)
                   IN  IF y # Missing /\ to.pts[i].y # Missing
                       THEN [to.pts[i] EXCEPT !.y = Mix(y, to.pts[i].y, t)]
                       ELSE to.pts[i]],
       base |-> Mix(from.base, to.base, t)]

\* Math.round of the place among the points, kept among them.
IndexAtX(x, n, w) ==
  IF n = 0 THEN 0
  ELSE IF Inner(w) <= 0 THEN 1
  ELSE 1 + Min({n - 1, Max({0, (2 * (x - Pad) * (n - 1) + Inner(w)) \div (2 * Inner(w))})})

(***************************************************************************)
(* A render and the layout effects after it                                 *)
(***************************************************************************)
NoTween == [from |-> None, to |-> None, t |-> 0]
SameShape(a, b) == a = b

\* The highlight is a child: its effect copies the path React left, before the morph's first frame.
Restroked(p, h) == IF h # 0 THEN p ELSE None

\* React only writes a path that differs from the one it wrote before.
Written(new) == IF new # Layout(data, width) THEN new ELSE path

\* The first paint, a resize, an unchanged shape and reduced motion snap; what an interrupted
\* morph left is drawn over.
Snap(new) == path' = (IF running THEN new ELSE Written(new)) /\ running' = FALSE

\* Faulty variant: a new morph starts at the shape the last one was going to.
StartFromTarget(new) ==
  LET from == IF tween = NoTween THEN displayed ELSE tween.to IN
    /\ tween' = [from |-> from, to |-> new, t |-> 0]
    /\ displayed' = Interpolate(from, new, 0)
    /\ path' = displayed' /\ running' = TRUE

\* A morph starts at what is displayed, be it the frame of another morph.
Start(new) ==
  /\ tween' = [from |-> displayed, to |-> new, t |-> 0]
  /\ displayed' = Interpolate(displayed, new, 0)
  /\ path' = displayed' /\ running' = TRUE

\* useDataTransition's effect for the layout of this render; the cleanup stops the animation.
Transition(new, resized) ==
  \/ /\ SameShape(displayed, new) \/ resized \/ ~moving
     /\ Snap(new)
     /\ displayed' = new /\ tween' = NoTween
  \/ /\ ~SameShape(displayed, new) /\ ~resized /\ moving
     /\ Start(new)

Change == changes < MaxChanges /\ changes' = changes + 1

\* The chart is mounted while it has a width, and enters when it is.
Mount(w) ==
  /\ Change /\ width = 0 /\ w > 0
  /\ width' = w
  /\ displayed' = Layout(data, w) /\ path' = displayed'
  /\ running' = FALSE /\ tween' = NoTween
  /\ entrances' = IF moving THEN 1 ELSE 0
  /\ moved' = TRUE
  /\ restroke' = Restroked(path', hover)
  /\ UNCHANGED <<data, moving, hover, pointer>>

Collapse ==
  /\ Change /\ width > 0
  /\ width' = 0
  /\ displayed' = None /\ path' = None /\ running' = FALSE /\ tween' = NoTween /\ entrances' = 0
  /\ restroke' = None /\ moved' = TRUE
  /\ UNCHANGED <<data, moving, hover, pointer>>

Resize(w) ==
  /\ Change /\ width > 0 /\ w > 0 /\ w # width
  /\ width' = w /\ moved' = TRUE
  /\ Transition(Layout(data, w), TRUE)
  /\ restroke' = Restroked(Written(Layout(data, w)), hover)
  /\ UNCHANGED <<data, moving, entrances, hover, pointer>>

\* New data, or the same data in a new array.
Data(d) ==
  /\ Change
  /\ data' = d /\ moved' = TRUE
  /\ IF width = 0 THEN UNCHANGED <<morph, restroke>>
     ELSE /\ Transition(Layout(d, width), FALSE)
          /\ restroke' = Restroked(Written(Layout(d, width)), hover)
          /\ UNCHANGED entrances
  /\ UNCHANGED <<width, moving, hover, pointer>>

\* Reduced motion is read when an effect runs.
Prefer == Change /\ moving' = ~moving /\ UNCHANGED <<data, width, morph, mark>>

\* A frame of the animation; the last one is onComplete.
Frame ==
  /\ tween # NoTween
  /\ IF tween.t = 0
     THEN /\ tween' = [tween EXCEPT !.t = 1]
          /\ displayed' = Interpolate(tween.from, tween.to, 1)
          /\ UNCHANGED running
     ELSE /\ tween' = NoTween
          /\ displayed' = tween.to /\ running' = FALSE
  /\ path' = displayed'
  /\ UNCHANGED <<data, width, moving, entrances, mark, changes>>

\* A pointer event renders only when it reaches another index.
Hover(i) == /\ hover' = i
            /\ restroke' = IF i # hover THEN Restroked(path, i) ELSE restroke

PointerMove(x) == /\ width > 0 /\ x # pointer
                  /\ pointer' = x /\ moved' = FALSE
                  /\ Hover(IndexAtX(x, Len(data), width))
                  /\ UNCHANGED <<data, width, moving, morph, changes>>
PointerLeave == /\ width > 0 /\ pointer # -1
                /\ pointer' = -1 /\ moved' = FALSE
                /\ Hover(0)
                /\ UNCHANGED <<data, width, moving, morph, changes>>

Init == /\ data \in Series /\ width = 0 /\ moving = TRUE
        /\ displayed = None /\ running = FALSE /\ tween = NoTween /\ path = None /\ entrances = 0
        /\ hover = 0 /\ pointer = -1 /\ moved = FALSE /\ restroke = None
        /\ changes = 0

Next == \/ \E w \in Widths : Mount(w) \/ Resize(w)
        \/ Collapse \/ Prefer \/ Frame
        \/ \E d \in Series : Data(d)
        \/ \E x \in 0 .. width : PointerMove(x)
        \/ PointerLeave

Spec == Init /\ [][Next]_vars

(***************************************************************************)
(* What is marked (HoverOverlay, SparklineHighlight, the end dot)           *)
(***************************************************************************)
Marked == IF hover \in DOMAIN data THEN hover ELSE 0
EndDot == IF hover # 0 THEN 0 ELSE Max({0} \cup {i \in DOMAIN data : data[i] # Missing})
Band   == LET p == Layout(data, width).pts
              At(i) == IF i \in DOMAIN p THEN p[i].x ELSE 0
          IN  <<At(Max({1, hover - 1})), At(Min({Len(p), hover + 1}))>>

(***************************************************************************)
(* Properties                                                               *)
(***************************************************************************)
TypeOK == /\ data \in Series /\ width \in Widths /\ moving \in BOOLEAN /\ running \in BOOLEAN
          /\ moved \in BOOLEAN /\ hover \in Nat /\ pointer \in Int

\* When nothing is animated the path is that of the data: whatever cut a morph short, a render that
\* React has nothing to write for included, no frame of it stays (sparkline.tsx:262-292).
QuietPathIsData == (width > 0 /\ tween = NoTween) => path = Layout(data, width)

\* New data never makes the line jump: at the points both shapes have, the first frame is at the
\* height that was drawn, in the middle of a morph too.
LineNeverJumps ==
  (data' # data /\ moving /\ width > 0 /\ Len(data') = Len(data)) =>
    \A i \in DOMAIN data :
       (path.pts[i].y # Missing /\ data'[i] # Missing) => path'.pts[i].y = path.pts[i].y

\* The point that is marked is the nearest one to the pointer, it lies in the highlighted band, and
\* the end dot is hidden while there is one.
MarksTheNearest ==
  (hover # 0 /\ ~moved /\ width > 0) =>
     LET p    == Layout(data, width).pts
         D(i) == Max({p[i].x - pointer, pointer - p[i].x})
     IN  /\ Marked # 0 /\ \A i \in DOMAIN p : D(Marked) <= D(i)
         /\ Band[1] <= p[Marked].x /\ p[Marked].x <= Band[2]
         /\ EndDot = 0

============================================================================
