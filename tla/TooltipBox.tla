----------------------------- MODULE TooltipBox -----------------------------
(***************************************************************************)
(* The panel of a chart's tooltip: where it opens beside the pointer, and   *)
(* how it grows and shrinks with its content.  Placing is a layout effect   *)
(* of the pointer and the container; the size is tweened by a spring that   *)
(* starts a frame after the content changed, and that new content, a flip   *)
(* of the side or a change of the motion preference can cut short.          *)
(***************************************************************************)
EXTENDS Integers, Sequences, FiniteSets, FiniteSetsExt

CONSTANTS Panels,      \* sizes of the content: records of w and h
          Default,     \* the size assumed before the first measurement
          Containers,  \* sizes of the chart: records of w and h
          Gap,         \* TOOLTIP_EDGE_GAP
          Off,         \* offset from the pointer
          MaxShows, MaxChanges  \* bounds: times it is shown; changes of content, size and motion

VARIABLES
  shown,     \* visible: the inner box is mounted
  at,        \* the pointer: x, y and flipX, the x that chooses the side
  box,       \* the container's size
  panel,     \* the layout size of the panel
  moving,    \* no reduced motion
  place,     \* the left, top and side it was last given
  replays,   \* flip.key, of which only a change matters (kept mod 2): the panel is mounted anew
  placedFor, \* the content's size when it was placed
  target, from, progress,  \* of usePanelSizeTween; from is None when there is no tween
  spring,    \* "idle", "pending" until the next frame, or "running"
  shows, changes

tween == <<target, from, progress, spring>>
spot  == <<place, replays, placedFor>>
vars  == <<shown, at, box, panel, moving, spot, tween, shows, changes>>

None == [w |-> -1, h |-> -1]

(***************************************************************************)
(* Placing                                                                  *)
(***************************************************************************)
FitsRight(a, p, b) == a.x + Off + p.w <= b.w - Gap
FitsLeft(a, p)     == (a.x - Off) - p.w >= Gap

\* Left near the right edge; the other side when only that one has room.
Flipped(a, p, b) ==
  LET wanted == a.flipX + p.w + Off > b.w
  IN  IF wanted THEN FitsLeft(a, p) \/ ~FitsRight(a, p, b)
      ELSE ~FitsRight(a, p, b) /\ FitsLeft(a, p)

\* Clamped inside the container; halves are rounded to the pixel.
Target(a, p, b) ==
  LET left  == IF Flipped(a, p, b) THEN (a.x - Off) - p.w ELSE a.x + Off
      right == Max({Gap, (b.w - p.w) - Gap})
  IN  [flipped |-> Flipped(a, p, b),
       left    |-> Min({Max({left, Gap}), right}),
       top     |-> Max({Off, Min({a.y - (p.h \div 2), (b.h - p.h) - Off})})]

(***************************************************************************)
(* The size tween                                                           *)
(***************************************************************************)
\* Sizes in 1/16 of a pixel; progress in halves.
Scale(p) == [w |-> 16 * p.w, h |-> 16 * p.h]
MixPanelSizes(f, t, k) == [w |-> f.w + (((t.w - f.w) * k) \div 2), h |-> f.h + (((t.h - f.h) * k) \div 2)]

\* The size the transforms of drawPanelTween show; without one it is the layout's.
Drawn == IF from = None THEN Scale(panel) ELSE MixPanelSizes(from, target, progress)

Stop  == spring' = "idle"
Reset == from' = None

\* The first measurement of a panel only records its size.
Record(p) == /\ target' = Scale(p) /\ progress' = 2
             /\ Stop /\ Reset

\* A change in the middle of a tween starts again from the size that is drawn.
Restart(p) == from' = IF from # None /\ progress < 2 THEN MixPanelSizes(from, target, progress) ELSE target

\* After every render, and for every size the observer reports.
Check(p) ==
  IF ~moving \/ Scale(p) = target THEN UNCHANGED tween
  ELSE /\ Restart(p)
       /\ target' = Scale(p) /\ progress' = 0 /\ spring' = "pending"

\* Faulty variant: switching the tween off stops the spring and keeps the transforms.
CleanupNoReset == Stop /\ UNCHANGED <<from, target, progress>>

\* The effect is torn down: no spring and no transform is left.
Cleanup == Stop /\ Reset /\ UNCHANGED <<target, progress>>

(***************************************************************************)
(* Actions                                                                  *)
(***************************************************************************)
Change == changes < MaxChanges /\ changes' = changes + 1

\* The box is mounted anew on every show, placed for the default size and, in the layout effect,
\* for the one measured; a side that changes between the two mounts the panel again.
Show(a, p) ==
  /\ ~shown /\ shows < MaxShows
  /\ shown' = TRUE /\ at' = a /\ panel' = p /\ placedFor' = p
  /\ place' = Target(a, p, box)
  /\ replays' = IF Target(a, Default, box).flipped # place'.flipped THEN 1 ELSE 0
  /\ Record(p)
  /\ shows' = shows + 1
  /\ UNCHANGED <<box, moving, changes>>

Hide == /\ shown /\ shown' = FALSE /\ Cleanup
        /\ UNCHANGED <<at, box, panel, moving, spot, shows, changes>>

\* The layout effect of the pointer and the container, on the size measured now.
Place(a, p, b) ==
  /\ place' = Target(a, p, b) /\ placedFor' = p
  /\ replays' = IF place'.flipped # place.flipped THEN 1 - replays ELSE replays

\* The pointer moved, with or without new content: a panel that changes sides is mounted anew.
Move(a, p) ==
  /\ shown /\ (a # at \/ p # panel)
  /\ IF p = panel THEN UNCHANGED changes ELSE Change
  /\ at' = a /\ panel' = p
  /\ IF a = at THEN UNCHANGED spot ELSE Place(a, p, box)
  /\ IF replays' # replays THEN Record(p) ELSE Check(p)
  /\ UNCHANGED <<shown, box, moving, shows>>

Resize(b) ==
  /\ shown /\ b # box /\ Change
  /\ box' = b
  /\ Place(at, panel, b)
  /\ IF replays' # replays THEN Record(panel) ELSE UNCHANGED tween
  /\ UNCHANGED <<shown, at, panel, moving, shows>>

\* Reduced motion switches the tween off; back on, the panel is measured first.
Prefer ==
  /\ shown /\ Change
  /\ moving' = ~moving
  /\ IF moving THEN Cleanup ELSE Record(panel)
  /\ UNCHANGED <<shown, at, box, panel, spot, shows>>

\* The frame after the change starts the spring; it runs to its end.
StartSpring == /\ spring = "pending" /\ spring' = "running"
               /\ UNCHANGED <<shown, at, box, panel, moving, spot, target, from, progress, shows, changes>>
Update      == /\ spring = "running" /\ progress = 0 /\ progress' = 1
               /\ UNCHANGED <<shown, at, box, panel, moving, spot, target, from, spring, shows, changes>>
Complete    == /\ spring = "running" /\ progress = 1
               /\ progress' = 2 /\ Stop /\ Reset
               /\ UNCHANGED <<shown, at, box, panel, moving, spot, target, shows, changes>>

\* Nearest-point hover chooses the side by the column, which need not be the point's x.
Pointers == {a \in [x : 0 .. box.w, y : {0, box.h}, flipX : 0 .. box.w] :
               a.flipX - a.x \in {0, 1}}

Init == /\ shown = FALSE /\ at = [x |-> 0, y |-> 0, flipX |-> 0] /\ box \in Containers
        /\ panel = Default /\ moving = TRUE
        /\ place = [flipped |-> FALSE, left |-> 0, top |-> 0] /\ replays = 0 /\ placedFor = Default
        /\ target = Scale(Default) /\ from = None /\ progress = 2 /\ spring = "idle"
        /\ shows = 0 /\ changes = 0

Next == \/ \E a \in Pointers, p \in Panels : Show(a, p) \/ Move(a, p)
        \/ Hide \/ Prefer \/ StartSpring \/ Update \/ Complete
        \/ \E b \in Containers : Resize(b)

Spec == Init /\ [][Next]_vars

(***************************************************************************)
(* Properties                                                               *)
(***************************************************************************)
TypeOK == /\ shown \in BOOLEAN /\ moving \in BOOLEAN /\ panel \in Panels \cup {Default}
          /\ box \in Containers /\ spring \in {"idle", "pending", "running"} /\ progress \in 0 .. 2

\* A panel that was placed for its size lies inside the chart when it fits there at all, never
\* covers the pointer while one side has room for it, and enters from the side it is on
\* (tooltip-box.tsx:436-478).
PanelPlaced ==
  (shown /\ placedFor = panel) =>
     /\ panel.w + 2 * Gap <= box.w => Gap <= place.left /\ place.left + panel.w <= box.w - Gap
     /\ panel.h + 2 * Off <= box.h => Off <= place.top /\ place.top + panel.h <= box.h - Off
     /\ (FitsLeft(at, panel) \/ FitsRight(at, panel, box)) =>
           IF place.flipped THEN place.left + panel.w < at.x ELSE at.x < place.left

\* New content never makes the panel jump: it is drawn at the size it had, in the middle of another
\* tween too (tooltip-box.tsx:242), unless it is mounted anew.
PanelNeverJumps ==
  (shown /\ shown' /\ moving /\ replays' = replays /\ panel' # panel) => Drawn' = Drawn

\* Once no spring is pending or running the panel is drawn at the size of its content: nothing
\* that cuts a tween short leaves its transforms behind (tooltip-box.tsx:339-344).
QuietPanelIsContent == (shown /\ spring = "idle") => Drawn = Scale(panel)
=============================================================================
