----------------------------- MODULE ModelDonut -----------------------------
(***************************************************************************)
(* The donut of the model-mix card and the table beside it, which share one *)
(* hovered index.  The ring listens to mouse events on its svg and reports  *)
(* only a change of slice; the rows listen to pointer events, which a       *)
(* browser dispatches before the mouse events of the same movement.  The    *)
(* models are fetched again under the pointer, and an empty list takes the  *)
(* ring and the table away.                                                 *)
(***************************************************************************)
EXTENDS Integers, Sequences, SequencesExt, FiniteSets, FiniteSetsExt

CONSTANTS Lists,     \* the models' amounts, largest first, as a fetch may give them
          Ring,      \* models with a slice of their own, and rows of the table
          MaxChanges \* bound: fetches

VARIABLES
  models,   \* the amounts of the last fetch
  hovered,  \* the card's state; 0 is null
  slice,    \* pointerSliceRef of the mounted ring; 0 is null
  at,       \* where the pointer is
  doubt,    \* why the hovered index need not be what the pointer is on (history)
  changes

vars == <<models, hovered, slice, at, doubt, changes>>

\* The rest of the models is one more slice, without a row.
Rows   == Min({Ring, Len(models)})
Slices == SubSeq(models, 1, Rows) \o (IF Len(models) > Ring THEN <<FoldLeft(+, 0, SubSeq(models, Ring + 1, Len(models)))>> ELSE <<>>)
Total  == FoldLeft(+, 0, Slices)

Away == [on |-> "away", i |-> 0]
Gap  == [on |-> "gap", i |-> 0]

\* A slice of nothing has no area to point at.
Places == {Away}
          \cup (IF models = <<>> THEN {} ELSE {Gap})
          \cup {[on |-> "slice", i |-> k] : k \in {k \in DOMAIN Slices : Slices[k] > 0}}
          \cup {[on |-> "row", i |-> k] : k \in 1 .. Rows}
OnRing(p) == p.on \in {"gap", "slice"}
OnRow(p)  == p.on = "row"
Under(p)  == p.i

\* handleSliceMouseLeave: only a ring that reported a slice takes it back.
RingLeft(p, h) == slice' = 0 /\ hovered' = IF slice # 0 THEN 0 ELSE h

\* handleSliceMouseMove: a slice is reported when it is another one.
RingMoved(p, h) == slice' = Under(p) /\ hovered' = IF Under(p) # slice THEN Under(p) ELSE h

\* One movement: pointerleave and pointerenter of the rows, then the ring's mouse events.
AfterRows(p) == IF OnRow(p) THEN Under(p) ELSE IF OnRow(at) THEN 0 ELSE hovered
Told(p) == OnRow(p) \/ OnRow(at) \/ (OnRing(p) /\ Under(p) # slice) \/ (OnRing(at) /\ ~OnRing(p) /\ slice # 0)

PointerTo(p) ==
  /\ p # at \/ (OnRing(p) /\ Under(p) # slice)
  /\ at' = p
  /\ \/ OnRing(p) /\ RingMoved(p, AfterRows(p))
     \/ OnRing(at) /\ ~OnRing(p) /\ RingLeft(p, AfterRows(p))
     \/ ~OnRing(at) /\ ~OnRing(p) /\ hovered' = AfterRows(p) /\ UNCHANGED slice
  /\ doubt' = (IF Told(p) THEN {} ELSE doubt \cap {"orphan"})
                \cup (IF OnRow(p) /\ slice # 0 THEN {"jumped"} ELSE {})
  /\ UNCHANGED <<models, changes>>

\* A fetch brings other amounts, or none at all: then ring and table are gone.  A row or a ring that
\* goes from under the pointer reports no leaving.
Fetched(list) ==
  /\ changes < MaxChanges /\ changes' = changes + 1 /\ list # models
  /\ models' = list
  /\ IF list = <<>>
       THEN /\ slice' = 0 /\ at' = Away
            /\ doubt' = IF hovered # 0 THEN {"orphan"} ELSE {}
       ELSE /\ UNCHANGED slice
            /\ at' = IF at \in Places' THEN at ELSE IF OnRing(at) THEN Gap ELSE Away
            /\ doubt' = doubt \cup {"moved"} \cup (IF OnRow(at) /\ at \notin Places' THEN {"orphan"} ELSE {})
  /\ UNCHANGED hovered

Init == /\ models \in Lists /\ hovered = 0 /\ slice = 0 /\ at = Away /\ doubt = {} /\ changes = 0
Next == (\E p \in Places : PointerTo(p)) \/ (\E list \in Lists : Fetched(list))
Spec == Init /\ [][Next]_vars

-----------------------------------------------------------------------------
\* What is drawn: the slice that is lifted, the slices and rows that are dimmed, and the centre,
\* which is the hovered slice's part of the whole or, without one, the whole.
Lifted(k)  == hovered = k
Dimmed(k)  == hovered # 0 /\ hovered # k
PieCenter  == IF hovered \in DOMAIN Slices THEN <<Slices[hovered], Total>> ELSE <<Total, Total>>
RowShare(k) == <<models[k], FoldLeft(+, 0, models)>>

-----------------------------------------------------------------------------
TypeOK == /\ models \in Lists /\ hovered \in 0 .. Ring + 1 /\ slice \in 0 .. Ring + 1
          /\ at.on \in {"away", "gap", "slice", "row"} /\ doubt \subseteq {"moved", "orphan", "jumped"}

\* The ring and the table agree with the pointer, whichever of the two it is on and however it got
\* there: what it points at is lifted and nothing else, and when it points at nothing nothing is
\* dimmed.  Left out are a pointer the fetch moved the models under, one whose row or ring was
\* taken away, and one that reached a row from a slice in a single movement.
PointsAtOne ==
  doubt = {} =>
    /\ hovered = Under(at)
    /\ \A k \in DOMAIN Slices : Lifted(k) <=> Under(at) = k
    /\ \A k \in DOMAIN Slices : Dimmed(k) <=> at.i # 0 /\ at.i # k
    /\ slice = IF OnRing(at) THEN Under(at) ELSE 0

\* Whatever happened, a ring the pointer is not on holds no slice back, so that the next one is
\* reported; and the centre never shows part of another whole than the table's.
RingStaysHonest ==
  /\ ~OnRing(at) => slice = 0
  /\ hovered \in 1 .. Rows => PieCenter = RowShare(hovered)
  /\ PieCenter[1] <= PieCenter[2]

=============================================================================
