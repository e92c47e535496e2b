------------------------------- MODULE Shapes -------------------------------
(***************************************************************************)
(* The geometry of one annotation: drawn by a drag (install_drag of        *)
(* ui/canvas.rs), then moved and reshaped with the Select tool             *)
(* (annotate/select.rs, apply_manipulation).  A point is in half pixels,   *)
(* as on a display of scale 2; a rectangle is in whole pixels, so that     *)
(* every conversion rounds.                                                *)
(***************************************************************************)
EXTENDS Integers, SequencesExt, FiniteSetsExt

CONSTANTS
    Kinds,          \* what is drawn: the ToolKinds of the model
    Points,         \* where the pointer may be, in half pixels
    DocSize,        \* <<width, height>> of the document
    MaxDrags,       \* bound on the Select drags
    Nudges,         \* the arrow keys that are pressed: a subset of Arrows
    MaxNudges,      \* bound on them
    None            \* Option::None

BoxKinds == {"Rect", "Ellipse", "Highlight", "Redact", "Blur", "InvertedBlur"}
PairKinds == {"Arrow", "Line"}

\* Pixels as half pixels.
Px(n) == 2 * n

HandleHalfHit == Px(6)
MinBox == 4
MinLen == Px(4)
MinRadius == Px(6)
NumberRadius == Px(18)
TextSize == 18
NudgeSteps == {Px(1), Px(10)}

\* By a pixel, and by ten with Shift.
Arrows == {<<n, 0>> : n \in NudgeSteps} \cup {<<-n, 0>> : n \in NudgeSteps}
            \cup {<<0, n>> : n \in NudgeSteps} \cup {<<0, -n>> : n \in NudgeSteps}

(***************************************************************************)
(* kind     the tool the shape was drawn with                              *)
(* tool     current_tool: the kind, then "Select" again                    *)
(* stroke   the PendingStroke                                              *)
(* layer    the geometry of the shape on the document                      *)
(* selected whether the selection is on it                                 *)
(* manip    the Manipulation                                               *)
(* pointer  where the pointer is                                           *)
(* held     history: the shape and the pointer at the press                *)
(* drags, nudges   bounds                                                  *)
(***************************************************************************)
VARIABLES kind, tool, stroke, layer, selected, manip, pointer, held, drags, nudges

shapeVars == <<kind, tool, stroke, layer, selected, manip, pointer, held, drags, nudges>>

-----------------------------------------------------------------------------
(* Numbers *)

Least(a, b) == IF a <= b THEN a ELSE b
Greatest(a, b) == IF a >= b THEN a ELSE b
Abs(n) == IF n >= 0 THEN n ELSE -n
Sign(n) == IF n >= 0 THEN 1 ELSE -1

\* f64::floor, ceil, round (halves away from zero) and "as i32".
Floor(h) == h \div 2
Ceil(h) == (h + 1) \div 2
Round(h) == IF h >= 0 THEN (h + 1) \div 2 ELSE -((1 - h) \div 2)
Trunc(h) == IF h >= 0 THEN h \div 2 ELSE -((-h) \div 2)

Plus(p, d) == <<p[1] + d[1], p[2] + d[2]>>
Minus(p, q) == <<p[1] - q[1], p[2] - q[2]>>
Square(d) == d[1] * d[1] + d[2] * d[2]

\* The square root, to the half pixel below.
Length(d) == Max({n \in 0..(Abs(d[1]) + Abs(d[2])) : n * n <= Square(d)})

-----------------------------------------------------------------------------
(* Shapes *)

Box(x, y, w, h) == [x |-> x, y |-> y, w |-> w, h |-> h]

TranslateBox(r, d) == [r EXCEPT !.x = @ + Round(d[1]), !.y = @ + Round(d[2])]

DragRect(a, b) ==
    Box(Floor(Least(a[1], b[1])), Floor(Least(a[2], b[2])),
        Ceil(Abs(a[1] - b[1])), Ceil(Abs(a[2] - b[2])))

DragSquare(a, b) ==
    LET d == Minus(b, a)
        side == Greatest(Abs(d[1]), Abs(d[2]))
    IN DragRect(a, Plus(a, <<side * Sign(d[1]), side * Sign(d[2])>>))

ClampToDoc(r) ==
    LET x0 == Greatest(r.x, 0)
        y0 == Greatest(r.y, 0)
        x1 == Greatest(Least(r.x + r.w, DocSize[1]), x0)
        y1 == Greatest(Least(r.y + r.h, DocSize[2]), y0)
    IN Box(x0, y0, x1 - x0, y1 - y0)

\* Pango on two words, each as wide and as high as the font size: with a wrap
\* width too narrow for both they are stacked.
MeasureTextBounds(size, wrap) ==
    CASE wrap = None -> <<2 * size, size>>
      [] wrap # None /\ Px(2 * size) <= wrap -> <<Round(wrap), size>>
      [] OTHER -> <<Greatest(Round(wrap), size), 2 * size>>

TextAt(origin, size, wrap) ==
    [origin |-> origin, size_pt |-> size, wrap_width |-> wrap,
     bounds_cache |-> MeasureTextBounds(size, wrap)]

NumberBounds(s) ==
    Box(Floor(s.center[1] - s.radius), Floor(s.center[2] - s.radius),
        Ceil(2 * s.radius), Ceil(2 * s.radius))

FreehandBounds(s) ==
    LET xs == {p[1] : p \in Range(s)}
        ys == {p[2] : p \in Range(s)}
    IN Box(Floor(Min(xs)), Floor(Min(ys)), Ceil(Max(xs) - Min(xs)), Ceil(Max(ys) - Min(ys)))

TextBounds(s) == Box(Trunc(s.origin[1]), Trunc(s.origin[2]), s.bounds_cache[1], s.bounds_cache[2])

\* Tool::bounds.
BoundsOf(k, s) ==
    CASE k \in BoxKinds -> s
      [] k \in PairKinds -> DragRect(s[1], s[2])
      [] k = "Number" -> NumberBounds(s)
      [] k = "Text" -> TextBounds(s)
      [] k = "Freehand" -> FreehandBounds(s)

\* Closed on every edge.
RectHitTest(r, p) ==
    /\ Px(r.x) <= p[1] /\ p[1] <= Px(r.x + r.w)
    /\ Px(r.y) <= p[2] /\ p[2] <= Px(r.y + r.h)

\* dist_point_segment at most tol.
NearSegment(p, a, b, tol) ==
    LET d == Minus(b, a)
        q == Minus(p, a)
        along == q[1] * d[1] + q[2] * d[2]
        across == q[1] * d[2] - q[2] * d[1]
    IN CASE along <= 0 -> Square(q) <= tol * tol
         [] along >= Square(d) -> Square(Minus(p, b)) <= tol * tol
         [] OTHER -> across * across <= tol * tol * Square(d)

\* Tool::hit_test.
HitTest(k, s, p) ==
    CASE k = "InvertedBlur" -> ~RectHitTest(s, p)
      [] k \in PairKinds -> NearSegment(p, s[1], s[2], HandleHalfHit)
      [] k = "Number" -> Square(Minus(p, s.center)) <= s.radius * s.radius
      [] OTHER -> RectHitTest(BoundsOf(k, s), p)

\* Tool::translate.
Translated(k, s, d) ==
    CASE k \in BoxKinds -> TranslateBox(s, d)
      [] k \in PairKinds -> <<Plus(s[1], d), Plus(s[2], d)>>
      [] k = "Number" -> [s EXCEPT !.center = Plus(@, d)]
      [] k = "Text" -> [s EXCEPT !.origin = Plus(@, d)]
      [] k = "Freehand" -> [i \in DOMAIN s |-> Plus(s[i], d)]

-----------------------------------------------------------------------------
(* Handles.  A handle is on the low, the middle or the high side of each   *)
(* axis; corners are tried before edges.                                   *)

Corners == <<<<"low", "low">>, <<"high", "low">>, <<"high", "high">>, <<"low", "high">>>>
Edges == <<<<"mid", "low">>, <<"high", "mid">>, <<"mid", "high">>, <<"low", "mid">>>>

TextHandles == Corners \o <<<<"high", "mid">>, <<"low", "mid">>>>

Side(side, start, span) ==
    CASE side = "low" -> Px(start) [] side = "mid" -> Px(start) + span
      [] side = "high" -> Px(start + span)

BoxHandlePoint(r, h) == <<Side(h[1], r.x, r.w), Side(h[2], r.y, r.h)>>

PointHandleHit(c, p) == Abs(p[1] - c[1]) <= HandleHalfHit /\ Abs(p[2] - c[2]) <= HandleHalfHit

\* The first of the handles that p is on, or None.
HandleAt(r, handles, p) ==
    LET hits == {i \in DOMAIN handles : PointHandleHit(BoxHandlePoint(r, handles[i]), p)}
    IN IF hits = {} THEN None ELSE handles[Min(hits)]

Grab(part, which) == [part |-> part, which |-> which]

Body == Grab("body", None)

GrabAt(k, s, p) ==
    LET handle == CASE k \in BoxKinds -> HandleAt(BoundsOf(k, s), Corners \o Edges, p)
                    [] k = "Text" -> HandleAt(BoundsOf(k, s), TextHandles, p)
                    [] OTHER -> None
    IN CASE handle # None -> Grab("handle", handle)
         [] k \in PairKinds /\ PointHandleHit(s[1], p) -> Grab("end", 1)
         [] k \in PairKinds /\ ~PointHandleHit(s[1], p) /\ PointHandleHit(s[2], p) -> Grab("end", 2)
         [] k = "Number" /\ PointHandleHit(Plus(s.center, <<s.radius, 0>>), p) -> Grab("radius", None)
         [] OTHER -> IF HitTest(k, s, p) THEN Body ELSE None

-----------------------------------------------------------------------------
(* Reshaping *)

\* One axis of resize_box: the edge on that side goes to m, the two are put in
\* order, and a span under the minimum is widened.
ResizeAxis(start, span, side, m) ==
    LET low == IF side = "low" THEN m ELSE Px(start)
        high == IF side = "high" THEN m ELSE Px(start + span)
        a == Least(low, high)
        b == Greatest(low, high)
        small == b - a < Px(MinBox)
        from == IF small /\ side = "low" THEN b - Px(MinBox) ELSE a
        to == IF small /\ side # "low" THEN a + Px(MinBox) ELSE b
    IN <<Round(from), Greatest(Round(to - from), MinBox)>>

\* Defect: the edges are not put in order.
ResizeBox_NotOrdered(r, h, p) ==
    LET Axis(start, span, side, m) ==
            LET low == IF side = "low" THEN m ELSE Px(start)
                high == IF side = "high" THEN m ELSE Px(start + span)
            IN <<Round(low), Greatest(Round(high - low), MinBox)>>
        x == Axis(r.x, r.w, h[1], p[1])
        y == Axis(r.y, r.h, h[2], p[2])
    IN Box(x[1], y[1], x[2], y[2])

ResizeBox(r, h, p) ==
    LET x == ResizeAxis(r.x, r.w, h[1], p[1])
        y == ResizeAxis(r.y, r.h, h[2], p[2])
    IN Box(x[1], y[1], x[2], y[2])

\* A segment d from the fixed end to the moving one, made MinLen long, to the
\* half pixel above.
PushedOut(d) ==
    LET Stretch(n) == Sign(n) * Min({q \in 0..MinLen : q * q * Square(d) >= MinLen * MinLen * n * n})
    IN CASE Square(d) >= MinLen * MinLen -> d
         [] Square(d) = 0 -> <<MinLen, 0>>
         [] OTHER -> <<Stretch(d[1]), Stretch(d[2])>>

SetEndpoint(s, which, p) ==
    LET fixed == s[3 - which]
    IN [s EXCEPT ![which] = Plus(fixed, PushedOut(Minus(p, fixed)))]

NewRadius(center, p) == Greatest(Length(Minus(p, center)), MinRadius)

\* resize_text: an edge sets the wrap width, a corner the font size.
ResizeText(s, h, p) ==
    LET r == BoundsOf("Text", s)
        left == IF h[1] = "low" THEN p[1] ELSE Px(r.x)
        right == IF h[1] = "low" THEN Px(r.x + r.w) ELSE p[1]
        nr == ResizeBox(r, h, p)
        tenths == Greatest(r.h, Least(10 * nr.h, 200 * r.h))
        size == (2 * s.size_pt * tenths + 10 * r.h) \div (20 * r.h)
    IN IF h[2] = "mid"
       THEN TextAt(<<Least(left, right), s.origin[2]>>, s.size_pt,
                   Greatest(Abs(right - left), Px(MinBox)))
       ELSE TextAt(<<Px(nr.x), Px(nr.y)>>, Greatest(6, Least(size, 200)), s.wrap_width)

\* apply_manipulation: from the snapshot, but a stroke from where it is.
ApplyManipulation(k, s, m, cur) ==
    CASE m.grab = Body /\ k = "Freehand" -> Translated(k, s, Minus(cur, m.last))
      [] m.grab = Body /\ k # "Freehand" ->
            LET moved == Translated(k, m.origin, Minus(cur, m.start))
            IN IF k = "Text" THEN [s EXCEPT !.origin = moved.origin] ELSE moved
      [] m.grab.part = "handle" /\ k \in BoxKinds -> ResizeBox(m.origin, m.grab.which, cur)
      [] m.grab.part = "handle" /\ k = "Text" -> ResizeText(m.origin, m.grab.which, cur)
      [] m.grab.part = "end" -> SetEndpoint(m.origin, m.grab.which, cur)
      [] m.grab.part = "radius" -> [s EXCEPT !.radius = NewRadius(m.origin.center, cur)]

-----------------------------------------------------------------------------
(* Drawing *)

ShapesInit ==
    /\ kind \in Kinds /\ tool = kind
    /\ stroke = None /\ layer = None /\ selected = FALSE
    /\ manip = None /\ held = None
    /\ pointer \in Points
    /\ drags = 0 /\ nudges = 0

\* notify_commit: the overlay returns to Select.
Committed(s) == layer' = s /\ tool' = "Select"

NotCommitted == UNCHANGED <<layer, tool>>

\* drag_begin with a tool in hand.  What is drawn by a click begins no stroke.
BeginStroke ==
    /\ tool \notin {"Select", "Number", "Text"}
    /\ stroke = None
    /\ stroke' = [from |-> pointer, to |-> pointer,
                  points |-> IF tool = "Freehand" THEN <<pointer>> ELSE <<>>]
    /\ UNCHANGED <<kind, tool, layer, selected, manip, pointer, held, drags, nudges>>

\* drag_update.
UpdateStroke(p) ==
    /\ stroke # None
    /\ p # pointer
    /\ Len(stroke.points) < 3
    /\ pointer' = p
    /\ stroke' = [stroke EXCEPT !.to = p,
                                !.points = IF kind = "Freehand" THEN Append(@, p) ELSE @]
    /\ UNCHANGED <<kind, tool, layer, selected, manip, held, drags, nudges>>

LargeBox(r) == r.w >= 2 /\ r.h >= 2

\* What the stroke leaves on the document, or None: with Shift a Rect or an
\* Ellipse is square.
Drawn(shift) ==
    LET r == CASE kind \in {"Rect", "Ellipse"} /\ shift -> DragSquare(stroke.from, pointer)
               [] kind \in {"Blur", "InvertedBlur", "Crop"} ->
                    ClampToDoc(DragRect(stroke.from, pointer))
               [] OTHER -> DragRect(stroke.from, pointer)
    IN CASE kind \in BoxKinds \cup {"Crop"} -> IF LargeBox(r) THEN r ELSE None
         [] kind \in PairKinds -> IF Square(Minus(pointer, stroke.from)) >= Px(4) * Px(4)
                                 THEN <<stroke.from, pointer>> ELSE None
         [] kind = "Freehand" -> IF Len(stroke.points) >= 2 THEN stroke.points ELSE None

\* drag_end.
EndStroke(shift) ==
    /\ stroke # None
    /\ stroke' = None
    /\ IF Drawn(shift) # None THEN Committed(Drawn(shift)) ELSE NotCommitted
    /\ UNCHANGED <<kind, selected, manip, pointer, held, drags, nudges>>

\* place_number, and a label of the default size.
Place ==
    /\ tool \in {"Number", "Text"}
    /\ Committed(IF tool = "Number" THEN [center |-> pointer, radius |-> NumberRadius]
                 ELSE TextAt(pointer, TextSize, None))
    /\ UNCHANGED <<kind, stroke, selected, manip, pointer, held, drags, nudges>>

-----------------------------------------------------------------------------
(* Selecting.  A crop is no layer: it cannot be selected. *)

BeginManipulation(grab) ==
    /\ manip' = [grab |-> grab, origin |-> layer, start |-> pointer, last |-> pointer]
    /\ held' = [grab |-> grab, shape |-> layer, at |-> pointer]
    /\ selected' = TRUE

\* begin_select: the handles of the selected shape, its body, or nothing.
BeginSelect ==
    /\ tool = "Select" /\ manip = None /\ drags < MaxDrags
    /\ drags' = drags + 1
    /\ LET grab == IF kind # "Crop" /\ selected THEN GrabAt(kind, layer, pointer) ELSE None
       IN \/ grab # None /\ BeginManipulation(grab)
          \/ /\ grab = None
             /\ IF kind # "Crop" /\ HitTest(kind, layer, pointer) THEN BeginManipulation(Body)
                ELSE selected' = FALSE /\ UNCHANGED <<manip, held>>
    /\ UNCHANGED <<kind, tool, stroke, layer, pointer, nudges>>

\* Defect: the drag forgets how far it has come.
UpdateSelect_KeepsLast(p) ==
    /\ manip # None
    /\ p # pointer
    /\ layer' = ApplyManipulation(kind, layer, manip, p)
    /\ pointer' = p
    /\ UNCHANGED <<kind, tool, stroke, selected, manip, held, drags, nudges>>

\* drag_update, update_select.
UpdateSelect(p) ==
    /\ manip # None
    /\ p # pointer
    /\ layer' = ApplyManipulation(kind, layer, manip, p)
    /\ manip' = [manip EXCEPT !.last = p]
    /\ pointer' = p
    /\ UNCHANGED <<kind, tool, stroke, selected, held, drags, nudges>>

EndSelect ==
    /\ manip # None
    /\ manip' = None /\ held' = None
    /\ UNCHANGED <<kind, tool, stroke, layer, selected, pointer, drags, nudges>>

Hover(p) ==
    /\ stroke = None /\ manip = None
    /\ p # pointer
    /\ pointer' = p
    /\ UNCHANGED <<kind, tool, stroke, layer, selected, manip, held, drags, nudges>>

\* handle_select_key with an arrow key, during a drag too.
Nudge(d) ==
    /\ tool = "Select" /\ selected /\ nudges < MaxNudges
    /\ layer' = Translated(kind, layer, d)
    /\ nudges' = nudges + 1
    /\ UNCHANGED <<kind, tool, stroke, selected, manip, pointer, held, drags>>

ShapesNext ==
    \/ BeginStroke \/ Place \/ BeginSelect \/ EndSelect
    \/ \E shift \in BOOLEAN : EndStroke(shift)
    \/ \E p \in Points : UpdateStroke(p) \/ UpdateSelect(p) \/ Hover(p)
    \/ \E d \in Nudges : Nudge(d)

ShapesSpec == ShapesInit /\ [][ShapesNext]_shapeVars

-----------------------------------------------------------------------------
(* What the drag promises *)

\* Where a shape is, and what it is wherever it is.
Anchor(s) ==
    CASE kind \in BoxKinds -> <<Px(s.x), Px(s.y)>>
      [] kind \in PairKinds \cup {"Freehand"} -> s[1]
      [] kind = "Number" -> s.center
      [] kind = "Text" -> s.origin

Form(s) ==
    CASE kind \in BoxKinds -> <<s.w, s.h>>
      [] kind \in PairKinds \cup {"Freehand"} -> [i \in DOMAIN s |-> Minus(s[i], s[1])]
      [] kind = "Number" -> s.radius
      [] kind = "Text" -> [s EXCEPT !.origin = <<0, 0>>]

Close(p, q, slack) == Abs(p[1] - q[1]) <= slack /\ Abs(p[2] - q[2]) <= slack

\* The shape keeps its form and its place under the pointer: to half a pixel
\* of the press, whatever way the pointer came; a freehand stroke exactly, and
\* from where the arrow keys have put it.
BodyFollows ==
    /\ Form(layer') = Form(layer)
    /\ IF kind = "Freehand"
       THEN Minus(Anchor(layer'), pointer') = Minus(Anchor(layer), pointer)
       ELSE Close(Minus(Anchor(layer'), pointer'), Minus(Anchor(held.shape), held.at), 1)

\* One axis of a box: of its two edges one is under the pointer and one where
\* the edge opposite the handle was, both to the minimum size and a rounding; an
\* axis that the handle does not move stays, but for the minimum.
AxisFollows(was, now, side, m) ==
    LET slack == Px(MinBox) + 1
        fixed == Px(IF side = "low" THEN was[1] + was[2] ELSE was[1])
        low == Px(now[1])
        high == Px(now[1] + now[2])
    IN IF side = "mid" THEN now = <<was[1], Greatest(was[2], MinBox)>>
       ELSE \/ Abs(low - m) <= slack /\ Abs(high - fixed) <= slack
            \/ Abs(high - m) <= slack /\ Abs(low - fixed) <= slack

HandleFollows ==
    LET h == held.grab.which
        was == held.shape
    IN IF kind = "Text"
       THEN h[2] = "mid" =>
                LET r == BoundsOf(kind, layer')
                IN Px(r.x) - 1 <= pointer'[1] /\ pointer'[1] <= Px(r.x + r.w) + 1
       ELSE /\ AxisFollows(<<was.x, was.w>>, <<layer'.x, layer'.w>>, h[1], pointer'[1])
            /\ AxisFollows(<<was.y, was.h>>, <<layer'.y, layer'.h>>, h[2], pointer'[2])

\* The end is where it could be grabbed again, the other has not moved, and the
\* segment is long enough to be hit.
EndFollows ==
    LET n == held.grab.which
    IN /\ PointHandleHit(layer'[n], pointer')
       /\ layer'[3 - n] = held.shape[3 - n]
       /\ Square(Minus(layer'[1], layer'[2])) >= MinLen * MinLen

\* The rim, about the centre of the press: an arrow key in between moves the
\* centre and not what the radius is measured from.
RadiusFollows ==
    /\ layer'.center = layer.center
    /\ Abs(layer'.radius - Length(Minus(pointer', held.shape.center))) <= HandleHalfHit

\* What was grabbed stays under the pointer for as long as it is held: every
\* move of a Select drag leaves the shape, its edge, its end or its rim where
\* the pointer is, with no drift over the moves, and the rest of it in place.
FollowsPointer ==
    (manip # None /\ manip' # None /\ pointer' # pointer) =>
        CASE held.grab = Body -> BodyFollows
          [] held.grab.part = "handle" -> HandleFollows
          [] held.grab.part = "end" -> EndFollows
          [] held.grab.part = "radius" -> RadiusFollows

GripFollows == [][FollowsPointer]_shapeVars

=============================================================================
