------------------------------- MODULE Region -------------------------------
(***************************************************************************)
(* capture/region.rs: rectangles on the desktop, and how captured images   *)
(* are scaled, stitched, cropped and sliced.  A pixel is named for what it *)
(* shows: an output and a cell of its screen, or None where nothing was    *)
(* drawn.  An image is a function on its cells; `format` is the byte order *)
(* it claims, `order` the one its pixels have.                             *)
(***************************************************************************)
EXTENDS Integers, SequencesExt

CONSTANT None       \* Option::None; a transparent pixel

Right(r) == r.x + r.w

Bottom(r) == r.y + r.h

RectUnion(a, b) ==
    LET x == Min({a.x, b.x})
        y == Min({a.y, b.y})
    IN [x |-> x, y |-> y, w |-> Max({Right(a), Right(b)}) - x,
                          h |-> Max({Bottom(a), Bottom(b)}) - y]

\* Half open: neighbours do not share their border.
Within(r, x, y) == /\ r.x <= x /\ x < Right(r)
                   /\ r.y <= y /\ y < Bottom(r)

Intersect(a, b) ==
    LET x == Max({a.x, b.x})
        y == Max({a.y, b.y})
        r == Min({Right(a), Right(b)})
        e == Min({Bottom(a), Bottom(b)})
    IN IF r <= x \/ e <= y THEN None
       ELSE [x |-> x, y |-> y, w |-> r - x, h |-> e - y]

Cells(w, h) == (0..(w - 1)) \X (0..(h - 1))

-----------------------------------------------------------------------------
\* The Triangle filter of the image crate: a cell of the result shows what the
\* source shows at the cell's centre.
Resized(img, w, h) ==
    [img EXCEPT !.w = w, !.h = h,
                !.at = [p \in Cells(w, h) |->
                    img.at[<<((2 * p[1] + 1) * img.w) \div (2 * w),
                             ((2 * p[2] + 1) * img.h) \div (2 * h)>>]]]

\* Defect: an image that is larger than its output keeps its device pixels.
ToLogicalSize_KeepsDevicePixels(img) == img

ToLogicalSize(img) ==
    IF img.source = None \/ img.source.logical.w = 0 \/ img.source.logical.h = 0
    THEN img
    ELSE Resized(img, img.source.logical.w, img.source.logical.h)

\* Where an image lies on the desktop.
Place(img) ==
    IF img.source = None THEN [x |-> 0, y |-> 0, w |-> img.w, h |-> img.h]
    ELSE img.source.logical

Bbox(images) ==
    LET upto[n \in DOMAIN images] ==
            IF n = 1 THEN Place(images[1])
            ELSE RectUnion(upto[n - 1], Place(images[n]))
    IN upto[Len(images)]

\* The images at their places on one canvas, each over those before it.
Composite(images, box) ==
    LET Off(i, p) == <<p[1] + box.x - Place(images[i]).x,
                       p[2] + box.y - Place(images[i]).y>>
        Drawn(p) == {i \in DOMAIN images :
                        Off(i, p) \in Cells(images[i].w, images[i].h)}
    IN [w |-> box.w, h |-> box.h, source |-> None,
        format |-> images[1].format, order |-> images[1].order,
        at |-> [p \in Cells(box.w, box.h) |->
                    IF Drawn(p) = {} THEN None
                    ELSE LET i == Max(Drawn(p)) IN images[i].at[Off(i, p)]]]

\* The part `part` of an image whose top left is at the point <<x, y>>.
Cut(img, x, y, part) ==
    [img EXCEPT !.w = part.w, !.h = part.h, !.source = None,
                !.at = [p \in Cells(part.w, part.h) |->
                    img.at[<<p[1] + part.x - x, p[2] + part.y - y>>]]]

Crop(img, origin, rect) ==
    LET clipped == Intersect(rect, origin)
    IN CASE clipped = None -> None
         [] clipped = origin -> img
         [] OTHER -> Cut(img, origin.x, origin.y, clipped)

\* An error is None.
Stitch(images, selection) ==
    IF Len(images) = 1 /\ selection.kind # "Region" THEN images[1]
    ELSE LET normalised == [i \in DOMAIN images |-> ToLogicalSize(images[i])]
             box == Bbox(images)
             whole == Composite(normalised, box)
         IN IF selection.kind = "Region" THEN Crop(whole, box, selection.rect)
            ELSE whole

SlicePixels(img, origin, slice) ==
    LET base == [x |-> origin[1], y |-> origin[2], w |-> img.w, h |-> img.h]
        clipped == Intersect(base, slice)
    IN IF clipped = None THEN None ELSE Cut(img, base.x, base.y, clipped)

=============================================================================
