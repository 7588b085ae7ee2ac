------------------------------ MODULE FigureCrop ------------------------------
(***************************************************************************)
(* Which pixels of a page image a figure is cropped to: the chain from the *)
(* model's box in thousandths of the page (BBox1000) over fractions of the *)
(* page (conversion.py) to whole pixels (pdf.py, assets.py). The two axes  *)
(* are treated alike and apart. A page has two sizes: the one it is said   *)
(* to have, by which a box is mapped, and that of its pixels, to which the *)
(* result is clamped.                                                      *)
(***************************************************************************)
EXTENDS Integers

Thousandth == 0 .. 1000

Box == [left : Thousandth, top : Thousandth,
        right : Thousandth, bottom : Thousandth]

\* int((at / 1000.0) * size). The products are doubles: where the exact one is
\* a whole number, the computed one may be just below it, and int() cuts it to
\* the pixel before. At both edges of the page the arithmetic is exact.
Pixels(at, size) ==
    LET exact == (at * size) \div 1000
    IN  {exact} \cup {pixel \in {exact - 1} :
                        at \in 1 .. 999 /\ (at * size) % 1000 = 0}

Lesser(x, y) == IF x =< y THEN x ELSE y
Greater(x, y) == IF x =< y THEN y ELSE x

Distance(x, y) == Greater(x, y) - Lesser(x, y)

\* Fault for Spans: the box is taken to have its corners in order.
UnorderedSpans(from, to, said, size) ==
    {[low |-> Greater(0, x), high |-> Lesser(size, y)] :
        x \in Pixels(from, said), y \in Pixels(to, said)}

\* _clamp_irect on one axis: in order, and within the image.
Spans(from, to, said, size) ==
    {[low |-> Greater(0, Lesser(x, y)), high |-> Lesser(size, Greater(x, y))] :
        x \in Pixels(from, said), y \in Pixels(to, said)}

\* Nothing is left to crop: a ValueError.
Degenerate(span) == span.high =< span.low

\* The ways a crop of this box can come out.
Crops(box, said, size) ==
    {[across |-> across, down |-> down] :
        across \in Spans(box.left, box.right, said.width, size.width),
        down \in Spans(box.top, box.bottom, said.height, size.height)}

CropFails(box, said, size) ==
    \E crop \in Crops(box, said, size) :
        Degenerate(crop.across) \/ Degenerate(crop.down)

===============================================================================
