--------------------------- MODULE MCBookProgress ---------------------------
(***************************************************************************)
(* Small sets of pages for BookProgress: the pages of StructurePages are   *)
(* about TOC, chapters and open paragraphs, those of TextPages about the   *)
(* blocks that a publication is made of.                                   *)
(***************************************************************************)
EXTENDS BookProgress

CONSTANTS alpha, beta    \* titles
MCTitle == {alpha, beta}
MCField == {"title"}

NoMeta == [f \in Field |-> Nothing]
Page(type) == [type |-> type, toc |-> <<>>, opening |-> Nothing, meta |-> NoMeta,
               blocks |-> <<>>]
Toc(entries) == [Page("toc") EXCEPT !.toc = entries]
Entry(title, level) == [title |-> title, level |-> level]
Opening(title) == [Page("chapter_opening") EXCEPT !.opening = title]
Body(blocks) == [Page("body") EXCEPT !.blocks = blocks]

Open   == [Paragraph EXCEPT !.next = TRUE]
Taken  == [Paragraph EXCEPT !.previous = TRUE]
Middle == [Paragraph EXCEPT !.previous = TRUE, !.next = TRUE]
Block(kind) == [Paragraph EXCEPT !.kind = kind]
ChapterTitle(title) == [Block("chapter_title") EXCEPT !.title = title]
Heading(level) == [Block("heading") EXCEPT !.level = level]
Note(label, refs) == [Block("footnote") EXCEPT !.label = label, !.refs = refs]
Refers(label) == [Paragraph EXCEPT !.refs = {label}]
Figure(bbox) == [Block("figure") EXCEPT !.bbox = bbox]

StructurePages ==
  { [Page("cover") EXCEPT !.meta = [f \in Field |-> "first"]],
    [Page("title") EXCEPT !.meta = [f \in Field |-> "second"]],
    [Page("preface") EXCEPT !.blocks = <<Open>>],
    Toc(<<Entry(alpha, 1)>>), Toc(<<Entry(beta, 1)>>), Toc(<<Entry(beta, 3)>>),
    Toc(<<>>),
    Toc(<<Entry(alpha, 1), Entry(Empty, 1)>>), Toc(<<Entry(alpha, 1), Entry(beta, 3)>>),
    Opening(alpha), [Opening(beta) EXCEPT !.blocks = <<Open>>],
    Opening(Empty), Opening(Nothing),
    [Opening(Nothing) EXCEPT !.blocks = <<ChapterTitle(alpha), Taken>>],
    [Opening(Nothing) EXCEPT !.blocks = <<ChapterTitle(alpha), ChapterTitle(beta)>>],
    Page("body"), Body(<<Paragraph>>), Body(<<Taken>>), Body(<<Middle>>),
    Body(<<[Open EXCEPT !.text = FALSE]>>), Body(<<Paragraph, Taken>>) }

TextPages ==
  { [Page("preface") EXCEPT !.blocks = <<Open>>], Opening(alpha),
    Body(<<[Open EXCEPT !.text = FALSE]>>),
    [Opening(alpha) EXCEPT !.blocks = <<Paragraph, Open>>],
    Body(<<Open>>), Body(<<Taken, Refers(1), Note(1, {})>>), Body(<<Middle>>),
    Body(<<Refers(1), Open, Note(1, {})>>), Body(<<Refers(2)>>),
    Body(<<Note(1, {}), Note(1, {}), Refers(1)>>),
    Body(<<Refers(1), Note(1, {2})>>),
    Body(<<Taken, Figure(TRUE)>>), Body(<<Open, Figure(TRUE)>>),
    Body(<<Figure(FALSE)>>),
    [Body(<<Figure(FALSE), Taken>>) EXCEPT !.type = "figure_page"],
    Body(<<Block("furniture"), Middle, Block("furniture")>>),
    Body(<<Heading(1), Heading(2), Block("separator")>>),
    Body(<<Heading(1), Heading(3)>>),
    Body(<<[Block("text") EXCEPT !.next = TRUE]>>),
    Body(<<Open, Paragraph>>), Body(<<Taken, Heading(0), Open>>) }

AllPages == StructurePages \cup TextPages

\* A book is about one of the two, in text for four pages at most.
MCBook ==
  \/ ToSet(accepted) \subseteq StructurePages
  \/ ToSet(accepted) \subseteq TextPages /\ Len(accepted) <= 4

=============================================================================
