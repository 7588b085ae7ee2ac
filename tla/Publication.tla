---------------------------- MODULE Publication ----------------------------
(***************************************************************************)
(* rendering/publication.py: the blocks of the accepted pages become those *)
(* of the publication.  Paragraphs that continue over a page boundary are  *)
(* merged, footnotes are numbered through the book and put at its end.     *)
(*                                                                         *)
(* A block of the publication is represented by the source blocks it is    *)
(* made of, each as its page and its place on the page: that is what its   *)
(* source map says, and its content is their content in that order.        *)
(***************************************************************************)
EXTENDS PageRules, FiniteSets, SequencesExt

\* The places of the blocks of a book, in reading order.
Places(pages) ==
  FlattenSeq([n \in DOMAIN pages |-> [i \in DOMAIN pages[n].blocks |-> <<n, i>>]])

BlockAt(pages, place) == pages[place[1]].blocks[place[2]]

NotePlaces(pages) ==
  LET all == Places(pages)
  IN  Chosen(all, {x \in ToSet(all) : BlockAt(pages, x).kind = "footnote"})

\* Fault: notes of one label share a number, whatever page they are on.
NumbersByLabel(pages) ==
  [x \in {<<p[1], BlockAt(pages, p).label>> : p \in ToSet(NotePlaces(pages))} |->
     CHOOSE k \in DOMAIN NotePlaces(pages) :
       BlockAt(pages, NotePlaces(pages)[k]).label = x[2]]

\* The label map: notes are numbered through the book; a label is the page's.
NoteNumbers(pages) ==
  [x \in {<<p[1], BlockAt(pages, p).label>> : p \in ToSet(NotePlaces(pages))} |->
     CHOOSE k \in DOMAIN NotePlaces(pages) :
       <<NotePlaces(pages)[k][1], BlockAt(pages, NotePlaces(pages)[k]).label>> = x]

LabelsTwice(pages) ==
  Cardinality(DOMAIN NoteNumbers(pages)) < Len(NotePlaces(pages))

\* A figure with a bounding box was cropped when its page was accepted.
HasAsset(figure) == figure.bbox

\* Running heads and figures without an image are left out, notes come last.
Published(b) ==
  \/ b.kind \in {"paragraph", "heading", "chapter_title", "text", "separator"}
  \/ b.kind = "figure" /\ HasAsset(b)

RawBlocks(pages) ==
  LET all == Places(pages)
  IN  Chosen(all, {x \in ToSet(all) : Published(BlockAt(pages, x))})

\* A flag on anything but a paragraph, a reference to a note the page has not.
CollectFails(pages) ==
  \E x \in ToSet(Places(pages)) :
    LET b == BlockAt(pages, x)
    IN  \/ b.kind \in {"heading", "chapter_title", "text"} /\ (b.previous \/ b.next)
        \/ /\ b.kind \notin {"furniture", "figure", "separator"}
           /\ \E r \in b.refs : <<x[1], r>> \notin DOMAIN NoteNumbers(pages)

-----------------------------------------------------------------------------
\* _merge_continuations, one block at a time.  "open" is the output block that
\* waits for its continuation, "between" whether another block came after it.
MergeStart == [fails |-> FALSE, out |-> <<>>, open |-> 0, page |-> 0, between |-> FALSE]

\* Fault: what stands between the parts of a paragraph is not noticed.
AppendUnnoticed(m, place, b) ==
  [m EXCEPT !.out = Append(@, <<place>>),
            !.open = IF b.next THEN Len(m.out) + 1 ELSE @,
            !.page = IF b.next THEN place[1] ELSE @,
            !.between = FALSE]

AppendBlock(m, place, b) ==
  [m EXCEPT !.out = Append(@, <<place>>),
            !.open = IF b.next THEN Len(m.out) + 1 ELSE @,
            !.page = IF b.next THEN place[1] ELSE @,
            !.between = ~ b.next /\ m.open # 0]

ContinueBlock(m, place, b) ==
  IF m.open = 0 \/ m.between \/ place[1] # m.page + 1 THEN [m EXCEPT !.fails = TRUE]
  ELSE [m EXCEPT !.out[m.open] = Append(@, place),
                 !.open = IF b.next THEN @ ELSE 0,
                 !.page = IF b.next THEN place[1] ELSE 0]

\* Fault: whatever paragraph comes next is taken for the continuation.
MergeWhatFollows(pages, m, place) ==
  LET b == BlockAt(pages, place)
  IN  IF m.fails THEN m
      ELSE IF b.kind = "paragraph" /\ m.open # 0 THEN ContinueBlock(m, place, b)
           ELSE AppendBlock(m, place, b)

MergeStep(pages, m, place) ==
  LET b == BlockAt(pages, place)
  IN  IF m.fails THEN m
      ELSE IF b.previous THEN ContinueBlock(m, place, b) ELSE AppendBlock(m, place, b)

Merged(pages) ==
  LET raw == RawBlocks(pages)
      f[n \in 0..Len(raw)] ==
        IF n = 0 THEN MergeStart ELSE MergeStep(pages, f[n-1], raw[n])
  IN  f[Len(raw)]

PublicationFails(pages) ==
  LabelsTwice(pages) \/ CollectFails(pages) \/ Merged(pages).fails

\* The blocks of the publication: the merged ones, then the notes.
PublicationBlocks(pages) ==
  Merged(pages).out \o [i \in DOMAIN NotePlaces(pages) |-> <<NotePlaces(pages)[i]>>]

\* The metadata of the publication, collected from the pages anew.
PublicationMeta(pages) ==
  [f \in Field |->
     LET given == Chosen(pages, {p \in ToSet(pages) : p.meta[f] # Nothing})
     IN  IF given = <<>> THEN Nothing ELSE given[1].meta[f]]

=============================================================================
