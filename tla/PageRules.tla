----------------------------- MODULE PageRules -----------------------------
(***************************************************************************)
(* What a page does to the state of the book, as pure definitions: the     *)
(* structural rules of validation.py, the reducer of state.py and the      *)
(* context of context.py.  A page is the interpretation of one assessment. *)
(*                                                                         *)
(* Titles are members of Title, already normalised; the text of a block is *)
(* represented by whether there is any.  An open paragraph tail is         *)
(* represented by the number of the page whose last paragraph it ends, the *)
(* position of a page counting from 1.                                     *)
(***************************************************************************)
EXTENDS Integers, Sequences

CONSTANTS Title,           \* normalised titles of chapters and TOC entries
          Empty,           \* a title without text
          Nothing,         \* None
          Field,           \* the fields of ExtractedMetadata
          RequireNotes,    \* require_same_page_footnotes
          RequireCrops,    \* require_figure_crops
          RecentLimit      \* headings a context shows, 12

ASSUME RulesAssumption ==
  /\ RequireNotes \in BOOLEAN /\ RequireCrops \in BOOLEAN /\ RecentLimit \in Nat
  /\ Empty \notin Title /\ Nothing \notin Title \cup {Empty}

TocStatus == {"not_seen", "collecting", "committed", "absent"}

PageType == {"cover", "title", "copyright", "dedication", "toc", "preface",
             "chapter_opening", "body", "figure_page", "appendix", "bibliography",
             "index", "blank", "other"}

\* A paragraph block; the other kinds are made from it with EXCEPT.
Paragraph == [kind |-> "paragraph", previous |-> FALSE, next |-> FALSE,
              text |-> TRUE, level |-> 0, title |-> Nothing, label |-> 0,
              refs |-> {}, bbox |-> FALSE]

\* The kinds of block the rules tell apart: "text" is a text block of another
\* role, "furniture" a running header, footer or page number.
TextKind == {"paragraph", "heading", "chapter_title", "text", "furniture"}
Kind     == TextKind \cup {"footnote", "figure", "separator"}

SourceBlock == [kind : Kind, previous : BOOLEAN, next : BOOLEAN, text : BOOLEAN,
                level : 0..6, title : Title \cup {Empty, Nothing}, label : Nat,
                refs : SUBSET Nat, bbox : BOOLEAN]
TocEntry    == [title : Title \cup {Empty}, level : 1..6]
Metadata    == [Field -> {Nothing} \cup STRING]

\* PageInterpretation: what a model can answer with, and the schema admits.
Interpretation == [type : PageType, toc : Seq(TocEntry),
                   opening : Title \cup {Empty, Nothing},
                   meta : Metadata, blocks : Seq(SourceBlock)]

\* A section with its headings and its open paragraph, 0 when there is none.
Section   == [title : Title \cup {Empty, Nothing}, tocIndex : Nat, startedOn : Nat,
              headings : Seq([level : 0..6, page : Nat]), tail : Nat]
BookState == [meta : Metadata, tocStatus : TocStatus, toc : Seq(TocEntry),
              expected : Nat, section : Section \cup {Nothing},
              previous : PageType \cup {Nothing}, count : Nat]
PageContext == [tocStatus : TocStatus, expected : Seq(TocEntry),
                section : Section \cup {Nothing},
                previous : PageType \cup {Nothing}, meta : Metadata]

ASSUME NothingAssumption ==
  Nothing \notin Section /\ Nothing \notin BookState /\ Nothing \notin PageContext

\* The elements of s that are in T, in their order.
Chosen(s, T) ==
  LET f[n \in 0..Len(s)] == IF n = 0 THEN <<>>
                            ELSE IF s[n] \in T THEN Append(f[n-1], s[n]) ELSE f[n-1]
  IN  f[Len(s)]

BlocksOf(page) == {page.blocks[i] : i \in DOMAIN page.blocks}

Blocks(page, kind) == Chosen(page.blocks, {b \in BlocksOf(page) : b.kind = kind})
Paragraphs(page)   == Blocks(page, "paragraph")
LastOf(s)          == s[Len(s)]

-----------------------------------------------------------------------------
(* validation.py.  Each rule holds of a page that raises no StructuralError.*)

\* validate_toc_entries: entries with titles, levels that jump by one at most.
\* The first entry of a page may have any level.
TocEntriesValid(entries) ==
  /\ entries # <<>>
  /\ \A i \in DOMAIN entries : entries[i].title # Empty
  /\ \A i \in DOMAIN entries \ {1} : entries[i].level <= entries[i-1].level + 1

TocPageValid(page, s) ==
  s.tocStatus \in {"not_seen", "collecting"} /\ TocEntriesValid(page.toc)

ObservedTitle(page) ==
  IF page.opening # Nothing THEN page.opening
  ELSE IF Blocks(page, "chapter_title") # <<>>
       THEN Blocks(page, "chapter_title")[1].title ELSE Empty

\* Fault: an opening may carry any title still to come.
OpeningAnywhere(page, s) ==
  s.tocStatus = "committed" =>
    \E i \in s.expected + 1..Len(s.toc) : ObservedTitle(page) = s.toc[i].title

OpeningValid(page, s) ==
  /\ ObservedTitle(page) # Empty \/ page.opening # Nothing
  /\ Len(Blocks(page, "chapter_title")) <= 1
  /\ s.tocStatus = "committed" =>
       /\ s.expected < Len(s.toc)
       /\ ObservedTitle(page) = s.toc[s.expected + 1].title

\* Level 0 is a heading without a level, which the rules pass over.
Headings(page) ==
  Chosen(page.blocks, {b \in BlocksOf(page) : b.kind = "heading" /\ b.level # 0})

HeadingsValid(page) ==
  LET levels == Headings(page)
  IN  \A i \in DOMAIN levels \ {1} : levels[i].level <= levels[i-1].level + 1

OpenTail(s) == s.section # Nothing /\ s.section.tail # 0

\* Fault: a page need not take up the paragraph left open before it.
ContinuationsOptional(page, s) ==
  LET ps == Paragraphs(page)
  IN  /\ \A i \in DOMAIN ps : ps[i].previous => OpenTail(s) /\ i = 1
      /\ \A i \in DOMAIN ps : ps[i].next => i = Len(ps)

ContinuationsValid(page, s) ==
  LET ps == Paragraphs(page)
  IN  /\ ~ (page.type = "chapter_opening" /\ OpenTail(s))
      /\ OpenTail(s) <=> \E i \in DOMAIN ps : ps[i].previous
      /\ \A i \in DOMAIN ps : ps[i].previous => i = 1
      /\ \A i \in DOMAIN ps : ps[i].next => i = Len(ps)

Notes(page) == Blocks(page, "footnote")
NoteLabels(page) == {Notes(page)[i].label : i \in DOMAIN Notes(page)}

DistinctNotes(page) ==
  \A i, j \in DOMAIN Notes(page) : Notes(page)[i].label = Notes(page)[j].label => i = j

\* References in text blocks; those inside footnotes are not looked at.
TextRefs(page) ==
  LET text == Chosen(page.blocks, {b \in BlocksOf(page) : b.kind \in TextKind})
  IN  UNION {text[i].refs : i \in DOMAIN text}

\* Fault: a reference without a note is let through.
UnresolvedPass(page) == RequireNotes => NoteLabels(page) \subseteq TextRefs(page)

FootnotesValid(page) ==
  RequireNotes => DistinctNotes(page) /\ TextRefs(page) = NoteLabels(page)

FiguresValid(page) ==
  RequireCrops /\ page.type # "figure_page" =>
    \A i \in DOMAIN page.blocks : page.blocks[i].kind = "figure" => page.blocks[i].bbox

PageValid(page, s) ==
  /\ page.type = "toc" => TocPageValid(page, s)
  /\ page.type = "chapter_opening" => OpeningValid(page, s)
  /\ HeadingsValid(page) /\ ContinuationsValid(page, s)
  /\ FootnotesValid(page) /\ FiguresValid(page)

CompleteBookValid(s) ==
  /\ s.tocStatus = "committed" => s.expected >= Len(s.toc)
  /\ ~ OpenTail(s)

-----------------------------------------------------------------------------
(* state.py.                                                               *)

EmptyBook == [meta |-> [f \in Field |-> Nothing], tocStatus |-> "not_seen",
              toc |-> <<>>, expected |-> 0, section |-> Nothing,
              previous |-> Nothing, count |-> 0]

\* Fault: a later proposal replaces an earlier one.
MetaLastWins(meta, proposal) ==
  [f \in Field |-> IF proposal[f] # Nothing THEN proposal[f] ELSE meta[f]]

\* The first proposal of a field stays.
MergeMeta(meta, proposal) ==
  [f \in Field |-> IF meta[f] = Nothing THEN proposal[f] ELSE meta[f]]

\* Fault: only a body page ends the TOC.
FinalizeAtBody(s, page) ==
  IF s.tocStatus # "collecting" \/ page.type # "body" THEN s
  ELSE [s EXCEPT !.tocStatus = "committed"]

\* The first page after the TOC ends it, before that page is validated.
FinalizeToc(s, page) ==
  IF s.tocStatus # "collecting" \/ page.type = "toc" THEN s
  ELSE [s EXCEPT !.tocStatus = IF s.toc = <<>> THEN "absent" ELSE "committed"]

\* Fault: an open paragraph stays open over pages that close it.
TailNeverCloses(tail, page, n) ==
  LET ps == Paragraphs(page)
  IN  IF ps # <<>> /\ LastOf(ps).next /\ LastOf(ps).text THEN n ELSE tail

\* The last paragraph of the page decides whether one is left open; its text
\* may be empty, and then nothing is.
TailAfter(tail, page, n) ==
  LET ps == Paragraphs(page)
  IN  IF ps = <<>> THEN tail
      ELSE IF LastOf(ps).next /\ LastOf(ps).text THEN n ELSE 0

\* heading_stack and recent_headings, which is the end of it.
HeadingsAfter(headings, page, n) ==
  LET new == Headings(page)
  IN  headings \o [i \in DOMAIN new |-> [level |-> new[i].level, page |-> n]]

OpenSection(s, page, n) ==
  [s EXCEPT !.section = [title |-> ObservedTitle(page), tocIndex |-> s.expected,
                         startedOn |-> n, headings |-> <<>>, tail |-> 0],
            !.expected = IF s.tocStatus = "committed" THEN @ + 1 ELSE @]

ReadBlocks(s, page, n) ==
  IF s.section = Nothing THEN s
  ELSE [s EXCEPT !.section.headings = HeadingsAfter(@, page, n),
                 !.section.tail = TailAfter(@, page, n)]

\* A TOC page only adds its entries; it is passed over once the TOC is closed.
ApplyToc(s, page) ==
  IF s.tocStatus \in {"committed", "absent"} THEN s
  ELSE [s EXCEPT !.tocStatus = "collecting", !.toc = @ \o page.toc]

\* apply_assessment for the n-th page.
Apply(s, page, n) ==
  LET noted == [s EXCEPT !.meta = MergeMeta(@, page.meta),
                         !.previous = page.type, !.count = n]
      settled == IF /\ noted.tocStatus = "not_seen"
                    /\ page.type \in {"chapter_opening", "body"}
                 THEN [noted EXCEPT !.tocStatus = "absent"] ELSE noted
      begun == IF page.type = "chapter_opening"
               THEN OpenSection(settled, page, n) ELSE settled
  IN  IF page.type = "toc" THEN ApplyToc(noted, page) ELSE ReadBlocks(begun, page, n)

\* Fault: a replay forgets to close the TOC.
ReplayUnfinalized(pages) ==
  LET f[n \in 0..Len(pages)] ==
        IF n = 0 THEN EmptyBook ELSE Apply(f[n-1], pages[n], n)
  IN  f[Len(pages)]

\* load_book_state_from_commits: the accepted pages, one after the other.
ReplayPages(pages) ==
  LET f[n \in 0..Len(pages)] ==
        IF n = 0 THEN EmptyBook
        ELSE Apply(FinalizeToc(f[n-1], pages[n]), pages[n], n)
  IN  f[Len(pages)]

-----------------------------------------------------------------------------
(* context.py.                                                             *)

UpTo(a, b) == IF a < b THEN a ELSE b

Recent(headings) ==
  IF Len(headings) <= RecentLimit THEN headings
  ELSE SubSeq(headings, Len(headings) - RecentLimit + 1, Len(headings))

\* Fault: the entry of the next chapter is passed over.
ContextOneAhead(s) ==
  [tocStatus |-> s.tocStatus,
   expected |-> IF s.tocStatus = "committed"
                THEN SubSeq(s.toc, s.expected + 2, UpTo(s.expected + 4, Len(s.toc)))
                ELSE <<>>,
   section |-> s.section, previous |-> s.previous, meta |-> s.meta]

\* What the model is shown with a page: up to three entries of a committed
\* TOC, the current section with its last headings and open paragraph.
Context(s) ==
  [tocStatus |-> s.tocStatus,
   expected |-> IF s.tocStatus = "committed"
                THEN SubSeq(s.toc, s.expected + 1, UpTo(s.expected + 3, Len(s.toc)))
                ELSE <<>>,
   section |-> IF s.section = Nothing THEN Nothing
               ELSE [s.section EXCEPT !.headings = Recent(@)],
   previous |-> s.previous, meta |-> s.meta]

=============================================================================
