---------------------------- MODULE BookProgress ----------------------------
(***************************************************************************)
(* The page loop of process_book (pipeline.py) over the rules of PageRules:*)
(* a run loads its state from the accepted pages, shows the model a page   *)
(* with its context, and judges the answer.  What the model answers is any *)
(* page of Pages.  An accepted page is one whose commit is in place; the   *)
(* steps of a commit and the crashes between them are those of RunStore.   *)
(***************************************************************************)
EXTENDS Publication

CONSTANTS Pages,       \* interpretations a model can answer with
          PageCount    \* pages of the source PDF

ASSUME ProgressAssumption ==
  PageCount \in Nat \ {0} /\ Pages \subseteq Interpretation

VARIABLES
  phase,      \* "stopped", "ready" between two pages, "asked" at a page
  end,        \* the page the command stops after
  accepted,   \* the committed pages
  state,      \* the BookState in memory, Nothing when no command runs
  shown       \* the context the page at hand is interpreted with

vars == <<phase, end, accepted, state, shown>>

Init ==
  /\ phase = "stopped" /\ end = 0
  /\ accepted = <<>>
  /\ state = Nothing /\ shown = Nothing

\* Failure, death or the end of the command: what is in memory is gone.
Stopped ==
  /\ phase' = "stopped" /\ end' = 0 /\ state' = Nothing /\ shown' = Nothing
  /\ UNCHANGED accepted

\* A command with any page limits, from none to the whole book.
Load(n) ==
  /\ phase = "stopped"
  /\ state' = ReplayPages(accepted)
  /\ end' = n
  /\ phase' = "ready"
  /\ UNCHANGED <<accepted, shown>>

\* Fault: the limit is passed by one page.
AskPastEnd ==
  /\ phase = "ready" /\ state.count <= end
  /\ shown' = Context(state)
  /\ phase' = "asked"
  /\ UNCHANGED <<end, accepted, state>>

Ask ==
  /\ phase = "ready" /\ state.count < end
  /\ shown' = Context(state)
  /\ phase' = "asked"
  /\ UNCHANGED <<end, accepted, state>>

\* The state the page is validated in: the TOC before it is closed.
Judged(page) == FinalizeToc(state, page)

Final == state.count + 1 = PageCount

\* Fault: the last page is accepted like any other.
PassesUnlessFinal(page) == PageValid(page, Judged(page))

Passes(page) ==
  /\ PageValid(page, Judged(page))
  /\ Final => CompleteBookValid(Apply(Judged(page), page, state.count + 1))

Accept(page) ==
  /\ phase = "asked"
  /\ Passes(page)
  /\ accepted' = Append(accepted, page)
  /\ state' = Apply(Judged(page), page, state.count + 1)
  /\ shown' = Nothing
  /\ phase' = "ready"
  /\ UNCHANGED end

\* The failure is persisted and the command ends; the page is asked for again
\* by the next one.
Reject(page) == phase = "asked" /\ ~ Passes(page) /\ Stopped

\* The limit is reached, rendering or inference failed, the process died.
Stop == phase # "stopped" /\ Stopped

Next ==
  \/ \E n \in Len(accepted)..PageCount : Load(n)
  \/ Ask \/ Stop
  \/ \E page \in Pages : Accept(page) \/ Reject(page)

Spec == Init /\ [][Next]_vars

-----------------------------------------------------------------------------
(* Properties.                                                             *)

Complete == Len(accepted) = PageCount

OfType(pages, type) == Chosen(pages, {p \in ToSet(pages) : p.type = type})

\* The values each variable takes: a command in memory has a state and, while a
\* page is asked for, a context; the state counts no more pages than the book has.
TypeOK ==
  /\ phase \in {"stopped", "ready", "asked"} /\ end \in 0..PageCount
  /\ accepted \in Seq(Pages) /\ Len(accepted) <= PageCount
  /\ (state = Nothing) <=> (phase = "stopped")
  /\ (shown # Nothing) <=> (phase = "asked")
  /\ state \in BookState \cup {Nothing} /\ shown \in PageContext \cup {Nothing}
  /\ state # Nothing => state.count \in 0..PageCount

\* The state kept from page to page through TOC, openings and rejected pages is
\* the one a later command replays from the commits.
StateIsReplay == phase # "stopped" => state = ReplayPages(accepted)

\* The TOC is one run of pages, and it is settled, committed or known absent,
\* before a section begins: no chapter escapes the check against the TOC.
TocBeforeSections ==
  /\ \A i, j \in DOMAIN accepted :
       i < j /\ accepted[i].type = "toc" /\ accepted[j].type = "toc" =>
         \A k \in i..j : accepted[k].type = "toc"
  /\ state # Nothing /\ state.section # Nothing =>
       state.tocStatus \in {"committed", "absent"}

\* The chapters opened so far are exactly the first entries of the committed
\* TOC, whose entries are those of the TOC pages.
OpeningsFollowToc ==
  state # Nothing /\ state.tocStatus = "committed" =>
    LET tocs == OfType(accepted, "toc")
        openings == OfType(accepted, "chapter_opening")
    IN  /\ state.toc = FlattenSeq([i \in DOMAIN tocs |-> tocs[i].toc])
        /\ [i \in DOMAIN openings |-> ObservedTitle(openings[i])]
             = [i \in 1..state.expected |-> state.toc[i].title]

\* The state has an open paragraph exactly when a chapter has begun and the last
\* accepted page leaves one open, and then it is that one. Before the first
\* chapter a paragraph that is left open is forgotten.
TailIsReal ==
  state # Nothing /\ accepted # <<>> =>
    LET ps == Paragraphs(LastOf(accepted))
    IN  /\ OpenTail(state) <=>
              /\ OfType(accepted, "chapter_opening") # <<>>
              /\ ps # <<>> /\ LastOf(ps).next /\ LastOf(ps).text
        /\ OpenTail(state) => state.section.tail = Len(accepted)

\* Within the sections of a complete book every paragraph left open at the end
\* of a page is taken up by the first paragraph of the next one.
ParagraphsClosed ==
  \A n \in 1..Len(accepted) - (IF Complete THEN 0 ELSE 1) :
    LET ps == Paragraphs(accepted[n])
    IN  /\ \E k \in 1..n : accepted[k].type = "chapter_opening"
        /\ ps # <<>> /\ LastOf(ps).next /\ LastOf(ps).text
        => /\ n < PageCount
           /\ Paragraphs(accepted[n+1]) # <<>> /\ Paragraphs(accepted[n+1])[1].previous

\* A complete book has a chapter for every entry of its TOC, unless its last
\* page is itself a page of the TOC, which leaves the TOC open.
CompleteTocExhausted ==
  Complete /\ LastOf(accepted).type # "toc" =>
    Len(OfType(accepted, "chapter_opening")) = Len(ReplayPages(accepted).toc)
      \/ ReplayPages(accepted).tocStatus = "absent"

\* A chapter accepted in a book with a TOC is the one that the context the model
\* was shown had announced first, with one exception: where the page before it is
\* the last of the TOC, the context is older than the end of the TOC.
OpeningWasAnnounced ==
  [][/\ accepted' # accepted
     /\ state'.tocStatus = "committed"
     /\ LastOf(accepted').type = "chapter_opening"
     /\ LastOf(accepted').opening # Nothing
     => \/ accepted # <<>> /\ LastOf(accepted).type = "toc"
        \/ /\ shown.expected # <<>>
           /\ shown.expected[1].title = LastOf(accepted').opening]_vars

-----------------------------------------------------------------------------
(* Properties of the publication built from the accepted pages.            *)

\* What the publication prints is every published block of the pages once, in
\* reading order, then every note: merging moves and drops nothing.
PublicationKeepsOrder ==
  ~ PublicationFails(accepted) =>
    FlattenSeq(PublicationBlocks(accepted))
      = RawBlocks(accepted) \o NotePlaces(accepted)

\* A merged block is one paragraph: its parts are paragraphs of consecutive
\* pages, each but the last left open, each but the first taking it up.
MergesAreParagraphs ==
  ~ PublicationFails(accepted) =>
    LET out == Merged(accepted).out
    IN  \A k \in DOMAIN out : \A i \in 2..Len(out[k]) :
          /\ out[k][i][1] = out[k][i-1][1] + 1
          /\ BlockAt(accepted, out[k][i-1]).next
          /\ BlockAt(accepted, out[k][i]).previous

\* Notes are numbered 1, 2, ... in the order they are printed, each once.
NotesNumberedOnce ==
  ~ PublicationFails(accepted) =>
    LET notes == NotePlaces(accepted)
        numbers == NoteNumbers(accepted)
    IN  \A k \in DOMAIN notes :
          numbers[<<notes[k][1], BlockAt(accepted, notes[k]).label>>] = k

\* The metadata the model is shown is the metadata that will be published.
MetaAgrees == state # Nothing => state.meta = PublicationMeta(accepted)

\* Accepted pages fail to publish only by what validation does not look at: a
\* continuation flag on another block, a reference inside a note, or a block
\* between the parts of a paragraph.
FailsOnlyUnchecked ==
  RequireNotes /\ PublicationFails(accepted) =>
    \/ \E x \in ToSet(Places(accepted)) :
         LET b == BlockAt(accepted, x)
         IN  \/ b.kind # "paragraph" /\ (b.previous \/ b.next)
             \/ b.kind = "footnote" /\ b.refs # {}
    \/ \E i, j \in DOMAIN RawBlocks(accepted) :
         LET r == RawBlocks(accepted)
         IN  /\ i + 1 < j
             /\ BlockAt(accepted, r[i]).next /\ BlockAt(accepted, r[j]).previous
             /\ \A k \in i+1..j-1 : BlockAt(accepted, r[k]).kind # "paragraph"

=============================================================================
