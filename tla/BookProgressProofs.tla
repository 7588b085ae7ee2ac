------------------------- MODULE BookProgressProofs -------------------------
(***************************************************************************)
(* The safety properties of BookProgress, for every number of pages, every *)
(* set of pages a model can answer with and every setting of the rules.    *)
(*                                                                         *)
(* The argument has two halves.  BookInv says of a sequence of pages how   *)
(* the state replayed from it is related to them; a page that passes keeps *)
(* it (BookStep), whatever command accepts it.  IInv then says of the page *)
(* loop that its state is the replayed one, and that BookInv holds of what *)
(* is accepted.                                                            *)
(***************************************************************************)
EXTENDS BookProgress, PublicationProofs

LeavesOpen(page) ==
  Paragraphs(page) # <<>> /\ LastOf(Paragraphs(page)).next /\ LastOf(Paragraphs(page)).text

TakesUp(page) == Paragraphs(page) # <<>> /\ Paragraphs(page)[1].previous

\* The TOC pages are consecutive; their entries are the TOC of the state, which
\* is closed by the first page after them.
TocInv(pages, s) ==
  /\ \A i, j \in DOMAIN pages :
       i < j /\ pages[i].type = "toc" /\ pages[j].type = "toc" =>
         \A k \in i..j : pages[k].type = "toc"
  /\ s.tocStatus = "not_seen" =>
       s.toc = <<>> /\ \A i \in DOMAIN pages : pages[i].type # "toc"
  /\ s.tocStatus = "collecting" => pages # <<>> /\ LastOf(pages).type = "toc"
  /\ s.toc = FlattenSeq([i \in DOMAIN OfType(pages, "toc") |-> OfType(pages, "toc")[i].toc])

\* There is a section once a chapter has been opened, which settles the TOC, and
\* the chapters of a committed TOC are its first entries.
SectionInv(pages, s) ==
  /\ s.section # Nothing <=> OfType(pages, "chapter_opening") # <<>>
  /\ s.section # Nothing => s.tocStatus \in {"committed", "absent"}
  /\ s.tocStatus \in {"not_seen", "collecting"} => s.expected = 0
  /\ s.tocStatus = "committed" =>
       /\ s.expected = Len(OfType(pages, "chapter_opening")) /\ s.expected <= Len(s.toc)
       /\ \A i \in 1..s.expected :
            ObservedTitle(OfType(pages, "chapter_opening")[i]) = s.toc[i].title

\* The open paragraph of the state is that of the last page.
TailInv(pages, s) ==
  /\ pages = <<>> => ~ OpenTail(s)
  /\ pages # <<>> =>
       /\ OpenTail(s) <=> OfType(pages, "chapter_opening") # <<>> /\ LeavesOpen(LastOf(pages))
       /\ OpenTail(s) => s.section.tail = Len(pages)

\* Within sections, a paragraph left open is taken up by the next page.
ClosedInv(pages) ==
  \A n \in 1..Len(pages) - 1 :
    /\ \E k \in 1..n : pages[k].type = "chapter_opening"
    /\ LeavesOpen(pages[n])
    => TakesUp(pages[n+1])

BookInv(pages) ==
  LET s == ReplayPages(pages)
  IN  /\ s.count = Len(pages) /\ s.meta = PublicationMeta(pages)
      /\ TocInv(pages, s) /\ SectionInv(pages, s) /\ TailInv(pages, s) /\ ClosedInv(pages)
      /\ SoundPages(pages)

\* What a command has in memory is what it would replay.
LoopInv ==
  /\ phase \in {"stopped", "ready", "asked"} /\ end \in 0..PageCount
  /\ accepted \in Seq(Pages) /\ Len(accepted) <= PageCount
  /\ state = IF phase = "stopped" THEN Nothing ELSE ReplayPages(accepted)
  /\ shown = IF phase = "asked" THEN Context(ReplayPages(accepted)) ELSE Nothing
  /\ phase # "stopped" => Len(accepted) <= end
  /\ phase = "asked" => Len(accepted) < end

IInv ==
  /\ LoopInv /\ BookInv(accepted)
  /\ Complete => CompleteBookValid(ReplayPages(accepted))

-----------------------------------------------------------------------------
(* What is selected from the pages when one is added.                      *)

LEMMA OfTypeType ==
  ASSUME NEW pages \in Seq(Interpretation), NEW type
  PROVE  OfType(pages, type) \in Seq(Interpretation)
BY ChosenType DEF OfType

LEMMA OfTypeEmpty ==
  ASSUME NEW type
  PROVE  OfType(<<>>, type) = <<>>
BY ChosenEmpty DEF OfType

LEMMA OfTypeAppend ==
  ASSUME NEW pages \in Seq(Interpretation), NEW page \in Interpretation, NEW type
  PROVE  OfType(Append(pages, page), type)
           = IF page.type = type THEN Append(OfType(pages, type), page)
             ELSE OfType(pages, type)
<1> DEFINE t == Append(pages, page)
           T == {p \in ToSet(pages) : p.type = type}
           U == {p \in ToSet(t) : p.type = type}
<1>1. /\ Len(pages) \in Nat /\ DOMAIN pages = 1..Len(pages) /\ DOMAIN t = 1..Len(pages) + 1
      /\ t[Len(pages) + 1] = page /\ \A i \in 1..Len(pages) : t[i] = pages[i]
  OBVIOUS
<1> HIDE DEF t
<1>2. \A i \in 1..Len(pages) : pages[i] \in T <=> pages[i] \in U
  BY <1>1 DEF ToSet
<1>3. page \in U <=> page.type = type
  BY <1>1 DEF ToSet
<1> HIDE DEF T, U
<1>4. Chosen(Append(pages, page), U)
        = IF page \in U THEN Append(Chosen(pages, T), page) ELSE Chosen(pages, T)
  BY <1>2, ChosenAppend
<1> QED BY <1>3, <1>4 DEF OfType, t, T, U

LEMMA OfTypeNonempty ==
  ASSUME NEW pages \in Seq(Interpretation), NEW type
  PROVE  OfType(pages, type) # <<>> <=> \E i \in 1..Len(pages) : pages[i].type = type
<1> DEFINE T == {p \in ToSet(pages) : p.type = type}
<1>1. \A i \in 1..Len(pages) : pages[i] \in T <=> pages[i].type = type
  BY DEF ToSet
<1> HIDE DEF T
<1>2. Chosen(pages, T) # <<>> <=> \E i \in 1..Len(pages) : pages[i] \in T
  BY ChosenNonempty
<1> QED BY <1>1, <1>2 DEF OfType, T

\* The entries of the TOC pages.
TocsOf(pages) == [i \in DOMAIN OfType(pages, "toc") |-> OfType(pages, "toc")[i].toc]

LEMMA TocsOfAppend ==
  ASSUME NEW pages \in Seq(Interpretation), NEW page \in Interpretation
  PROVE  FlattenSeq(TocsOf(Append(pages, page)))
           = IF page.type = "toc" THEN FlattenSeq(TocsOf(pages)) \o page.toc
             ELSE FlattenSeq(TocsOf(pages))
<1> DEFINE q == OfType(pages, "toc")
           r == OfType(Append(pages, page), "toc")
           V == Seq(TocEntry)
<1>1. q \in Seq(Interpretation)
  BY OfTypeType
<1>2. r = IF page.type = "toc" THEN Append(q, page) ELSE q
  BY OfTypeAppend
<1>3. \A p \in Interpretation : p.toc \in V
  BY DEF Interpretation
<1>4. TocsOf(pages) = [i \in DOMAIN q |-> q[i].toc]
  BY DEF TocsOf
<1>5. TocsOf(Append(pages, page)) = [i \in DOMAIN r |-> r[i].toc]
  BY DEF TocsOf
<1> HIDE DEF q, r, V
<1>6. TocsOf(pages) \in Seq(V)
  <2>1. Len(q) \in Nat /\ DOMAIN q = 1..Len(q) /\ \A i \in 1..Len(q) : q[i] \in Interpretation
    BY <1>1
  <2>2. \A i \in 1..Len(q) : q[i].toc \in V
    BY <1>3, <2>1
  <2> QED BY <1>4, <2>1, <2>2
<1>7. CASE page.type = "toc"
  <2>1. TocsOf(Append(pages, page)) = Append(TocsOf(pages), page.toc)
    <3>1. Len(q) \in Nat /\ DOMAIN q = 1..Len(q) /\ DOMAIN r = 1..Len(q) + 1
      BY <1>1, <1>2, <1>7
    <3>2. r[Len(q) + 1] = page /\ \A i \in 1..Len(q) : r[i] = q[i]
      BY <1>1, <1>2, <1>7
    <3>3. page.toc \in V
      BY <1>3
    <3>4. Len(TocsOf(pages)) = Len(q)
      BY <1>4, <3>1
    <3>5. TocsOf(Append(pages, page)) = [i \in 1..Len(q) + 1 |-> r[i].toc]
      BY <1>5, <3>1
    <3>6. Append(TocsOf(pages), page.toc)
            = [i \in 1..Len(q) + 1 |-> IF i = Len(q) + 1 THEN page.toc ELSE q[i].toc]
      BY <1>4, <1>6, <3>1, <3>3, <3>4
    <3>7. \A i \in 1..Len(q) + 1 :
            r[i].toc = IF i = Len(q) + 1 THEN page.toc ELSE q[i].toc
      BY <3>1, <3>2
    <3> QED BY <3>5, <3>6, <3>7
  <2>2. page.toc \in Seq(TocEntry) /\ TocsOf(pages) \in Seq(Seq(TocEntry))
    BY <1>3, <1>6 DEF V
  <2> QED BY <1>7, <2>1, <2>2, FlattenAppend
<1>8. CASE page.type # "toc"
  BY <1>2, <1>4, <1>5, <1>8
<1> QED BY <1>7, <1>8

-----------------------------------------------------------------------------
(* The metadata of the publication.                                        *)

LEMMA MetaEmpty == PublicationMeta(<<>>) = EmptyBook.meta
<1>1. \A f \in Field : Chosen(<<>>, {p \in ToSet(<<>>) : p.meta[f] # Nothing}) = <<>>
  BY ChosenEmpty
<1> QED BY <1>1 DEF PublicationMeta, EmptyBook

LEMMA MetaAppend ==
  ASSUME NEW pages \in Seq(Interpretation), NEW page \in Interpretation
  PROVE  PublicationMeta(Append(pages, page)) = MergeMeta(PublicationMeta(pages), page.meta)
<1> DEFINE t == Append(pages, page)
           T(f) == {p \in ToSet(pages) : p.meta[f] # Nothing}
           U(f) == {p \in ToSet(t) : p.meta[f] # Nothing}
           First(s, f) == IF s = <<>> THEN Nothing ELSE s[1].meta[f]
<1>1. /\ Len(pages) \in Nat /\ DOMAIN pages = 1..Len(pages) /\ DOMAIN t = 1..Len(pages) + 1
      /\ t[Len(pages) + 1] = page /\ \A i \in 1..Len(pages) : t[i] = pages[i]
  OBVIOUS
<1> HIDE DEF t
<1>2. ASSUME NEW f \in Field
      PROVE  First(Chosen(t, U(f)), f)
               = IF First(Chosen(pages, T(f)), f) = Nothing THEN page.meta[f]
                 ELSE First(Chosen(pages, T(f)), f)
  <2>1. \A i \in 1..Len(pages) : pages[i] \in T(f) <=> pages[i] \in U(f)
    BY <1>1 DEF ToSet
  <2>2. page \in U(f) <=> page.meta[f] # Nothing
    BY <1>1 DEF ToSet
  <2>3. Chosen(pages, T(f)) \in Seq(Interpretation \cap T(f))
    BY ChosenWithin
  <2>4. Chosen(pages, T(f)) # <<>> => Chosen(pages, T(f))[1].meta[f] # Nothing
    <3>1. \A p \in Interpretation \cap T(f) : p.meta[f] # Nothing
      OBVIOUS
    <3> DEFINE W == Interpretation \cap T(f)
               c == Chosen(pages, T(f))
    <3> HIDE DEF W, c
    <3>2. c \in Seq(W) /\ \A p \in W : p.meta[f] # Nothing
      BY <2>3, <3>1 DEF W, c
    <3>3. c # <<>> => c[1] \in W
      BY <3>2
    <3> QED BY <3>2, <3>3 DEF c
  <2>5. Chosen(pages, T(f)) \in Seq(Interpretation)
    BY ChosenType
  <2> HIDE DEF T, U
  <2>6. Chosen(t, U(f)) = IF page \in U(f) THEN Append(Chosen(pages, T(f)), page)
                          ELSE Chosen(pages, T(f))
    BY <2>1, ChosenAppend DEF t
  <2> DEFINE c == Chosen(pages, T(f))
  <2> HIDE DEF c
  <2>7. c \in Seq(Interpretation)
    BY <2>5 DEF c
  <2>8. /\ c # <<>> => Append(c, page) # <<>> /\ Append(c, page)[1] = c[1]
        /\ c = <<>> => Append(c, page) # <<>> /\ Append(c, page)[1] = page
    BY <2>7
  <2> QED BY <2>2, <2>4, <2>6, <2>8 DEF c
<1>3. PublicationMeta(pages) = [f \in Field |-> First(Chosen(pages, T(f)), f)]
  BY DEF PublicationMeta
<1>4. PublicationMeta(t) = [f \in Field |-> First(Chosen(t, U(f)), f)]
  BY DEF PublicationMeta
<1> HIDE DEF First, T, U
<1> QED BY <1>2, <1>3, <1>4 DEF MergeMeta, t

-----------------------------------------------------------------------------
(* A page that passes keeps BookInv.                                       *)

\* What the rules leave of the paragraphs of a page that passes.
LEMMA PassingParagraphs ==
  ASSUME NEW page \in Interpretation, NEW s, ContinuationsValid(page, s)
  PROVE  /\ OpenTail(s) <=> TakesUp(page)
         /\ OpenTail(s) => page.type # "chapter_opening" /\ Paragraphs(page) # <<>>
<1> DEFINE ps == Paragraphs(page)
<1>1. ps \in Seq(SourceBlock)
  BY BlocksType
<1> HIDE DEF ps
<1>2. DOMAIN ps = 1..Len(ps) /\ (ps # <<>> => 1 \in DOMAIN ps)
  BY <1>1
<1>3. /\ ~ (page.type = "chapter_opening" /\ OpenTail(s))
      /\ OpenTail(s) <=> \E i \in DOMAIN ps : ps[i].previous
      /\ \A i \in DOMAIN ps : ps[i].previous => i = 1
  BY DEF ContinuationsValid, ps
<1>4. OpenTail(s) => ps # <<>> /\ ps[1].previous
  <2>1. SUFFICES ASSUME NEW i \in DOMAIN ps, ps[i].previous PROVE ps # <<>> /\ ps[1].previous
    BY <1>3
  <2>2. i = 1
    BY <1>3, <2>1
  <2> QED BY <1>1, <2>1, <2>2
<1>5. ps # <<>> /\ ps[1].previous => OpenTail(s)
  BY <1>2, <1>3
<1> QED BY <1>3, <1>4, <1>5 DEF TakesUp, ps

LEMMA BookEmpty == BookInv(<<>>)
<1> DEFINE nil == <<>>
           s == ReplayPages(nil)
<1>1. s = EmptyBook
  BY ReplayEmpty
<1>2. /\ s.count = 0 /\ s.meta = EmptyBook.meta /\ s.tocStatus = "not_seen"
      /\ s.toc = <<>> /\ s.expected = 0 /\ s.section = Nothing
  BY <1>1 DEF EmptyBook
<1>3. nil \in Seq(Interpretation) /\ Len(nil) = 0 /\ DOMAIN nil = {} /\ nil = <<>>
  OBVIOUS
<1>4. OfType(nil, "toc") = <<>> /\ OfType(nil, "chapter_opening") = <<>>
  BY OfTypeEmpty
<1>5. PublicationMeta(nil) = EmptyBook.meta
  BY MetaEmpty
<1> HIDE DEF s, nil
<1>6. TocInv(nil, s)
  <2>1. [i \in DOMAIN OfType(nil, "toc") |-> OfType(nil, "toc")[i].toc] = <<>>
    BY <1>4
  <2>2. FlattenSeq([i \in DOMAIN OfType(nil, "toc") |-> OfType(nil, "toc")[i].toc]) = <<>>
    BY <2>1, FlattenEmpty
  <2> QED BY <1>2, <1>3, <2>2 DEF TocInv
<1>7. SectionInv(nil, s)
  BY <1>2, <1>4 DEF SectionInv
<1>8. TailInv(nil, s)
  BY <1>2, <1>3 DEF TailInv, OpenTail
<1>9. ClosedInv(nil)
  BY <1>3 DEF ClosedInv
<1>10. SoundPages(nil)
  BY <1>3 DEF SoundPages
<1> QED BY <1>2, <1>3, <1>5, <1>6, <1>7, <1>8, <1>9, <1>10 DEF BookInv, s, nil

\* Everything a passing page does: t is the state after it, more the pages with it.
Adds(pages, page, s, t, more) ==
  /\ pages \in Seq(Interpretation) /\ page \in Interpretation /\ s \in BookState
  /\ s = ReplayPages(pages) /\ more = Append(pages, page) /\ t = ReplayPages(more)
  /\ PageValid(page, FinalizeToc(s, page))
  /\ BookInv(pages)

LEMMA AddsSequence ==
  ASSUME NEW pages, NEW page, NEW s, NEW t, NEW more, Adds(pages, page, s, t, more)
  PROVE  /\ more \in Seq(Interpretation) /\ Len(pages) \in Nat
         /\ Len(more) = Len(pages) + 1 /\ DOMAIN more = 1..Len(pages) + 1
         /\ DOMAIN pages = 1..Len(pages) /\ (pages = <<>> <=> Len(pages) = 0)
         /\ more # <<>> /\ LastOf(more) = page /\ more[Len(pages) + 1] = page
         /\ \A i \in 1..Len(pages) : more[i] = pages[i]
<1> USE DEF Adds
<1>1. pages \in Seq(Interpretation) /\ page \in Interpretation /\ more = Append(pages, page)
  OBVIOUS
<1> QED BY <1>1 DEF LastOf

LEMMA AddsState ==
  ASSUME NEW pages, NEW page, NEW s, NEW t, NEW more, Adds(pages, page, s, t, more)
  PROVE  /\ FinalizeToc(s, page) \in BookState
         /\ t = Apply(FinalizeToc(s, page), page, Len(pages) + 1)
         /\ Len(pages) + 1 \in Nat /\ page \in Interpretation
<1>1. FinalizeToc(s, page) \in BookState
  BY FinalizeType DEF Adds
<1>2. ReplayPages(Append(pages, page))
        = Apply(FinalizeToc(ReplayPages(pages), page), page, Len(pages) + 1)
  BY ReplayAppend DEF Adds
<1> QED BY <1>1, <1>2, AddsSequence DEF Adds

TocPageAdds(pages, page, s, t) ==
  /\ s.tocStatus \in {"not_seen", "collecting"}
  /\ t.meta = MergeMeta(s.meta, page.meta) /\ t.tocStatus = "collecting"
  /\ t.toc = s.toc \o page.toc /\ t.expected = s.expected
  /\ t.count = Len(pages) + 1 /\ t.section = s.section

\* A page of the TOC passes while the TOC is not closed.
LEMMA AddsTocPage ==
  ASSUME NEW pages, NEW page, NEW s, NEW t, NEW more, Adds(pages, page, s, t, more),
         page.type = "toc"
  PROVE  TocPageAdds(pages, page, s, t)
<1> DEFINE j == FinalizeToc(s, page)
<1>1. j = s
  BY DEF FinalizeToc
<1>2. s.tocStatus \in {"not_seen", "collecting"}
  BY <1>1 DEF Adds, PageValid, TocPageValid
<1>3. /\ t = Apply(s, page, Len(pages) + 1) /\ s \in BookState
      /\ Len(pages) + 1 \in Nat /\ page \in Interpretation
  BY <1>1, AddsState
<1> QED BY <1>2, <1>3, TocPageEffect DEF TocPageAdds

LEMMA AddsOtherPage ==
  ASSUME NEW pages, NEW page, NEW s, NEW t, NEW more, Adds(pages, page, s, t, more),
         page.type # "toc"
  PROVE  LET j == FinalizeToc(s, page)
             opens == page.type = "chapter_opening"
         IN  /\ t.meta = MergeMeta(s.meta, page.meta) /\ t.toc = s.toc
             /\ t.count = Len(pages) + 1
             /\ j.tocStatus = IF s.tocStatus = "collecting"
                              THEN IF s.toc = <<>> THEN "absent" ELSE "committed"
                              ELSE s.tocStatus
             /\ t.tocStatus = IF /\ j.tocStatus = "not_seen"
                                 /\ page.type \in {"chapter_opening", "body"}
                              THEN "absent" ELSE j.tocStatus
             /\ t.expected = IF opens /\ j.tocStatus = "committed"
                             THEN s.expected + 1 ELSE s.expected
             /\ t.section = Nothing <=> ~ opens /\ s.section = Nothing
             /\ t.section # Nothing =>
                  t.section.tail = TailAfter(IF opens THEN 0 ELSE s.section.tail,
                                             page, Len(pages) + 1)
             /\ opens /\ j.tocStatus = "committed" =>
                  s.expected < Len(s.toc) /\ ObservedTitle(page) = s.toc[s.expected + 1].title
<1> DEFINE j == FinalizeToc(s, page)
<1>1. /\ j.meta = s.meta /\ j.toc = s.toc /\ j.expected = s.expected
      /\ j.section = s.section
      /\ j.tocStatus = IF s.tocStatus = "collecting"
                       THEN IF s.toc = <<>> THEN "absent" ELSE "committed"
                       ELSE s.tocStatus
  BY FinalizeEffect DEF Adds
<1>2. page.type = "chapter_opening" /\ j.tocStatus = "committed" =>
        j.expected < Len(j.toc) /\ ObservedTitle(page) = j.toc[j.expected + 1].title
  BY DEF Adds, PageValid, OpeningValid
<1>3. j \in BookState /\ t = Apply(j, page, Len(pages) + 1) /\ Len(pages) + 1 \in Nat
      /\ page \in Interpretation
  BY AddsState
<1> HIDE DEF j
<1>4. LET opens == page.type = "chapter_opening"
      IN  /\ t.meta = MergeMeta(j.meta, page.meta) /\ t.toc = j.toc
          /\ t.count = Len(pages) + 1
          /\ t.tocStatus = IF /\ j.tocStatus = "not_seen"
                              /\ page.type \in {"chapter_opening", "body"}
                           THEN "absent" ELSE j.tocStatus
          /\ t.expected = IF opens /\ j.tocStatus = "committed"
                          THEN j.expected + 1 ELSE j.expected
          /\ t.section = Nothing <=> ~ opens /\ j.section = Nothing
          /\ t.section # Nothing =>
               t.section.tail = TailAfter(IF opens THEN 0 ELSE j.section.tail,
                                          page, Len(pages) + 1)
  BY <1>3, PageEffect
<1> QED BY <1>1, <1>2, <1>4 DEF j

LEMMA AddsOpenings ==
  ASSUME NEW pages, NEW page, NEW s, NEW t, NEW more, Adds(pages, page, s, t, more)
  PROVE  LET before == OfType(pages, "chapter_opening")
             after == OfType(more, "chapter_opening")
         IN  /\ before \in Seq(Interpretation) /\ after \in Seq(Interpretation)
             /\ after = IF page.type = "chapter_opening" THEN Append(before, page) ELSE before
BY AddsSequence, OfTypeType, OfTypeAppend DEF Adds

LEMMA AddsToc ==
  ASSUME NEW pages, NEW page, NEW s, NEW t, NEW more, Adds(pages, page, s, t, more)
  PROVE  TocInv(more, t)
<1>1. TocInv(pages, s)
  BY DEF Adds, BookInv
<1>2. /\ Len(pages) \in Nat /\ DOMAIN more = 1..Len(pages) + 1 /\ DOMAIN pages = 1..Len(pages)
      /\ LastOf(more) = page /\ more[Len(pages) + 1] = page /\ more # <<>>
      /\ \A i \in 1..Len(pages) : more[i] = pages[i]
      /\ pages = <<>> <=> Len(pages) = 0
  BY AddsSequence
<1>3. /\ FlattenSeq(TocsOf(more)) = IF page.type = "toc"
                                    THEN FlattenSeq(TocsOf(pages)) \o page.toc
                                    ELSE FlattenSeq(TocsOf(pages))
      /\ s.toc = FlattenSeq(TocsOf(pages))
  BY <1>1, TocsOfAppend DEF Adds, TocInv, TocsOf
<1>4. CASE page.type = "toc"
  <2>0. TocPageAdds(pages, page, s, t)
    BY <1>4, AddsTocPage
  <2>1. /\ s.tocStatus \in {"not_seen", "collecting"} /\ t.tocStatus = "collecting"
        /\ t.toc = s.toc \o page.toc
    BY <2>0 DEF TocPageAdds
  <2>2. ASSUME NEW i \in DOMAIN more, NEW j \in DOMAIN more, i < j,
               more[i].type = "toc", more[j].type = "toc", NEW k \in i..j
        PROVE  more[k].type = "toc"
    <3>1. CASE j \in DOMAIN pages
      <4>1. i \in DOMAIN pages /\ k \in DOMAIN pages
        BY <1>2, <2>2, <3>1
      <4> QED BY <1>1, <1>2, <2>2, <3>1, <4>1 DEF TocInv
    <3>2. CASE k = Len(pages) + 1
      BY <1>2, <1>4, <3>2
    <3>3. CASE j = Len(pages) + 1 /\ k # Len(pages) + 1
      <4>1. i \in DOMAIN pages /\ k \in DOMAIN pages /\ Len(pages) \in DOMAIN pages
            /\ k \in i..Len(pages)
        BY <1>2, <2>2, <3>3
      <4>2. pages[i].type = "toc"
        BY <1>2, <2>2, <4>1
      <4>3. s.tocStatus = "collecting"
        BY <1>1, <2>1, <4>1, <4>2 DEF TocInv
      <4>4. pages[Len(pages)].type = "toc"
        BY <1>1, <4>3 DEF TocInv, LastOf
      <4>5. pages[k].type = "toc"
        <5>1. CASE i = Len(pages)
          <6> k = i
            BY <1>2, <4>1, <5>1
          <6> QED BY <4>2
        <5>2. CASE i # Len(pages)
          <6> i < Len(pages)
            BY <1>2, <4>1, <5>2
          <6> QED BY <1>1, <4>1, <4>2, <4>4 DEF TocInv
        <5> QED BY <5>1, <5>2
      <4> QED BY <1>2, <4>1, <4>5
    <3> QED BY <1>2, <2>2, <3>1, <3>2, <3>3
  <2> QED BY <1>2, <1>3, <1>4, <2>1, <2>2 DEF TocInv, TocsOf
<1>5. CASE page.type # "toc"
  <2>1. t.toc = s.toc /\ t.tocStatus # "collecting"
        /\ (t.tocStatus = "not_seen" => s.tocStatus = "not_seen")
    <3>1. TRUE
      OBVIOUS
    <3> QED BY <1>5, AddsOtherPage
  <2>2. \A i, j \in DOMAIN more :
          i < j /\ more[i].type = "toc" /\ more[j].type = "toc" =>
            \A k \in i..j : more[k].type = "toc"
    <3> SUFFICES ASSUME NEW i \in DOMAIN more, NEW j \in DOMAIN more, i < j,
                        more[i].type = "toc", more[j].type = "toc", NEW k \in i..j
                 PROVE  more[k].type = "toc"
      OBVIOUS
    <3>1. j # Len(pages) + 1
      BY <1>2, <1>5
    <3>2. i \in DOMAIN pages /\ j \in DOMAIN pages /\ k \in DOMAIN pages
      BY <1>2, <3>1
    <3> QED BY <1>1, <1>2, <3>2 DEF TocInv
  <2>3. t.tocStatus = "not_seen" =>
          t.toc = <<>> /\ \A i \in DOMAIN more : more[i].type # "toc"
    <3> SUFFICES ASSUME t.tocStatus = "not_seen"
                 PROVE  t.toc = <<>> /\ \A i \in DOMAIN more : more[i].type # "toc"
      OBVIOUS
    <3>1. s.toc = <<>> /\ \A i \in DOMAIN pages : pages[i].type # "toc"
      BY <1>1, <2>1 DEF TocInv
    <3>2. \A i \in DOMAIN more : i \in DOMAIN pages \/ i = Len(pages) + 1
      BY <1>2
    <3> QED BY <1>2, <1>5, <2>1, <3>1, <3>2
  <2> QED BY <1>2, <1>3, <1>5, <2>1, <2>2, <2>3 DEF TocInv, TocsOf
<1> QED BY <1>4, <1>5

LEMMA AddsSection ==
  ASSUME NEW pages, NEW page, NEW s, NEW t, NEW more, Adds(pages, page, s, t, more)
  PROVE  SectionInv(more, t)
<1> DEFINE before == OfType(pages, "chapter_opening")
           after == OfType(more, "chapter_opening")
<1>1. SectionInv(pages, s)
  BY DEF Adds, BookInv
<1>2. /\ before \in Seq(Interpretation) /\ after \in Seq(Interpretation)
      /\ after = IF page.type = "chapter_opening" THEN Append(before, page) ELSE before
  BY AddsOpenings
<1>3. s.tocStatus \in TocStatus /\ s.expected \in Nat /\ s.toc \in Seq(TocEntry)
  BY DEF Adds, BookState
<1>4. /\ s.section # Nothing <=> before # <<>>
      /\ s.section # Nothing => s.tocStatus \in {"committed", "absent"}
      /\ s.tocStatus \in {"not_seen", "collecting"} => s.expected = 0
      /\ s.tocStatus = "committed" =>
           /\ s.expected = Len(before) /\ s.expected <= Len(s.toc)
           /\ \A i \in 1..s.expected : ObservedTitle(before[i]) = s.toc[i].title
  BY <1>1 DEF SectionInv
<1> HIDE DEF before, after
<1>5. CASE page.type = "toc"
  <2>0. TocPageAdds(pages, page, s, t)
    BY <1>5, AddsTocPage
  <2>1. /\ s.tocStatus \in {"not_seen", "collecting"} /\ t.tocStatus = "collecting"
        /\ t.expected = s.expected /\ t.section = s.section
    BY <2>0 DEF TocPageAdds
  <2>2. after = before
    BY <1>2, <1>5
  <2> QED BY <1>4, <2>1, <2>2 DEF SectionInv, before, after
<1>6. CASE page.type = "chapter_opening"
  <2> DEFINE j == FinalizeToc(s, page)
  <2>1. /\ t.toc = s.toc /\ t.section # Nothing
        /\ j.tocStatus = IF s.tocStatus = "collecting"
                         THEN IF s.toc = <<>> THEN "absent" ELSE "committed"
                         ELSE s.tocStatus
        /\ t.tocStatus = IF j.tocStatus = "not_seen" THEN "absent" ELSE j.tocStatus
        /\ t.expected = IF j.tocStatus = "committed" THEN s.expected + 1 ELSE s.expected
        /\ j.tocStatus = "committed" =>
             s.expected < Len(s.toc) /\ ObservedTitle(page) = s.toc[s.expected + 1].title
    BY <1>6, AddsOtherPage
  <2> HIDE DEF j
  <2>2. after = Append(before, page) /\ after # <<>>
    BY <1>2, <1>6
  <2>3. Len(after) = Len(before) + 1 /\ Len(before) \in Nat /\ after[Len(before) + 1] = page
        /\ \A i \in 1..Len(before) : after[i] = before[i]
    BY <1>2, <2>2, AddsState
  <2>4. t.tocStatus \in {"committed", "absent"}
    BY <1>3, <2>1 DEF TocStatus
  <2>5. j.tocStatus = "committed" => s.expected = Len(before)
        /\ \A i \in 1..s.expected : ObservedTitle(before[i]) = s.toc[i].title
    <3>1. CASE s.tocStatus = "committed"
      BY <1>4, <3>1
    <3>2. CASE s.tocStatus = "collecting"
      <4>1. s.expected = 0 /\ before = <<>>
        BY <1>4, <3>2
      <4> QED BY <4>1
    <3> QED BY <1>3, <2>1, <3>1, <3>2 DEF TocStatus
  <2>6. t.tocStatus = "committed" =>
          /\ t.expected = Len(after) /\ t.expected <= Len(t.toc)
          /\ \A i \in 1..t.expected : ObservedTitle(after[i]) = t.toc[i].title
    <3>1. SUFFICES ASSUME t.tocStatus = "committed"
                   PROVE  /\ t.expected = Len(after) /\ t.expected <= Len(t.toc)
                          /\ \A i \in 1..t.expected : ObservedTitle(after[i]) = t.toc[i].title
      OBVIOUS
    <3>2. j.tocStatus = "committed"
      BY <2>1, <3>1
    <3>3. t.expected = s.expected + 1 /\ s.expected = Len(before) /\ s.expected < Len(s.toc)
      BY <2>1, <2>5, <3>2
    <3>4. ASSUME NEW i \in 1..t.expected PROVE ObservedTitle(after[i]) = t.toc[i].title
      <4>1. CASE i = s.expected + 1
        BY <2>1, <2>3, <3>2, <3>3, <4>1
      <4>2. CASE i # s.expected + 1
        <5> i \in 1..s.expected
          BY <1>3, <3>3, <4>2
        <5> QED BY <2>1, <2>3, <2>5, <3>2, <3>3
      <4> QED BY <4>1, <4>2
    <3>5. Len(s.toc) \in Nat
      BY <1>3
    <3> QED BY <1>3, <2>1, <2>3, <3>3, <3>4, <3>5
  <2> QED BY <2>1, <2>2, <2>4, <2>6 DEF SectionInv, after
<1>7. CASE page.type # "toc" /\ page.type # "chapter_opening"
  <2> DEFINE j == FinalizeToc(s, page)
  <2>1. /\ t.toc = s.toc /\ (t.section = Nothing <=> s.section = Nothing)
        /\ j.tocStatus = IF s.tocStatus = "collecting"
                         THEN IF s.toc = <<>> THEN "absent" ELSE "committed"
                         ELSE s.tocStatus
        /\ t.tocStatus \in {"absent", j.tocStatus}
        /\ t.expected = s.expected
    BY <1>7, AddsOtherPage
  <2> HIDE DEF j
  <2>2. after = before
    BY <1>2, <1>7
  <2>3. t.tocStatus = "not_seen" => s.tocStatus = "not_seen"
    BY <2>1
  <2>4. t.tocStatus # "collecting"
    BY <2>1
  <2>5. t.section # Nothing => t.tocStatus \in {"committed", "absent"}
    BY <1>4, <2>1
  <2>6. t.tocStatus = "committed" =>
          /\ t.expected = Len(after) /\ t.expected <= Len(t.toc)
          /\ \A i \in 1..t.expected : ObservedTitle(after[i]) = t.toc[i].title
    <3>1. SUFFICES ASSUME t.tocStatus = "committed"
                   PROVE  /\ t.expected = Len(after) /\ t.expected <= Len(t.toc)
                          /\ \A i \in 1..t.expected : ObservedTitle(after[i]) = t.toc[i].title
      OBVIOUS
    <3>2. CASE s.tocStatus = "committed"
      BY <1>4, <2>1, <2>2, <3>2
    <3>3. CASE s.tocStatus = "collecting"
      <4>1. s.expected = 0 /\ before = <<>> /\ Len(s.toc) \in Nat
        BY <1>3, <1>4, <3>3
      <4> QED BY <2>1, <2>2, <4>1
    <3> QED BY <2>1, <3>1, <3>2, <3>3
  <2> QED BY <1>4, <2>1, <2>2, <2>3, <2>4, <2>5, <2>6 DEF SectionInv, after
<1> QED BY <1>5, <1>6, <1>7

LEMMA TailAfterIs ==
  ASSUME NEW page \in Interpretation, NEW tail, NEW n \in Nat \ {0},
         Paragraphs(page) = <<>> => tail = 0
  PROVE  /\ TailAfter(tail, page, n) # 0 <=> LeavesOpen(page)
         /\ TailAfter(tail, page, n) # 0 => TailAfter(tail, page, n) = n
BY DEF TailAfter, LeavesOpen

LEMMA AddsTail ==
  ASSUME NEW pages, NEW page, NEW s, NEW t, NEW more, Adds(pages, page, s, t, more)
  PROVE  TailInv(more, t)
<1> DEFINE before == OfType(pages, "chapter_opening")
           after == OfType(more, "chapter_opening")
<1>1. /\ before \in Seq(Interpretation) /\ after \in Seq(Interpretation)
      /\ after = IF page.type = "chapter_opening" THEN Append(before, page) ELSE before
  BY AddsOpenings
<1>2. /\ s.section # Nothing <=> before # <<>>
      /\ s.section # Nothing => s.tocStatus \in {"committed", "absent"}
  BY DEF Adds, BookInv, SectionInv
<1> HIDE DEF before, after
<1>3. more # <<>> /\ LastOf(more) = page /\ Len(more) = Len(pages) + 1 /\ Len(pages) \in Nat
  BY AddsSequence
<1>4. ContinuationsValid(page, FinalizeToc(s, page)) /\ page \in Interpretation
  BY DEF Adds, PageValid
<1>5. OpenTail(FinalizeToc(s, page)) <=> OpenTail(s)
  BY FinalizeEffect DEF OpenTail, Adds
<1>6. OpenTail(s) => page.type # "chapter_opening" /\ Paragraphs(page) # <<>>
  BY <1>4, <1>5, PassingParagraphs
<1>7. SUFFICES /\ OpenTail(t) <=> after # <<>> /\ LeavesOpen(page)
               /\ OpenTail(t) => t.section.tail = Len(more)
  BY <1>3 DEF TailInv, after
<1>8. CASE page.type = "toc"
  <2>0. TocPageAdds(pages, page, s, t)
    BY <1>8, AddsTocPage
  <2>1. s.tocStatus \in {"not_seen", "collecting"} /\ t.section = s.section
    BY <2>0 DEF TocPageAdds
  <2>2. t.section = Nothing /\ after = <<>>
    BY <1>1, <1>2, <1>8, <2>1
  <2> QED BY <2>2 DEF OpenTail
<1>9. CASE page.type # "toc"
  <2> DEFINE tail == IF page.type = "chapter_opening" THEN 0 ELSE s.section.tail
  <2>1. /\ t.section = Nothing <=> page.type # "chapter_opening" /\ s.section = Nothing
        /\ t.section # Nothing => t.section.tail = TailAfter(tail, page, Len(pages) + 1)
    BY <1>9, AddsOtherPage
  <2>2. t.section # Nothing <=> after # <<>>
    <3>1. page.type = "chapter_opening" => after # <<>>
      BY <1>1, <1>4
    <3> QED BY <1>1, <1>2, <2>1, <3>1
  <2>3. t.section # Nothing /\ Paragraphs(page) = <<>> => tail = 0
    BY <1>6, <2>1 DEF OpenTail
  <2>4. t.section # Nothing =>
          /\ TailAfter(tail, page, Len(pages) + 1) # 0 <=> LeavesOpen(page)
          /\ TailAfter(tail, page, Len(pages) + 1) # 0 =>
               TailAfter(tail, page, Len(pages) + 1) = Len(pages) + 1
    <3> HIDE DEF tail
    <3>1. Len(pages) + 1 \in Nat \ {0}
      BY <1>3
    <3> QED BY <1>4, <2>3, <3>1, TailAfterIs
  <2> HIDE DEF tail
  <2> QED BY <1>3, <2>1, <2>2, <2>4 DEF OpenTail
<1> QED BY <1>8, <1>9

LEMMA AddsClosed ==
  ASSUME NEW pages, NEW page, NEW s, NEW t, NEW more, Adds(pages, page, s, t, more)
  PROVE  ClosedInv(more)
<1>1. /\ more \in Seq(Interpretation) /\ Len(pages) \in Nat /\ Len(more) = Len(pages) + 1
      /\ more[Len(pages) + 1] = page /\ \A i \in 1..Len(pages) : more[i] = pages[i]
      /\ pages = <<>> <=> Len(pages) = 0
  BY AddsSequence
<1>2. SUFFICES ASSUME NEW n \in 1..Len(pages), NEW k \in 1..n,
                      more[k].type = "chapter_opening", LeavesOpen(more[n])
               PROVE  TakesUp(more[n+1])
  BY <1>1 DEF ClosedInv
<1>3. k \in 1..Len(pages) /\ pages[k].type = "chapter_opening" /\ LeavesOpen(pages[n])
  BY <1>1, <1>2
<1>4. CASE n # Len(pages)
  <2>1. n \in 1..Len(pages) - 1 /\ n + 1 \in 1..Len(pages)
    BY <1>1, <1>4
  <2>2. ClosedInv(pages)
    BY DEF Adds, BookInv
  <2> QED BY <1>1, <1>2, <1>3, <2>1, <2>2 DEF ClosedInv
<1>5. CASE n = Len(pages)
  <2>1. OfType(pages, "chapter_opening") # <<>>
    BY <1>3, OfTypeNonempty DEF Adds
  <2>2. TailInv(pages, s) /\ pages # <<>> /\ LeavesOpen(LastOf(pages))
    BY <1>1, <1>3, <1>5 DEF Adds, BookInv, LastOf
  <2>3. OpenTail(s)
    BY <2>1, <2>2 DEF TailInv
  <2>4. ContinuationsValid(page, FinalizeToc(s, page)) /\ page \in Interpretation
    BY DEF Adds, PageValid
  <2>5. OpenTail(FinalizeToc(s, page))
    BY <2>3, FinalizeEffect DEF OpenTail, Adds
  <2> QED BY <1>1, <1>5, <2>4, <2>5, PassingParagraphs
<1> QED BY <1>4, <1>5

\* The paragraphs of a page, at their places among its blocks.
LEMMA PassingFirst ==
  ASSUME NEW page \in Interpretation, NEW s, ContinuationsValid(page, s),
         NEW i \in 1..Len(page.blocks), page.blocks[i].kind = "paragraph",
         page.blocks[i].previous
  PROVE  OpenTail(s) /\ FirstParagraph(page, i)
<1> DEFINE bs == page.blocks
           T == {b \in BlocksOf(page) : b.kind = "paragraph"}
           ps == Paragraphs(page)
<1>1. bs \in Seq(SourceBlock) /\ ps = Chosen(bs, T) /\ ps \in Seq(SourceBlock)
  BY BlocksType DEF Interpretation, Paragraphs, Blocks
<1>2. PICK g : Picks(g, bs, ps, T)
  BY <1>1, ChosenPicks
<1>3. \A j \in 1..Len(bs) : bs[j].kind = "paragraph" => bs[j] \in T
  BY <1>1 DEF BlocksOf
<1>4. \A k \in DOMAIN ps : ps[k].previous => OpenTail(s) /\ k = 1
  BY DEF ContinuationsValid
<1>5. i \in 1..Len(bs) /\ bs[i] \in T /\ bs[i].previous
  BY <1>3
<1> HIDE DEF ps, T
<1>6. PICK k \in 1..Len(ps) : g[k] = i
  BY <1>2, <1>5 DEF Picks
<1>7. ps[k] = bs[i] /\ k \in DOMAIN ps
  BY <1>1, <1>2, <1>6 DEF Picks
<1>8. OpenTail(s) /\ k = 1
  BY <1>4, <1>5, <1>7
<1>9. ASSUME NEW j \in 1..i-1 PROVE bs[j].kind # "paragraph"
  <2>1. SUFFICES ASSUME bs[j].kind = "paragraph" PROVE FALSE
    OBVIOUS
  <2>2. j \in 1..Len(bs) /\ j < i /\ i \in Nat /\ Len(ps) \in Nat
    BY <1>1, <1>5
  <2>3. PICK l \in 1..Len(ps) : g[l] = j
    BY <1>2, <1>3, <2>1, <2>2 DEF Picks
  <2>4. l = 1 \/ 1 < l
    BY <2>2
  <2>5. 1 < l => g[1] < g[l]
    BY <1>2, <1>6, <1>8 DEF Picks
  <2> QED BY <1>6, <1>8, <2>2, <2>3, <2>4, <2>5
<1> QED BY <1>8, <1>9 DEF FirstParagraph

LEMMA LeftOpenLast ==
  ASSUME NEW page \in Interpretation, LeavesOpen(page)
  PROVE  \E l \in 1..Len(page.blocks) : LastParagraph(page, l) /\ page.blocks[l].next
<1> DEFINE bs == page.blocks
           T == {b \in BlocksOf(page) : b.kind = "paragraph"}
           ps == Paragraphs(page)
           n == Len(ps)
<1>1. bs \in Seq(SourceBlock) /\ ps = Chosen(bs, T) /\ ps \in Seq(SourceBlock)
  BY BlocksType DEF Interpretation, Paragraphs, Blocks
<1>2. PICK g : Picks(g, bs, ps, T)
  BY <1>1, ChosenPicks
<1>3. \A j \in 1..Len(bs) : bs[j].kind = "paragraph" <=> bs[j] \in T
  BY <1>1 DEF BlocksOf
<1>4. ps # <<>> /\ ps[n].next
  BY DEF LeavesOpen, LastOf
<1> HIDE DEF ps, T
<1>5. n \in Nat /\ n \in 1..Len(ps) /\ Len(bs) \in Nat
  BY <1>1, <1>4
<1> DEFINE l == g[n]
<1>6. l \in 1..Len(bs) /\ ps[n] = bs[l] /\ bs[l] \in T
  BY <1>2, <1>5 DEF Picks
<1>7. ASSUME NEW j \in l+1..Len(bs) PROVE bs[j].kind # "paragraph"
  <2>1. SUFFICES ASSUME bs[j].kind = "paragraph" PROVE FALSE
    OBVIOUS
  <2>2. j \in 1..Len(bs) /\ l < j /\ l \in Nat
    BY <1>5, <1>6
  <2>3. PICK k \in 1..Len(ps) : g[k] = j
    BY <1>2, <1>3, <2>1, <2>2 DEF Picks
  <2>4. k = n \/ k < n
    BY <1>5
  <2>5. k < n => g[k] < g[n]
    BY <1>2, <1>5 DEF Picks
  <2> QED BY <2>2, <2>3, <2>4, <2>5
<1>8. bs[l].kind = "paragraph" /\ bs[l].next
  BY <1>3, <1>4, <1>6
<1> HIDE DEF l
<1>9. LastParagraph(page, l)
  BY <1>6, <1>7, <1>8 DEF LastParagraph
<1> QED BY <1>6, <1>8, <1>9

LEMMA AddsSound ==
  ASSUME NEW pages, NEW page, NEW s, NEW t, NEW more, Adds(pages, page, s, t, more)
  PROVE  SoundPages(more)
<1>1. /\ more \in Seq(Interpretation) /\ Len(pages) \in Nat /\ Len(more) = Len(pages) + 1
      /\ more[Len(pages) + 1] = page /\ \A i \in 1..Len(pages) : more[i] = pages[i]
      /\ pages = <<>> <=> Len(pages) = 0
  BY AddsSequence
<1>2. /\ pages \in Seq(Interpretation) /\ page \in Interpretation
      /\ SoundPages(pages) /\ TailInv(pages, s)
      /\ ContinuationsValid(page, FinalizeToc(s, page)) /\ FootnotesValid(page)
  BY DEF Adds, BookInv, PageValid
<1>3. OpenTail(FinalizeToc(s, page)) => OpenTail(s)
  BY FinalizeEffect DEF OpenTail, Adds
<1>4. ASSUME NEW n \in 1..Len(pages)
      PROVE  FollowsOn(more, n) /\ FootnotesValid(more[n])
  <2>1. FollowsOn(pages, n) /\ FootnotesValid(pages[n])
    BY <1>2 DEF SoundPages
  <2>2. more[n] = pages[n] /\ (n > 1 => more[n-1] = pages[n-1])
    BY <1>1
  <2> QED BY <2>1, <2>2 DEF FollowsOn
<1>5. FollowsOn(more, Len(pages) + 1)
  <2>1. SUFFICES ASSUME NEW i \in 1..Len(page.blocks), page.blocks[i].kind = "paragraph",
                        page.blocks[i].previous
                 PROVE  /\ FirstParagraph(page, i) /\ Len(pages) + 1 > 1
                        /\ \E l \in 1..Len(more[Len(pages)].blocks) :
                             /\ LastParagraph(more[Len(pages)], l)
                             /\ more[Len(pages)].blocks[l].next
    <3>1. (Len(pages) + 1) - 1 = Len(pages)
      BY <1>1
    <3> QED BY <1>1, <3>1 DEF FollowsOn
  <2>2. OpenTail(s) /\ FirstParagraph(page, i)
    BY <1>2, <1>3, <2>1, PassingFirst
  <2>3. pages # <<>> /\ LeavesOpen(LastOf(pages))
    BY <1>2, <2>2 DEF TailInv
  <2>4. Len(pages) \in 1..Len(pages) /\ LastOf(pages) = pages[Len(pages)]
    BY <1>1, <2>3 DEF LastOf
  <2>5. pages[Len(pages)] \in Interpretation /\ more[Len(pages)] = pages[Len(pages)]
    BY <1>1, <1>2, <2>4
  <2> QED BY <1>1, <2>2, <2>3, <2>4, <2>5, LeftOpenLast
<1> QED BY <1>1, <1>2, <1>4, <1>5 DEF SoundPages

LEMMA BookStep ==
  ASSUME NEW pages \in Seq(Interpretation), NEW page \in Interpretation, BookInv(pages),
         PageValid(page, FinalizeToc(ReplayPages(pages), page))
  PROVE  BookInv(Append(pages, page))
<1> DEFINE s == ReplayPages(pages)
           more == Append(pages, page)
           t == ReplayPages(more)
<1>1. Adds(pages, page, s, t, more)
  BY ReplayType DEF Adds
<1> HIDE DEF s, t, more
<1>2. /\ TocInv(more, t) /\ SectionInv(more, t) /\ TailInv(more, t) /\ ClosedInv(more)
      /\ SoundPages(more)
  BY <1>1, AddsToc, AddsSection, AddsTail, AddsClosed, AddsSound
<1>0. page.type = "toc" => TocPageAdds(pages, page, s, t)
  BY <1>1, AddsTocPage
<1>3. t.count = Len(more)
  <2>1. Len(more) = Len(pages) + 1
    BY <1>1, AddsSequence
  <2>2. CASE page.type = "toc"
    BY <1>0, <2>1, <2>2 DEF TocPageAdds
  <2>3. CASE page.type # "toc"
    BY <1>1, <2>1, <2>3, AddsOtherPage
  <2> QED BY <2>2, <2>3
<1>4. t.meta = PublicationMeta(more)
  <2>1. t.meta = MergeMeta(s.meta, page.meta)
    <3>1. CASE page.type = "toc"
      BY <1>0, <3>1 DEF TocPageAdds
    <3>2. CASE page.type # "toc"
      BY <1>1, <3>2, AddsOtherPage
    <3> QED BY <3>1, <3>2
  <2>2. s.meta = PublicationMeta(pages)
    BY DEF BookInv, s
  <2>3. PublicationMeta(more) = MergeMeta(PublicationMeta(pages), page.meta)
    BY MetaAppend DEF more
  <2> QED BY <2>1, <2>2, <2>3
<1> QED BY <1>2, <1>3, <1>4 DEF BookInv, t, more

-----------------------------------------------------------------------------
(* The page loop keeps IInv.                                               *)

LEMMA Types == IInv => /\ accepted \in Seq(Interpretation) /\ Len(accepted) \in Nat
                       /\ ReplayPages(accepted) \in BookState
                       /\ Context(ReplayPages(accepted)) \in PageContext
                       /\ ReplayPages(accepted) # Nothing
                       /\ Context(ReplayPages(accepted)) # Nothing
<1> SUFFICES ASSUME IInv
             PROVE  /\ accepted \in Seq(Interpretation) /\ Len(accepted) \in Nat
                    /\ ReplayPages(accepted) \in BookState
                    /\ Context(ReplayPages(accepted)) \in PageContext
                    /\ ReplayPages(accepted) # Nothing
                    /\ Context(ReplayPages(accepted)) # Nothing
  OBVIOUS
<1>1. accepted \in Seq(Interpretation)
  <2>1. accepted \in Seq(Pages) /\ Pages \subseteq Interpretation
    BY ProgressAssumption DEF IInv, LoopInv
  <2> QED BY <2>1, SeqMonotonic
<1>2. ReplayPages(accepted) \in BookState
  BY <1>1, ReplayType
<1>3. Context(ReplayPages(accepted)) \in PageContext
  BY <1>2, ContextType
<1> QED BY <1>1, <1>2, <1>3, NothingAssumption

LEMMA InitIInv == Init => IInv
<1> SUFFICES ASSUME Init PROVE IInv
  OBVIOUS
<1>1. LoopInv
  BY ProgressAssumption DEF Init, LoopInv
<1>2. BookInv(accepted)
  BY BookEmpty DEF Init
<1>3. ~ Complete
  BY ProgressAssumption DEF Init, Complete
<1> QED BY <1>1, <1>2, <1>3 DEF IInv

\* What is accepted keeps every claim about it.
LEMMA KeepsBook ==
  ASSUME IInv, accepted' = accepted
  PROVE  BookInv(accepted)' /\ (Complete => CompleteBookValid(ReplayPages(accepted)))'
<1>1. BookInv(accepted) /\ (Complete => CompleteBookValid(ReplayPages(accepted)))
  BY DEF IInv
<1>2. accepted' = accepted
  OBVIOUS
<1>3. BookInv(accepted)' = BookInv(accepted')
  OBVIOUS
<1>4. BookInv(accepted')
  BY <1>1, <1>2
<1>5. Complete' => Complete
  BY <1>2 DEF Complete
<1>6. CompleteBookValid(ReplayPages(accepted))' = CompleteBookValid(ReplayPages(accepted'))
  OBVIOUS
<1> QED BY <1>1, <1>2, <1>3, <1>4, <1>5, <1>6

LEMMA LoadIInv ==
  ASSUME IInv, NEW n \in Len(accepted)..PageCount, Load(n)
  PROVE  IInv'
<1>1. LoopInv'
  BY Types, ProgressAssumption DEF Load, IInv, LoopInv
<1> QED BY <1>1, KeepsBook DEF Load, IInv

LEMMA AskIInv ==
  ASSUME IInv, Ask
  PROVE  IInv'
<1>1. state = ReplayPages(accepted) /\ ReplayPages(accepted).count = Len(accepted)
  BY DEF Ask, IInv, LoopInv, BookInv
<1>2. LoopInv'
  BY <1>1, Types DEF Ask, IInv, LoopInv
<1> QED BY <1>2, KeepsBook DEF Ask, IInv

LEMMA StoppedIInv ==
  ASSUME IInv, Stopped
  PROVE  IInv'
<1>1. LoopInv'
  BY ProgressAssumption DEF Stopped, IInv, LoopInv
<1> QED BY <1>1, KeepsBook DEF Stopped, IInv

LEMMA AcceptIInv ==
  ASSUME IInv, NEW page \in Pages, Accept(page)
  PROVE  IInv'
<1> DEFINE s == ReplayPages(accepted)
           more == Append(accepted, page)
<1>1. /\ accepted \in Seq(Interpretation) /\ page \in Interpretation
      /\ accepted \in Seq(Pages) /\ Len(accepted) \in Nat
  BY Types, ProgressAssumption DEF IInv, LoopInv
<1>2. state = s /\ s.count = Len(accepted) /\ Len(accepted) < end /\ end \in 0..PageCount
  BY DEF Accept, IInv, LoopInv, BookInv
<1>3. /\ PageValid(page, FinalizeToc(s, page)) /\ accepted' = more
      /\ state' = Apply(FinalizeToc(s, page), page, Len(accepted) + 1)
      /\ Len(accepted) + 1 = PageCount => CompleteBookValid(state')
      /\ phase' = "ready" /\ shown' = Nothing /\ end' = end
  BY <1>2 DEF Accept, Passes, Judged, Final
<1>4. state' = ReplayPages(accepted')
  BY <1>1, <1>3, ReplayAppend
<1>5. more \in Seq(Pages) /\ Len(more) = Len(accepted) + 1
  BY <1>1
<1>6. LoopInv'
  BY <1>1, <1>2, <1>3, <1>4, <1>5, ProgressAssumption DEF LoopInv
<1>7. BookInv(more)
  <2> HIDE DEF s, more
  <2>1. BookInv(accepted)
    BY DEF IInv
  <2> QED BY <1>1, <1>3, <2>1, BookStep DEF s, more
<1>8. BookInv(accepted)'
  BY <1>3, <1>7
<1>9. (Complete => CompleteBookValid(ReplayPages(accepted)))'
  <2>1. Complete' => Len(accepted) + 1 = PageCount
    BY <1>3, <1>5 DEF Complete
  <2> QED BY <1>3, <1>4, <2>1
<1> QED BY <1>6, <1>8, <1>9 DEF IInv

LEMMA NextIInv == IInv /\ [Next]_vars => IInv'
<1> SUFFICES ASSUME IInv, [Next]_vars PROVE IInv'
  OBVIOUS
<1>1. ASSUME NEW n \in Len(accepted)..PageCount, Load(n) PROVE IInv'
  BY <1>1, LoadIInv
<1>2. CASE Ask
  BY <1>2, AskIInv
<1>3. CASE Stop
  BY <1>3, StoppedIInv DEF Stop
<1>4. ASSUME NEW page \in Pages, Accept(page) PROVE IInv'
  BY <1>4, AcceptIInv
<1>5. ASSUME NEW page \in Pages, Reject(page) PROVE IInv'
  BY <1>5, StoppedIInv DEF Reject
<1>6. CASE UNCHANGED vars
  <2>1. LoopInv'
    BY <1>6 DEF vars, IInv, LoopInv
  <2> QED BY <1>6, <2>1, KeepsBook DEF vars, IInv
<1> QED BY <1>1, <1>2, <1>3, <1>4, <1>5, <1>6 DEF Next

\* The inductive invariant of the page loop.
THEOREM Inductive == Spec => []IInv
BY InitIInv, NextIInv, PTL DEF Spec

-----------------------------------------------------------------------------
(* What follows from it.                                                   *)

\* Every variable has a value of its type; a command in memory has a state, and
\* a context while a page is asked for (process_book).
THEOREM TypesHold == Spec => []TypeOK
<1>1. IInv => TypeOK
  <2> SUFFICES ASSUME IInv PROVE TypeOK
    OBVIOUS
  <2>1. /\ accepted \in Seq(Interpretation) /\ Len(accepted) \in Nat
        /\ ReplayPages(accepted) \in BookState
        /\ Context(ReplayPages(accepted)) \in PageContext
        /\ ReplayPages(accepted) # Nothing /\ Context(ReplayPages(accepted)) # Nothing
    BY Types
  <2>2. ReplayPages(accepted).count = Len(accepted)
    BY DEF IInv, BookInv
  <2> QED BY <2>1, <2>2, ProgressAssumption DEF IInv, LoopInv, TypeOK
<1> QED BY <1>1, Inductive, PTL

\* The state kept in memory from page to page is the one a later command loads
\* from the commits (load_book_state_from_commits).
THEOREM StateIsWhatReplayGives == Spec => []StateIsReplay
<1>1. IInv => StateIsReplay
  BY DEF IInv, LoopInv, StateIsReplay
<1> QED BY <1>1, Inductive, PTL

\* The TOC is one run of pages and is settled before a chapter begins
\* (validate_toc_page, finalize_toc_if_required).
THEOREM TocComesFirst == Spec => []TocBeforeSections
<1>1. IInv => TocBeforeSections
  BY DEF IInv, LoopInv, BookInv, TocInv, SectionInv, TocBeforeSections
<1> QED BY <1>1, Inductive, PTL

\* The chapters of a book with a TOC are the first entries of it, in its order
\* (validate_chapter_opening, apply_assessment).
THEOREM ChaptersAreTheToc == Spec => []OpeningsFollowToc
<1>1. IInv => OpeningsFollowToc
  <2> SUFFICES ASSUME IInv, state # Nothing, state.tocStatus = "committed"
               PROVE  OpeningsFollowToc
    BY DEF OpeningsFollowToc
  <2> DEFINE openings == OfType(accepted, "chapter_opening")
             tocs == OfType(accepted, "toc")
  <2>1. state = ReplayPages(accepted)
    BY DEF IInv, LoopInv
  <2>2. state.toc = FlattenSeq([i \in DOMAIN tocs |-> tocs[i].toc])
    BY <2>1 DEF IInv, BookInv, TocInv
  <2>3. /\ state.expected = Len(openings)
        /\ \A i \in 1..state.expected : ObservedTitle(openings[i]) = state.toc[i].title
    BY <2>1 DEF IInv, BookInv, SectionInv
  <2>4. openings \in Seq(Interpretation)
    BY Types, OfTypeType
  <2> HIDE DEF openings
  <2>5. DOMAIN openings = 1..state.expected
    BY <2>3, <2>4
  <2>6. [i \in DOMAIN openings |-> ObservedTitle(openings[i])]
          = [i \in 1..state.expected |-> state.toc[i].title]
    BY <2>3, <2>5
  <2> QED BY <2>2, <2>6 DEF OpeningsFollowToc, openings
<1> QED BY <1>1, Inductive, PTL

\* The open paragraph of the state is the one the last accepted page leaves open
\* (the loop over the blocks in apply_assessment).
THEOREM TailIsTheLastPages == Spec => []TailIsReal
<1>1. IInv => TailIsReal
  BY DEF IInv, LoopInv, BookInv, TailInv, LeavesOpen, TailIsReal
<1> QED BY <1>1, Inductive, PTL

\* No paragraph of a chapter is left open over a page boundary without being
\* taken up on the next page, nor at the end of the book (validate_continuations,
\* validate_complete_book).
THEOREM EveryParagraphIsClosed == Spec => []ParagraphsClosed
<1>1. IInv => ParagraphsClosed
  <2> SUFFICES ASSUME IInv,
                      NEW n \in 1..Len(accepted) - (IF Complete THEN 0 ELSE 1),
                      \E k \in 1..n : accepted[k].type = "chapter_opening",
                      LeavesOpen(accepted[n])
               PROVE  n < PageCount /\ TakesUp(accepted[n+1])
    BY DEF ParagraphsClosed, LeavesOpen, TakesUp
  <2>1. /\ accepted \in Seq(Interpretation) /\ Len(accepted) \in Nat
        /\ Len(accepted) <= PageCount /\ PageCount \in Nat
    BY Types, ProgressAssumption DEF IInv, LoopInv
  <2>2. CASE n \in 1..Len(accepted) - 1
    <3>1. ClosedInv(accepted)
      BY DEF IInv, BookInv
    <3> QED BY <2>1, <2>2, <3>1 DEF ClosedInv
  <2>3. CASE n = Len(accepted) /\ Complete
    <3>1. OfType(accepted, "chapter_opening") # <<>> /\ accepted # <<>>
      BY <2>1, <2>3, OfTypeNonempty
    <3>2. OpenTail(ReplayPages(accepted))
      BY <2>3, <3>1 DEF IInv, BookInv, TailInv, LastOf
    <3>3. ~ OpenTail(ReplayPages(accepted))
      BY <2>3 DEF IInv, CompleteBookValid
    <3> QED BY <3>2, <3>3
  <2>4. n \in 1..Len(accepted) - 1 \/ (n = Len(accepted) /\ Complete)
    BY <2>1
  <2> QED BY <2>2, <2>3, <2>4
<1> QED BY <1>1, Inductive, PTL

\* A complete book whose TOC was closed has a chapter for every entry of it
\* (validate_complete_book).
THEOREM CompleteBooksExhaustTheToc == Spec => []CompleteTocExhausted
<1>1. IInv => CompleteTocExhausted
  <2> SUFFICES ASSUME IInv, Complete, LastOf(accepted).type # "toc",
                      ReplayPages(accepted).tocStatus # "absent"
               PROVE  Len(OfType(accepted, "chapter_opening")) = Len(ReplayPages(accepted).toc)
    BY DEF CompleteTocExhausted
  <2> DEFINE s == ReplayPages(accepted)
             openings == OfType(accepted, "chapter_opening")
  <2>1. s \in BookState
    BY Types
  <2>2. s.tocStatus # "collecting"
    BY DEF IInv, BookInv, TocInv
  <2>3. s.tocStatus = "not_seen" => s.toc = <<>> /\ openings = <<>>
    BY DEF IInv, BookInv, TocInv, SectionInv
  <2>4. s.tocStatus = "committed" =>
          s.expected = Len(openings) /\ s.expected <= Len(s.toc) /\ s.expected >= Len(s.toc)
    BY DEF IInv, BookInv, SectionInv, CompleteBookValid
  <2>5. Len(s.toc) \in Nat /\ s.expected \in Nat /\ s.tocStatus \in TocStatus
    BY <2>1 DEF BookState
  <2> HIDE DEF s, openings
  <2>6. CASE s.tocStatus = "not_seen"
    BY <2>3, <2>6 DEF s, openings
  <2>7. CASE s.tocStatus = "committed"
    <3>1. Len(openings) = Len(s.toc)
      BY <2>4, <2>5, <2>7
    <3> QED BY <3>1 DEF s, openings
  <2> QED BY <2>2, <2>5, <2>6, <2>7 DEF TocStatus, s
<1> QED BY <1>1, Inductive, PTL

\* The metadata the model is shown is the metadata that is published
\* (_merge_metadata, build_publication_document).
THEOREM MetadataAgrees == Spec => []MetaAgrees
<1>1. IInv => MetaAgrees
  BY DEF IInv, LoopInv, BookInv, MetaAgrees
<1> QED BY <1>1, Inductive, PTL

\* A chapter accepted in a book with a TOC is the one announced first, unless its
\* page is the one that ends the TOC (build_page_context before
\* finalize_toc_if_required, validate_chapter_opening).
THEOREM OpeningsAreAnnounced == Spec => OpeningWasAnnounced
<1> DEFINE Announced ==
      /\ accepted' # accepted
      /\ state'.tocStatus = "committed"
      /\ LastOf(accepted').type = "chapter_opening"
      /\ LastOf(accepted').opening # Nothing
      => \/ accepted # <<>> /\ LastOf(accepted).type = "toc"
         \/ /\ shown.expected # <<>>
            /\ shown.expected[1].title = LastOf(accepted').opening
<1>1. IInv /\ [Next]_vars => [Announced]_vars
  <2> SUFFICES ASSUME IInv, Next, accepted' # accepted,
                      state'.tocStatus = "committed",
                      LastOf(accepted').type = "chapter_opening",
                      LastOf(accepted').opening # Nothing,
                      ~ (accepted # <<>> /\ LastOf(accepted).type = "toc")
               PROVE  /\ shown.expected # <<>>
                      /\ shown.expected[1].title = LastOf(accepted').opening
    BY DEF vars
  <2>1. PICK page \in Pages : Accept(page)
    BY DEF Next, Load, Ask, Stop, Stopped, Reject
  <2> DEFINE s == ReplayPages(accepted)
  <2>2. s \in BookState /\ accepted \in Seq(Interpretation) /\ page \in Interpretation
    BY Types, ProgressAssumption
  <2>3. state = s /\ shown = Context(s) /\ accepted' = Append(accepted, page)
        /\ PageValid(page, FinalizeToc(s, page))
        /\ state' = Apply(FinalizeToc(s, page), page, s.count + 1)
    BY <2>1 DEF Accept, Passes, Judged, IInv, LoopInv
  <2>4. LastOf(accepted') = page
    BY <2>2, <2>3 DEF LastOf
  <2>5. s.tocStatus = "committed"
    <3>1. s.tocStatus # "collecting"
      BY DEF IInv, BookInv, TocInv
    <3> HIDE DEF s
    <3>2. FinalizeToc(s, page) = s
      BY <3>1 DEF FinalizeToc
    <3>3. s.count + 1 \in Nat
      BY <2>2 DEF BookState
    <3>4. state'.tocStatus = IF s.tocStatus = "not_seen" THEN "absent" ELSE s.tocStatus
      BY <2>2, <2>3, <2>4, <3>2, <3>3, PageEffect
    <3> QED BY <3>4
  <2> HIDE DEF s
  <2>6. FinalizeToc(s, page) = s
    BY <2>5 DEF FinalizeToc
  <2>7. s.expected < Len(s.toc) /\ ObservedTitle(page) = s.toc[s.expected + 1].title
    BY <2>3, <2>4, <2>5, <2>6 DEF PageValid, OpeningValid
  <2>8. ObservedTitle(page) = page.opening
    BY <2>4 DEF ObservedTitle
  <2>9. shown.expected = SubSeq(s.toc, s.expected + 1, UpTo(s.expected + 3, Len(s.toc)))
    BY <2>3, <2>5 DEF Context
  <2> DEFINE last == UpTo(s.expected + 3, Len(s.toc))
  <2>10. /\ s.toc \in Seq(TocEntry) /\ s.expected + 1 \in 1..Len(s.toc)
         /\ last \in s.expected + 1..Len(s.toc)
    BY <2>2, <2>7 DEF BookState, UpTo
  <2> HIDE DEF last
  <2>11. SubSeq(s.toc, s.expected + 1, last) # <<>>
         /\ SubSeq(s.toc, s.expected + 1, last)[1] = s.toc[s.expected + 1]
    <3> DEFINE toc == s.toc
               first == s.expected + 1
    <3>1. /\ toc \in Seq(TocEntry) /\ Len(toc) \in Nat
          /\ first \in 1..Len(toc) /\ last \in first..Len(toc)
      BY <2>10
    <3> HIDE DEF toc, first
    <3>2. SubSeq(toc, first, last) \in Seq(TocEntry)
      BY <3>1
    <3>3. Len(SubSeq(toc, first, last)) = last - first + 1
      BY <3>1
    <3>4. SubSeq(toc, first, last)[1] = toc[first]
      BY <3>1
    <3> QED BY <3>1, <3>2, <3>3, <3>4 DEF toc, first
  <2> QED BY <2>4, <2>7, <2>8, <2>9, <2>11 DEF last
<1> QED BY <1>1, Inductive, PTL DEF OpeningWasAnnounced, Spec

\* What is printed is every published block in reading order, then the notes
\* (_merge_continuations, build_publication_document).
THEOREM PublishedInOrder == Spec => []PublicationKeepsOrder
<1>1. IInv => PublicationKeepsOrder
  BY Types, PublicationOrder DEF PublicationKeepsOrder
<1> QED BY <1>1, Inductive, PTL

\* The parts of a merged block are on consecutive pages and continue one another
\* (_merge_continuations).
THEOREM MergedBlocksContinue == Spec => []MergesAreParagraphs
<1>1. IInv => MergesAreParagraphs
  <2> SUFFICES ASSUME IInv, ~ PublicationFails(accepted),
                      NEW k \in DOMAIN Merged(accepted).out,
                      NEW i \in 2..Len(Merged(accepted).out[k])
               PROVE  LET out == Merged(accepted).out
                      IN  /\ out[k][i][1] = out[k][i-1][1] + 1
                          /\ BlockAt(accepted, out[k][i-1]).next
                          /\ BlockAt(accepted, out[k][i]).previous
    BY DEF MergesAreParagraphs
  <2> DEFINE out == Merged(accepted).out
             V == Seq(PlacesIn(accepted))
  <2>1. out \in Seq(V) /\ \A l \in 1..Len(out) : Joined(accepted, out[l])
    BY Types, MergedIs DEF PublicationFails
  <2> HIDE DEF out, V
  <2>2. k \in 1..Len(out) /\ i \in 2..Len(out[k])
    BY <2>1 DEF out
  <2>3. Joined(accepted, out[k])
    BY <2>1, <2>2
  <2> QED BY <2>2, <2>3 DEF Joined, out
<1> QED BY <1>1, Inductive, PTL

\* Notes are numbered in the order they are printed, each once (the label map of
\* build_publication_document).
THEOREM NotesHaveTheirNumber == Spec => []NotesNumberedOnce
<1>1. IInv => NotesNumberedOnce
  <2> SUFFICES ASSUME IInv, ~ PublicationFails(accepted), NEW k \in DOMAIN NotePlaces(accepted)
               PROVE  NoteNumbers(accepted)[NoteKey(accepted, NotePlaces(accepted)[k])] = k
    BY DEF NotesNumberedOnce, NoteKey
  <2>1. accepted \in Seq(Interpretation) /\ ~ LabelsTwice(accepted)
    BY Types DEF PublicationFails
  <2>2. k \in 1..Len(NotePlaces(accepted))
    BY <2>1, NotePlacesType
  <2> QED BY <2>1, <2>2, NotesNumbered
<1> QED BY <1>1, Inductive, PTL

\* Validated pages fail to publish only by what validation does not look at
\* (validate_page_structure against build_publication_document).
THEOREM ValidatedPagesPublish == Spec => []FailsOnlyUnchecked
<1>1. IInv => FailsOnlyUnchecked
  <2> SUFFICES ASSUME IInv, RequireNotes, PublicationFails(accepted)
               PROVE  \/ \E x \in ToSet(Places(accepted)) : UncheckedAt(accepted, x)
                      \/ SplitParagraph(accepted)
    BY DEF FailsOnlyUnchecked, UncheckedAt, SplitParagraph
  <2>1. accepted \in Seq(Interpretation) /\ SoundPages(accepted)
    BY Types DEF IInv, BookInv
  <2> QED BY <2>1, FailsOnly, PlacesToSet
<1> QED BY <1>1, Inductive, PTL

=============================================================================
