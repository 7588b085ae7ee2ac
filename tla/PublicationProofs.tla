------------------------- MODULE PublicationProofs -------------------------
(***************************************************************************)
(* What a publication is made of, for every sequence of pages: merging     *)
(* keeps the blocks and their order, merges paragraphs of consecutive      *)
(* pages only, and every note has a number of its own.                     *)
(***************************************************************************)
EXTENDS Publication, PageRulesProofs, FiniteSetTheorems

-----------------------------------------------------------------------------
(* Places.                                                                 *)

\* The places of a book.
PlacesIn(pages) ==
  {x \in Nat \X Nat : x[1] \in 1..Len(pages) /\ x[2] \in 1..Len(pages[x[1]].blocks)}

LEMMA BlockAtType ==
  ASSUME NEW pages \in Seq(Interpretation), NEW x \in PlacesIn(pages)
  PROVE  BlockAt(pages, x) \in SourceBlock
<1>1. x[1] \in 1..Len(pages) /\ x[2] \in 1..Len(pages[x[1]].blocks)
  BY DEF PlacesIn
<1>2. pages[x[1]] \in Interpretation
  BY <1>1
<1>3. pages[x[1]].blocks \in Seq(SourceBlock)
  BY <1>2 DEF Interpretation
<1> QED BY <1>1, <1>3 DEF BlockAt

PageOfPlaces(pages, n) == [i \in DOMAIN pages[n].blocks |-> <<n, i>>]

LEMMA PlacesByPage ==
  ASSUME NEW pages \in Seq(Interpretation)
  PROVE  [n \in DOMAIN pages |-> PageOfPlaces(pages, n)] \in Seq(Seq(PlacesIn(pages)))
<1> DEFINE V == Seq(PlacesIn(pages))
<1>1. ASSUME NEW n \in 1..Len(pages) PROVE PageOfPlaces(pages, n) \in V
  <2> DEFINE bs == pages[n].blocks
  <2>1. bs \in Seq(SourceBlock)
    <3>1. pages[n] \in Interpretation
      OBVIOUS
    <3> QED BY <3>1 DEF Interpretation
  <2>2. Len(bs) \in Nat /\ DOMAIN bs = 1..Len(bs)
    <3> HIDE DEF bs
    <3> QED BY <2>1
  <2>3. \A i \in 1..Len(bs) : <<n, i>> \in PlacesIn(pages)
    BY <2>2 DEF PlacesIn
  <2> DEFINE P == PlacesIn(pages)
  <2>4. PageOfPlaces(pages, n) = [i \in 1..Len(bs) |-> <<n, i>>]
    BY <2>2 DEF PageOfPlaces
  <2> HIDE DEF bs, P
  <2>5. [i \in 1..Len(bs) |-> <<n, i>>] \in Seq(P)
    BY <2>2, <2>3 DEF P
  <2> QED BY <2>4, <2>5 DEF P
<1>2. Len(pages) \in Nat /\ DOMAIN pages = 1..Len(pages)
  OBVIOUS
<1> HIDE DEF V
<1>3. [n \in DOMAIN pages |-> PageOfPlaces(pages, n)] \in Seq(V)
  BY <1>1, <1>2
<1> QED BY <1>3 DEF V

LEMMA PlacesType ==
  ASSUME NEW pages \in Seq(Interpretation)
  PROVE  Places(pages) \in Seq(PlacesIn(pages))
<1>1. Places(pages) = FlattenSeq([n \in DOMAIN pages |-> PageOfPlaces(pages, n)])
  BY DEF Places, PageOfPlaces
<1> QED BY <1>1, PlacesByPage, FlattenType

LEMMA RawBlocksType ==
  ASSUME NEW pages \in Seq(Interpretation)
  PROVE  RawBlocks(pages) \in Seq(PlacesIn(pages))
BY PlacesType, ChosenType DEF RawBlocks

LEMMA NotePlacesType ==
  ASSUME NEW pages \in Seq(Interpretation)
  PROVE  NotePlaces(pages) \in Seq(PlacesIn(pages))
BY PlacesType, ChosenType DEF NotePlaces

-----------------------------------------------------------------------------
(* Merging.                                                                *)

MergeState(P) == [fails : BOOLEAN, out : Seq(Seq(P)), open : Nat, page : Nat,
                  between : BOOLEAN]

LEMMA MergeStepType ==
  ASSUME NEW pages \in Seq(Interpretation), NEW x \in PlacesIn(pages),
         NEW m \in MergeState(PlacesIn(pages))
  PROVE  MergeStep(pages, m, x) \in MergeState(PlacesIn(pages))
<1> DEFINE P == PlacesIn(pages)
           V == Seq(P)
           b == BlockAt(pages, x)
<1>1. b \in SourceBlock
  BY BlockAtType
<1>2. b.next \in BOOLEAN /\ b.previous \in BOOLEAN
  BY <1>1 DEF SourceBlock
<1>3. x[1] \in Nat /\ <<x>> \in V /\ \A v \in V : Append(v, x) \in V
  BY DEF PlacesIn
<1>4. /\ m.fails \in BOOLEAN /\ m.out \in Seq(V) /\ m.open \in Nat /\ m.page \in Nat
      /\ m.between \in BOOLEAN
  BY DEF MergeState
<1> HIDE DEF V, b
<1>5. Append(m.out, <<x>>) \in Seq(V) /\ Len(m.out) + 1 \in Nat
  BY <1>3, <1>4
<1>6. [m.out EXCEPT ![m.open] = Append(@, x)] \in Seq(V)
  <2>1. CASE m.open \in 1..Len(m.out)
    <3>1. m.out[m.open] \in V
      BY <1>4, <2>1
    <3>2. Append(m.out[m.open], x) \in V
      BY <1>3, <3>1
    <3> QED BY <1>4, <2>1, <3>2
  <2>2. CASE m.open \notin 1..Len(m.out)
    <3>1. [m.out EXCEPT ![m.open] = Append(@, x)] = m.out
      BY <1>4, <2>2
    <3> QED BY <1>4, <3>1
  <2> QED BY <2>1, <2>2
<1>7. AppendBlock(m, x, b) \in MergeState(P)
  <2> DEFINE out == Append(m.out, <<x>>)
             open == IF b.next THEN Len(m.out) + 1 ELSE m.open
             page == IF b.next THEN x[1] ELSE m.page
             between == ~ b.next /\ m.open # 0
  <2>1. out \in Seq(V) /\ open \in Nat /\ page \in Nat /\ between \in BOOLEAN
    BY <1>2, <1>3, <1>4, <1>5
  <2>2. AppendBlock(m, x, b)
          = [m EXCEPT !.out = out, !.open = open, !.page = page, !.between = between]
    BY DEF AppendBlock, MergeState
  <2> HIDE DEF P, out, open, page, between
  <2> QED BY <1>4, <2>1, <2>2 DEF MergeState, V
<1>8. ContinueBlock(m, x, b) \in MergeState(P)
  <2> DEFINE joined == [m.out EXCEPT ![m.open] = Append(@, x)]
  <2>1. CASE m.open = 0 \/ m.between \/ x[1] # m.page + 1
    BY <2>1 DEF ContinueBlock, MergeState
  <2>2. CASE ~ (m.open = 0 \/ m.between \/ x[1] # m.page + 1)
    <3>1. ContinueBlock(m, x, b)
            = [fails |-> m.fails, out |-> joined,
               open |-> IF b.next THEN m.open ELSE 0,
               page |-> IF b.next THEN x[1] ELSE 0, between |-> m.between]
      BY <2>2 DEF ContinueBlock, MergeState
    <3> HIDE DEF joined, P
    <3> QED BY <1>2, <1>3, <1>4, <1>6, <3>1 DEF MergeState, V, joined
  <2> QED BY <2>1, <2>2
<1> QED BY <1>7, <1>8 DEF MergeStep, b

MergedStep(pages) ==
  [n \in 1..Len(RawBlocks(pages)) |->
     [m \in MergeState(PlacesIn(pages)) |-> MergeStep(pages, m, RawBlocks(pages)[n])]]

LEMMA MergedSolves ==
  ASSUME NEW pages \in Seq(Interpretation)
  PROVE  \E f : /\ Solves(f, MergeState(PlacesIn(pages)), Len(RawBlocks(pages)),
                          MergeStart, MergedStep(pages))
                /\ Merged(pages) = f[Len(RawBlocks(pages))]
<1> DEFINE raw == RawBlocks(pages)
           L == Len(raw)
           V == MergeState(PlacesIn(pages))
           step == MergedStep(pages)
           E(g, n) == IF n = 0 THEN MergeStart ELSE MergeStep(pages, g[n-1], raw[n])
           F == CHOOSE g : g = [n \in 0..L |-> E(g, n)]
<1>0. raw \in Seq(PlacesIn(pages))
  BY RawBlocksType
<1>1. Merged(pages) = F[L]
  BY DEF Merged
<1>2. \A n \in 1..L : \A m \in V : step[n][m] = MergeStep(pages, m, raw[n])
  BY DEF MergedStep
<1>3. step = [n \in 1..L |-> [m \in V |-> MergeStep(pages, m, raw[n])]]
  BY DEF MergedStep
<1> HIDE DEF raw, step
<1>4. L \in Nat /\ \A n \in 1..L : raw[n] \in PlacesIn(pages)
  BY <1>0
<1>5. MergeStart \in V
  <2> DEFINE P == PlacesIn(pages)
             W == Seq(P)
  <2>1. <<>> \in Seq(W)
    OBVIOUS
  <2> HIDE DEF W
  <2> QED BY <2>1 DEF MergeStart, MergeState, W
<1>6. step \in StepsIn(V, L)
  <2>1. \A n \in 1..L : \A m \in V : MergeStep(pages, m, raw[n]) \in V
    BY <1>4, MergeStepType
  <2> HIDE DEF V, L
  <2> QED BY <1>3, <2>1 DEF StepsIn
<1> HIDE DEF V, L
<1>7. PICK f : Solves(f, V, L, MergeStart, step)
  BY <1>4, <1>5, <1>6, RecursionExists
<1>8. ASSUME NEW n \in 0..L PROVE f[n] = E(f, n)
  <2>1. CASE n = 0
    BY <2>1, <1>7 DEF Solves
  <2>2. CASE n # 0
    <3>1. n \in 1..L /\ n - 1 \in 0..L
      BY <2>2, <1>4
    <3>2. f[n-1] \in V /\ f[n] = step[n][f[n-1]]
      BY <3>1, <1>7 DEF Solves
    <3> QED BY <2>2, <3>1, <3>2, <1>2
  <2> QED BY <2>1, <2>2
<1>9. f = [n \in 0..L |-> E(f, n)]
  BY <1>7, <1>8 DEF Solves
<1>10. F = [n \in 0..L |-> E(F, n)]
  BY <1>9
<1> HIDE DEF F
<1>11. Follows(F, V, L, MergeStart, step)
  <2>1. F[0] = MergeStart
    BY <1>4, <1>10
  <2>2. ASSUME NEW n \in 1..L, F[n-1] \in V PROVE F[n] = step[n][F[n-1]]
    <3>1. n \in 0..L /\ n # 0
      BY <1>4
    <3>2. F[n] = E(F, n)
      BY <1>10, <3>1
    <3> QED BY <3>1, <3>2, <1>2, <2>2
  <2> QED BY <2>1, <2>2 DEF Follows
<1>12. \A n \in 0..L : F[n] = f[n]
  BY <1>4, <1>7, <1>11, SolutionIs
<1>13. Merged(pages) = f[L]
  BY <1>1, <1>4, <1>12
<1> QED BY <1>7, <1>13 DEF V, L, raw, step

\* The parts of a block of the output are consecutive and continue one another.
Joined(pages, parts) ==
  \A i \in 2..Len(parts) :
    /\ parts[i][1] = parts[i-1][1] + 1
    /\ BlockAt(pages, parts[i-1]).next /\ BlockAt(pages, parts[i]).previous

\* After n blocks the output is made of these, in order. The block that waits for
\* its continuation ends in a part that is left open, and is the last one unless
\* something came between.
MergeInv(pages, m, n) ==
  ~ m.fails =>
    /\ FlattenSeq(m.out) = SubSeq(RawBlocks(pages), 1, n)
    /\ \A k \in 1..Len(m.out) : Joined(pages, m.out[k])
    /\ m.open # 0 =>
         /\ m.open \in 1..Len(m.out)
         /\ ~ m.between => m.open = Len(m.out)
         /\ m.out[m.open] # <<>> /\ LastOf(m.out[m.open])[1] = m.page
         /\ BlockAt(pages, LastOf(m.out[m.open])).next

LEMMA AppendEffect ==
  ASSUME NEW P, NEW m \in MergeState(P), NEW x, NEW b
  PROVE  LET r == AppendBlock(m, x, b)
         IN  /\ r.fails = m.fails /\ r.out = Append(m.out, <<x>>)
             /\ r.open = IF b.next THEN Len(m.out) + 1 ELSE m.open
             /\ r.page = IF b.next THEN x[1] ELSE m.page
             /\ r.between <=> ~ b.next /\ m.open # 0
BY DEF AppendBlock, MergeState

\* What a continuation that does not fail finds, and what it leaves.
Continues(m, x, b, r) ==
  /\ m.open # 0 /\ ~ m.between /\ x[1] = m.page + 1
  /\ r.out = [m.out EXCEPT ![m.open] = Append(@, x)]
  /\ r.open = IF b.next THEN m.open ELSE 0
  /\ r.page = IF b.next THEN x[1] ELSE 0

LEMMA ContinueEffect ==
  ASSUME NEW P, NEW m \in MergeState(P), NEW x, NEW b, ~ ContinueBlock(m, x, b).fails
  PROVE  Continues(m, x, b, ContinueBlock(m, x, b))
BY DEF ContinueBlock, MergeState, Continues

LEMMA RawPrefix ==
  ASSUME NEW pages \in Seq(Interpretation), NEW n \in 1..Len(RawBlocks(pages))
  PROVE  /\ SubSeq(RawBlocks(pages), 1, n) = SubSeq(RawBlocks(pages), 1, n-1) \o <<RawBlocks(pages)[n]>>
         /\ SubSeq(RawBlocks(pages), 1, n-1) \in Seq(PlacesIn(pages))
         /\ RawBlocks(pages)[n] \in PlacesIn(pages)
<1> DEFINE raw == RawBlocks(pages)
           P == PlacesIn(pages)
<1>1. raw \in Seq(P)
  BY RawBlocksType
<1> HIDE DEF raw, P
<1>2. Len(raw) \in Nat /\ n \in 1..Len(raw) /\ 1 \in 1..Len(raw) /\ raw[n] \in P
  BY <1>1 DEF raw
<1>3. SubSeq(raw, 1, n) = SubSeq(raw, 1, n-1) \o <<raw[n]>>
  BY <1>1, <1>2, SubSeqRecursiveSecond
<1>4. SubSeq(raw, 1, n-1) \in Seq(P)
  BY <1>1, <1>2
<1> QED BY <1>2, <1>3, <1>4 DEF raw, P

LEMMA AppendMergeInv ==
  ASSUME NEW pages \in Seq(Interpretation), NEW n \in 1..Len(RawBlocks(pages)),
         NEW m \in MergeState(PlacesIn(pages)), MergeInv(pages, m, n-1),
         NEW x, x = RawBlocks(pages)[n]
  PROVE  MergeInv(pages, AppendBlock(m, x, BlockAt(pages, x)), n)
<1> DEFINE P == PlacesIn(pages)
           V == Seq(P)
           b == BlockAt(pages, x)
           r == AppendBlock(m, x, b)
           before == SubSeq(RawBlocks(pages), 1, n-1)
<1>1. /\ SubSeq(RawBlocks(pages), 1, n) = before \o <<x>>
      /\ before \in Seq(P) /\ x \in P
  BY RawPrefix
<1>2. /\ r.fails = m.fails /\ r.out = Append(m.out, <<x>>)
      /\ r.open = IF b.next THEN Len(m.out) + 1 ELSE m.open
      /\ r.page = IF b.next THEN x[1] ELSE m.page
      /\ r.between <=> ~ b.next /\ m.open # 0
  BY AppendEffect
<1>3. m.out \in Seq(V) /\ <<x>> \in V /\ m.open \in Nat
  BY <1>1 DEF MergeState
<1>4. SUFFICES ASSUME ~ m.fails
               PROVE  /\ FlattenSeq(r.out) = before \o <<x>>
                      /\ \A k \in 1..Len(r.out) : Joined(pages, r.out[k])
                      /\ r.open # 0 =>
                           /\ r.open \in 1..Len(r.out)
                           /\ ~ r.between => r.open = Len(r.out)
                           /\ r.out[r.open] # <<>> /\ LastOf(r.out[r.open])[1] = r.page
                           /\ BlockAt(pages, LastOf(r.out[r.open])).next
  BY <1>1, <1>2 DEF MergeInv
<1>5. /\ FlattenSeq(m.out) = before
      /\ \A k \in 1..Len(m.out) : Joined(pages, m.out[k])
      /\ m.open # 0 =>
           /\ m.open \in 1..Len(m.out)
           /\ m.out[m.open] # <<>> /\ LastOf(m.out[m.open])[1] = m.page
           /\ BlockAt(pages, LastOf(m.out[m.open])).next
  BY <1>4 DEF MergeInv
<1>6. FlattenSeq(r.out) = before \o <<x>>
  BY <1>2, <1>3, <1>5, FlattenAppend DEF V
<1>7. <<x>> # <<>> /\ Len(<<x>>) = 1 /\ LastOf(<<x>>) = x
  BY DEF LastOf
<1>8. Joined(pages, <<x>>)
  BY <1>7 DEF Joined
<1> DEFINE single == <<x>>
<1> HIDE DEF V, r, b, before, single
<1>9. /\ Len(r.out) = Len(m.out) + 1 /\ Len(m.out) \in Nat /\ r.out[Len(m.out) + 1] = single
      /\ \A k \in 1..Len(m.out) : r.out[k] = m.out[k]
  BY <1>2, <1>3 DEF single
<1>10. \A k \in 1..Len(r.out) : Joined(pages, r.out[k])
  <2> SUFFICES ASSUME NEW k \in 1..Len(r.out) PROVE Joined(pages, r.out[k])
    OBVIOUS
  <2>1. CASE k = Len(m.out) + 1
    BY <1>8, <1>9, <2>1 DEF single
  <2>2. CASE k \in 1..Len(m.out)
    BY <1>5, <1>9, <2>2
  <2> QED BY <1>9, <2>1, <2>2
<1>11. CASE b.next
  <2>1. r.open = Len(m.out) + 1 /\ r.page = x[1]
    BY <1>2, <1>11
  <2>2. r.out[r.open] = single
    BY <1>9, <2>1
  <2>3. single # <<>> /\ LastOf(single) = x
    BY <1>7 DEF single
  <2> QED BY <1>6, <1>9, <1>10, <1>11, <2>1, <2>2, <2>3 DEF b
<1>12. CASE ~ b.next
  <2>1. r.open = m.open /\ r.page = m.page /\ (r.open # 0 => r.between)
    BY <1>2, <1>12
  <2>2. r.open # 0 => r.open \in 1..Len(m.out) /\ r.out[r.open] = m.out[m.open]
    BY <1>5, <1>9, <2>1
  <2> QED BY <1>5, <1>6, <1>9, <1>10, <2>1, <2>2
<1> QED BY <1>11, <1>12

LEMMA ContinueMergeInv ==
  ASSUME NEW pages \in Seq(Interpretation), NEW n \in 1..Len(RawBlocks(pages)),
         NEW m \in MergeState(PlacesIn(pages)), MergeInv(pages, m, n-1),
         NEW x, x = RawBlocks(pages)[n], BlockAt(pages, x).previous, ~ m.fails
  PROVE  MergeInv(pages, ContinueBlock(m, x, BlockAt(pages, x)), n)
<1> DEFINE P == PlacesIn(pages)
           V == Seq(P)
           b == BlockAt(pages, x)
           r == ContinueBlock(m, x, b)
           before == SubSeq(RawBlocks(pages), 1, n-1)
<1>1. /\ SubSeq(RawBlocks(pages), 1, n) = before \o <<x>>
      /\ before \in Seq(P) /\ x \in P
  BY RawPrefix
<1>2. SUFFICES ASSUME ~ r.fails
               PROVE  /\ FlattenSeq(r.out) = before \o <<x>>
                      /\ \A k \in 1..Len(r.out) : Joined(pages, r.out[k])
                      /\ r.open # 0 =>
                           /\ r.open \in 1..Len(r.out)
                           /\ ~ r.between => r.open = Len(r.out)
                           /\ r.out[r.open] # <<>> /\ LastOf(r.out[r.open])[1] = r.page
                           /\ BlockAt(pages, LastOf(r.out[r.open])).next
  BY <1>1 DEF MergeInv
<1>3. /\ m.open # 0 /\ ~ m.between /\ x[1] = m.page + 1
      /\ r.out = [m.out EXCEPT ![m.open] = Append(@, x)]
      /\ r.open = IF b.next THEN m.open ELSE 0
      /\ r.page = IF b.next THEN x[1] ELSE 0
  <2>1. Continues(m, x, b, r)
    BY <1>2, ContinueEffect
  <2> HIDE DEF r, b
  <2> QED BY <2>1 DEF Continues
<1>4. m.out \in Seq(V) /\ m.open \in Nat /\ b.previous
  BY DEF MergeState
<1>5. /\ FlattenSeq(m.out) = before
      /\ \A k \in 1..Len(m.out) : Joined(pages, m.out[k])
      /\ m.open \in 1..Len(m.out) /\ m.open = Len(m.out)
      /\ m.out[m.open] # <<>> /\ LastOf(m.out[m.open])[1] = m.page
      /\ BlockAt(pages, LastOf(m.out[m.open])).next
  BY <1>3 DEF MergeInv
<1>6. FlattenSeq(r.out) = before \o <<x>>
  <2>1. m.out \in Seq(Seq(P)) /\ m.out # <<>>
    BY <1>4, <1>5
  <2>2. FlattenSeq([m.out EXCEPT ![Len(m.out)] = Append(@, x)]) = Append(FlattenSeq(m.out), x)
    BY <1>1, <2>1, FlattenExtendLast
  <2>3. Append(before, x) = before \o <<x>>
    BY <1>1, AppendIsConcat
  <2>4. r.out = [m.out EXCEPT ![Len(m.out)] = Append(@, x)]
    BY <1>3, <1>5
  <2> HIDE DEF r
  <2> QED BY <1>5, <2>2, <2>3, <2>4
<1> DEFINE q == m.out[m.open]
           longer == Append(q, x)
<1>7. q \in Seq(P) /\ q # <<>>
  <2> HIDE DEF V
  <2>1. q \in V
    BY <1>4, <1>5
  <2> QED BY <1>5, <2>1 DEF V
<1> HIDE DEF V, r, b, before, q, P
<1>8. /\ Len(q) \in Nat \ {0} /\ Len(longer) = Len(q) + 1 /\ longer[Len(q) + 1] = x
      /\ longer # <<>> /\ \A i \in 1..Len(q) : longer[i] = q[i]
  <2>1. q \in Seq(P) /\ x \in P /\ q # <<>>
    BY <1>1, <1>7
  <2>2. Len(q) \in Nat \ {0}
    BY <2>1, EmptySeq
  <2>3. Len(longer) = Len(q) + 1 /\ longer[Len(q) + 1] = x
    BY <2>1, AppendProperties
  <2>4. \A i \in 1..Len(q) : longer[i] = q[i]
    BY <2>1, AppendProperties
  <2>5. longer # <<>>
    BY <2>1, AppendProperties
  <2> QED BY <2>2, <2>3, <2>4, <2>5
<1>9. /\ Len(r.out) = Len(m.out) /\ Len(m.out) \in Nat /\ r.out[m.open] = longer
      /\ \A k \in 1..Len(m.out) : k # m.open => r.out[k] = m.out[k]
  BY <1>3, <1>4, <1>5 DEF q
<1> HIDE DEF longer
<1>10. Joined(pages, longer)
  <2>1. Joined(pages, q) /\ LastOf(q)[1] = m.page /\ BlockAt(pages, LastOf(q)).next
    BY <1>5 DEF q
  <2>2. SUFFICES ASSUME NEW i \in 2..Len(longer)
                 PROVE  /\ longer[i][1] = longer[i-1][1] + 1
                        /\ BlockAt(pages, longer[i-1]).next /\ BlockAt(pages, longer[i]).previous
    BY DEF Joined
  <2>3. CASE i = Len(q) + 1
    <3>1. longer[i] = x /\ longer[i-1] = LastOf(q)
      BY <1>8, <2>3 DEF LastOf
    <3> QED BY <1>3, <1>4, <2>1, <3>1 DEF b
  <2>4. CASE i \in 2..Len(q)
    <3>1. i \in 1..Len(q) /\ i - 1 \in 1..Len(q)
      BY <1>8, <2>4
    <3>2. longer[i] = q[i] /\ longer[i-1] = q[i-1]
      BY <1>8, <3>1
    <3> QED BY <2>1, <2>4, <3>2 DEF Joined
  <2> QED BY <1>8, <2>3, <2>4
<1>11. \A k \in 1..Len(r.out) : Joined(pages, r.out[k])
  BY <1>5, <1>9, <1>10
<1>12. r.open # 0 =>
         /\ r.open \in 1..Len(r.out)
         /\ ~ r.between => r.open = Len(r.out)
         /\ r.out[r.open] # <<>> /\ LastOf(r.out[r.open])[1] = r.page
         /\ BlockAt(pages, LastOf(r.out[r.open])).next
  <2>1. SUFFICES ASSUME r.open # 0
                 PROVE  /\ r.open \in 1..Len(r.out)
                        /\ r.open = Len(r.out)
                        /\ r.out[r.open] # <<>> /\ LastOf(r.out[r.open])[1] = r.page
                        /\ BlockAt(pages, LastOf(r.out[r.open])).next
    OBVIOUS
  <2>2. b.next /\ r.open = m.open /\ r.page = x[1]
    BY <1>3, <2>1
  <2>3. r.out[r.open] = longer /\ LastOf(longer) = x
    BY <1>8, <1>9, <2>2 DEF LastOf
  <2> QED BY <1>5, <1>8, <1>9, <2>2, <2>3 DEF b
<1> QED BY <1>6, <1>11, <1>12

LEMMA MergeStepKeeps ==
  ASSUME NEW pages \in Seq(Interpretation), NEW n \in 1..Len(RawBlocks(pages)),
         NEW m \in MergeState(PlacesIn(pages)), MergeInv(pages, m, n-1)
  PROVE  MergeInv(pages, MergeStep(pages, m, RawBlocks(pages)[n]), n)
<1> DEFINE x == RawBlocks(pages)[n]
           b == BlockAt(pages, x)
<1>1. CASE m.fails
  BY <1>1 DEF MergeStep, MergeInv
<1>2. CASE ~ m.fails /\ b.previous
  <2>1. MergeInv(pages, ContinueBlock(m, x, b), n)
    BY <1>2, ContinueMergeInv
  <2> QED BY <1>2, <2>1 DEF MergeStep
<1>3. CASE ~ m.fails /\ ~ b.previous
  <2>1. MergeInv(pages, AppendBlock(m, x, b), n)
    BY AppendMergeInv
  <2> QED BY <1>3, <2>1 DEF MergeStep
<1> QED BY <1>1, <1>2, <1>3

LEMMA MergeStartInv ==
  ASSUME NEW pages \in Seq(Interpretation)
  PROVE  MergeInv(pages, MergeStart, 0)
<1> DEFINE raw == RawBlocks(pages)
<1>1. raw \in Seq(PlacesIn(pages))
  BY RawBlocksType
<1> HIDE DEF raw
<1>2. SubSeq(raw, 1, 0) = <<>>
  BY <1>1
<1>3. FlattenSeq(<<>>) = <<>> /\ Len(<<>>) = 0
  BY FlattenEmpty
<1> DEFINE out == MergeStart.out
<1>4. out = <<>> /\ MergeStart.open = 0
  BY DEF MergeStart
<1>5. FlattenSeq(out) = SubSeq(raw, 1, 0) /\ 1..Len(out) = {}
  <2>1. 1..0 = {}
    OBVIOUS
  <2> HIDE DEF out
  <2> QED BY <1>2, <1>3, <1>4, <2>1
<1> HIDE DEF out
<1> QED BY <1>4, <1>5 DEF MergeInv, raw, out

LEMMA MergedInv ==
  ASSUME NEW pages \in Seq(Interpretation)
  PROVE  /\ Merged(pages) \in MergeState(PlacesIn(pages))
         /\ MergeInv(pages, Merged(pages), Len(RawBlocks(pages)))
<1> DEFINE raw == RawBlocks(pages)
           L == Len(raw)
           V == MergeState(PlacesIn(pages))
           step == MergedStep(pages)
<1>1. PICK f : Solves(f, V, L, MergeStart, step) /\ Merged(pages) = f[L]
  BY MergedSolves
<1>2. L \in Nat
  BY RawBlocksType, LenProperties
<1>3. \A n \in 1..L : \A m \in V : step[n][m] = MergeStep(pages, m, raw[n])
  BY DEF MergedStep
<1> DEFINE T == {n \in 0..L : MergeInv(pages, f[n], n)}
<1> HIDE DEF V, L, raw, step
<1>4. 0 \in T
  BY <1>1, <1>2, MergeStartInv DEF Solves
<1>5. ASSUME NEW n \in 1..L, n - 1 \in T PROVE n \in T
  <2>1. n - 1 \in 0..L /\ n \in 0..L
    BY <1>2
  <2>2. f[n-1] \in V /\ f[n] = step[n][f[n-1]]
    BY <1>1, <2>1 DEF Solves
  <2>3. f[n] = MergeStep(pages, f[n-1], raw[n])
    BY <1>3, <2>2
  <2>4. MergeInv(pages, f[n-1], n-1)
    BY <1>5
  <2>5. MergeInv(pages, MergeStep(pages, f[n-1], raw[n]), n)
    BY <2>2, <2>4, MergeStepKeeps DEF V, L, raw
  <2> QED BY <2>1, <2>3, <2>5
<1>6. 0..L \subseteq T
  <2> HIDE DEF T
  <2> QED BY <1>2, <1>4, <1>5, BoundedInduction
<1>7. L \in 0..L
  BY <1>2
<1>8. MergeInv(pages, f[L], L) /\ f[L] \in V
  BY <1>1, <1>6, <1>7 DEF Solves
<1> QED BY <1>1, <1>8 DEF V, L, raw

\* Merging moves and drops nothing, and joins only what continues.
LEMMA MergedIs ==
  ASSUME NEW pages \in Seq(Interpretation), ~ Merged(pages).fails
  PROVE  /\ Merged(pages).out \in Seq(Seq(PlacesIn(pages)))
         /\ FlattenSeq(Merged(pages).out) = RawBlocks(pages)
         /\ \A k \in 1..Len(Merged(pages).out) : Joined(pages, Merged(pages).out[k])
<1> DEFINE m == Merged(pages)
           raw == RawBlocks(pages)
<1>1. m \in MergeState(PlacesIn(pages)) /\ MergeInv(pages, m, Len(raw))
  BY MergedInv
<1>2. SubSeq(raw, 1, Len(raw)) = raw
  BY RawBlocksType, SubSeqFull
<1> HIDE DEF m, raw
<1>3. m.out \in Seq(Seq(PlacesIn(pages)))
  BY <1>1 DEF MergeState
<1>4. /\ FlattenSeq(m.out) = SubSeq(raw, 1, Len(raw))
      /\ \A k \in 1..Len(m.out) : Joined(pages, m.out[k])
  BY <1>1 DEF MergeInv, m, raw
<1> QED BY <1>2, <1>3, <1>4 DEF m, raw

-----------------------------------------------------------------------------
(* The publication.                                                        *)

LEMMA PublicationOrder ==
  ASSUME NEW pages \in Seq(Interpretation), ~ PublicationFails(pages)
  PROVE  FlattenSeq(PublicationBlocks(pages)) = RawBlocks(pages) \o NotePlaces(pages)
<1> DEFINE P == PlacesIn(pages)
           V == Seq(P)
           out == Merged(pages).out
           notes == NotePlaces(pages)
           singles == [i \in DOMAIN notes |-> <<notes[i]>>]
<1>1. out \in Seq(V) /\ FlattenSeq(out) = RawBlocks(pages)
  BY MergedIs DEF PublicationFails
<1>2. notes \in Seq(P)
  BY NotePlacesType
<1>3. PublicationBlocks(pages) = out \o singles
  BY DEF PublicationBlocks
<1> HIDE DEF P, out, notes
<1>4. singles \in Seq(V)
  <2>1. Len(notes) \in Nat /\ DOMAIN notes = 1..Len(notes) /\ \A i \in 1..Len(notes) : <<notes[i]>> \in V
    BY <1>2
  <2> HIDE DEF V
  <2> QED BY <2>1
<1>5. FlattenSeq(singles) = notes
  BY <1>2, FlattenSingles
<1> HIDE DEF singles
<1>6. FlattenSeq(out \o singles) = FlattenSeq(out) \o FlattenSeq(singles)
  BY <1>1, <1>4, FlattenConcat
<1> QED BY <1>1, <1>3, <1>5, <1>6 DEF notes

\* The key of a note in the label map.
NoteKey(pages, p) == <<p[1], BlockAt(pages, p).label>>

LEMMA NoteNumbersIs ==
  ASSUME NEW pages \in Seq(Interpretation)
  PROVE  LET notes == NotePlaces(pages)
         IN  /\ DOMAIN NoteNumbers(pages) = {NoteKey(pages, notes[k]) : k \in 1..Len(notes)}
             /\ \A x \in DOMAIN NoteNumbers(pages) :
                  NoteNumbers(pages)[x]
                    = CHOOSE k \in 1..Len(notes) : NoteKey(pages, notes[k]) = x
<1> DEFINE notes == NotePlaces(pages)
<1>1. notes \in Seq(PlacesIn(pages))
  BY NotePlacesType
<1> HIDE DEF notes
<1>2. DOMAIN notes = 1..Len(notes)
  BY <1>1
<1> USE DEF NoteKey
<1>3. NoteNumbers(pages)
        = [x \in {NoteKey(pages, p) : p \in ToSet(notes)} |->
             CHOOSE k \in 1..Len(notes) : NoteKey(pages, notes[k]) = x]
  BY <1>2 DEF NoteNumbers, notes
<1>4. {NoteKey(pages, p) : p \in ToSet(notes)} = {NoteKey(pages, notes[k]) : k \in 1..Len(notes)}
  BY <1>2 DEF ToSet
<1> QED BY <1>3, <1>4 DEF notes

\* When no label is given twice, the numbering is one to one.
LEMMA NotesNumbered ==
  ASSUME NEW pages \in Seq(Interpretation), ~ LabelsTwice(pages),
         NEW k \in 1..Len(NotePlaces(pages))
  PROVE  NoteNumbers(pages)[NoteKey(pages, NotePlaces(pages)[k])] = k
<1> DEFINE notes == NotePlaces(pages)
           L == Len(notes)
           S == DOMAIN NoteNumbers(pages)
           f == [i \in 1..L |-> NoteKey(pages, notes[i])]
<1>1. L \in Nat
  BY NotePlacesType, LenProperties
<1>2. /\ S = {NoteKey(pages, notes[i]) : i \in 1..L}
      /\ \A x \in S : NoteNumbers(pages)[x] = CHOOSE i \in 1..L : NoteKey(pages, notes[i]) = x
  BY NoteNumbersIs
<1>3. ~ (Cardinality(S) < L)
  BY DEF LabelsTwice
<1>4. f \in [1..L -> S] /\ \A x \in S : \E i \in 1..L : f[i] = x
  <2> HIDE DEF S
  <2> QED BY <1>2
<1> HIDE DEF L, S, notes
<1>5. f \in Surjection(1..L, S)
  BY <1>4 DEF Surjection
<1>6. IsFiniteSet(1..L) /\ Cardinality(1..L) = L
  BY <1>1, FS_Interval
<1> HIDE DEF f
<1>7. /\ IsFiniteSet(S) /\ Cardinality(S) <= L
      /\ Cardinality(S) = L <=> f \in Injection(1..L, S)
  BY <1>5, <1>6, FS_Surjection
<1>8. Cardinality(S) \in Nat
  BY <1>7, FS_CardinalityType
<1>9. f \in Injection(1..L, S)
  BY <1>1, <1>3, <1>7, <1>8
<1>10. \A i, j \in 1..L : f[i] = f[j] => i = j
  BY <1>9 DEF Injection, IsInjective
<1>11. k \in 1..L /\ f[k] \in S
  BY <1>4 DEF L, notes
<1>12. \A i \in 1..L : NoteKey(pages, notes[i]) = f[k] <=> i = k
  BY <1>10, <1>11 DEF f
<1>13. NoteNumbers(pages)[f[k]] = k
  BY <1>2, <1>11, <1>12
<1> QED BY <1>11, <1>13 DEF f, notes

-----------------------------------------------------------------------------
(* Reading order.                                                          *)

Before(x, y) ==
  \/ x[1] < y[1]
  \/ x[1] = y[1] /\ x[2] < y[2]

\* All the places of a set, each once, in reading order.
Ordered(all, P) ==
  /\ all \in Seq(P)
  /\ \A i, j \in 1..Len(all) : i < j => Before(all[i], all[j])
  /\ \A x \in P : \E i \in 1..Len(all) : all[i] = x

LEMMA PlacesAppend ==
  ASSUME NEW pages \in Seq(Interpretation), NEW page \in Interpretation
  PROVE  Places(Append(pages, page))
           = Places(pages) \o PageOfPlaces(Append(pages, page), Len(pages) + 1)
<1> DEFINE more == Append(pages, page)
           L == Len(pages)
           V == Seq(PlacesIn(more))
           before == [n \in DOMAIN pages |-> PageOfPlaces(pages, n)]
           after == [n \in DOMAIN more |-> PageOfPlaces(more, n)]
           last == PageOfPlaces(more, L + 1)
<1>1. /\ more \in Seq(Interpretation) /\ L \in Nat /\ Len(more) = L + 1
      /\ DOMAIN more = 1..L + 1 /\ DOMAIN pages = 1..L
      /\ \A n \in 1..L : more[n] = pages[n]
  OBVIOUS
<1> HIDE DEF more, L
<1>2. after \in Seq(V)
  BY <1>1, PlacesByPage
<1>3. \A n \in 1..L : PageOfPlaces(more, n) = PageOfPlaces(pages, n)
  BY <1>1 DEF PageOfPlaces
<1>4. \A n \in 1..L + 1 : PageOfPlaces(more, n) \in V
  <2> HIDE DEF V
  <2> QED BY <1>1, <1>2
<1> HIDE DEF V
<1>5. before \in Seq(V)
  <2>1. \A n \in 1..L : PageOfPlaces(pages, n) \in V
    BY <1>1, <1>3, <1>4
  <2> QED BY <1>1, <2>1
<1>6. after = Append(before, last)
  <2>1. before = [n \in 1..L |-> PageOfPlaces(more, n)] /\ last \in V
    BY <1>1, <1>3, <1>4
  <2>2. after = [n \in 1..L + 1 |-> PageOfPlaces(more, n)]
    BY <1>1
  <2>3. Len(before) = L /\ DOMAIN before = 1..L
    BY <1>1, <2>1
  <2> DEFINE Q(n) == PageOfPlaces(more, n)
  <2> HIDE DEF Q
  <2>4. [n \in 1..L + 1 |-> Q(n)] = Append([n \in 1..L |-> Q(n)], Q(L + 1))
    BY <1>1
  <2> QED BY <2>1, <2>2, <2>4 DEF Q
<1> HIDE DEF before, after, last
<1>7. FlattenSeq(after) = FlattenSeq(before) \o last
  <2>1. last \in V
    BY <1>1, <1>4 DEF last
  <2> QED BY <1>5, <1>6, <2>1, FlattenAppend DEF V
<1>8. Places(more) = FlattenSeq(after) /\ Places(pages) = FlattenSeq(before)
  BY DEF Places, PageOfPlaces, after, before
<1> QED BY <1>7, <1>8 DEF last, more, L

LEMMA PlacesOrdered ==
  ASSUME NEW pages \in Seq(Interpretation)
  PROVE  Ordered(Places(pages), PlacesIn(pages))
<1> DEFINE U == {p \in Seq(Interpretation) : Ordered(Places(p), PlacesIn(p))}
<1>1. <<>> \in U
  <2>1. <<>> \in Seq(Interpretation) /\ Len(<<>>) = 0 /\ 1..0 = {} /\ DOMAIN <<>> = {}
    OBVIOUS
  <2>2. Places(<<>>) = <<>>
    BY <2>1, FlattenEmpty DEF Places
  <2>3. PlacesIn(<<>>) = {}
    BY <2>1 DEF PlacesIn
  <2>4. Ordered(<<>>, {})
    BY <2>1 DEF Ordered
  <2> QED BY <2>1, <2>2, <2>3, <2>4
<1>2. ASSUME NEW p \in Seq(Interpretation), NEW page \in Interpretation, p \in U
      PROVE  Append(p, page) \in U
  <2> DEFINE more == Append(p, page)
             L == Len(p)
             P == PlacesIn(p)
             Q == PlacesIn(more)
             bs == page.blocks
             old == Places(p)
             new == PageOfPlaces(more, L + 1)
             all == old \o new
  <2>1. /\ more \in Seq(Interpretation) /\ L \in Nat /\ Len(more) = L + 1
        /\ \A n \in 1..L : more[n] = p[n]
        /\ more[L + 1] = page
    OBVIOUS
  <2>2. Places(more) = all
    BY PlacesAppend
  <2>3. /\ old \in Seq(P)
        /\ \A i, j \in 1..Len(old) : i < j => Before(old[i], old[j])
        /\ \A x \in P : \E i \in 1..Len(old) : old[i] = x
    BY <1>2 DEF Ordered
  <2>4. bs \in Seq(SourceBlock)
    BY DEF Interpretation
  <2> HIDE DEF bs
  <2>5. Len(bs) \in Nat /\ DOMAIN bs = 1..Len(bs)
    BY <2>4
  <2>6. new = [i \in 1..Len(bs) |-> <<L + 1, i>>]
    BY <2>1, <2>5 DEF PageOfPlaces, bs
  <2> HIDE DEF more, L, old, new
  <2>7. Len(new) = Len(bs) /\ \A i \in 1..Len(bs) : new[i] = <<L + 1, i>>
    BY <2>5, <2>6
  <2>8. \A x \in P : x \in Q /\ x[1] \in 1..L
    BY <2>1 DEF PlacesIn, L
  <2>9. \A x \in Q : x \in P \/ \E i \in 1..Len(bs) : x = <<L + 1, i>>
    <3> SUFFICES ASSUME NEW x \in Q PROVE x \in P \/ \E i \in 1..Len(bs) : x = <<L + 1, i>>
      OBVIOUS
    <3>1. x \in Nat \X Nat /\ x[1] \in 1..L + 1 /\ x[2] \in 1..Len(more[x[1]].blocks)
      BY <2>1 DEF PlacesIn
    <3>2. CASE x[1] \in 1..L
      BY <2>1, <3>1, <3>2 DEF PlacesIn, L
    <3>3. CASE x[1] = L + 1
      <4>1. x = <<L + 1, x[2]>> /\ x[2] \in 1..Len(bs)
        BY <2>1, <3>1, <3>3 DEF bs
      <4> QED BY <4>1
    <3> QED BY <2>1, <3>1, <3>2, <3>3
  <2>10. \A i \in 1..Len(bs) : <<L + 1, i>> \in Q
    BY <2>1, <2>5 DEF PlacesIn, bs
  <2> HIDE DEF P, Q
  <2>11. old \in Seq(Q) /\ new \in Seq(Q)
    <3>1. Len(old) \in Nat /\ \A i \in 1..Len(old) : old[i] \in Q
      BY <2>3, <2>8
    <3>2. old \in [1..Len(old) -> Q]
      BY <2>3, <3>1
    <3>3. [i \in 1..Len(bs) |-> <<L + 1, i>>] \in [1..Len(bs) -> Q]
      BY <2>10
    <3> QED BY <2>5, <2>6, <3>1, <3>2, <3>3
  <2>12. /\ all \in Seq(Q) /\ Len(all) = Len(old) + Len(bs) /\ Len(old) \in Nat
         /\ \A i \in 1..Len(old) : all[i] = old[i] /\ old[i] \in P
         /\ \A i \in 1..Len(bs) : all[Len(old) + i] = <<L + 1, i>>
    <3>1. all \in Seq(Q) /\ Len(all) = Len(old) + Len(new) /\ Len(old) \in Nat
      BY <2>11, LenProperties, ConcatProperties
    <3>2. \A i \in 1..Len(old) + Len(new) :
            all[i] = IF i <= Len(old) THEN old[i] ELSE new[i - Len(old)]
      BY <2>11, ConcatProperties
    <3> HIDE DEF all
    <3>3. \A i \in 1..Len(old) : all[i] = old[i] /\ old[i] \in P
      <4>1. \A i \in 1..Len(old) : old[i] \in P
        BY <2>3
      <4>2. \A i \in 1..Len(old) : i \in 1..Len(old) + Len(new) /\ i <= Len(old)
        BY <2>5, <2>7, <3>1
      <4> QED BY <3>2, <4>1, <4>2
    <3>4. ASSUME NEW i \in 1..Len(bs) PROVE all[Len(old) + i] = <<L + 1, i>>
      <4>1. /\ Len(old) + i \in 1..Len(old) + Len(new) /\ ~ (Len(old) + i <= Len(old))
            /\ (Len(old) + i) - Len(old) = i
        BY <2>5, <2>7, <3>1
      <4> QED BY <2>7, <3>2, <4>1
    <3> QED BY <2>7, <3>1, <3>3, <3>4
  <2> HIDE DEF all
  <2>13. ASSUME NEW i \in 1..Len(all), NEW j \in 1..Len(all), i < j
         PROVE  Before(all[i], all[j])
    <3>1. CASE j \in 1..Len(old)
      <4>1. i \in 1..Len(old)
        BY <2>12, <2>13, <3>1
      <4> QED BY <2>3, <2>12, <2>13, <3>1, <4>1
    <3>2. CASE i \in 1..Len(old) /\ j \notin 1..Len(old)
      <4>1. all[i][1] \in 1..L
        BY <2>8, <2>12, <3>2
      <4>2. j - Len(old) \in 1..Len(bs) /\ j = Len(old) + (j - Len(old))
        BY <2>5, <2>12, <3>2
      <4>3. all[j] = <<L + 1, j - Len(old)>>
        BY <2>12, <4>2
      <4>4. all[j][1] = L + 1
        BY <4>3
      <4>5. \A n \in 1..L : n < L + 1
        BY <2>1
      <4>6. all[i][1] < all[j][1]
        BY <4>1, <4>4, <4>5
      <4> QED BY <4>6 DEF Before
    <3>3. CASE i \notin 1..Len(old) /\ j \notin 1..Len(old)
      <4>1. /\ i - Len(old) \in 1..Len(bs) /\ i = Len(old) + (i - Len(old))
            /\ j - Len(old) \in 1..Len(bs) /\ j = Len(old) + (j - Len(old))
        BY <2>5, <2>12, <3>3
      <4>2. all[i] = <<L + 1, i - Len(old)>> /\ all[j] = <<L + 1, j - Len(old)>>
        BY <2>12, <4>1
      <4>3. all[i][1] = L + 1 /\ all[j][1] = L + 1
        BY <4>2
      <4>4. all[i][2] = i - Len(old) /\ all[j][2] = j - Len(old)
        BY <4>2
      <4>5. i - Len(old) < j - Len(old)
        BY <2>12, <2>13
      <4> QED BY <4>3, <4>4, <4>5 DEF Before
    <3> QED BY <2>12, <2>13, <3>1, <3>2, <3>3
  <2>14. ASSUME NEW x \in Q PROVE \E i \in 1..Len(all) : all[i] = x
    <3>1. CASE x \in P
      <4>1. PICK i \in 1..Len(old) : old[i] = x
        BY <2>3, <3>1
      <4>2. i \in 1..Len(all) /\ all[i] = x
        BY <2>5, <2>12, <4>1
      <4> QED BY <4>2
    <3>2. CASE x \notin P
      <4>1. PICK i \in 1..Len(bs) : x = <<L + 1, i>>
        BY <2>9, <3>2
      <4>2. Len(old) + i \in 1..Len(all) /\ all[Len(old) + i] = x
        BY <2>5, <2>12, <4>1
      <4> QED BY <4>2
    <3> QED BY <3>1, <3>2
  <2>15. Ordered(all, Q)
    BY <2>12, <2>13, <2>14 DEF Ordered
  <2> QED BY <2>1, <2>2, <2>15 DEF Q, more
<1>3. Seq(Interpretation) \subseteq U
  <2> HIDE DEF U
  <2> QED BY <1>1, <1>2, SeqInduction
<1> QED BY <1>3

\* What is chosen from the places P: those in T, each once, in reading order.
PlacesChosen(r, P, T) ==
  /\ r \in Seq(P) /\ \A k \in 1..Len(r) : r[k] \in T
  /\ \A k, l \in 1..Len(r) : k < l => Before(r[k], r[l])
  /\ \A x \in P \cap T : \E k \in 1..Len(r) : r[k] = x

LEMMA ChosenPlaces ==
  ASSUME NEW P, NEW all, Ordered(all, P), NEW T
  PROVE  PlacesChosen(Chosen(all, T), P, T)
<1> DEFINE r == Chosen(all, T)
<1>1. all \in Seq(P)
  BY DEF Ordered
<1>2. r \in Seq(P)
  BY <1>1, ChosenType
<1>3. PICK g : Picks(g, all, r, T)
  BY <1>1, ChosenPicks
<1> HIDE DEF r
<1>4. \A k \in 1..Len(r) : g[k] \in 1..Len(all) /\ r[k] = all[g[k]] /\ r[k] \in T
  BY <1>3 DEF Picks
<1>5. \A k, l \in 1..Len(r) : k < l => Before(r[k], r[l])
  <2> SUFFICES ASSUME NEW k \in 1..Len(r), NEW l \in 1..Len(r), k < l
               PROVE  Before(r[k], r[l])
    OBVIOUS
  <2>1. g[k] < g[l]
    BY <1>3 DEF Picks
  <2>2. Before(all[g[k]], all[g[l]])
    BY <1>4, <2>1 DEF Ordered
  <2> QED BY <1>4, <2>2
<1>6. \A x \in P \cap T : \E k \in 1..Len(r) : r[k] = x
  <2> SUFFICES ASSUME NEW x \in P, x \in T PROVE \E k \in 1..Len(r) : r[k] = x
    OBVIOUS
  <2>1. PICK i \in 1..Len(all) : all[i] = x
    BY DEF Ordered
  <2>2. PICK k \in 1..Len(r) : g[k] = i
    BY <1>3, <2>1 DEF Picks
  <2> QED BY <1>4, <2>1, <2>2
<1> QED BY <1>2, <1>4, <1>5, <1>6 DEF PlacesChosen, r

LEMMA PlacesToSet ==
  ASSUME NEW pages \in Seq(Interpretation)
  PROVE  ToSet(Places(pages)) = PlacesIn(pages)
<1> DEFINE all == Places(pages)
           P == PlacesIn(pages)
<1>1. Ordered(all, P)
  BY PlacesOrdered
<1> HIDE DEF all, P
<1>2. all \in Seq(P) /\ \A x \in P : \E i \in 1..Len(all) : all[i] = x
  BY <1>1 DEF Ordered
<1>3. DOMAIN all = 1..Len(all) /\ \A i \in 1..Len(all) : all[i] \in P
  BY <1>2
<1>4. ToSet(all) = P
  BY <1>2, <1>3 DEF ToSet
<1> QED BY <1>4 DEF all, P

LEMMA NotesAndBlocks ==
  ASSUME NEW pages \in Seq(Interpretation)
  PROVE  /\ PlacesChosen(NotePlaces(pages), PlacesIn(pages),
                         {x \in PlacesIn(pages) : BlockAt(pages, x).kind = "footnote"})
         /\ PlacesChosen(RawBlocks(pages), PlacesIn(pages),
                         {x \in PlacesIn(pages) : Published(BlockAt(pages, x))})
BY PlacesOrdered, PlacesToSet, ChosenPlaces DEF NotePlaces, RawBlocks

-----------------------------------------------------------------------------
(* What validation leaves to the publication.                              *)

FirstParagraph(page, i) == \A j \in 1..i-1 : page.blocks[j].kind # "paragraph"
LastParagraph(page, i)  ==
  /\ i \in 1..Len(page.blocks) /\ page.blocks[i].kind = "paragraph"
  /\ \A j \in i+1..Len(page.blocks) : page.blocks[j].kind # "paragraph"

\* A paragraph that takes one up is the first of its page, and the last of the
\* page before is left open.
FollowsOn(pages, n) ==
  \A i \in 1..Len(pages[n].blocks) :
    pages[n].blocks[i].kind = "paragraph" /\ pages[n].blocks[i].previous =>
      /\ FirstParagraph(pages[n], i) /\ n > 1
      /\ \E l \in 1..Len(pages[n-1].blocks) :
           LastParagraph(pages[n-1], l) /\ pages[n-1].blocks[l].next

SoundPages(pages) ==
  \A n \in 1..Len(pages) : FollowsOn(pages, n) /\ FootnotesValid(pages[n])

LEMMA NotesOfPage ==
  ASSUME NEW page \in Interpretation, FootnotesValid(page), RequireNotes,
         NEW i \in 1..Len(page.blocks), NEW j \in 1..Len(page.blocks),
         page.blocks[i].kind = "footnote", page.blocks[j].kind = "footnote",
         page.blocks[i].label = page.blocks[j].label
  PROVE  i = j
<1> DEFINE bs == page.blocks
           T == {b \in BlocksOf(page) : b.kind = "footnote"}
           notes == Notes(page)
<1>1. bs \in Seq(SourceBlock) /\ notes = Chosen(bs, T)
  BY DEF Interpretation, Notes, Blocks
<1>2. PICK g : Picks(g, bs, notes, T)
  BY <1>1, ChosenPicks
<1>3. DistinctNotes(page) /\ notes \in Seq(SourceBlock)
  BY BlocksType DEF FootnotesValid, Notes
<1>4. bs[i] \in T /\ bs[j] \in T
  BY <1>1 DEF BlocksOf
<1>5. \A a, b \in DOMAIN notes : notes[a].label = notes[b].label => a = b
  BY <1>3 DEF DistinctNotes
<1>6. bs[i].label = bs[j].label /\ i \in 1..Len(bs) /\ j \in 1..Len(bs)
  OBVIOUS
<1> HIDE DEF bs, T, notes
<1>7. PICK a \in 1..Len(notes) : g[a] = i
  BY <1>2, <1>4, <1>6 DEF Picks
<1>8. PICK b \in 1..Len(notes) : g[b] = j
  BY <1>2, <1>4, <1>6 DEF Picks
<1>9. notes[a] = bs[i] /\ notes[b] = bs[j]
  BY <1>2, <1>7, <1>8 DEF Picks
<1>10. a = b
  BY <1>3, <1>5, <1>6, <1>7, <1>8, <1>9
<1> QED BY <1>7, <1>8, <1>10

LEMMA NoteOfReference ==
  ASSUME NEW page \in Interpretation, FootnotesValid(page), RequireNotes,
         NEW i \in 1..Len(page.blocks), page.blocks[i].kind \in TextKind,
         NEW label \in page.blocks[i].refs
  PROVE  \E j \in 1..Len(page.blocks) :
           page.blocks[j].kind = "footnote" /\ page.blocks[j].label = label
<1> DEFINE bs == page.blocks
           T == {b \in BlocksOf(page) : b.kind \in TextKind}
           N == {b \in BlocksOf(page) : b.kind = "footnote"}
           text == Chosen(bs, T)
           notes == Notes(page)
<1>1. bs \in Seq(SourceBlock) /\ notes = Chosen(bs, N)
  BY DEF Interpretation, Notes, Blocks
<1>2. PICK g : Picks(g, bs, text, T)
  BY <1>1, ChosenPicks
<1>3. PICK h : Picks(h, bs, notes, N)
  BY <1>1, ChosenPicks
<1>4. text \in Seq(SourceBlock) /\ notes \in Seq(SourceBlock)
  BY <1>1, ChosenType
<1>5. bs[i] \in T /\ i \in 1..Len(bs) /\ label \in bs[i].refs
  BY <1>1 DEF BlocksOf
<1>6. UNION {text[k].refs : k \in DOMAIN text} = {notes[k].label : k \in DOMAIN notes}
  BY DEF FootnotesValid, TextRefs, NoteLabels
<1>7. \A b \in N : b.kind = "footnote"
  OBVIOUS
<1> HIDE DEF T, N, text, notes
<1>8. PICK k \in 1..Len(text) : g[k] = i
  BY <1>2, <1>5 DEF Picks
<1>9. k \in DOMAIN text /\ text[k] = bs[i]
  BY <1>2, <1>4, <1>8 DEF Picks
<1>10. PICK a \in DOMAIN notes : notes[a].label = label
  BY <1>5, <1>6, <1>9
<1>11. h[a] \in 1..Len(bs) /\ notes[a] = bs[h[a]] /\ bs[h[a]] \in N
  BY <1>3, <1>4, <1>10 DEF Picks
<1> QED BY <1>7, <1>10, <1>11

\* The fields of a place and of its block.
LEMMA PlaceIs ==
  ASSUME NEW pages \in Seq(Interpretation), NEW x \in PlacesIn(pages)
  PROVE  /\ x = <<x[1], x[2]>> /\ x[1] \in 1..Len(pages) /\ pages[x[1]] \in Interpretation
         /\ x[2] \in 1..Len(pages[x[1]].blocks)
         /\ BlockAt(pages, x) = pages[x[1]].blocks[x[2]]
         /\ Len(pages[x[1]].blocks) \in Nat
<1>1. x \in Nat \X Nat /\ x[1] \in 1..Len(pages) /\ x[2] \in 1..Len(pages[x[1]].blocks)
  BY DEF PlacesIn
<1>2. pages[x[1]] \in Interpretation
  BY <1>1
<1>3. pages[x[1]].blocks \in Seq(SourceBlock)
  BY <1>2 DEF Interpretation
<1> QED BY <1>1, <1>2, <1>3 DEF BlockAt

LEMMA PlaceOf ==
  ASSUME NEW pages \in Seq(Interpretation), NEW n \in 1..Len(pages),
         NEW i \in 1..Len(pages[n].blocks)
  PROVE  <<n, i>> \in PlacesIn(pages) /\ BlockAt(pages, <<n, i>>) = pages[n].blocks[i]
<1>1. pages[n] \in Interpretation /\ n \in Nat
  OBVIOUS
<1>2. pages[n].blocks \in Seq(SourceBlock)
  BY <1>1 DEF Interpretation
<1>3. i \in Nat
  BY <1>2
<1> QED BY <1>1, <1>3 DEF PlacesIn, BlockAt

\* Validated pages give no label twice.
LEMMA LabelsOnce ==
  ASSUME NEW pages \in Seq(Interpretation), SoundPages(pages), RequireNotes
  PROVE  ~ LabelsTwice(pages)
<1> DEFINE notes == NotePlaces(pages)
           P == PlacesIn(pages)
           T == {x \in P : BlockAt(pages, x).kind = "footnote"}
           L == Len(notes)
           S == DOMAIN NoteNumbers(pages)
           f == [k \in 1..L |-> NoteKey(pages, notes[k])]
<1>1. PlacesChosen(notes, P, T)
  BY NotesAndBlocks
<1>2. S = {NoteKey(pages, notes[k]) : k \in 1..L}
  BY NoteNumbersIs
<1>3. \A k \in 1..L : notes[k] \in T
  BY <1>1 DEF PlacesChosen
<1> HIDE DEF notes, S
<1>4. ASSUME NEW k \in 1..L, NEW l \in 1..L, k < l
      PROVE  NoteKey(pages, notes[k]) # NoteKey(pages, notes[l])
  <2> DEFINE x == notes[k]
             y == notes[l]
  <2>1. x \in P /\ y \in P /\ BlockAt(pages, x).kind = "footnote" /\ BlockAt(pages, y).kind = "footnote"
    BY <1>3
  <2>2. Before(x, y)
    BY <1>1, <1>4 DEF PlacesChosen
  <2> HIDE DEF x, y
  <2>3. SUFFICES ASSUME NoteKey(pages, x) = NoteKey(pages, y) PROVE FALSE
    BY DEF x, y
  <2>4. x[1] = y[1] /\ BlockAt(pages, x).label = BlockAt(pages, y).label
    BY <2>3 DEF NoteKey
  <2>5. /\ x[1] \in 1..Len(pages) /\ pages[x[1]] \in Interpretation
        /\ x[2] \in 1..Len(pages[x[1]].blocks) /\ y[2] \in 1..Len(pages[x[1]].blocks)
        /\ BlockAt(pages, x) = pages[x[1]].blocks[x[2]]
        /\ BlockAt(pages, y) = pages[x[1]].blocks[y[2]]
    BY <2>1, <2>4, PlaceIs
  <2>6. FootnotesValid(pages[x[1]])
    BY <2>5 DEF SoundPages
  <2>7. x[2] = y[2]
    BY <2>1, <2>4, <2>5, <2>6, NotesOfPage
  <2>8. x[1] \in Nat /\ x[2] \in Nat
    BY <2>1 DEF PlacesIn
  <2> QED BY <2>2, <2>4, <2>7, <2>8 DEF Before
<1>5. L \in Nat
  BY NotePlacesType, LenProperties DEF notes
<1> HIDE DEF L, T, P
<1>6. \A k, l \in 1..L : f[k] = f[l] => k = l
  <2> SUFFICES ASSUME NEW k \in 1..L, NEW l \in 1..L, f[k] = f[l], k # l PROVE FALSE
    OBVIOUS
  <2>1. NoteKey(pages, notes[k]) = NoteKey(pages, notes[l])
    OBVIOUS
  <2>2. k < l \/ l < k
    BY <1>5
  <2> QED BY <1>4, <2>1, <2>2
<1>7. f \in Surjection(1..L, S)
  BY <1>2 DEF Surjection
<1>8. f \in Injection(1..L, S)
  <2>1. f \in [1..L -> S]
    BY <1>2
  <2> HIDE DEF f
  <2> QED BY <1>6, <2>1 DEF Injection, IsInjective
<1>9. IsFiniteSet(1..L) /\ Cardinality(1..L) = L
  BY <1>5, FS_Interval
<1> HIDE DEF f
<1>10. Cardinality(S) = Cardinality(1..L)
  BY <1>7, <1>8, <1>9, FS_Surjection
<1> QED BY <1>5, <1>9, <1>10 DEF LabelsTwice, S, L, notes

\* What validation does not look at, of one block.
UncheckedAt(pages, x) ==
  LET b == BlockAt(pages, x)
  IN  \/ b.kind # "paragraph" /\ (b.previous \/ b.next)
      \/ b.kind = "footnote" /\ b.refs # {}

\* Validated pages fail to be collected by that only.
LEMMA CollectsChecked ==
  ASSUME NEW pages \in Seq(Interpretation), SoundPages(pages), RequireNotes,
         \A x \in PlacesIn(pages) : ~ UncheckedAt(pages, x)
  PROVE  ~ CollectFails(pages)
<1> DEFINE P == PlacesIn(pages)
           notes == NotePlaces(pages)
<1>1. SUFFICES ASSUME NEW x \in P
               PROVE  LET b == BlockAt(pages, x)
                      IN  /\ ~ (b.kind \in {"heading", "chapter_title", "text"} /\ (b.previous \/ b.next))
                          /\ b.kind \notin {"furniture", "figure", "separator"} =>
                               \A r \in b.refs : <<x[1], r>> \in DOMAIN NoteNumbers(pages)
  BY PlacesToSet DEF CollectFails
<1> DEFINE b == BlockAt(pages, x)
           page == pages[x[1]]
<1>2. b \in SourceBlock
  BY BlockAtType
<1>3. ~ UncheckedAt(pages, x)
  OBVIOUS
<1>4. /\ x[1] \in 1..Len(pages) /\ page \in Interpretation
      /\ x[2] \in 1..Len(page.blocks) /\ b = page.blocks[x[2]]
  BY PlaceIs
<1>5. FootnotesValid(page)
  BY <1>4 DEF SoundPages
<1>6. PlacesChosen(notes, P, {y \in P : BlockAt(pages, y).kind = "footnote"})
  BY NotesAndBlocks
<1>7. DOMAIN NoteNumbers(pages) = {NoteKey(pages, notes[k]) : k \in 1..Len(notes)}
  BY NoteNumbersIs
<1>8. ASSUME NEW r \in b.refs, b.kind \notin {"furniture", "figure", "separator"}
      PROVE  <<x[1], r>> \in DOMAIN NoteNumbers(pages)
  <2>1. b.kind \in TextKind
    <3>1. b.kind \in Kind
      BY <1>2 DEF SourceBlock
    <3>2. b.kind # "footnote"
      BY <1>3, <1>8 DEF UncheckedAt
    <3> QED BY <1>8, <3>1, <3>2 DEF Kind
  <2>2. PICK j \in 1..Len(page.blocks) :
          page.blocks[j].kind = "footnote" /\ page.blocks[j].label = r
    <3> DEFINE i == x[2]
    <3>1. i \in 1..Len(page.blocks) /\ page.blocks[i].kind \in TextKind /\ r \in page.blocks[i].refs
      BY <1>4, <1>8, <2>1
    <3> HIDE DEF i, page, b
    <3> QED BY <1>4, <1>5, <3>1, NoteOfReference
  <2> DEFINE y == <<x[1], j>>
  <2>3. y \in P /\ BlockAt(pages, y) = page.blocks[j] /\ y[1] = x[1]
    BY <1>4, PlaceOf
  <2> HIDE DEF y, notes
  <2>4. PICK k \in 1..Len(notes) : notes[k] = y
    BY <1>6, <2>2, <2>3 DEF PlacesChosen
  <2>5. NoteKey(pages, notes[k]) = <<x[1], r>>
    BY <2>2, <2>3, <2>4 DEF NoteKey
  <2> QED BY <1>7, <2>5
<1>9. ~ (b.kind \in {"heading", "chapter_title", "text"} /\ (b.previous \/ b.next))
  BY <1>3 DEF UncheckedAt
<1> QED BY <1>8, <1>9

\* A block that is not a paragraph stands between the parts of one.
SplitParagraph(pages) ==
  LET raw == RawBlocks(pages)
  IN  \E i, j \in DOMAIN raw :
        /\ i + 1 < j
        /\ BlockAt(pages, raw[i]).next /\ BlockAt(pages, raw[j]).previous
        /\ \A k \in i+1..j-1 : BlockAt(pages, raw[k]).kind # "paragraph"

\* Otherwise the part that a paragraph continues is the block before it.
LEMMA PartsAreNeighbours ==
  ASSUME NEW pages \in Seq(Interpretation), SoundPages(pages),
         \A x \in PlacesIn(pages) : ~ UncheckedAt(pages, x), ~ SplitParagraph(pages),
         NEW n \in 1..Len(RawBlocks(pages)), BlockAt(pages, RawBlocks(pages)[n]).previous
  PROVE  /\ n - 1 \in 1..Len(RawBlocks(pages))
         /\ BlockAt(pages, RawBlocks(pages)[n-1]).next
         /\ RawBlocks(pages)[n][1] = RawBlocks(pages)[n-1][1] + 1
<1> DEFINE raw == RawBlocks(pages)
           P == PlacesIn(pages)
           T == {z \in P : Published(BlockAt(pages, z))}
           x == raw[n]
           N == x[1]
<1>1. PlacesChosen(raw, P, T)
  BY NotesAndBlocks
<1>2. Len(raw) \in Nat /\ DOMAIN raw = 1..Len(raw) /\ n \in 1..Len(raw)
  BY RawBlocksType, LenProperties
<1>3. BlockAt(pages, x).previous /\ ~ SplitParagraph(pages)
  OBVIOUS
<1> HIDE DEF raw
<1>4. x \in P
  BY <1>1, <1>2 DEF PlacesChosen
<1> HIDE DEF x
<1>5. /\ N \in 1..Len(pages) /\ pages[N] \in Interpretation /\ x[2] \in 1..Len(pages[N].blocks)
      /\ BlockAt(pages, x) = pages[N].blocks[x[2]]
  BY <1>4, PlaceIs
<1>6. pages[N].blocks[x[2]].kind = "paragraph"
  BY <1>3, <1>4, <1>5 DEF UncheckedAt
<1>7. FollowsOn(pages, N)
  BY <1>5 DEF SoundPages
<1>8. FirstParagraph(pages[N], x[2]) /\ N > 1
  BY <1>3, <1>5, <1>6, <1>7 DEF FollowsOn
<1>9. PICK l \in 1..Len(pages[N-1].blocks) :
        LastParagraph(pages[N-1], l) /\ pages[N-1].blocks[l].next
  BY <1>3, <1>5, <1>6, <1>7 DEF FollowsOn
<1> DEFINE y == <<N - 1, l>>
<1>10. /\ y \in P /\ BlockAt(pages, y) = pages[N-1].blocks[l]
       /\ y[1] = N - 1 /\ y[2] = l /\ N - 1 \in 1..Len(pages)
  <2>1. N - 1 \in 1..Len(pages)
    BY <1>5, <1>8
  <2> QED BY <2>1, PlaceOf
<1> HIDE DEF y
<1>11. y \in T /\ BlockAt(pages, y).next
  BY <1>9, <1>10 DEF LastParagraph, Published
<1>12. PICK k \in 1..Len(raw) : raw[k] = y
  BY <1>1, <1>11 DEF PlacesChosen
<1>13. k < n
  <2>1. k # n
    BY <1>5, <1>10, <1>12 DEF x
  <2>2. ~ (n < k)
    <3>1. SUFFICES ASSUME n < k PROVE FALSE
      OBVIOUS
    <3>2. Before(x, y)
      BY <1>1, <1>2, <1>12, <3>1 DEF PlacesChosen, x
    <3> QED BY <1>5, <1>10, <3>2 DEF Before
  <2> QED BY <1>2, <2>1, <2>2
<1>14. ASSUME NEW q \in k+1..n-1 PROVE BlockAt(pages, raw[q]).kind # "paragraph"
  <2> DEFINE z == raw[q]
  <2>1. q \in 1..Len(raw) /\ k < q /\ q < n
    BY <1>2, <1>12
  <2>2. z \in P /\ Before(y, z) /\ Before(z, x)
    BY <1>1, <1>2, <1>12, <2>1 DEF PlacesChosen, x
  <2> HIDE DEF z
  <2>3. /\ z[1] \in 1..Len(pages) /\ z[2] \in 1..Len(pages[z[1]].blocks)
        /\ BlockAt(pages, z) = pages[z[1]].blocks[z[2]]
    BY <2>2, PlaceIs
  <2>4. z[1] \in Nat /\ z[2] \in Nat /\ x[2] \in Nat /\ l \in Nat /\ N \in Nat
    BY <1>4, <1>10, <2>2 DEF PlacesIn
  <2>5. \/ z[1] = N - 1 /\ l < z[2]
        \/ z[1] = N /\ z[2] < x[2]
    BY <1>10, <2>2, <2>4 DEF Before
  <2>6. CASE z[1] = N - 1 /\ l < z[2]
    <3>1. z[2] \in l+1..Len(pages[N-1].blocks)
      <4>1. Len(pages[z[1]].blocks) \in Nat
        BY <2>2, PlaceIs
      <4> QED BY <2>3, <2>4, <2>6, <4>1
    <3> QED BY <1>9, <2>3, <2>6, <3>1 DEF LastParagraph, z
  <2>7. CASE z[1] = N /\ z[2] < x[2]
    <3>1. z[2] \in 1..x[2]-1
      BY <2>3, <2>4, <2>7
    <3> QED BY <1>8, <2>3, <2>7, <3>1 DEF FirstParagraph, z
  <2> QED BY <2>5, <2>6, <2>7
<1>15. k = n - 1
  <2>1. SUFFICES ASSUME k # n - 1 PROVE FALSE
    OBVIOUS
  <2>2. k + 1 < n
    BY <1>2, <1>13, <2>1
  <2>3. BlockAt(pages, raw[k]).next /\ BlockAt(pages, raw[n]).previous
    BY <1>3, <1>11, <1>12 DEF x
  <2> QED BY <1>2, <1>3, <1>14, <2>2, <2>3 DEF SplitParagraph, raw
<1>16. x[1] = raw[k][1] + 1
  BY <1>5, <1>10, <1>12
<1> QED BY <1>11, <1>12, <1>15, <1>16 DEF raw, x

\* After n blocks merging has not failed, and a block that is left open waits.
Waiting(pages, m, n) ==
  /\ ~ m.fails
  /\ n > 0 /\ BlockAt(pages, RawBlocks(pages)[n]).next =>
       m.open # 0 /\ ~ m.between /\ m.page = RawBlocks(pages)[n][1]

LEMMA MergeGoesOn ==
  ASSUME NEW pages \in Seq(Interpretation), SoundPages(pages),
         \A x \in PlacesIn(pages) : ~ UncheckedAt(pages, x), ~ SplitParagraph(pages),
         NEW n \in 1..Len(RawBlocks(pages)), NEW m \in MergeState(PlacesIn(pages)),
         Waiting(pages, m, n-1)
  PROVE  Waiting(pages, MergeStep(pages, m, RawBlocks(pages)[n]), n)
<1> DEFINE x == RawBlocks(pages)[n]
           b == BlockAt(pages, x)
           r == MergeStep(pages, m, x)
<1>1. /\ m.fails \in BOOLEAN /\ m.between \in BOOLEAN /\ ~ m.fails
      /\ m = [fails |-> m.fails, out |-> m.out, open |-> m.open, page |-> m.page,
              between |-> m.between]
      /\ Len(m.out) \in Nat
  BY DEF MergeState, Waiting
<1>2. CASE b.previous
  <2>1. /\ n - 1 \in 1..Len(RawBlocks(pages)) /\ BlockAt(pages, RawBlocks(pages)[n-1]).next
        /\ x[1] = RawBlocks(pages)[n-1][1] + 1
    BY <1>2, PartsAreNeighbours
  <2>2. m.open # 0 /\ ~ m.between /\ m.page = RawBlocks(pages)[n-1][1]
    BY <2>1 DEF Waiting
  <2>3. r = ContinueBlock(m, x, b)
    BY <1>1, <1>2 DEF MergeStep
  <2> HIDE DEF r, b, x
  <2>4. ~ (m.open = 0 \/ m.between \/ x[1] # m.page + 1)
    BY <2>1, <2>2
  <2>5. /\ r.fails = m.fails /\ r.between = m.between
        /\ b.next => r.open = m.open /\ r.page = x[1]
    BY <1>1, <2>3, <2>4 DEF ContinueBlock
  <2> QED BY <1>1, <2>2, <2>5 DEF Waiting, r, b, x
<1>3. CASE ~ b.previous
  <2>1. r = AppendBlock(m, x, b)
    BY <1>1, <1>3 DEF MergeStep
  <2> HIDE DEF r, b, x
  <2>2. /\ r.fails = m.fails
        /\ r.open = IF b.next THEN Len(m.out) + 1 ELSE m.open
        /\ r.page = IF b.next THEN x[1] ELSE m.page
        /\ r.between <=> ~ b.next /\ m.open # 0
    BY <2>1, AppendEffect
  <2> QED BY <1>1, <2>2 DEF Waiting, r, b, x
<1> QED BY <1>2, <1>3

LEMMA MergesChecked ==
  ASSUME NEW pages \in Seq(Interpretation), SoundPages(pages),
         \A x \in PlacesIn(pages) : ~ UncheckedAt(pages, x), ~ SplitParagraph(pages)
  PROVE  ~ Merged(pages).fails
<1> DEFINE raw == RawBlocks(pages)
           L == Len(raw)
           V == MergeState(PlacesIn(pages))
           step == MergedStep(pages)
<1>1. PICK f : Solves(f, V, L, MergeStart, step) /\ Merged(pages) = f[L]
  BY MergedSolves
<1>2. L \in Nat
  BY RawBlocksType, LenProperties
<1>3. \A n \in 1..L : \A m \in V : step[n][m] = MergeStep(pages, m, raw[n])
  BY DEF MergedStep
<1> DEFINE T == {n \in 0..L : Waiting(pages, f[n], n)}
<1> HIDE DEF V, L, raw, step
<1>4. 0 \in T
  BY <1>1, <1>2 DEF Solves, Waiting, MergeStart
<1>5. ASSUME NEW n \in 1..L, n - 1 \in T PROVE n \in T
  <2>1. n - 1 \in 0..L /\ n \in 0..L
    BY <1>2
  <2>2. f[n-1] \in V /\ f[n] = step[n][f[n-1]]
    BY <1>1, <2>1 DEF Solves
  <2>3. f[n] = MergeStep(pages, f[n-1], raw[n])
    BY <1>3, <2>2
  <2>4. Waiting(pages, f[n-1], n-1)
    BY <1>5
  <2>5. Waiting(pages, MergeStep(pages, f[n-1], raw[n]), n)
    BY <2>2, <2>4, MergeGoesOn DEF V, L, raw
  <2> QED BY <2>1, <2>3, <2>5
<1>6. 0..L \subseteq T
  <2> HIDE DEF T
  <2> QED BY <1>2, <1>4, <1>5, BoundedInduction
<1>7. L \in T
  BY <1>2, <1>6
<1> QED BY <1>1, <1>7 DEF Waiting

\* Validated pages fail to publish only by what validation does not look at.
LEMMA FailsOnly ==
  ASSUME NEW pages \in Seq(Interpretation), SoundPages(pages), RequireNotes,
         PublicationFails(pages)
  PROVE  (\E x \in PlacesIn(pages) : UncheckedAt(pages, x)) \/ SplitParagraph(pages)
BY LabelsOnce, CollectsChecked, MergesChecked DEF PublicationFails

=============================================================================
