-------------------------- MODULE PageRulesProofs --------------------------
(***************************************************************************)
(* Lemmas about the operators of PageRules: what Chosen returns, how a     *)
(* replay grows with the pages, and the types of the state and of the      *)
(* context.                                                                *)
(***************************************************************************)
EXTENDS PageRules, SequencesExt, SequenceTheorems, WellFoundedInduction, TLAPS

-----------------------------------------------------------------------------
(* Recursive functions over the positions of a sequence.                   *)

\* Induction over the naturals for a set instead of a predicate: whatever holds
\* of 0 and passes from n to n + 1 holds of every natural.
LEMMA SetInduction ==
  ASSUME NEW T, 0 \in T, \A n \in Nat : n \in T => n + 1 \in T
  PROVE  Nat \subseteq T
<1>1. SUFFICES ASSUME Nat \ T # {} PROVE FALSE
  OBVIOUS
<1>2. \E x \in Nat \ T : \A y \in Nat \ T : ~ (<<y, x>> \in OpToRel(<, Nat))
  BY <1>1, NatLessThanWellFounded, WFMin
<1>3. PICK x \in Nat \ T : \A y \in Nat \ T : ~ (y < x)
  BY <1>2 DEF OpToRel
<1>4. x # 0
  OBVIOUS
<1>5. x - 1 \in Nat /\ x - 1 < x /\ (x - 1) + 1 = x
  BY <1>4
<1> QED BY <1>3, <1>5

\* The same up to a bound.
LEMMA BoundedInduction ==
  ASSUME NEW L \in Nat, NEW T, 0 \in T,
         \A n \in 1..L : n - 1 \in T => n \in T
  PROVE  0..L \subseteq T
<1> DEFINE U == {n \in Nat : n <= L => n \in T}
<1>1. 0 \in U
  OBVIOUS
<1>2. ASSUME NEW n \in Nat, n \in U PROVE n + 1 \in U
  <2>1. SUFFICES ASSUME n + 1 <= L PROVE n + 1 \in T
    OBVIOUS
  <2>2. n \in T
    BY <1>2, <2>1
  <2>3. n + 1 \in 1..L /\ (n + 1) - 1 = n
    BY <2>1
  <2> QED BY <2>2, <2>3
<1>3. Nat \subseteq U
  <2> HIDE DEF U
  <2> QED BY <1>1, <1>2, SetInduction
<1> QED BY <1>3

\* Two functions that start alike and step alike are alike.
LEMMA SameRecursion ==
  ASSUME NEW L \in Nat, NEW f, NEW g, f[0] = g[0],
         \A n \in 1..L : f[n-1] = g[n-1] => f[n] = g[n]
  PROVE  \A n \in 0..L : f[n] = g[n]
<1> DEFINE T == {n \in 0..L : f[n] = g[n]}
<1>1. 0 \in T
  OBVIOUS
<1>2. \A n \in 1..L : n - 1 \in T => n \in T
  OBVIOUS
<1>3. 0..L \subseteq T
  <2> HIDE DEF T
  <2> QED BY <1>1, <1>2, BoundedInduction
<1> QED BY <1>3

\* Steps from V to V, one for each position, and what they build up to.
StepsIn(V, L) == [1..L -> [V -> V]]
Solves(f, V, L, base, step) ==
  /\ f \in [0..L -> V] /\ f[0] = base
  /\ \A n \in 1..L : f[n] = step[n][f[n-1]]
Follows(F, V, L, base, step) ==
  /\ F[0] = base
  /\ \A n \in 1..L : F[n-1] \in V => F[n] = step[n][F[n-1]]

\* A recursion whose steps stay in V has a solution, and it is in V throughout.
LEMMA RecursionExists ==
  ASSUME NEW L \in Nat, NEW V, NEW base \in V, NEW step \in StepsIn(V, L)
  PROVE  \E f : Solves(f, V, L, base, step)
<1> USE DEF StepsIn
<1> DEFINE Sol(f, n) == f[0] = base /\ \A k \in 1..n : f[k] = step[k][f[k-1]]
           T == {n \in 0..L : \E f \in [0..n -> V] : Sol(f, n)}
<1>1. 0 \in T
  <2> DEFINE g == [k \in 0..0 |-> base]
  <2>1. g \in [0..0 -> V] /\ Sol(g, 0)
    OBVIOUS
  <2> HIDE DEF g, Sol
  <2>2. \E f \in [0..0 -> V] : Sol(f, 0)
    BY <2>1
  <2> QED BY <2>2
<1>2. ASSUME NEW n \in 1..L, n - 1 \in T PROVE n \in T
  <2>1. PICK f \in [0..n-1 -> V] : Sol(f, n-1)
    BY <1>2
  <2> DEFINE g == [k \in 0..n |-> IF k = n THEN step[n][f[n-1]] ELSE f[k]]
  <2>2. f[n-1] \in V /\ step[n] \in [V -> V]
    OBVIOUS
  <2>3. g \in [0..n -> V]
    BY <2>2
  <2>4. g[0] = base
    BY <2>1
  <2>5. ASSUME NEW k \in 1..n PROVE g[k] = step[k][g[k-1]]
    <3>1. CASE k = n
      BY <3>1
    <3>2. CASE k # n
      <4>1. k \in 1..n-1 /\ k \in 0..n /\ k-1 \in 0..n /\ k - 1 # n
        BY <3>2
      <4>2. f[k] = step[k][f[k-1]]
        BY <2>1, <4>1
      <4> QED BY <4>1, <4>2, <3>2
    <3> QED BY <3>1, <3>2
  <2>6. Sol(g, n)
    BY <2>4, <2>5
  <2> HIDE DEF g, Sol
  <2>7. \E h \in [0..n -> V] : Sol(h, n)
    BY <2>3, <2>6
  <2> QED BY <2>7
<1>3. 0..L \subseteq T
  <2> HIDE DEF T
  <2> QED BY <1>1, <1>2, BoundedInduction
<1>4. L \in T
  BY <1>3
<1> QED BY <1>4 DEF Solves

\* What is built up by the same steps is that solution.
LEMMA SolutionIs ==
  ASSUME NEW L \in Nat, NEW V, NEW base, NEW step, NEW f, NEW F,
         Solves(f, V, L, base, step), Follows(F, V, L, base, step)
  PROVE  \A n \in 0..L : F[n] = f[n]
<1>1. \A n \in 1..L : F[n-1] = f[n-1] => F[n] = f[n]
  <2> SUFFICES ASSUME NEW n \in 1..L, F[n-1] = f[n-1] PROVE F[n] = f[n]
    OBVIOUS
  <2>1. n - 1 \in 0..L
    OBVIOUS
  <2>2. f[n-1] \in V /\ f[n] = step[n][f[n-1]]
    BY <2>1 DEF Solves
  <2> QED BY <2>2 DEF Follows
<1>2. F[0] = f[0]
  BY DEF Solves, Follows
<1> QED BY <1>1, <1>2, SameRecursion

-----------------------------------------------------------------------------
(* Chosen.                                                                 *)

\* The recursive function of Chosen, and what each of its steps does.
ChosenStep(S, s, T) ==
  [n \in 1..Len(s) |-> [v \in Seq(S) |-> IF s[n] \in T THEN Append(v, s[n]) ELSE v]]

LEMMA ChosenSolves ==
  ASSUME NEW S, NEW s \in Seq(S), NEW T
  PROVE  \E f : /\ Solves(f, Seq(S), Len(s), <<>>, ChosenStep(S, s, T))
                /\ Chosen(s, T) = f[Len(s)]
<1> DEFINE E(g, n) == IF n = 0 THEN <<>>
                      ELSE IF s[n] \in T THEN Append(g[n-1], s[n]) ELSE g[n-1]
           F == CHOOSE g : g = [n \in 0..Len(s) |-> E(g, n)]
<1>1. Len(s) \in Nat /\ <<>> \in Seq(S)
  OBVIOUS
<1>2. ChosenStep(S, s, T) \in StepsIn(Seq(S), Len(s))
  BY DEF ChosenStep, StepsIn
<1>3. PICK f : Solves(f, Seq(S), Len(s), <<>>, ChosenStep(S, s, T))
  BY <1>1, <1>2, RecursionExists
<1>4. ASSUME NEW n \in 1..Len(s), NEW v \in Seq(S)
      PROVE  ChosenStep(S, s, T)[n][v] = IF s[n] \in T THEN Append(v, s[n]) ELSE v
  BY DEF ChosenStep
<1>5. ASSUME NEW n \in 0..Len(s) PROVE f[n] = E(f, n)
  <2>1. CASE n = 0
    BY <2>1, <1>3 DEF Solves
  <2>2. CASE n # 0
    <3>1. n \in 1..Len(s) /\ n - 1 \in 0..Len(s)
      BY <2>2, <1>1
    <3>2. f[n-1] \in Seq(S) /\ f[n] = ChosenStep(S, s, T)[n][f[n-1]]
      BY <3>1, <1>3 DEF Solves
    <3> QED BY <2>2, <3>1, <3>2, <1>4
  <2> QED BY <2>1, <2>2
<1>6. f = [n \in 0..Len(s) |-> E(f, n)]
  BY <1>3, <1>5 DEF Solves
<1>7. F = [n \in 0..Len(s) |-> E(F, n)]
  BY <1>6
<1> HIDE DEF F
<1>8. F[0] = <<>>
  BY <1>1, <1>7
<1>9. ASSUME NEW n \in 1..Len(s), F[n-1] \in Seq(S)
      PROVE  F[n] = ChosenStep(S, s, T)[n][F[n-1]]
  <2>1. n \in 0..Len(s) /\ n # 0
    BY <1>1
  <2>2. F[n] = E(F, n)
    BY <1>7, <2>1
  <2> QED BY <2>1, <2>2, <1>4, <1>9
<1>10. \A n \in 0..Len(s) : F[n] = f[n]
  <2>1. Follows(F, Seq(S), Len(s), <<>>, ChosenStep(S, s, T))
    BY <1>8, <1>9 DEF Follows
  <2> QED BY <1>1, <1>3, <2>1, SolutionIs
<1>11. Chosen(s, T) = F[Len(s)]
  BY DEF Chosen, F
<1> QED BY <1>1, <1>3, <1>10, <1>11

LEMMA ChosenType ==
  ASSUME NEW S, NEW s \in Seq(S), NEW T
  PROVE  Chosen(s, T) \in Seq(S)
BY ChosenSolves DEF Solves

LEMMA ChosenEmpty ==
  ASSUME NEW T
  PROVE  Chosen(<<>>, T) = <<>>
<1> DEFINE s == <<>>
<1>1. s \in Seq({}) /\ Len(s) = 0
  OBVIOUS
<1> HIDE DEF s
<1>2. PICK f : Solves(f, Seq({}), Len(s), <<>>, ChosenStep({}, s, T)) /\ Chosen(s, T) = f[Len(s)]
  BY <1>1, ChosenSolves
<1> QED BY <1>1, <1>2 DEF Solves, s

\* An element at the end is chosen or not; the choice before it stays.
LEMMA ChosenAppend ==
  ASSUME NEW S, NEW s \in Seq(S), NEW x \in S, NEW T, NEW U,
         \A i \in 1..Len(s) : s[i] \in T <=> s[i] \in U
  PROVE  Chosen(Append(s, x), U)
           = IF x \in U THEN Append(Chosen(s, T), x) ELSE Chosen(s, T)
<1> DEFINE t == Append(s, x)
<1>1. /\ t \in Seq(S) /\ Len(s) \in Nat /\ Len(t) = Len(s) + 1 /\ t[Len(s) + 1] = x
      /\ \A i \in 1..Len(s) : t[i] = s[i]
  OBVIOUS
<1> HIDE DEF t
<1>2. PICK f : Solves(f, Seq(S), Len(s), <<>>, ChosenStep(S, s, T)) /\ Chosen(s, T) = f[Len(s)]
  BY ChosenSolves
<1>3. PICK g : Solves(g, Seq(S), Len(t), <<>>, ChosenStep(S, t, U)) /\ Chosen(t, U) = g[Len(t)]
  BY <1>1, ChosenSolves
<1>4. Follows(g, Seq(S), Len(s), <<>>, ChosenStep(S, s, T))
  <2>1. g[0] = <<>>
    BY <1>3 DEF Solves
  <2>2. ASSUME NEW n \in 1..Len(s), g[n-1] \in Seq(S)
        PROVE  g[n] = ChosenStep(S, s, T)[n][g[n-1]]
    <3>1. n \in 1..Len(t) /\ t[n] = s[n] /\ (s[n] \in T <=> s[n] \in U)
      BY <1>1
    <3>2. g[n] = ChosenStep(S, t, U)[n][g[n-1]]
      BY <3>1, <1>3 DEF Solves
    <3> QED BY <3>1, <3>2, <2>2 DEF ChosenStep
  <2> QED BY <2>1, <2>2 DEF Follows
<1>5. g[Len(s)] = Chosen(s, T)
  <2>1. \A n \in 0..Len(s) : g[n] = f[n]
    BY <1>1, <1>2, <1>4, SolutionIs
  <2> QED BY <2>1, <1>1, <1>2
<1>6. g[Len(t)] = IF x \in U THEN Append(g[Len(s)], x) ELSE g[Len(s)]
  <2>1. Len(t) \in 1..Len(t) /\ Len(t) - 1 = Len(s) /\ t[Len(t)] = x
    BY <1>1
  <2>2. g[Len(t)] = ChosenStep(S, t, U)[Len(t)][g[Len(s)]]
    BY <2>1, <1>3 DEF Solves
  <2>3. g[Len(s)] \in Seq(S)
    BY <1>5, ChosenType
  <2> QED BY <2>1, <2>2, <2>3 DEF ChosenStep
<1> QED BY <1>3, <1>5, <1>6 DEF t

\* Induction over sequences, for a set.
LEMMA SeqInduction ==
  ASSUME NEW S, NEW T, <<>> \in T,
         \A s \in Seq(S) : \A x \in S : s \in T => Append(s, x) \in T
  PROVE  Seq(S) \subseteq T
<1> DEFINE U == {n \in Nat : \A s \in Seq(S) : Len(s) = n => s \in T}
<1>1. 0 \in U
  BY EmptySeq
<1>2. ASSUME NEW n \in Nat, n \in U PROVE n + 1 \in U
  <2>1. SUFFICES ASSUME NEW s \in Seq(S), Len(s) = n + 1 PROVE s \in T
    OBVIOUS
  <2>2. s # <<>>
    BY <2>1
  <2>3. PICK r \in Seq(S), x \in S : s = Append(r, x)
    BY <2>2, SequenceEmptyOrAppend
  <2>4. Len(r) = n
    BY <2>1, <2>3
  <2> QED BY <1>2, <2>3, <2>4
<1>3. Nat \subseteq U
  <2> HIDE DEF U
  <2> QED BY <1>1, <1>2, SetInduction
<1> QED BY <1>3

\* What is chosen is in T.
LEMMA ChosenWithin ==
  ASSUME NEW S, NEW s \in Seq(S), NEW T
  PROVE  Chosen(s, T) \in Seq(S \cap T)
<1> DEFINE U == {r \in Seq(S) : Chosen(r, T) \in Seq(S \cap T)}
<1>1. <<>> \in U
  <2>1. <<>> \in Seq(S) /\ <<>> \in Seq(S \cap T)
    OBVIOUS
  <2> QED BY <2>1, ChosenEmpty
<1>2. ASSUME NEW r \in Seq(S), NEW x \in S, r \in U PROVE Append(r, x) \in U
  <2>1. Chosen(Append(r, x), T)
          = IF x \in T THEN Append(Chosen(r, T), x) ELSE Chosen(r, T)
    BY ChosenAppend
  <2>2. Chosen(r, T) \in Seq(S \cap T) /\ Append(r, x) \in Seq(S)
    BY <1>2
  <2>3. x \in T => Append(Chosen(r, T), x) \in Seq(S \cap T)
    BY <2>2
  <2> QED BY <2>1, <2>2, <2>3
<1>3. Seq(S) \subseteq U
  <2> HIDE DEF U
  <2> QED BY <1>1, <1>2, SeqInduction
<1> QED BY <1>3

\* Something is chosen exactly when there is something to choose.
LEMMA ChosenNonempty ==
  ASSUME NEW S, NEW s \in Seq(S), NEW T
  PROVE  Chosen(s, T) # <<>> <=> \E i \in 1..Len(s) : s[i] \in T
<1> DEFINE U == {r \in Seq(S) : Chosen(r, T) # <<>> <=> \E i \in 1..Len(r) : r[i] \in T}
<1>1. <<>> \in U
  <2>1. <<>> \in Seq(S) /\ 1..Len(<<>>) = {}
    OBVIOUS
  <2> QED BY <2>1, ChosenEmpty
<1>2. ASSUME NEW r \in Seq(S), NEW x \in S, r \in U PROVE Append(r, x) \in U
  <2> DEFINE q == Append(r, x)
  <2>1. Chosen(q, T) = IF x \in T THEN Append(Chosen(r, T), x) ELSE Chosen(r, T)
    BY ChosenAppend
  <2>2. Chosen(r, T) \in Seq(S)
    BY ChosenType
  <2>3. x \in T => Append(Chosen(r, T), x) # <<>>
    BY <2>2
  <2>4. /\ q \in Seq(S) /\ Len(r) \in Nat /\ Len(q) = Len(r) + 1 /\ q[Len(q)] = x
        /\ \A i \in 1..Len(r) : q[i] = r[i]
    OBVIOUS
  <2>5. Chosen(r, T) # <<>> <=> \E i \in 1..Len(r) : r[i] \in T
    BY <1>2
  <2> HIDE DEF q
  <2>6. (\E i \in 1..Len(q) : q[i] \in T) <=> x \in T \/ \E i \in 1..Len(r) : r[i] \in T
    BY <2>4
  <2> QED BY <2>1, <2>3, <2>4, <2>5, <2>6 DEF q
<1>3. Seq(S) \subseteq U
  <2> HIDE DEF U
  <2> QED BY <1>1, <1>2, SeqInduction
<1> QED BY <1>3

\* g maps the places of r to the places of s they were chosen from.
Picks(g, s, r, T) ==
  /\ g \in [1..Len(r) -> 1..Len(s)]
  /\ \A k \in 1..Len(r) : r[k] = s[g[k]] /\ s[g[k]] \in T
  /\ \A k, l \in 1..Len(r) : k < l => g[k] < g[l]
  /\ \A i \in 1..Len(s) : s[i] \in T => \E k \in 1..Len(r) : g[k] = i

LEMMA PicksOneMore ==
  ASSUME NEW S, NEW s \in Seq(S), NEW r \in Seq(S), NEW T, NEW x \in S, x \in T,
         NEW g, Picks(g, s, r, T)
  PROVE  \E h : Picks(h, Append(s, x), Append(r, x), T)
<1> DEFINE q == Append(s, x)
           c == Append(r, x)
           h == [k \in 1..Len(c) |-> IF k = Len(c) THEN Len(q) ELSE g[k]]
<1>1. /\ Len(s) \in Nat /\ Len(q) = Len(s) + 1 /\ q[Len(s) + 1] = x
      /\ \A i \in 1..Len(s) : q[i] = s[i]
      /\ Len(r) \in Nat /\ Len(c) = Len(r) + 1 /\ c[Len(r) + 1] = x
      /\ \A k \in 1..Len(r) : c[k] = r[k]
  OBVIOUS
<1> HIDE DEF q, c
<1>0. \A k \in 1..Len(r) : g[k] \in 1..Len(s)
  BY DEF Picks
<1>2. /\ \A k \in 1..Len(r) : h[k] = g[k] /\ g[k] \in 1..Len(s)
      /\ h[Len(c)] = Len(q)
  <2>1. \A k \in 1..Len(r) : k \in 1..Len(c) /\ k # Len(c)
    BY <1>1
  <2>2. Len(c) \in 1..Len(c)
    BY <1>1
  <2> QED BY <1>0, <2>1, <2>2
<1>3. h \in [1..Len(c) -> 1..Len(q)]
  <2>1. ASSUME NEW k \in 1..Len(c) PROVE (IF k = Len(c) THEN Len(q) ELSE g[k]) \in 1..Len(q)
    <3>1. CASE k = Len(c)
      BY <1>1, <3>1
    <3>2. CASE k # Len(c)
      <4>1. g[k] \in 1..Len(s)
        BY <1>0, <1>1, <3>2
      <4> QED BY <1>1, <3>2, <4>1
    <3> QED BY <3>1, <3>2
  <2> QED BY <2>1
<1> HIDE DEF h
<1>4. \A k \in 1..Len(c) : c[k] = q[h[k]] /\ q[h[k]] \in T
  <2> SUFFICES ASSUME NEW k \in 1..Len(c) PROVE c[k] = q[h[k]] /\ q[h[k]] \in T
    OBVIOUS
  <2>1. CASE k = Len(c)
    BY <1>1, <1>2, <2>1
  <2>2. CASE k \in 1..Len(r)
    BY <1>1, <1>2, <2>2 DEF Picks
  <2> QED BY <1>1, <2>1, <2>2
<1>5. \A k, l \in 1..Len(c) : k < l => h[k] < h[l]
  <2> SUFFICES ASSUME NEW k \in 1..Len(c), NEW l \in 1..Len(c), k < l PROVE h[k] < h[l]
    OBVIOUS
  <2>1. k \in 1..Len(r)
    BY <1>1
  <2>2. CASE l = Len(c)
    BY <1>1, <1>2, <2>1, <2>2
  <2>3. CASE l \in 1..Len(r)
    BY <1>2, <2>1, <2>3 DEF Picks
  <2> QED BY <1>1, <2>2, <2>3
<1>6. \A i \in 1..Len(q) : q[i] \in T => \E k \in 1..Len(c) : h[k] = i
  <2> SUFFICES ASSUME NEW i \in 1..Len(q), q[i] \in T PROVE \E k \in 1..Len(c) : h[k] = i
    OBVIOUS
  <2>1. CASE i = Len(q)
    BY <1>1, <1>2, <2>1
  <2>2. CASE i \in 1..Len(s)
    <3>1. PICK k \in 1..Len(r) : g[k] = i
      BY <1>1, <2>2 DEF Picks
    <3>2. k \in 1..Len(c) /\ h[k] = i
      BY <1>1, <1>2, <3>1
    <3> QED BY <3>2
  <2> QED BY <1>1, <2>1, <2>2
<1>7. Picks(h, q, c, T)
  BY <1>3, <1>4, <1>5, <1>6 DEF Picks
<1> QED BY <1>7 DEF q, c

LEMMA PicksNoMore ==
  ASSUME NEW S, NEW s \in Seq(S), NEW r \in Seq(S), NEW T, NEW x \in S, x \notin T,
         NEW g, Picks(g, s, r, T)
  PROVE  Picks(g, Append(s, x), r, T)
<1> DEFINE q == Append(s, x)
<1>1. /\ Len(s) \in Nat /\ Len(q) = Len(s) + 1 /\ q[Len(s) + 1] = x
      /\ \A i \in 1..Len(s) : q[i] = s[i]
      /\ Len(r) \in Nat
  OBVIOUS
<1> HIDE DEF q
<1>2. g \in [1..Len(r) -> 1..Len(q)] /\ \A k \in 1..Len(r) : g[k] \in 1..Len(s)
  BY <1>1 DEF Picks
<1>3. \A k \in 1..Len(r) : r[k] = q[g[k]] /\ q[g[k]] \in T
  BY <1>1, <1>2 DEF Picks
<1>4. \A i \in 1..Len(q) : q[i] \in T => \E k \in 1..Len(r) : g[k] = i
  <2> SUFFICES ASSUME NEW i \in 1..Len(q), q[i] \in T PROVE \E k \in 1..Len(r) : g[k] = i
    OBVIOUS
  <2>1. i \in 1..Len(s) /\ s[i] \in T
    BY <1>1
  <2> QED BY <2>1 DEF Picks
<1>5. \A k, l \in 1..Len(r) : k < l => g[k] < g[l]
  BY DEF Picks
<1>6. Picks(g, q, r, T)
  BY <1>2, <1>3, <1>4, <1>5 DEF Picks
<1> QED BY <1>6 DEF q

\* Everything in T is chosen, in its order.
LEMMA ChosenPicks ==
  ASSUME NEW S, NEW s \in Seq(S), NEW T
  PROVE  \E g : Picks(g, s, Chosen(s, T), T)
<1> DEFINE U == {r \in Seq(S) : \E g : Picks(g, r, Chosen(r, T), T)}
<1>1. <<>> \in U
  <2>1. \A n \in Nat : Len(<<>>) = 0 /\ 1..0 = {} /\ <<>> \in [1..0 -> 1..0]
    OBVIOUS
  <2>2. Picks(<<>>, <<>>, <<>>, T)
    BY <2>1 DEF Picks
  <2> QED BY <2>2, ChosenEmpty
<1>2. ASSUME NEW r \in Seq(S), NEW x \in S, r \in U PROVE Append(r, x) \in U
  <2> DEFINE c == Chosen(r, T)
  <2>1. Chosen(Append(r, x), T) = IF x \in T THEN Append(c, x) ELSE c
    BY ChosenAppend
  <2>2. c \in Seq(S) /\ Append(r, x) \in Seq(S)
    BY ChosenType
  <2>3. PICK g : Picks(g, r, c, T)
    BY <1>2
  <2> HIDE DEF c
  <2>4. \E h : Picks(h, Append(r, x), Chosen(Append(r, x), T), T)
    <3>1. CASE x \in T
      BY <2>1, <2>2, <2>3, <3>1, PicksOneMore
    <3>2. CASE x \notin T
      BY <2>1, <2>2, <2>3, <3>2, PicksNoMore
    <3> QED BY <3>1, <3>2
  <2> QED BY <2>2, <2>4
<1>3. Seq(S) \subseteq U
  <2> HIDE DEF U
  <2> QED BY <1>1, <1>2, SeqInduction
<1> QED BY <1>3

-----------------------------------------------------------------------------
(* FlattenSeq.                                                             *)

FlattenStep(S, seqs) == [n \in 1..Len(seqs) |-> [v \in Seq(S) |-> v \o seqs[n]]]

LEMMA FlattenSolves ==
  ASSUME NEW S, NEW seqs \in Seq(Seq(S))
  PROVE  \E f : /\ Solves(f, Seq(S), Len(seqs), <<>>, FlattenStep(S, seqs))
                /\ FlattenSeq(seqs) = f[Len(seqs)]
<1> DEFINE L == Len(seqs)
           step == FlattenStep(S, seqs)
           E(g, n) == IF n = 1 THEN seqs[n] ELSE g[n-1] \o seqs[n]
           F == CHOOSE g : g = [n \in 1..L |-> E(g, n)]
           G == [n \in 0..L |-> IF n = 0 THEN <<>> ELSE F[n]]
<1>1. L \in Nat /\ <<>> \in Seq(S) /\ \A n \in 1..L : seqs[n] \in Seq(S)
  OBVIOUS
<1>2. step \in StepsIn(Seq(S), L)
  BY DEF FlattenStep, StepsIn
<1>3. \A n \in 1..L : \A v \in Seq(S) : step[n][v] = v \o seqs[n]
  BY DEF FlattenStep
<1> HIDE DEF L, step
<1>4. PICK f : Solves(f, Seq(S), L, <<>>, step)
  BY <1>1, <1>2, RecursionExists
<1>5. CASE L = 0
  <2>1. FlattenSeq(seqs) = seqs /\ seqs = <<>>
    BY <1>5 DEF FlattenSeq, L
  <2>2. f[L] = <<>>
    BY <1>4, <1>5 DEF Solves
  <2> QED BY <1>4, <2>1, <2>2 DEF L, step
<1>6. CASE L # 0
  <2>1. ASSUME NEW n \in 1..L PROVE f[n] = E(f, n)
    <3>1. n - 1 \in 0..L
      BY <1>1
    <3>2. f[n-1] \in Seq(S) /\ f[n] = f[n-1] \o seqs[n]
      BY <3>1, <1>3, <1>4 DEF Solves
    <3>3. CASE n = 1
      <4>1. f[n-1] = <<>>
        BY <3>3, <1>4 DEF Solves
      <4> QED BY <1>1, <3>2, <3>3, <4>1, ConcatEmptySeq
    <3> QED BY <3>2, <3>3
  <2> DEFINE h == [n \in 1..L |-> f[n]]
  <2>2. h = [n \in 1..L |-> E(h, n)]
    <3>1. \A n \in 1..L : n # 1 => n - 1 \in 1..L
      BY <1>1
    <3>2. ASSUME NEW n \in 1..L PROVE h[n] = E(h, n)
      BY <2>1, <3>1
    <3> QED BY <3>2
  <2> HIDE DEF h
  <2>3. F = [n \in 1..L |-> E(F, n)]
    BY <2>2
  <2> HIDE DEF F
  <2>4. Follows(G, Seq(S), L, <<>>, step)
    <3>1. G[0] = <<>>
      BY <1>1
    <3>2. ASSUME NEW n \in 1..L, G[n-1] \in Seq(S) PROVE G[n] = step[n][G[n-1]]
      <4>0. n \in 0..L /\ n - 1 \in 0..L /\ n # 0
        BY <1>1
      <4>1. G[n] = F[n] /\ F[n] = E(F, n)
        BY <4>0, <2>3
      <4>2. step[n][G[n-1]] = G[n-1] \o seqs[n]
        BY <3>2, <1>3
      <4>3. CASE n = 1
        <5>1. G[n-1] = <<>>
          BY <3>1, <4>3
        <5> QED BY <1>1, <4>1, <4>2, <4>3, <5>1, ConcatEmptySeq
      <4>4. CASE n # 1
        <5>1. n - 1 # 0 /\ G[n-1] = F[n-1]
          BY <4>0, <4>4
        <5> QED BY <4>1, <4>2, <4>4, <5>1
      <4> QED BY <4>3, <4>4
    <3> HIDE DEF G
    <3> QED BY <3>1, <3>2 DEF Follows
  <2>5. \A n \in 0..L : G[n] = f[n]
    <3> HIDE DEF G
    <3> QED BY <1>1, <1>4, <2>4, SolutionIs
  <2>6. L \in 0..L /\ F[L] = G[L]
    BY <1>1, <1>6
  <2>7. FlattenSeq(seqs) = F[L]
    BY <1>6 DEF FlattenSeq, F, L
  <2> QED BY <1>4, <2>5, <2>6, <2>7 DEF L, step
<1> QED BY <1>5, <1>6

LEMMA FlattenType ==
  ASSUME NEW S, NEW seqs \in Seq(Seq(S))
  PROVE  FlattenSeq(seqs) \in Seq(S)
BY FlattenSolves DEF Solves

LEMMA FlattenEmpty == FlattenSeq(<<>>) = <<>>
BY DEF FlattenSeq

\* What is put at the end is read at the end.
LEMMA FlattenAppend ==
  ASSUME NEW S, NEW seqs \in Seq(Seq(S)), NEW x \in Seq(S)
  PROVE  FlattenSeq(Append(seqs, x)) = FlattenSeq(seqs) \o x
<1> DEFINE V == Seq(S)
           t == Append(seqs, x)
<1>1. /\ t \in Seq(V) /\ Len(seqs) \in Nat /\ Len(t) = Len(seqs) + 1
      /\ t[Len(seqs) + 1] = x /\ \A i \in 1..Len(seqs) : t[i] = seqs[i]
  <2> HIDE DEF V
  <2>1. seqs \in Seq(V) /\ x \in V
    BY DEF V
  <2> QED BY <2>1
<1> HIDE DEF t
<1>2. PICK f : /\ Solves(f, Seq(S), Len(seqs), <<>>, FlattenStep(S, seqs))
               /\ FlattenSeq(seqs) = f[Len(seqs)]
  BY FlattenSolves
<1>3. PICK g : /\ Solves(g, Seq(S), Len(t), <<>>, FlattenStep(S, t))
               /\ FlattenSeq(t) = g[Len(t)]
  BY <1>1, FlattenSolves
<1>4. Follows(g, Seq(S), Len(seqs), <<>>, FlattenStep(S, seqs))
  <2>1. g[0] = <<>>
    BY <1>3 DEF Solves
  <2>2. ASSUME NEW n \in 1..Len(seqs), g[n-1] \in Seq(S)
        PROVE  g[n] = FlattenStep(S, seqs)[n][g[n-1]]
    <3>1. n \in 1..Len(t) /\ t[n] = seqs[n]
      BY <1>1
    <3>2. g[n] = FlattenStep(S, t)[n][g[n-1]]
      BY <3>1, <1>3 DEF Solves
    <3> QED BY <3>1, <3>2, <2>2 DEF FlattenStep
  <2> QED BY <2>1, <2>2 DEF Follows
<1>5. g[Len(seqs)] = FlattenSeq(seqs)
  <2>1. \A n \in 0..Len(seqs) : g[n] = f[n]
    BY <1>1, <1>2, <1>4, SolutionIs
  <2> QED BY <2>1, <1>1, <1>2
<1>6. g[Len(t)] = g[Len(seqs)] \o x
  <2>1. Len(t) \in 1..Len(t) /\ Len(t) - 1 = Len(seqs) /\ t[Len(t)] = x
    BY <1>1
  <2>2. g[Len(t)] = FlattenStep(S, t)[Len(t)][g[Len(seqs)]]
    BY <2>1, <1>3 DEF Solves
  <2>3. g[Len(seqs)] \in Seq(S)
    BY <1>5, FlattenType
  <2> QED BY <2>1, <2>2, <2>3 DEF FlattenStep
<1> QED BY <1>3, <1>5, <1>6 DEF t

LEMMA FlattenConcat ==
  ASSUME NEW S, NEW s \in Seq(Seq(S)), NEW t \in Seq(Seq(S))
  PROVE  FlattenSeq(s \o t) = FlattenSeq(s) \o FlattenSeq(t)
<1> DEFINE V == Seq(S)
           U == {r \in Seq(V) : FlattenSeq(s \o r) = FlattenSeq(s) \o FlattenSeq(r)}
<1>1. <<>> \in U
  <2>1. FlattenSeq(s) \in V /\ s \o <<>> = s /\ <<>> \in Seq(V)
    BY FlattenType, ConcatEmptySeq
  <2> QED BY <2>1, FlattenEmpty, ConcatEmptySeq
<1>2. ASSUME NEW r \in Seq(V), NEW x \in V, r \in U PROVE Append(r, x) \in U
  <2> HIDE DEF V
  <2>1. /\ s \o r \in Seq(V) /\ Append(r, x) \in Seq(V)
        /\ s \o Append(r, x) = Append(s \o r, x)
    <3>1. s \in Seq(V)
      BY DEF V
    <3> QED BY <3>1
  <2>2. FlattenSeq(Append(s \o r, x)) = FlattenSeq(s \o r) \o x
    BY <2>1, FlattenAppend DEF V
  <2>3. FlattenSeq(Append(r, x)) = FlattenSeq(r) \o x
    BY FlattenAppend DEF V
  <2>4. FlattenSeq(s \o r) = FlattenSeq(s) \o FlattenSeq(r)
    BY <1>2
  <2>5. FlattenSeq(s) \in Seq(S) /\ FlattenSeq(r) \in Seq(S) /\ x \in Seq(S)
    BY FlattenType DEF V
  <2>6. (FlattenSeq(s) \o FlattenSeq(r)) \o x = FlattenSeq(s) \o (FlattenSeq(r) \o x)
    BY <2>5, ConcatAssociative
  <2> QED BY <2>1, <2>2, <2>3, <2>4, <2>6
<1>3. Seq(V) \subseteq U
  <2> HIDE DEF U, V
  <2> QED BY <1>1, <1>2, SeqInduction
<1> QED BY <1>3

LEMMA FlattenSingles ==
  ASSUME NEW S, NEW s \in Seq(S)
  PROVE  FlattenSeq([i \in DOMAIN s |-> <<s[i]>>]) = s
<1> DEFINE Singles(r) == [i \in DOMAIN r |-> <<r[i]>>]
           U == {r \in Seq(S) : FlattenSeq(Singles(r)) = r}
<1>1. <<>> \in U
  <2>1. Singles(<<>>) = <<>> /\ <<>> \in Seq(S)
    OBVIOUS
  <2> QED BY <2>1, FlattenEmpty
<1>2. ASSUME NEW r \in Seq(S), NEW x \in S, r \in U PROVE Append(r, x) \in U
  <2>1. Singles(r) \in Seq(Seq(S)) /\ <<x>> \in Seq(S)
    <3> DEFINE V == Seq(S)
    <3>1. \A y \in S : <<y>> \in V
      OBVIOUS
    <3> HIDE DEF V
    <3>2. Singles(r) \in Seq(V)
      BY <3>1
    <3> QED BY <3>1, <3>2 DEF V
  <2>2. Singles(Append(r, x)) = Append(Singles(r), <<x>>)
    OBVIOUS
  <2> HIDE DEF Singles
  <2>3. FlattenSeq(Singles(Append(r, x))) = r \o <<x>>
    BY <1>2, <2>1, <2>2, FlattenAppend
  <2>4. r \o <<x>> = Append(r, x) /\ Append(r, x) \in Seq(S)
    OBVIOUS
  <2> QED BY <2>3, <2>4
<1>3. Seq(S) \subseteq U
  <2> HIDE DEF U
  <2> QED BY <1>1, <1>2, SeqInduction
<1> QED BY <1>3

\* What is put at the end of the last sequence is read at the end.
LEMMA FlattenExtendLast ==
  ASSUME NEW S, NEW seqs \in Seq(Seq(S)), seqs # <<>>, NEW x \in S
  PROVE  FlattenSeq([seqs EXCEPT ![Len(seqs)] = Append(@, x)]) = Append(FlattenSeq(seqs), x)
<1> DEFINE V == Seq(S)
<1>1. PICK r \in Seq(V), y \in V : seqs = Append(r, y)
  <2> HIDE DEF V
  <2>1. seqs \in Seq(V)
    BY DEF V
  <2> QED BY <2>1, SequenceEmptyOrAppend
<1>2. Append(y, x) \in V /\ y \in Seq(S)
  OBVIOUS
<1> DEFINE z == Append(y, x)
<1>3. [seqs EXCEPT ![Len(seqs)] = Append(@, x)] = Append(r, z)
  <2> HIDE DEF V, z
  <2>1. Len(seqs) = Len(r) + 1 /\ seqs[Len(seqs)] = y /\ z \in V
    BY <1>1, <1>2 DEF z
  <2>2. [seqs EXCEPT ![Len(seqs)] = z] = Append(r, z)
    <3> DEFINE q == [seqs EXCEPT ![Len(seqs)] = z]
    <3>1. /\ q \in Seq(V) /\ Len(q) = Len(seqs)
          /\ \A i \in 1..Len(seqs) : q[i] = IF i = Len(seqs) THEN z ELSE seqs[i]
      <4>1. seqs \in Seq(V) /\ Len(r) \in Nat /\ Len(seqs) \in 1..Len(seqs)
        BY <1>1, <2>1
      <4> QED BY <4>1, <2>1, ExceptSeq
    <3> HIDE DEF q
    <3>2. /\ Append(r, z) \in Seq(V) /\ Len(Append(r, z)) = Len(r) + 1
          /\ \A i \in 1..Len(r) : Append(r, z)[i] = r[i] /\ seqs[i] = r[i]
          /\ Append(r, z)[Len(r) + 1] = z
      BY <1>1, <2>1
    <3>3. \A i \in 1..Len(q) : q[i] = Append(r, z)[i]
      BY <2>1, <3>1, <3>2
    <3> HIDE DEF V
    <3>4. q = Append(r, z)
      BY <2>1, <3>1, <3>2, <3>3, SeqEqual
    <3> QED BY <3>4 DEF q
  <2> QED BY <2>1, <2>2 DEF z
<1>4. FlattenSeq(Append(r, z)) = FlattenSeq(r) \o z
  BY <1>2, FlattenAppend
<1>5. FlattenSeq(seqs) = FlattenSeq(r) \o y
  BY <1>1, FlattenAppend
<1>6. FlattenSeq(r) \in Seq(S)
  BY FlattenType
<1>7. FlattenSeq(r) \o Append(y, x) = Append(FlattenSeq(r) \o y, x)
  BY <1>2, <1>6
<1> QED BY <1>3, <1>4, <1>5, <1>7

-----------------------------------------------------------------------------
(* The types of what the rules read and of what a page does to the state.  *)

LEMMA BlocksType ==
  ASSUME NEW page \in Interpretation
  PROVE  /\ \A kind : Blocks(page, kind) \in Seq(SourceBlock)
         /\ Paragraphs(page) \in Seq(SourceBlock) /\ Headings(page) \in Seq(SourceBlock)
<1>1. page.blocks \in Seq(SourceBlock)
  BY DEF Interpretation
<1> QED BY <1>1, ChosenType DEF Blocks, Paragraphs, Headings

LEMMA ObservedTitleType ==
  ASSUME NEW page \in Interpretation
  PROVE  ObservedTitle(page) \in Title \cup {Empty, Nothing}
<1>1. page.opening \in Title \cup {Empty, Nothing}
  BY DEF Interpretation
<1>2. ASSUME Blocks(page, "chapter_title") # <<>>
      PROVE  Blocks(page, "chapter_title")[1] \in SourceBlock
  <2>1. Blocks(page, "chapter_title") \in Seq(SourceBlock)
    BY BlocksType
  <2> QED BY <1>2, <2>1
<1>3. \A b \in SourceBlock : b.title \in Title \cup {Empty, Nothing}
  BY DEF SourceBlock
<1> QED BY <1>1, <1>2, <1>3 DEF ObservedTitle

LEMMA EmptyBookType == EmptyBook \in BookState
BY DEF EmptyBook, BookState, Metadata, TocStatus

LEMMA FinalizeType ==
  ASSUME NEW s \in BookState, NEW page
  PROVE  FinalizeToc(s, page) \in BookState
BY DEF FinalizeToc, BookState, TocStatus

LEMMA HeadingsAfterType ==
  ASSUME NEW page \in Interpretation, NEW n \in Nat,
         NEW hs \in Seq([level : 0..6, page : Nat])
  PROVE  HeadingsAfter(hs, page, n) \in Seq([level : 0..6, page : Nat])
<1> DEFINE H == [level : 0..6, page : Nat]
           new == Headings(page)
           more == [i \in DOMAIN new |-> [level |-> new[i].level, page |-> n]]
<1>1. new \in Seq(SourceBlock)
  BY BlocksType
<1>2. \A b \in SourceBlock : [level |-> b.level, page |-> n] \in H
  BY DEF SourceBlock
<1>3. Len(new) \in Nat /\ DOMAIN new = 1..Len(new) /\ \A i \in 1..Len(new) : new[i] \in SourceBlock
  <2> HIDE DEF new
  <2> QED BY <1>1
<1>4. more \in Seq(H)
  <2> HIDE DEF H, new
  <2>1. \A i \in 1..Len(new) : [level |-> new[i].level, page |-> n] \in H
    BY <1>2, <1>3
  <2> QED BY <1>3, <2>1
<1>5. hs \o more \in Seq(H)
  <2> HIDE DEF H, more
  <2>1. hs \in Seq(H)
    BY DEF H
  <2> QED BY <1>4, <2>1
<1> QED BY <1>5 DEF HeadingsAfter

LEMMA ApplyType ==
  ASSUME NEW s \in BookState, NEW page \in Interpretation, NEW n \in Nat
  PROVE  Apply(s, page, n) \in BookState
<1> DEFINE noted == [s EXCEPT !.meta = MergeMeta(@, page.meta),
                              !.previous = page.type, !.count = n]
           settled == IF /\ noted.tocStatus = "not_seen"
                         /\ page.type \in {"chapter_opening", "body"}
                      THEN [noted EXCEPT !.tocStatus = "absent"] ELSE noted
           begun == IF page.type = "chapter_opening"
                    THEN OpenSection(settled, page, n) ELSE settled
<1>1. /\ page.type \in PageType /\ page.toc \in Seq(TocEntry)
      /\ page.meta \in [Field -> {Nothing} \cup STRING]
  BY DEF Interpretation, Metadata
<1>2. MergeMeta(s.meta, page.meta) \in Metadata
  BY <1>1 DEF MergeMeta, BookState, Metadata
<1>3. noted \in BookState
  BY <1>1, <1>2 DEF BookState
<1> HIDE DEF noted
<1>4. ApplyToc(noted, page) \in BookState
  <2>1. noted.toc \o page.toc \in Seq(TocEntry)
    BY <1>1, <1>3 DEF BookState
  <2> QED BY <1>3, <2>1 DEF ApplyToc, BookState, TocStatus
<1>5. settled \in BookState
  BY <1>3 DEF BookState, TocStatus
<1> HIDE DEF settled
<1>6. OpenSection(settled, page, n) \in BookState
  <2>1. ObservedTitle(page) \in Title \cup {Empty, Nothing}
    BY ObservedTitleType
  <2> DEFINE sec == [title |-> ObservedTitle(page), tocIndex |-> settled.expected,
                     startedOn |-> n, headings |-> <<>>, tail |-> 0]
             expected == IF settled.tocStatus = "committed" THEN settled.expected + 1
                         ELSE settled.expected
  <2>2. sec \in Section /\ expected \in Nat
    BY <1>5, <2>1 DEF Section, BookState
  <2>3. OpenSection(settled, page, n)
          = [settled EXCEPT !.section = sec, !.expected = expected]
    BY <1>5 DEF OpenSection, BookState
  <2> HIDE DEF sec, expected
  <2> QED BY <1>5, <2>2, <2>3 DEF BookState
<1>7. begun \in BookState
  BY <1>5, <1>6
<1> HIDE DEF begun
<1>8. ReadBlocks(begun, page, n) \in BookState
  <2>1. CASE begun.section = Nothing
    BY <1>7, <2>1 DEF ReadBlocks
  <2>2. CASE begun.section # Nothing
    <3>1. begun.section \in Section
      BY <1>7, <2>2 DEF BookState
    <3>2. HeadingsAfter(begun.section.headings, page, n) \in Seq([level : 0..6, page : Nat])
      BY <3>1, HeadingsAfterType DEF Section
    <3>3. TailAfter(begun.section.tail, page, n) \in Nat
      BY <3>1 DEF Section, TailAfter
    <3> DEFINE sec == [begun.section EXCEPT !.headings = HeadingsAfter(@, page, n),
                                            !.tail = TailAfter(@, page, n)]
    <3>4. sec \in Section
      BY <3>1, <3>2, <3>3 DEF Section
    <3>5. ReadBlocks(begun, page, n) = [begun EXCEPT !.section = sec]
      BY <1>7, <2>2, <3>1 DEF ReadBlocks, BookState, Section
    <3> HIDE DEF sec
    <3> QED BY <1>7, <3>4, <3>5 DEF BookState
  <2> QED BY <2>1, <2>2
<1>9. Apply(s, page, n) = IF page.type = "toc" THEN ApplyToc(noted, page)
                          ELSE ReadBlocks(begun, page, n)
  BY DEF Apply, begun, settled, noted
<1> QED BY <1>4, <1>8, <1>9

LEMMA ContextType ==
  ASSUME NEW s \in BookState
  PROVE  Context(s) \in PageContext
<1> DEFINE shown == IF s.tocStatus = "committed"
                    THEN SubSeq(s.toc, s.expected + 1, UpTo(s.expected + 3, Len(s.toc)))
                    ELSE <<>>
           section == IF s.section = Nothing THEN Nothing
                      ELSE [s.section EXCEPT !.headings = Recent(@)]
<1>1. shown \in Seq(TocEntry)
  <2>1. s.toc \in Seq(TocEntry) /\ s.expected \in Nat /\ Len(s.toc) \in Nat
    BY DEF BookState
  <2>2. \A i \in s.expected + 1..UpTo(s.expected + 3, Len(s.toc)) : s.toc[i] \in TocEntry
    BY <2>1 DEF UpTo
  <2>3. UpTo(s.expected + 3, Len(s.toc)) \in Int
    BY <2>1 DEF UpTo
  <2> QED BY <2>1, <2>2, <2>3
<1>2. section \in Section \cup {Nothing}
  <2>1. SUFFICES ASSUME s.section # Nothing
                 PROVE  [s.section EXCEPT !.headings = Recent(@)] \in Section
    OBVIOUS
  <2>2. s.section \in Section
    BY <2>1 DEF BookState
  <2> DEFINE H == [level : 0..6, page : Nat]
             hs == s.section.headings
  <2>3. hs \in Seq(H)
    BY <2>2 DEF Section
  <2>4. Recent(hs) \in Seq(H)
    <3> HIDE DEF H, hs
    <3>1. CASE Len(hs) <= RecentLimit
      BY <2>3, <3>1 DEF Recent
    <3>2. CASE ~ (Len(hs) <= RecentLimit)
      <4>1. RecentLimit \in Nat /\ Len(hs) \in Nat
        BY <2>3, RulesAssumption
      <4>2. \A i \in Len(hs) - RecentLimit + 1..Len(hs) : hs[i] \in H
        BY <2>3, <3>2, <4>1
      <4>3. SubSeq(hs, Len(hs) - RecentLimit + 1, Len(hs)) \in Seq(H)
        BY <2>3, <3>2, <4>1, <4>2
      <4> QED BY <3>2, <4>3 DEF Recent
    <3> QED BY <3>1, <3>2
  <2> QED BY <2>2, <2>4 DEF Section
<1>3. Context(s) = [tocStatus |-> s.tocStatus, expected |-> shown, section |-> section,
                    previous |-> s.previous, meta |-> s.meta]
  BY DEF Context
<1> HIDE DEF shown, section
<1> QED BY <1>1, <1>2, <1>3 DEF PageContext, BookState

-----------------------------------------------------------------------------
(* ReplayPages.                                                            *)

ReplayStep(pages) ==
  [n \in 1..Len(pages) |->
     [s \in BookState |-> Apply(FinalizeToc(s, pages[n]), pages[n], n)]]

LEMMA ReplaySolves ==
  ASSUME NEW pages \in Seq(Interpretation)
  PROVE  \E f : /\ Solves(f, BookState, Len(pages), EmptyBook, ReplayStep(pages))
                /\ ReplayPages(pages) = f[Len(pages)]
<1> DEFINE L == Len(pages)
           step == ReplayStep(pages)
           E(g, n) == IF n = 0 THEN EmptyBook
                      ELSE Apply(FinalizeToc(g[n-1], pages[n]), pages[n], n)
           F == CHOOSE g : g = [n \in 0..L |-> E(g, n)]
<1>1. L \in Nat /\ \A n \in 1..L : pages[n] \in Interpretation /\ n \in Nat
  OBVIOUS
<1>2. step \in StepsIn(BookState, L)
  <2>1. \A n \in 1..L : \A s \in BookState :
          Apply(FinalizeToc(s, pages[n]), pages[n], n) \in BookState
    BY <1>1, FinalizeType, ApplyType
  <2> QED BY <2>1 DEF ReplayStep, StepsIn
<1>3. \A n \in 1..L : \A s \in BookState :
        step[n][s] = Apply(FinalizeToc(s, pages[n]), pages[n], n)
  BY DEF ReplayStep
<1> HIDE DEF L, step
<1>4. PICK f : Solves(f, BookState, L, EmptyBook, step)
  BY <1>1, <1>2, EmptyBookType, RecursionExists
<1>5. ASSUME NEW n \in 0..L PROVE f[n] = E(f, n)
  <2>1. CASE n = 0
    BY <2>1, <1>4 DEF Solves
  <2>2. CASE n # 0
    <3>1. n \in 1..L /\ n - 1 \in 0..L
      BY <2>2, <1>1
    <3>2. f[n-1] \in BookState /\ f[n] = step[n][f[n-1]]
      BY <3>1, <1>4 DEF Solves
    <3> QED BY <2>2, <3>1, <3>2, <1>3
  <2> QED BY <2>1, <2>2
<1>6. f = [n \in 0..L |-> E(f, n)]
  BY <1>4, <1>5 DEF Solves
<1>7. F = [n \in 0..L |-> E(F, n)]
  BY <1>6
<1> HIDE DEF F
<1>8. Follows(F, BookState, L, EmptyBook, step)
  <2>1. F[0] = EmptyBook
    BY <1>1, <1>7
  <2>2. ASSUME NEW n \in 1..L, F[n-1] \in BookState PROVE F[n] = step[n][F[n-1]]
    <3>1. n \in 0..L /\ n # 0
      BY <1>1
    <3>2. F[n] = E(F, n)
      BY <1>7, <3>1
    <3> QED BY <3>1, <3>2, <1>3, <2>2
  <2> QED BY <2>1, <2>2 DEF Follows
<1>9. \A n \in 0..L : F[n] = f[n]
  BY <1>1, <1>4, <1>8, SolutionIs
<1>10. ReplayPages(pages) = F[L]
  BY DEF ReplayPages, F, L
<1> QED BY <1>1, <1>4, <1>9, <1>10 DEF L, step

LEMMA ReplayType ==
  ASSUME NEW pages \in Seq(Interpretation)
  PROVE  ReplayPages(pages) \in BookState
BY ReplaySolves DEF Solves

LEMMA ReplayEmpty == ReplayPages(<<>>) = EmptyBook
<1> DEFINE s == <<>>
<1>1. s \in Seq(Interpretation) /\ Len(s) = 0
  OBVIOUS
<1> HIDE DEF s
<1>2. PICK f : Solves(f, BookState, Len(s), EmptyBook, ReplayStep(s)) /\ ReplayPages(s) = f[Len(s)]
  BY <1>1, ReplaySolves
<1> QED BY <1>1, <1>2 DEF Solves, s

\* The replay of one page more is one step more.
LEMMA ReplayAppend ==
  ASSUME NEW pages \in Seq(Interpretation), NEW page \in Interpretation
  PROVE  ReplayPages(Append(pages, page))
           = Apply(FinalizeToc(ReplayPages(pages), page), page, Len(pages) + 1)
<1> DEFINE t == Append(pages, page)
<1>1. /\ t \in Seq(Interpretation) /\ Len(pages) \in Nat /\ Len(t) = Len(pages) + 1
      /\ t[Len(pages) + 1] = page /\ \A i \in 1..Len(pages) : t[i] = pages[i]
  OBVIOUS
<1> HIDE DEF t
<1>2. PICK f : /\ Solves(f, BookState, Len(pages), EmptyBook, ReplayStep(pages))
               /\ ReplayPages(pages) = f[Len(pages)]
  BY ReplaySolves
<1>3. PICK g : /\ Solves(g, BookState, Len(t), EmptyBook, ReplayStep(t))
               /\ ReplayPages(t) = g[Len(t)]
  BY <1>1, ReplaySolves
<1>4. Follows(g, BookState, Len(pages), EmptyBook, ReplayStep(pages))
  <2>1. g[0] = EmptyBook
    BY <1>3 DEF Solves
  <2>2. ASSUME NEW n \in 1..Len(pages), g[n-1] \in BookState
        PROVE  g[n] = ReplayStep(pages)[n][g[n-1]]
    <3>1. n \in 1..Len(t) /\ t[n] = pages[n]
      BY <1>1
    <3>2. g[n] = ReplayStep(t)[n][g[n-1]]
      BY <3>1, <1>3 DEF Solves
    <3> QED BY <3>1, <3>2, <2>2 DEF ReplayStep
  <2> QED BY <2>1, <2>2 DEF Follows
<1>5. g[Len(pages)] = ReplayPages(pages)
  <2>1. \A n \in 0..Len(pages) : g[n] = f[n]
    BY <1>1, <1>2, <1>4, SolutionIs
  <2> QED BY <2>1, <1>1, <1>2
<1>6. g[Len(t)] = Apply(FinalizeToc(g[Len(pages)], page), page, Len(t))
  <2>1. Len(t) \in 1..Len(t) /\ Len(t) - 1 = Len(pages) /\ t[Len(t)] = page
    BY <1>1
  <2>2. g[Len(t)] = ReplayStep(t)[Len(t)][g[Len(pages)]]
    BY <2>1, <1>3 DEF Solves
  <2>3. g[Len(pages)] \in BookState
    BY <1>5, ReplayType
  <2> QED BY <2>1, <2>2, <2>3 DEF ReplayStep
<1> QED BY <1>1, <1>3, <1>5, <1>6 DEF t

-----------------------------------------------------------------------------
(* What a page does to the state.                                          *)

LEMMA ReadBlocksEffect ==
  ASSUME NEW s \in BookState, NEW page \in Interpretation, NEW n \in Nat
  PROVE  LET r == ReadBlocks(s, page, n)
         IN  /\ r.meta = s.meta /\ r.tocStatus = s.tocStatus /\ r.toc = s.toc
             /\ r.expected = s.expected /\ r.count = s.count
             /\ r.section = Nothing <=> s.section = Nothing
             /\ s.section # Nothing => r.section.tail = TailAfter(s.section.tail, page, n)
<1>1. CASE s.section = Nothing
  BY <1>1 DEF ReadBlocks
<1>2. CASE s.section # Nothing
  <2>1. s.section \in Section
    BY <1>2 DEF BookState
  <2> DEFINE sec == [s.section EXCEPT !.headings = HeadingsAfter(@, page, n),
                                      !.tail = TailAfter(@, page, n)]
  <2>2. ReadBlocks(s, page, n) = [s EXCEPT !.section = sec]
    BY <1>2, <2>1 DEF ReadBlocks, BookState, Section
  <2>3. sec.tail = TailAfter(s.section.tail, page, n)
    BY <2>1 DEF Section
  <2>4. sec \in Section
    <3>1. HeadingsAfter(s.section.headings, page, n) \in Seq([level : 0..6, page : Nat])
      BY <2>1, HeadingsAfterType DEF Section
    <3>2. TailAfter(s.section.tail, page, n) \in Nat
      BY <2>1 DEF Section, TailAfter
    <3> QED BY <2>1, <3>1, <3>2 DEF Section
  <2> HIDE DEF sec
  <2> QED BY <1>2, <2>2, <2>3, <2>4, NothingAssumption DEF BookState
<1> QED BY <1>1, <1>2

LEMMA OpenSectionEffect ==
  ASSUME NEW s \in BookState, NEW page \in Interpretation, NEW n \in Nat
  PROVE  LET r == OpenSection(s, page, n)
         IN  /\ r \in BookState
             /\ r.meta = s.meta /\ r.tocStatus = s.tocStatus /\ r.toc = s.toc
             /\ r.expected = IF s.tocStatus = "committed" THEN s.expected + 1 ELSE s.expected
             /\ r.count = s.count /\ r.section # Nothing /\ r.section.tail = 0
<1> DEFINE sec == [title |-> ObservedTitle(page), tocIndex |-> s.expected,
                   startedOn |-> n, headings |-> <<>>, tail |-> 0]
           expected == IF s.tocStatus = "committed" THEN s.expected + 1 ELSE s.expected
<1>1. sec \in Section /\ sec.tail = 0 /\ expected \in Nat
  <2>1. ObservedTitle(page) \in Title \cup {Empty, Nothing}
    BY ObservedTitleType
  <2> QED BY <2>1 DEF Section, BookState
<1>2. OpenSection(s, page, n) = [s EXCEPT !.section = sec, !.expected = expected]
  BY DEF OpenSection, BookState
<1>3. expected = IF s.tocStatus = "committed" THEN s.expected + 1 ELSE s.expected
  OBVIOUS
<1> HIDE DEF sec, expected
<1> QED BY <1>1, <1>2, <1>3, NothingAssumption DEF BookState

\* A TOC page in front of the book only adds its entries.
LEMMA TocPageEffect ==
  ASSUME NEW s \in BookState, NEW page \in Interpretation, NEW n \in Nat,
         page.type = "toc", s.tocStatus \in {"not_seen", "collecting"}
  PROVE  LET t == Apply(s, page, n)
         IN  /\ t.meta = MergeMeta(s.meta, page.meta) /\ t.tocStatus = "collecting"
             /\ t.toc = s.toc \o page.toc /\ t.expected = s.expected /\ t.count = n
             /\ t.section = s.section
BY DEF Apply, ApplyToc, BookState

\* Every other page.
LEMMA PageEffect ==
  ASSUME NEW s \in BookState, NEW page \in Interpretation, NEW n \in Nat,
         page.type # "toc"
  PROVE  LET t == Apply(s, page, n)
             opens == page.type = "chapter_opening"
         IN  /\ t.meta = MergeMeta(s.meta, page.meta) /\ t.toc = s.toc /\ t.count = n
             /\ t.tocStatus = IF /\ s.tocStatus = "not_seen"
                                 /\ page.type \in {"chapter_opening", "body"}
                              THEN "absent" ELSE s.tocStatus
             /\ t.expected = IF opens /\ s.tocStatus = "committed"
                             THEN s.expected + 1 ELSE s.expected
             /\ t.section = Nothing <=> ~ opens /\ s.section = Nothing
             /\ t.section # Nothing =>
                  t.section.tail = TailAfter(IF opens THEN 0 ELSE s.section.tail, page, n)
<1> DEFINE noted == [s EXCEPT !.meta = MergeMeta(@, page.meta),
                              !.previous = page.type, !.count = n]
           settled == IF /\ noted.tocStatus = "not_seen"
                         /\ page.type \in {"chapter_opening", "body"}
                      THEN [noted EXCEPT !.tocStatus = "absent"] ELSE noted
           begun == IF page.type = "chapter_opening"
                    THEN OpenSection(settled, page, n) ELSE settled
<1>1. noted \in BookState
  <2>1. page.type \in PageType /\ page.meta \in [Field -> {Nothing} \cup STRING]
    BY DEF Interpretation, Metadata
  <2>2. MergeMeta(s.meta, page.meta) \in Metadata
    BY <2>1 DEF MergeMeta, BookState, Metadata
  <2> QED BY <2>1, <2>2 DEF BookState
<1>2. /\ settled \in BookState
      /\ settled.meta = MergeMeta(s.meta, page.meta) /\ settled.toc = s.toc
      /\ settled.count = n /\ settled.expected = s.expected /\ settled.section = s.section
      /\ settled.tocStatus = IF /\ s.tocStatus = "not_seen"
                                /\ page.type \in {"chapter_opening", "body"}
                             THEN "absent" ELSE s.tocStatus
  BY <1>1 DEF BookState, TocStatus
<1>3. Apply(s, page, n) = ReadBlocks(begun, page, n)
  BY DEF Apply
<1> HIDE DEF noted, settled
<1>4. CASE page.type = "chapter_opening"
  <2>1. begun = OpenSection(settled, page, n)
    BY <1>4
  <2> HIDE DEF begun
  <2>2. /\ begun \in BookState /\ begun.meta = settled.meta
        /\ begun.tocStatus = settled.tocStatus /\ begun.toc = settled.toc
        /\ begun.expected = IF settled.tocStatus = "committed" THEN settled.expected + 1
                            ELSE settled.expected
        /\ begun.count = settled.count /\ begun.section # Nothing /\ begun.section.tail = 0
    BY <1>2, <2>1, OpenSectionEffect
  <2>3. LET r == ReadBlocks(begun, page, n)
        IN  /\ r.meta = begun.meta /\ r.tocStatus = begun.tocStatus /\ r.toc = begun.toc
            /\ r.expected = begun.expected /\ r.count = begun.count
            /\ r.section # Nothing
            /\ r.section.tail = TailAfter(0, page, n)
    BY <2>2, ReadBlocksEffect
  <2> QED BY <1>2, <1>3, <1>4, <2>2, <2>3
<1>5. CASE page.type # "chapter_opening"
  <2>1. begun = settled
    BY <1>5
  <2> HIDE DEF begun
  <2>2. LET r == ReadBlocks(settled, page, n)
        IN  /\ r.meta = settled.meta /\ r.tocStatus = settled.tocStatus
            /\ r.toc = settled.toc /\ r.expected = settled.expected
            /\ r.count = settled.count
            /\ r.section = Nothing <=> settled.section = Nothing
            /\ settled.section # Nothing =>
                 r.section.tail = TailAfter(settled.section.tail, page, n)
    BY <1>2, ReadBlocksEffect
  <2> QED BY <1>2, <1>3, <1>5, <2>1, <2>2
<1> QED BY <1>4, <1>5

\* Closing the TOC changes its status alone.
LEMMA FinalizeEffect ==
  ASSUME NEW s \in BookState, NEW page
  PROVE  LET j == FinalizeToc(s, page)
         IN  /\ j.meta = s.meta /\ j.toc = s.toc /\ j.expected = s.expected
             /\ j.section = s.section /\ j.count = s.count
             /\ j.tocStatus = IF s.tocStatus = "collecting" /\ page.type # "toc"
                              THEN IF s.toc = <<>> THEN "absent" ELSE "committed"
                              ELSE s.tocStatus
BY DEF FinalizeToc, BookState

=============================================================================
