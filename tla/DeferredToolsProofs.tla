------------------------- MODULE DeferredToolsProofs -------------------------
(***************************************************************************)
(* What an inference is sent, proved for every catalogue, every split into *)
(* visible and deferred tools, every query and every bound.                *)
(*                                                                         *)
(* The filters and the surfacing of a turn are recursive functions.  What  *)
(* they compute is found by induction over the natural numbers, stated     *)
(* here for a set of numbers rather than for a predicate: a least element  *)
(* of the complement (WFMin) is the first counterexample.                  *)
(***************************************************************************)
EXTENDS DeferredTools, SequenceTheorems, FiniteSetTheorems, FunctionTheorems,
        WellFoundedInduction, TLAPS

\* A set of natural numbers with an element has a least one.
LEMMA LeastElement ==
    ASSUME NEW T, T \subseteq Nat, T # {}
    PROVE  \E x \in T : \A y \in T : ~ (y < x)
<1>1. PICK x \in T : \A y \in T : ~ (<<y, x>> \in OpToRel(<, Nat))
  BY NatLessThanWellFounded, WFMin, Zenon
<1>. QED
  BY <1>1 DEF OpToRel

\* Induction: a set that holds 0, and n + 1 with each n, holds every number.
LEMMA SetInduction ==
    ASSUME NEW I, 0 \in I, \A n \in Nat : n \in I => n + 1 \in I
    PROVE  Nat \subseteq I
<1>. SUFFICES ASSUME Nat \ I # {} PROVE FALSE
  OBVIOUS
<1>1. PICK x \in Nat \ I : \A y \in Nat \ I : ~ (y < x)
  <2>. DEFINE T == Nat \ I
  <2>1. T \subseteq Nat /\ T # {}
    OBVIOUS
  <2>. QED
    BY <2>1, LeastElement
<1>2. x # 0
  OBVIOUS
<1>3. x - 1 \in Nat /\ x - 1 < x /\ (x - 1) + 1 = x
  BY <1>2
<1>. QED
  BY <1>1, <1>3

\* Iterating given steps defines a function: what a loop has computed after
\* each round.
LEMMA Iterates ==
    ASSUME NEW A, NEW a \in A, NEW step \in [Nat -> [A -> A]], NEW N \in Nat
    PROVE  \E f \in [0..N -> A] :
             /\ f[0] = a
             /\ \A n \in 1..N : f[n] = step[n][f[n - 1]]
<1>. DEFINE Run(f, m) == f[0] = a /\ \A n \in 1..m : f[n] = step[n][f[n - 1]]
            I == {m \in Nat : \E f \in [0..m -> A] : Run(f, m)}
<1>1. 0 \in I
  <2>1. [i \in 0..0 |-> a] \in [0..0 -> A] /\ Run([i \in 0..0 |-> a], 0)
    OBVIOUS
  <2>. QED
    BY <2>1
<1>2. ASSUME NEW m \in Nat, m \in I PROVE m + 1 \in I
  <2>1. PICK f \in [0..m -> A] : Run(f, m)
    BY <1>2
  <2>. DEFINE g == [i \in 0..(m + 1) |-> IF i = m + 1 THEN step[m + 1][f[m]] ELSE f[i]]
  <2>2. g \in [0..(m + 1) -> A]
    OBVIOUS
  <2>3. g[0] = a
    BY <2>1
  <2>4. ASSUME NEW n \in 1..(m + 1) PROVE g[n] = step[n][g[n - 1]]
    <3>1. CASE n = m + 1
      BY <3>1
    <3>2. CASE n # m + 1
      <4>1. n \in 1..m /\ n \in 0..m /\ n - 1 \in 0..m
        BY <3>2
      <4>. QED
        BY <4>1, <2>1
    <3>. QED
      BY <3>1, <3>2
  <2>5. Run(g, m + 1)
    BY <2>3, <2>4
  <2>. HIDE DEF g, Run
  <2>. QED
    BY <2>2, <2>5
<1>3. N \in I
  <2>. HIDE DEF I
  <2>. QED
    BY <1>1, <1>2, SetInduction
<1>. QED
  BY <1>3

-----------------------------------------------------------------------------
(* The filters *)

\* The catalogue is a finite list of names.
LEMMA DefinitionsType ==
    /\ Definitions \in Seq(Names)
    /\ Len(Definitions) \in Nat
    /\ DOMAIN Definitions = 1..Len(Definitions)
    /\ \A n \in 1..Len(Definitions) : Definitions[n] \in Names
  BY ToolsAssumption, LenProperties, ElementOfSeq

\* The recursive function in InOrder exists, and is the loop it looks like.
LEMMA InOrderUnfolds ==
    ASSUME NEW S
    PROVE  \E f \in [0..Len(Definitions) -> Seq(Names)] :
             /\ f[0] = <<>>
             /\ \A n \in 1..Len(Definitions) :
                  f[n] = IF Definitions[n] \in S THEN Append(f[n - 1], Definitions[n])
                                                 ELSE f[n - 1]
             /\ InOrder(S) = f[Len(Definitions)]
<1>. DEFINE N == Len(Definitions)
            Keeps(x, n) == IF Definitions[n] \in S THEN Append(x, Definitions[n]) ELSE x
            Unfolds(f) == f = [n \in 0..N |-> IF n = 0 THEN <<>>
                                 ELSE IF Definitions[n] \in S THEN Append(f[n - 1], Definitions[n])
                                 ELSE f[n - 1]]
            step == [n \in Nat |-> [x \in Seq(Names) |-> IF n \in 1..N THEN Keeps(x, n) ELSE x]]
<1>1. step \in [Nat -> [Seq(Names) -> Seq(Names)]]
  BY DefinitionsType, AppendProperties
<1>2. PICK f \in [0..N -> Seq(Names)] :
           f[0] = <<>> /\ \A n \in 1..N : f[n] = step[n][f[n - 1]]
  <2>. DEFINE A == Seq(Names)
              a == <<>>
  <2>1. a \in A /\ N \in Nat /\ step \in [Nat -> [A -> A]]
    BY <1>1, EmptySeq, DefinitionsType
  <2>. HIDE DEF step, N, A, a
  <2>2. \E f \in [0..N -> A] : f[0] = a /\ \A n \in 1..N : f[n] = step[n][f[n - 1]]
    BY <2>1, Iterates
  <2>. QED
    BY <2>2 DEF A, a
<1>3. ASSUME NEW n \in 1..N PROVE f[n] = Keeps(f[n - 1], n)
  <2>1. n \in Nat /\ n - 1 \in 0..N
    BY DefinitionsType
  <2>2. f[n - 1] \in Seq(Names)
    BY <2>1
  <2>3. f[n] = step[n][f[n - 1]]
    BY <1>2
  <2>4. step[n][f[n - 1]] = Keeps(f[n - 1], n)
    <3>. HIDE DEF Keeps, N
    <3>. QED
      BY <2>1, <2>2
  <2>. QED
    BY <2>3, <2>4
<1>4. Unfolds(f)
  <2>. DEFINE u == [n \in 0..N |-> IF n = 0 THEN <<>> ELSE Keeps(f[n - 1], n)]
  <2>1. ASSUME NEW n \in 0..N PROVE f[n] = u[n]
    <3>1. CASE n = 0
      BY <1>2, <3>1
    <3>2. CASE n # 0
      <4>1. n \in 1..N
        BY <3>2, DefinitionsType
      <4>. QED
        BY <1>3, <3>2, <4>1
    <3>. QED
      BY <3>1, <3>2
  <2>2. f = u
    <3>. HIDE DEF Keeps, N
    <3>. QED
      BY <2>1
  <2>. QED
    BY <2>2
<1>5. PICK g : Unfolds(g) /\ InOrder(S) = g[N]
  <2>. DEFINE g == CHOOSE h : Unfolds(h)
  <2>1. Unfolds(g)
    <3>. HIDE DEF Unfolds
    <3>. QED
      BY <1>4
  <2>2. InOrder(S) = g[N]
    BY DEF InOrder
  <2>. QED
    BY <2>1, <2>2
<1>6. \A n \in 0..N : g[n] = f[n]
  <2>. DEFINE I == {n \in Nat : n \in 0..N => g[n] = f[n]}
  <2>1. 0 \in I
    BY <1>2, <1>5, DefinitionsType
  <2>2. ASSUME NEW n \in Nat, n \in I PROVE n + 1 \in I
    <3>. SUFFICES ASSUME n + 1 \in 0..N PROVE g[n + 1] = f[n + 1]
      OBVIOUS
    <3>1. n \in 0..N /\ n + 1 # 0 /\ (n + 1) - 1 = n /\ n + 1 \in 1..N
      BY DefinitionsType
    <3>2. g[n] = f[n]
      BY <2>2, <3>1
    <3>3. g[n + 1] = IF Definitions[n + 1] \in S THEN Append(g[n], Definitions[n + 1]) ELSE g[n]
      BY <1>5, <3>1
    <3>. QED
      BY <1>3, <3>1, <3>2, <3>3
  <2>3. Nat \subseteq I
    <3>. HIDE DEF I
    <3>. QED
      BY <2>1, <2>2, SetInduction
  <2>. QED
    BY <2>3, DefinitionsType
<1>7. InOrder(S) = f[N]
  BY <1>5, <1>6, DefinitionsType
<1>. QED
  BY <1>2, <1>3, <1>7

\* Appending an element: the values, and no repetition.
LEMMA AppendFacts ==
    ASSUME NEW S, NEW s \in Seq(S), NEW e \in S
    PROVE  /\ Append(s, e) \in Seq(S)
           /\ Range(Append(s, e)) = Range(s) \cup {e}
           /\ IsInjective(s) /\ e \notin Range(s) => IsInjective(Append(s, e))
<1>1. /\ Append(s, e) \in Seq(S) /\ Len(Append(s, e)) = Len(s) + 1
      /\ \A i \in 1..Len(s) : Append(s, e)[i] = s[i]
      /\ Append(s, e)[Len(s) + 1] = e
      /\ Len(s) \in Nat /\ DOMAIN s = 1..Len(s)
      /\ DOMAIN Append(s, e) = 1..(Len(s) + 1)
  BY AppendProperties, LenProperties
<1>. DEFINE t == Append(s, e)
<1>. HIDE DEF t
<1>2. Range(t) = Range(s) \cup {e}
  BY <1>1 DEF Range, t
<1>3. ASSUME IsInjective(s), e \notin Range(s) PROVE IsInjective(t)
  BY <1>1, <1>3 DEF IsInjective, Range, t
<1>. QED
  BY <1>1, <1>2, <1>3 DEF t

\* A filter of the catalogue (selectByPatterns, the constructor) keeps exactly
\* the names it is asked for, each once.
LEMMA InOrderKeeps ==
    ASSUME NEW S
    PROVE  /\ InOrder(S) \in Seq(Names \cap S)
           /\ Range(InOrder(S)) = Names \cap S
           /\ IsInjective(InOrder(S))
<1>. DEFINE N == Len(Definitions)
<1>1. PICK f \in [0..N -> Seq(Names)] :
             /\ f[0] = <<>>
             /\ \A n \in 1..N :
                  f[n] = IF Definitions[n] \in S THEN Append(f[n - 1], Definitions[n])
                                                 ELSE f[n - 1]
             /\ InOrder(S) = f[N]
  BY InOrderUnfolds
<1>. DEFINE Seen(n) == {Definitions[i] : i \in 1..n} \cap S
            I == {n \in Nat : n \in 0..N => Range(f[n]) = Seen(n) /\ IsInjective(f[n])}
<1>2. 0 \in I
  BY <1>1 DEF Range, IsInjective
<1>3. ASSUME NEW n \in Nat, n \in I PROVE n + 1 \in I
  <2>. SUFFICES ASSUME n + 1 \in 0..N
                PROVE  Range(f[n + 1]) = Seen(n + 1) /\ IsInjective(f[n + 1])
    OBVIOUS
  <2>. DEFINE d == Definitions[n + 1]
  <2>1. n \in 0..N /\ (n + 1) - 1 = n /\ n + 1 \in 1..N /\ d \in Names
    BY DefinitionsType
  <2>2. Range(f[n]) = Seen(n) /\ IsInjective(f[n]) /\ f[n] \in Seq(Names)
    BY <1>1, <1>3, <2>1
  <2>3. f[n + 1] = IF d \in S THEN Append(f[n], d) ELSE f[n]
    BY <1>1, <2>1
  <2>4. d \notin {Definitions[i] : i \in 1..n}
    <3>. SUFFICES ASSUME NEW i \in 1..n, Definitions[i] = d PROVE FALSE
      OBVIOUS
    <3>1. i \in DOMAIN Definitions /\ n + 1 \in DOMAIN Definitions /\ i # n + 1
      BY DefinitionsType, <2>1
    <3>. QED
      BY <3>1, ToolsAssumption DEF IsInjective
  <2>5. {Definitions[i] : i \in 1..(n + 1)} = {Definitions[i] : i \in 1..n} \cup {d}
    BY <2>1
  <2>. HIDE DEF d
  <2>6. CASE d \in S
    <3>1. Seen(n + 1) = Seen(n) \cup {d}
      BY <2>5, <2>6
    <3>2. d \notin Range(f[n])
      BY <2>2, <2>4
    <3>. QED
      BY <2>1, <2>2, <2>3, <2>6, <3>1, <3>2, AppendFacts
  <2>7. CASE d \notin S
    BY <2>2, <2>3, <2>5, <2>7
  <2>. QED
    BY <2>6, <2>7
<1>4. N \in I
  <2>. HIDE DEF I
  <2>. QED
    BY <1>2, <1>3, SetInduction, DefinitionsType
<1>5. Range(f[N]) = Names \cap S
  <2>1. Range(f[N]) = Seen(N)
    BY <1>4, DefinitionsType
  <2>2. {Definitions[i] : i \in 1..N} = Names
    BY DefinitionsType DEF Names, Range
  <2>. QED
    BY <2>1, <2>2
<1>6. InOrder(S) \in Seq(Names \cap S)
  BY <1>1, <1>5, DefinitionsType, SeqOfRange
<1>. QED
  BY <1>1, <1>4, <1>5, <1>6, DefinitionsType

-----------------------------------------------------------------------------
(* Surfacing *)

\* A prefix, position by position.
LEMMA PrefixPointwise ==
    ASSUME NEW S, NEW s \in Seq(S), NEW t \in Seq(S)
    PROVE  IsPrefix(s, t) <=> /\ Len(s) <= Len(t)
                              /\ \A i \in 1..Len(s) : s[i] = t[i]
<1>1. Len(s) \in Nat /\ Len(t) \in Nat
  BY LenProperties
<1>2. SubSeq(s, 1, Len(s)) = s
  BY SubSeqFull
<1>3. ASSUME Len(s) <= Len(t)
      PROVE  /\ SubSeq(t, 1, Len(s)) \in Seq(S)
             /\ Len(SubSeq(t, 1, Len(s))) = Len(s)
             /\ \A i \in 1..Len(s) : SubSeq(t, 1, Len(s))[i] = t[i]
  <2>1. \A i \in 1..Len(s) : t[i] \in S
    BY <1>1, <1>3, ElementOfSeq
  <2>. DEFINE n == Len(s)
  <2>2. n \in Int /\ 1 \in Int /\ (IF 1 <= n THEN n - 1 + 1 ELSE 0) = n
    BY <1>1
  <2>3. /\ SubSeq(t, 1, n) \in Seq(S)
        /\ Len(SubSeq(t, 1, n)) = n
        /\ \A i \in 1..(n - 1 + 1) : SubSeq(t, 1, n)[i] = t[1 + i - 1]
    <3>. HIDE DEF n
    <3>. QED
      BY <2>1, <2>2, SubSeqProperties DEF n
  <2>4. n - 1 + 1 = n /\ \A i \in 1..n : 1 + i - 1 = i
    BY <1>1
  <2>. QED
    BY <2>3, <2>4
<1>4. ASSUME Len(s) <= Len(t), \A i \in 1..Len(s) : s[i] = t[i]
      PROVE  SubSeq(t, 1, Len(s)) = s
  BY <1>3, <1>4, SeqEqual
<1>. QED
  BY <1>2, <1>3, <1>4 DEF IsPrefix

\* A sequence is a prefix of itself.
LEMMA PrefixReflexive ==
    ASSUME NEW S, NEW s \in Seq(S)
    PROVE  IsPrefix(s, s)
  BY PrefixPointwise, LenProperties

\* A prefix of a prefix is a prefix.
LEMMA PrefixTransitive ==
    ASSUME NEW S, NEW s \in Seq(S), NEW t \in Seq(S), NEW u \in Seq(S),
           IsPrefix(s, t), IsPrefix(t, u)
    PROVE  IsPrefix(s, u)
<1>1. Len(s) \in Nat /\ Len(t) \in Nat /\ Len(u) \in Nat
  BY LenProperties
<1>2. Len(s) <= Len(t) /\ \A i \in 1..Len(s) : s[i] = t[i]
  BY PrefixPointwise
<1>3. Len(t) <= Len(u) /\ \A i \in 1..Len(t) : t[i] = u[i]
  BY PrefixPointwise
<1>4. Len(s) <= Len(u) /\ \A i \in 1..Len(s) : s[i] = u[i]
  BY <1>1, <1>2, <1>3
<1>. QED
  BY <1>4, PrefixPointwise

\* Concatenation: the values, the prefix, and no repetition when the parts
\* share nothing.
LEMMA ConcatFacts ==
    ASSUME NEW S, NEW s \in Seq(S), NEW t \in Seq(S)
    PROVE  /\ s \o t \in Seq(S)
           /\ Range(s \o t) = Range(s) \cup Range(t)
           /\ IsPrefix(s, s \o t)
           /\ IsInjective(s) /\ IsInjective(t) /\ Range(s) \cap Range(t) = {}
                => IsInjective(s \o t)
<1>. DEFINE u == s \o t
<1>1. /\ u \in Seq(S) /\ Len(u) = Len(s) + Len(t)
      /\ \A i \in 1..Len(s) + Len(t) : u[i] = IF i <= Len(s) THEN s[i] ELSE t[i - Len(s)]
  BY ConcatProperties
<1>2. /\ Len(s) \in Nat /\ Len(t) \in Nat
      /\ DOMAIN s = 1..Len(s) /\ DOMAIN t = 1..Len(t) /\ DOMAIN u = 1..(Len(s) + Len(t))
  BY <1>1, LenProperties
<1>3. Range(u) = Range(s) \cup Range(t)
  BY RangeConcatenation
<1>. HIDE DEF u
<1>4. \A i \in 1..Len(s) : s[i] = u[i]
  BY <1>1, <1>2
<1>5. IsPrefix(s, u)
  BY <1>1, <1>2, <1>4, PrefixPointwise
<1>6. ASSUME IsInjective(s), IsInjective(t), Range(s) \cap Range(t) = {}
      PROVE  IsInjective(u)
  <2>. SUFFICES ASSUME NEW i \in DOMAIN u, NEW j \in DOMAIN u, u[i] = u[j], i <= j
                PROVE  i = j
    BY <1>2 DEF IsInjective
  <2>1. CASE j <= Len(s)
    <3>1. i \in DOMAIN s /\ j \in DOMAIN s /\ s[i] = s[j]
      BY <1>1, <1>2, <2>1
    <3>. QED
      BY <1>6, <3>1 DEF IsInjective
  <2>2. CASE i > Len(s)
    <3>1. i - Len(s) \in DOMAIN t /\ j - Len(s) \in DOMAIN t /\ t[i - Len(s)] = t[j - Len(s)]
      BY <1>1, <1>2, <2>2
    <3>2. i - Len(s) = j - Len(s)
      BY <1>6, <3>1 DEF IsInjective
    <3>. QED
      BY <1>2, <3>2
  <2>3. CASE i <= Len(s) /\ j > Len(s)
    <3>1. i \in DOMAIN s /\ j - Len(s) \in DOMAIN t /\ s[i] = t[j - Len(s)]
      BY <1>1, <1>2, <2>3
    <3>2. s[i] \in Range(s) \cap Range(t)
      BY <3>1 DEF Range
    <3>. QED
      BY <1>6, <3>2
  <2>. QED
    BY <1>2, <2>1, <2>2, <2>3
<1>. QED
  BY <1>1, <1>3, <1>5, <1>6 DEF u

\* What the surfaced list may be: deferred names, none twice.
Surfacings == {s \in Seq(DeferredNames) : IsInjective(s)}

\* The deferred definitions are those of the deferred names.
LEMMA DeferredRange == Deferred \in Seq(DeferredNames) /\ Range(Deferred) = DeferredNames
<1>1. Names \cap DeferredNames = DeferredNames
  BY ToolsAssumption
<1>. QED
  BY <1>1, InOrderKeeps DEF Deferred

\* surface() appends, repeats nothing and leaves no match of the query out.
LEMMA SurfaceGrows ==
    ASSUME NEW s \in Surfacings, NEW q
    PROVE  /\ Surface(s, q) \in Surfacings
           /\ IsPrefix(s, Surface(s, q))
           /\ Range(s) \subseteq Range(Surface(s, q))
           /\ Matches(q) \subseteq Range(Surface(s, q))
<1>. DEFINE hit == {NamespaceOf[t] : t \in Matches(q)}
            More == {t \in Range(Deferred) \ Range(s) : NamespaceOf[t] \in hit}
            more == InOrder(More)
<1>1. More \subseteq DeferredNames /\ More \cap Range(s) = {}
  BY DeferredRange
<1>2. Names \cap More = More
  BY <1>1, ToolsAssumption
<1>3. Matches(q) \subseteq Range(s) \cup More
  BY DEF Matches
<1>4. Surface(s, q) = s \o more
  BY DEF Surface
<1>. HIDE DEF More
<1>5. more \in Seq(More) /\ Range(more) = More /\ IsInjective(more)
  BY <1>2, InOrderKeeps
<1>. HIDE DEF more
<1>6. more \in Seq(DeferredNames)
  BY <1>1, <1>5, SeqMonotonic
<1>7. s \in Seq(DeferredNames) /\ IsInjective(s)
  BY DEF Surfacings
<1>8. Range(s) \cap Range(more) = {}
  BY <1>1, <1>5
<1>9. /\ s \o more \in Seq(DeferredNames) /\ Range(s \o more) = Range(s) \cup More
      /\ IsPrefix(s, s \o more) /\ IsInjective(s \o more)
  BY <1>5, <1>6, <1>7, <1>8, ConcatFacts
<1>. QED
  BY <1>3, <1>4, <1>9 DEF Surfacings

\* Iterates, for lists of surfaced tools.
LEMMA SurfacingIterates ==
    ASSUME NEW s \in Surfacings, NEW step \in [Nat -> [Surfacings -> Surfacings]],
           NEW N \in Nat
    PROVE  \E f \in [0..N -> Surfacings] :
             /\ f[0] = s
             /\ \A n \in 1..N : f[n] = step[n][f[n - 1]]
  BY Iterates

\* The recursive function in SurfaceTurn exists, and is the loop of
\* surfaceFromEvent.
LEMMA SurfaceTurnUnfolds ==
    ASSUME NEW s \in Surfacings, NEW blocks \in Seq(Blocks)
    PROVE  \E f \in [0..Len(blocks) -> Surfacings] :
             /\ f[0] = s
             /\ \A n \in 1..Len(blocks) :
                  f[n] = IF blocks[n] = OtherCall THEN f[n - 1]
                                                  ELSE Surface(f[n - 1], QueryOf(blocks[n]))
             /\ SurfaceTurn(s, blocks) = f[Len(blocks)]
<1>. DEFINE N == Len(blocks)
            Step(x, n) == IF blocks[n] = OtherCall THEN x ELSE Surface(x, QueryOf(blocks[n]))
            Unfolds(f) == f = [n \in 0..N |-> IF n = 0 THEN s
                                 ELSE IF blocks[n] = OtherCall THEN f[n - 1]
                                 ELSE Surface(f[n - 1], QueryOf(blocks[n]))]
            step == [n \in Nat |-> [x \in Surfacings |-> IF n \in 1..N THEN Step(x, n) ELSE x]]
<1>0. N \in Nat
  BY LenProperties
<1>1. step \in [Nat -> [Surfacings -> Surfacings]]
  BY SurfaceGrows
<1>2. PICK f \in [0..N -> Surfacings] :
           f[0] = s /\ \A n \in 1..N : f[n] = step[n][f[n - 1]]
  <2>. HIDE DEF step, N
  <2>. QED
    BY <1>0, <1>1, SurfacingIterates
<1>3. ASSUME NEW n \in 1..N PROVE f[n] = Step(f[n - 1], n)
  <2>1. n \in Nat /\ n - 1 \in 0..N
    BY <1>0
  <2>2. f[n - 1] \in Surfacings
    BY <2>1
  <2>3. f[n] = step[n][f[n - 1]]
    BY <1>2
  <2>4. step[n][f[n - 1]] = Step(f[n - 1], n)
    <3>. HIDE DEF Step, N
    <3>. QED
      BY <2>1, <2>2
  <2>. QED
    BY <2>3, <2>4
<1>4. Unfolds(f)
  <2>. DEFINE u == [n \in 0..N |-> IF n = 0 THEN s ELSE Step(f[n - 1], n)]
  <2>1. ASSUME NEW n \in 0..N PROVE f[n] = u[n]
    <3>1. CASE n = 0
      BY <1>2, <3>1
    <3>2. CASE n # 0
      <4>1. n \in 1..N
        BY <1>0, <3>2
      <4>. QED
        BY <1>3, <3>2, <4>1
    <3>. QED
      BY <3>1, <3>2
  <2>2. f = u
    <3>. HIDE DEF Step, N
    <3>. QED
      BY <2>1
  <2>. QED
    BY <2>2
<1>5. PICK g : Unfolds(g) /\ SurfaceTurn(s, blocks) = g[N]
  <2>. DEFINE g == CHOOSE h : Unfolds(h)
  <2>1. Unfolds(g)
    <3>. HIDE DEF Unfolds
    <3>. QED
      BY <1>4
  <2>2. SurfaceTurn(s, blocks) = g[N]
    BY DEF SurfaceTurn
  <2>. QED
    BY <2>1, <2>2
<1>6. \A n \in 0..N : g[n] = f[n]
  <2>. DEFINE I == {n \in Nat : n \in 0..N => g[n] = f[n]}
  <2>1. 0 \in I
    BY <1>0, <1>2, <1>5
  <2>2. ASSUME NEW n \in Nat, n \in I PROVE n + 1 \in I
    <3>. SUFFICES ASSUME n + 1 \in 0..N PROVE g[n + 1] = f[n + 1]
      OBVIOUS
    <3>1. n \in 0..N /\ n + 1 # 0 /\ (n + 1) - 1 = n /\ n + 1 \in 1..N
      BY <1>0
    <3>2. g[n] = f[n]
      BY <2>2, <3>1
    <3>3. g[n + 1] = Step(g[n], n + 1)
      BY <1>5, <3>1
    <3>. QED
      BY <1>3, <3>1, <3>2, <3>3
  <2>3. Nat \subseteq I
    <3>. HIDE DEF I
    <3>. QED
      BY <2>1, <2>2, SetInduction
  <2>. QED
    BY <1>0, <2>3
<1>7. SurfaceTurn(s, blocks) = f[N]
  BY <1>0, <1>5, <1>6
<1>. QED
  BY <1>2, <1>3, <1>7

\* surfaceFromEvent appends, repeats nothing and leaves no match of any of the
\* turn's searches out.
LEMMA TurnGrows ==
    ASSUME NEW s \in Surfacings, NEW blocks \in Seq(Blocks)
    PROVE  /\ SurfaceTurn(s, blocks) \in Surfacings
           /\ IsPrefix(s, SurfaceTurn(s, blocks))
           /\ Range(s) \subseteq Range(SurfaceTurn(s, blocks))
           /\ \A i \in DOMAIN blocks : blocks[i] # OtherCall =>
                Matches(QueryOf(blocks[i])) \subseteq Range(SurfaceTurn(s, blocks))
<1>. DEFINE N == Len(blocks)
<1>1. PICK f \in [0..N -> Surfacings] :
             /\ f[0] = s
             /\ \A n \in 1..N :
                  f[n] = IF blocks[n] = OtherCall THEN f[n - 1]
                                                  ELSE Surface(f[n - 1], QueryOf(blocks[n]))
             /\ SurfaceTurn(s, blocks) = f[N]
  BY SurfaceTurnUnfolds
<1>2. N \in Nat /\ DOMAIN blocks = 1..N
  BY LenProperties
<1>. DEFINE Holds(n) == /\ IsPrefix(s, f[n])
                        /\ Range(s) \subseteq Range(f[n])
                        /\ \A i \in 1..n : blocks[i] # OtherCall =>
                             Matches(QueryOf(blocks[i])) \subseteq Range(f[n])
            I == {n \in Nat : n \in 0..N => Holds(n)}
<1>3. 0 \in I
  BY <1>1, PrefixReflexive DEF Surfacings
<1>4. ASSUME NEW n \in Nat, n \in I PROVE n + 1 \in I
  <2>. SUFFICES ASSUME n + 1 \in 0..N PROVE Holds(n + 1)
    OBVIOUS
  <2>1. n \in 0..N /\ (n + 1) - 1 = n /\ n + 1 \in 1..N
    BY <1>2
  <2>2. f[n] \in Surfacings /\ f[n + 1] \in Surfacings
    BY <1>1, <2>1
  <2>3. Holds(n)
    BY <1>4, <2>1
  <2>. DEFINE b == blocks[n + 1]
  <2>4. f[n + 1] = IF b = OtherCall THEN f[n] ELSE Surface(f[n], QueryOf(b))
    BY <1>1, <2>1
  <2>5. /\ IsPrefix(f[n], f[n + 1]) /\ Range(f[n]) \subseteq Range(f[n + 1])
        /\ b # OtherCall => Matches(QueryOf(b)) \subseteq Range(f[n + 1])
    <3>1. CASE b = OtherCall
      BY <2>2, <2>4, <3>1, PrefixReflexive DEF Surfacings
    <3>2. CASE b # OtherCall
      BY <2>2, <2>4, <3>2, SurfaceGrows
    <3>. QED
      BY <3>1, <3>2
  <2>6. IsPrefix(s, f[n + 1])
    BY <2>2, <2>3, <2>5, PrefixTransitive DEF Surfacings
  <2>7. ASSUME NEW i \in 1..(n + 1), blocks[i] # OtherCall
        PROVE  Matches(QueryOf(blocks[i])) \subseteq Range(f[n + 1])
    <3>1. CASE i = n + 1
      BY <2>5, <2>7, <3>1
    <3>2. CASE i # n + 1
      <4>1. i \in 1..n
        BY <3>2
      <4>. QED
        BY <2>3, <2>5, <2>7, <4>1
    <3>. QED
      BY <3>1, <3>2
  <2>. QED
    BY <2>3, <2>5, <2>6, <2>7
<1>5. Holds(N)
  <2>1. N \in I
    <3>. HIDE DEF I, N
    <3>. QED
      BY <1>2, <1>3, <1>4, SetInduction
  <2>. QED
    BY <1>2, <2>1
<1>. QED
  BY <1>1, <1>2, <1>5

\* The fixed block repeats nothing and holds no deferred tool.
LEMMA AlwaysFacts ==
    /\ Always \in Seq(Names \cup {ToolSearch})
    /\ IsInjective(Always)
    /\ Range(Always) \cap DeferredNames = {}
<1>. DEFINE Plain == Names \ (DeferredNames \cup {ToolSearch})
            plain == InOrder(Plain)
<1>1. Names \cap Plain = Plain
  OBVIOUS
<1>2. plain \in Seq(Plain) /\ Range(plain) = Plain /\ IsInjective(plain)
  BY <1>1, InOrderKeeps
<1>. HIDE DEF plain
<1>3. plain \in Seq(Names \cup {ToolSearch})
  BY <1>2, SeqMonotonic
<1>4. /\ Append(plain, ToolSearch) \in Seq(Names \cup {ToolSearch})
      /\ Range(Append(plain, ToolSearch)) = Plain \cup {ToolSearch}
      /\ IsInjective(Append(plain, ToolSearch))
  BY <1>2, <1>3, AppendFacts
<1>. QED
  BY <1>4, ToolsAssumption DEF Always, plain

\* tools() repeats nothing and holds every surfaced tool.
LEMMA ToolsFacts ==
    ASSUME surfaced \in Surfacings
    PROVE  /\ Tools \in Seq(Names \cup {ToolSearch})
           /\ IsInjective(Tools)
           /\ Range(surfaced) \subseteq Range(Tools)
<1>. DEFINE All == Names \cup {ToolSearch}
<1>1. surfaced \in Seq(All) /\ Range(surfaced) \subseteq DeferredNames /\ IsInjective(surfaced)
  BY ToolsAssumption, SeqMonotonic, RangeOfSeq DEF Surfacings
<1>2. Always \in Seq(All) /\ IsInjective(Always) /\ Range(Always) \cap Range(surfaced) = {}
  BY <1>1, AlwaysFacts
<1>. HIDE DEF All
<1>3. /\ Always \o surfaced \in Seq(All) /\ IsInjective(Always \o surfaced)
      /\ Range(Always \o surfaced) = Range(Always) \cup Range(surfaced)
  BY <1>1, <1>2, ConcatFacts
<1>. QED
  BY <1>3 DEF Tools, All

-----------------------------------------------------------------------------
(* The inductive invariant *)

\* Types, with what the surfaced list and the last request never do.
Types ==
    /\ phase \in {"down", "waiting", "inferring", "executing"}
    /\ catalog \in {<<>>, Deferred}
    /\ surfaced \in Surfacings
    /\ sent \in Seq(Names \cup {ToolSearch}) /\ IsInjective(sent)
    /\ calls \in UNION {[1..n -> Blocks] : n \in 0..MaxCalls}
    /\ parked \subseteq (1..MaxTurns) \X (1..MaxCalls) \X Blocks
    /\ IsFiniteSet(parked) /\ Cardinality(parked) <= MaxParked
    /\ found \subseteq Range(surfaced)
    /\ turns \in 0..MaxTurns /\ born \in 0..turns /\ respawns \in 0..MaxRespawns

\* What the call b searches for has been surfaced in this child.
Surfaced(b) == b # OtherCall => Matches(QueryOf(b)) \subseteq Range(surfaced)

\* How the director's state relates to the calls: a call of this child, being
\* executed or parked, was surfaced when its turn was taken, and a call parked in
\* an earlier child is told by its turn.
Kept ==
    /\ phase = "down" => surfaced = <<>> /\ found = {} /\ born = turns
    /\ phase = "inferring" => sent = Tools
    /\ phase = "executing" => turns > 0 /\ \A i \in DOMAIN calls : Surfaced(calls[i])
    /\ \A p \in parked : p[1] <= turns /\ (p[1] > born => Surfaced(p[3]))

IInv == Types /\ Kept

\* The bounds are numbers.
LEMMA Bounds == MaxTurns \in Nat /\ MaxCalls \in Nat /\ MaxRespawns \in Nat /\ MaxParked \in Nat
  BY ToolsAssumption

\* Nothing surfaced yet.
LEMMA EmptySurfacing == <<>> \in Surfacings /\ Range(<<>>) = {}
  BY EmptySeq DEF Surfacings, IsInjective, Range

\* The first state satisfies the invariant.
LEMMA InitInv == Init => IInv
<1>. SUFFICES ASSUME Init PROVE IInv
  OBVIOUS
<1>1. calls \in UNION {[1..n -> Blocks] : n \in 0..MaxCalls}
  <2>1. <<>> \in [1..0 -> Blocks] /\ 0 \in 0..MaxCalls
    BY Bounds
  <2>. QED
    BY <2>1 DEF Init
<1>2. sent \in Seq(Names \cup {ToolSearch}) /\ IsInjective(sent)
  BY EmptySeq DEF Init, IsInjective
<1>3. IsFiniteSet(parked) /\ Cardinality(parked) <= MaxParked
  BY FS_EmptySet, Bounds DEF Init
<1>4. Types
  BY <1>1, <1>2, <1>3, EmptySurfacing, Bounds DEF Init, Types
<1>5. Kept
  BY DEF Init, Kept
<1>. QED
  BY <1>4, <1>5 DEF IInv

\* The calls of a turn are a finite list of blocks.
LEMMA CallsAreBlocks ==
    ASSUME NEW s \in UNION {[1..n -> Blocks] : n \in 0..MaxCalls}
    PROVE  s \in Seq(Blocks) /\ DOMAIN s \subseteq 1..MaxCalls /\ IsFiniteSet(DOMAIN s)
<1>1. PICK n \in 0..MaxCalls : s \in [1..n -> Blocks]
  OBVIOUS
<1>2. n \in Nat /\ n <= MaxCalls /\ DOMAIN s = 1..n
  BY <1>1, Bounds
<1>3. s \in Seq(Blocks)
  BY <1>1, <1>2
<1>4. IsFiniteSet(1..n)
  BY <1>2, FS_Interval
<1>. QED
  BY <1>2, <1>3, <1>4, Bounds

\* What tool_search would present for a covered call has been surfaced.
LEMMA PresentedIsSurfaced ==
    ASSUME Types, NEW b, Surfaced(b)
    PROVE  Presented(b) \subseteq Range(surfaced)
  BY DEF Presented, Surfaced, QueryOf, Types

\* An inference is sent tools().
LEMMA InferSends ==
    ASSUME Types, Infer
    PROVE  /\ phase' = "inferring"
           /\ sent' \in Seq(Names \cup {ToolSearch}) /\ IsInjective(sent')
           /\ surfaced' = surfaced => sent' = Tools'
<1>1. surfaced \in Surfacings
  BY DEF Types
<1>2. sent' = Tools
  BY DEF Infer
<1>3. surfaced' = surfaced => Tools' = Tools
  BY DEF Tools
<1>. QED
  BY <1>1, <1>2, <1>3, ToolsFacts DEF Infer

\* A director that starts afresh keeps the invariant: nothing has been found,
\* and every parked call is from before.
LEMMA StartDirectorInv == IInv /\ StartDirector => IInv'
<1>. SUFFICES ASSUME IInv, StartDirector PROVE IInv'
  OBVIOUS
<1>1. found = {} /\ born = turns
  BY DEF IInv, Kept, StartDirector
<1>2. Types'
  BY <1>1, EmptySurfacing DEF IInv, Types, StartDirector
<1>3. Kept'
  <2>1. \A p \in parked : p[1] <= turns
    BY DEF IInv, Kept
  <2>2. turns \in Nat /\ \A p \in parked : p[1] \in Nat
    BY Bounds DEF IInv, Types
  <2>3. \A p \in parked : ~ (p[1] > born)
    BY <1>1, <2>1, <2>2
  <2>. QED
    BY <2>1, <2>3 DEF Kept, StartDirector
<1>. QED
  BY <1>2, <1>3 DEF IInv

\* A message keeps the invariant.
LEMMA MessageInv == IInv /\ Message => IInv'
<1>. SUFFICES ASSUME IInv, Message PROVE IInv'
  OBVIOUS
<1>1. Types /\ Infer /\ surfaced' = surfaced
  BY DEF IInv, Message
<1>2. Types'
  BY <1>1, InferSends DEF Types, Message
<1>3. Kept'
  BY <1>1, InferSends DEF IInv, Kept, Surfaced, Message
<1>. QED
  BY <1>2, <1>3 DEF IInv

\* The end of an inference keeps the invariant: the searches of its turn are
\* surfaced before one of them runs.
LEMMA InferenceDoneInv ==
    ASSUME IInv, NEW n \in 0..MaxCalls, NEW blocks \in [1..n -> Blocks], InferenceDone(blocks)
    PROVE  IInv'
<1>1. blocks \in UNION {[1..m -> Blocks] : m \in 0..MaxCalls}
  OBVIOUS
<1>2. blocks \in Seq(Blocks)
  BY <1>1, CallsAreBlocks
<1>3. surfaced \in Surfacings /\ surfaced' = SurfaceTurn(surfaced, blocks)
  BY DEF IInv, Types, InferenceDone
<1>4. /\ surfaced' \in Surfacings /\ Range(surfaced) \subseteq Range(surfaced')
      /\ \A i \in DOMAIN blocks : blocks[i] # OtherCall =>
           Matches(QueryOf(blocks[i])) \subseteq Range(surfaced')
  BY <1>2, <1>3, TurnGrows
<1>5. Types'
  <2>1. turns' \in 0..MaxTurns /\ born' \in 0..turns'
    BY Bounds DEF IInv, Types, InferenceDone
  <2>2. phase' \in {"waiting", "executing"}
    BY DEF InferenceDone
  <2>. QED
    BY <1>1, <1>4, <2>1, <2>2 DEF IInv, Types, InferenceDone
<1>6. Kept'
  <2>1. turns \in Nat /\ turns' = turns + 1
    BY Bounds DEF IInv, Types, InferenceDone
  <2>2. phase' # "down" /\ phase' # "inferring"
    BY DEF InferenceDone
  <2>3. \A i \in DOMAIN calls' : Surfaced(calls[i])'
    BY <1>4 DEF InferenceDone, Surfaced
  <2>4. ASSUME NEW p \in parked' PROVE p[1] <= turns' /\ (p[1] > born' => Surfaced(p[3])')
    <3>1. p \in parked /\ born' = born /\ p[1] \in Nat
      BY <2>4, Bounds DEF IInv, Types, InferenceDone
    <3>2. p[1] <= turns /\ (p[1] > born => Surfaced(p[3]))
      BY <3>1 DEF IInv, Kept
    <3>. QED
      BY <1>4, <2>1, <3>1, <3>2 DEF Surfaced
  <2>5. turns' > 0
    BY <2>1
  <2>. QED
    BY <2>2, <2>3, <2>4, <2>5 DEF Kept
<1>. QED
  BY <1>5, <1>6 DEF IInv

\* An error reply keeps the invariant.
LEMMA InferenceFailsInv == IInv /\ InferenceFails => IInv'
  BY DEF IInv, Types, Kept, Surfaced, InferenceFails

\* A turn parks finitely many calls.
LEMMA FiniteCalls ==
    ASSUME Types, NEW gated \in SUBSET DOMAIN calls
    PROVE  IsFiniteSet({<<turns, i, calls[i]>> : i \in gated})
<1>. DEFINE T == {<<turns, i, calls[i]>> : i \in gated}
            f == [i \in gated |-> <<turns, i, calls[i]>>]
<1>1. IsFiniteSet(gated)
  BY CallsAreBlocks, FS_Subset DEF Types
<1>2. f \in [gated -> T] /\ \A t \in T : \E i \in gated : f[i] = t
  OBVIOUS
<1>3. f \in Surjection(gated, T)
  BY <1>2, Fun_IsSurj
<1>. QED
  BY <1>1, <1>3, FS_Surjection

\* Running the calls of a turn keeps the invariant, whichever are parked.
LEMMA ExecuteToolsInv ==
    ASSUME IInv, NEW gated \in SUBSET DOMAIN calls, ExecuteTools(gated)
    PROVE  IInv'
<1>. DEFINE asked == {<<turns, i, calls[i]>> : i \in gated}
<1>1. Types /\ phase = "executing" /\ surfaced' = surfaced /\ parked' = parked \cup asked
  BY DEF IInv, ExecuteTools
<1>2. turns \in 1..MaxTurns /\ \A i \in DOMAIN calls : Surfaced(calls[i])
  BY <1>1, Bounds DEF IInv, Types, Kept
<1>3. DOMAIN calls \subseteq 1..MaxCalls /\ \A i \in DOMAIN calls : calls[i] \in Blocks
  BY <1>1, CallsAreBlocks DEF Types
<1>4. /\ parked' \subseteq (1..MaxTurns) \X (1..MaxCalls) \X Blocks
      /\ IsFiniteSet(parked') /\ Cardinality(parked') <= MaxParked
  <2>1. asked \subseteq (1..MaxTurns) \X (1..MaxCalls) \X Blocks
    BY <1>2, <1>3
  <2>2. IsFiniteSet(asked)
    BY <1>1, FiniteCalls
  <2>. HIDE DEF asked
  <2>3. IsFiniteSet(parked \cup asked)
    BY <1>1, <2>2, FS_Union DEF Types
  <2>. QED
    BY <1>1, <2>1, <2>3 DEF Types, ExecuteTools
<1>5. calls' \in UNION {[1..n -> Blocks] : n \in 0..MaxCalls}
  <2>1. <<>> \in [1..0 -> Blocks] /\ 0 \in 0..MaxCalls
    BY Bounds
  <2>. QED
    BY <2>1 DEF ExecuteTools
<1>6. found' \subseteq Range(surfaced')
  <2>1. \A i \in DOMAIN calls : Presented(calls[i]) \subseteq Range(surfaced)
    BY <1>1, <1>2, PresentedIsSurfaced
  <2>2. found \subseteq Range(surfaced)
    BY <1>1 DEF Types
  <2>. QED
    BY <1>1, <2>1, <2>2 DEF ExecuteTools
<1>7. /\ phase' \in {"waiting", "inferring"}
      /\ phase' = "inferring" => sent' = Tools'
      /\ sent' \in Seq(Names \cup {ToolSearch}) /\ IsInjective(sent')
  <2>1. CASE Infer
    BY <1>1, <2>1, InferSends
  <2>2. CASE phase' = "waiting" /\ UNCHANGED sent
    BY <1>1, <2>2 DEF Types
  <2>. QED
    BY <2>1, <2>2 DEF ExecuteTools
<1>8. Types'
  BY <1>1, <1>4, <1>5, <1>6, <1>7 DEF Types, ExecuteTools
<1>9. Kept'
  <2>1. ASSUME NEW p \in parked' PROVE p[1] <= turns' /\ (p[1] > born' => Surfaced(p[3])')
    <3>0. born' = born /\ turns' = turns /\ turns \in Nat
      BY <1>2 DEF ExecuteTools
    <3>1. p[1] <= turns /\ (p[1] > born => Surfaced(p[3]))
      <4>1. CASE p \in parked
        BY <4>1 DEF IInv, Kept
      <4>2. CASE p \in asked
        BY <1>2, <3>0, <4>2
      <4>. QED
        BY <1>1, <4>1, <4>2
    <3>. QED
      BY <1>1, <3>0, <3>1 DEF Surfaced
  <2>. QED
    BY <1>7, <2>1 DEF Kept
<1>. QED
  BY <1>8, <1>9 DEF IInv

\* A decision on a parked call keeps the invariant.
LEMMA AnswerInv ==
    ASSUME IInv, NEW p \in parked, Approve(p) \/ Deny(p)
    PROVE  IInv'
<1>1. Types /\ Infer /\ surfaced' = surfaced /\ parked' = parked \ {p}
  BY DEF IInv, Approve, Deny
<1>2. IsFiniteSet(parked') /\ Cardinality(parked') <= MaxParked
  <2>1. IsFiniteSet(parked) /\ Cardinality(parked) <= MaxParked
    BY <1>1 DEF Types
  <2>2. parked' \in SUBSET parked
    BY <1>1
  <2>3. IsFiniteSet(parked') /\ Cardinality(parked') <= Cardinality(parked)
    BY <2>1, <2>2, FS_Subset
  <2>4. Cardinality(parked') \in Nat /\ Cardinality(parked) \in Nat
    BY <2>1, <2>3, FS_CardinalityType
  <2>. QED
    BY <2>1, <2>3, <2>4, Bounds
<1>3. found' \subseteq Range(surfaced')
  <2>1. found \subseteq Range(surfaced)
    BY <1>1 DEF Types
  <2>2. p[1] > born => Presented(p[3]) \subseteq Range(surfaced)
    BY <1>1, PresentedIsSurfaced DEF IInv, Kept
  <2>. QED
    BY <1>1, <2>1, <2>2 DEF Approve, Deny
<1>4. Types'
  BY <1>1, <1>2, <1>3, InferSends DEF Types, Approve, Deny
<1>5. Kept'
  BY <1>1, InferSends DEF IInv, Kept, Surfaced, Approve, Deny
<1>. QED
  BY <1>4, <1>5 DEF IInv

\* A replaced run child keeps the invariant: its history starts anew.
LEMMA RespawnInv == IInv /\ Respawn => IInv'
<1>. SUFFICES ASSUME IInv, Respawn PROVE IInv'
  OBVIOUS
<1>1. turns \in Nat /\ \A p \in parked : p[1] \in Nat /\ p[1] <= turns
  BY Bounds DEF IInv, Types, Kept
<1>2. Types'
  BY <1>1, EmptySurfacing, Bounds DEF IInv, Types, Respawn
<1>3. Kept'
  BY <1>1 DEF Kept, Respawn
<1>. QED
  BY <1>2, <1>3 DEF IInv

\* Every step keeps the invariant.
LEMMA StepInv == IInv /\ [Next]_vars => IInv'
<1>. SUFFICES ASSUME IInv, [Next]_vars PROVE IInv'
  OBVIOUS
<1>1. CASE UNCHANGED vars
  BY <1>1 DEF IInv, Types, Kept, Surfaced, Tools, vars
<1>2. CASE \E n \in 0..MaxCalls : \E blocks \in [1..n -> Blocks] : InferenceDone(blocks)
  BY <1>2, InferenceDoneInv
<1>3. CASE \E gated \in SUBSET DOMAIN calls : ExecuteTools(gated)
  BY <1>3, ExecuteToolsInv
<1>4. CASE \E p \in parked : Approve(p) \/ Deny(p)
  BY <1>4, AnswerInv
<1>. QED
  BY <1>1, <1>2, <1>3, <1>4, StartDirectorInv, MessageInv, InferenceFailsInv, RespawnInv
  DEF Next

\* The invariant holds of every reachable state.
LEMMA Inductive == Spec => []IInv
<1>. QED
  BY InitInv, StepInv, PTL DEF Spec

-----------------------------------------------------------------------------
(* The theorems *)

\* Every variable keeps its type, whatever the catalogue (TypeOK).
THEOREM TypeCorrect == Spec => []TypeOK
<1>1. IInv => TypeOK
  <2>. SUFFICES ASSUME IInv PROVE TypeOK
    OBVIOUS
  <2>1. Range(catalog) \subseteq DeferredNames
    BY DeferredRange, EmptySurfacing DEF IInv, Types
  <2>2. Range(surfaced) \subseteq DeferredNames
    BY RangeOfSeq DEF IInv, Types, Surfacings
  <2>3. Range(sent) \subseteq Names \cup {ToolSearch}
    BY RangeOfSeq DEF IInv, Types
  <2>. QED
    BY <2>1, <2>2, <2>3 DEF IInv, Types, TypeOK
<1>. QED
  BY <1>1, Inductive, PTL

\* What tool_search has told the model it may call is among the tools of every
\* inference (FoundIsOffered: surface, tools, renderMatches).
THEOREM SearchedIsSent == Spec => []FoundIsOffered
<1>1. IInv => FoundIsOffered
  BY ToolsFacts DEF IInv, Types, Kept, FoundIsOffered
<1>. QED
  BY <1>1, Inductive, PTL

\* No inference is sent a tool twice (SentOnce: the constructor, surface).
THEOREM NoToolTwice == Spec => []SentOnce
<1>1. IInv => SentOnce
  BY DEF IInv, Types, SentOnce, IsInjective
<1>. QED
  BY <1>1, Inductive, PTL

\* While one run child lives the surfaced block only grows (GrowsWhileUp: "the
\* tools block a turn sends is then a prefix of every later one").
THEOREM BlockOnlyGrows == Spec => GrowsWhileUp
<1>1. ASSUME IInv, [Next]_vars, phase' # "down" PROVE IsPrefix(surfaced, surfaced')
  <2>0. surfaced \in Surfacings
    BY <1>1 DEF IInv, Types
  <2>1. CASE surfaced' = surfaced
    BY <2>0, <2>1, PrefixReflexive DEF Surfacings
  <2>2. CASE StartDirector
    <3>1. surfaced = <<>> /\ surfaced' = <<>>
      BY <1>1, <2>2 DEF IInv, Kept, StartDirector
    <3>. QED
      BY <2>1, <3>1
  <2>3. ASSUME NEW n \in 0..MaxCalls, NEW blocks \in [1..n -> Blocks], InferenceDone(blocks)
        PROVE  IsPrefix(surfaced, surfaced')
    <3>1. blocks \in UNION {[1..m -> Blocks] : m \in 0..MaxCalls}
      OBVIOUS
    <3>2. blocks \in Seq(Blocks)
      BY <3>1, CallsAreBlocks
    <3>. QED
      BY <2>0, <2>3, <3>2, TurnGrows DEF InferenceDone
  <2>. QED
    BY <1>1, <2>1, <2>2, <2>3
    DEF Next, vars, Message, InferenceFails, ExecuteTools, Approve, Deny, Respawn
<1>. QED
  BY <1>1, Inductive, PTL DEF Spec, GrowsWhileUp
=============================================================================
