---------------------------- MODULE OptionsProofs -----------------------------
(***************************************************************************)
(* Proofs about DHCPOptions.  Induction over data takes three steps here:  *)
(* a set of naturals has a least element (LeastNumber), so a set of        *)
(* sequences closed under Append has them all (AllSequences), and a loop   *)
(* whose rounds make a measure smaller has a value (Recursion), which      *)
(* gives each loop of the codec its equation, one round at a time.         *)
(***************************************************************************)
EXTENDS DHCPOptions, SequenceTheorems, WellFoundedInduction, TLAPS

-----------------------------------------------------------------------------
(* Induction and recursion.                                                *)

\* A nonempty set of naturals has a least element.
LEMMA LeastNumber ==
    ASSUME NEW T \in SUBSET Nat, T # {}
    PROVE  \E x \in T : \A y \in T : x <= y
<1> DEFINE R == {ss \in Nat \X Nat : ss[1] < ss[2]}
<1>1. IsWellFoundedOn(R, Nat)
  BY NatLessThanWellFounded, Zenon DEF OpToRel
<1>2. PICK x \in T : \A y \in T : ~ (<<y, x>> \in R)
  <2> HIDE DEF R
  <2> QED BY <1>1, WFMin
<1>3. ASSUME NEW y \in T PROVE x <= y
  <2>1. x \in Nat /\ y \in Nat
    OBVIOUS
  <2>2. ~ (<<y, x>> \in R)
    BY <1>2
  <2> QED BY <2>1, <2>2
<1> QED BY <1>3

\* A set of naturals that has 0 and with every number its successor has them all.
LEMMA AllNumbers ==
    ASSUME NEW P \in SUBSET Nat, 0 \in P, \A n \in P : n + 1 \in P
    PROVE  P = Nat
<1>1. SUFFICES ASSUME Nat \ P # {} PROVE FALSE
  OBVIOUS
<1>2. PICK x \in Nat \ P : \A y \in Nat \ P : x <= y
  <2> DEFINE T == Nat \ P
  <2>1. T \in SUBSET Nat /\ T # {}
    BY <1>1
  <2> HIDE DEF T
  <2>2. \E x \in T : \A y \in T : x <= y
    BY <2>1, LeastNumber
  <2> QED BY <2>2 DEF T
<1>3. x # 0 /\ x \in Nat
  BY <1>2
<1>4. PICK y \in Nat : x = y + 1
  BY <1>3
<1>5. y \in P
  BY <1>2, <1>4
<1> QED BY <1>2, <1>4, <1>5

\* A recursive definition: s is a base case (stop) with result res[s], or its
\* result is made (step) from s and the result of the one call, on nxt[s], an
\* argument of smaller measure m.
Recursive(S, R, stop, res, nxt, step, m) ==
    /\ stop \in SUBSET S /\ res \in [S -> R]
    /\ nxt \in [S -> S] /\ step \in [S \X R -> R] /\ m \in [S -> Nat]
    /\ \A s \in S \ stop : m[nxt[s]] < m[s]

\* There is a function that satisfies it.
LEMMA Recursion ==
    ASSUME NEW S, NEW R, NEW stop, NEW res, NEW nxt, NEW step, NEW m,
           Recursive(S, R, stop, res, nxt, step, m)
    PROVE  \E f \in [S -> R] :
              f = [s \in S |-> IF s \in stop THEN res[s] ELSE step[<<s, f[nxt[s]]>>]]
<1> USE DEF Recursive
<1> DEFINE Once(g) == [s \in S |-> IF s \in stop THEN res[s] ELSE step[<<s, g[nxt[s]]>>]]
           Below(n) == {s \in S : m[s] < n}
           Good(g, n) == g \in [S -> R] /\ \A s \in Below(n) : g[s] = Once(g)[s]
<1>1. ASSUME NEW g \in [S -> R] PROVE Once(g) \in [S -> R]
  <2>1. ASSUME NEW s \in S PROVE Once(g)[s] \in R
    <3>1. nxt[s] \in S /\ res[s] \in R
      OBVIOUS
    <3>2. <<s, g[nxt[s]]>> \in S \X R
      BY <3>1
    <3>3. step[<<s, g[nxt[s]]>>] \in R
      BY <3>2
    <3> QED BY <3>1, <3>3
  <2> QED BY <2>1
<1>2. ASSUME NEW g, NEW s \in S PROVE Once(g)[s] = IF s \in stop THEN res[s] ELSE step[<<s, g[nxt[s]]>>]
  OBVIOUS
<1>3. ASSUME NEW n \in Nat, NEW g, Good(g, n) PROVE Good(Once(g), n + 1)
  <2>1. Once(g) \in [S -> R]
    BY <1>1, <1>3
  <2>2. ASSUME NEW s \in Below(n + 1) PROVE Once(g)[s] = Once(Once(g))[s]
    <3>1. CASE s \in stop
      BY <3>1, <1>2
    <3>2. CASE s \notin stop
      <4>1. nxt[s] \in Below(n)
        <5>1. nxt[s] \in S /\ m[nxt[s]] < m[s] /\ m[s] < n + 1
          BY <2>2, <3>2
        <5>2. m[nxt[s]] \in Nat /\ m[s] \in Nat
          BY <5>1
        <5> QED BY <5>1, <5>2
      <4>2. g[nxt[s]] = Once(g)[nxt[s]]
        BY <4>1, <1>3
      <4> QED BY <4>2, <1>2, <3>2
    <3> QED BY <3>1, <3>2
  <2> HIDE DEF Once
  <2> QED BY <2>1, <2>2
<1>4. \A n \in Nat : \E g : Good(g, n)
  <2> DEFINE P == {n \in Nat : \E g : Good(g, n)}
  <2>1. 0 \in P
    <3>1. Below(0) = {}
      OBVIOUS
    <3>2. Good(res, 0)
      BY <3>1
    <3> HIDE DEF Good
    <3> QED BY <3>2
  <2>2. ASSUME NEW n \in P PROVE n + 1 \in P
    <3> HIDE DEF Good, Once
    <3>1. PICK g : Good(g, n)
      OBVIOUS
    <3>2. Good(Once(g), n + 1)
      BY <3>1, <1>3
    <3> QED BY <3>2
  <2> HIDE DEF P
  <2>3. P \in SUBSET Nat
    BY DEF P
  <2>4. P = Nat
    BY <2>1, <2>2, <2>3, AllNumbers
  <2> QED BY <2>4 DEF P
<1>5. ASSUME NEW n \in Nat, NEW k \in Nat, NEW g, NEW h, Good(g, n), Good(h, k),
             NEW s \in S, m[s] < n, m[s] < k
      PROVE  g[s] = h[s]
  <2> DEFINE Bad == {i \in Nat : \E u \in S : m[u] = i /\ i < n /\ i < k /\ g[u] # h[u]}
  <2>1. SUFFICES ASSUME g[s] # h[s] PROVE FALSE
    OBVIOUS
  <2>2. m[s] \in Bad
    BY <2>1, <1>5
  <2>3. Bad \in SUBSET Nat /\ Bad # {}
    BY <2>2
  <2>4. PICK i \in Bad : \A j \in Bad : i <= j
    <3> HIDE DEF Bad
    <3> QED BY <2>3, LeastNumber
  <2>5. PICK u \in S : m[u] = i /\ i < n /\ i < k /\ g[u] # h[u]
    BY <2>4
  <2>6. g[u] = Once(g)[u] /\ h[u] = Once(h)[u]
    <3>1. u \in Below(n) /\ u \in Below(k)
      BY <2>5
    <3> HIDE DEF Once
    <3> QED BY <3>1, <1>5
  <2>7. u \notin stop
    BY <2>5, <2>6, <1>2
  <2>8. g[nxt[u]] # h[nxt[u]]
    BY <2>5, <2>6, <2>7, <1>2
  <2>9. nxt[u] \in S /\ m[nxt[u]] \in Nat /\ m[nxt[u]] < i /\ i \in Nat
    BY <2>5, <2>7
  <2>10. m[nxt[u]] \in Bad
    BY <2>5, <2>8, <2>9
  <2> QED BY <2>4, <2>9, <2>10
<1> DEFINE G(n) == CHOOSE g : Good(g, n)
           f == [s \in S |-> G(m[s] + 1)[s]]
<1>6. \A n \in Nat : Good(G(n), n)
  <2> HIDE DEF Good
  <2> QED BY <1>4
<1>7. f \in [S -> R]
  <2>1. ASSUME NEW s \in S PROVE G(m[s] + 1)[s] \in R
    <3>1. m[s] + 1 \in Nat
      OBVIOUS
    <3>2. Good(G(m[s] + 1), m[s] + 1)
      <4> HIDE DEF Good, G
      <4> QED BY <3>1, <1>6
    <3>3. G(m[s] + 1) \in [S -> R]
      <4> HIDE DEF G
      <4> QED BY <3>2
    <3> HIDE DEF G
    <3> QED BY <3>3
  <2> HIDE DEF G
  <2> QED BY <2>1
<1>8. ASSUME NEW s \in S PROVE f[s] = Once(f)[s]
  <2> DEFINE g == G(m[s] + 1)
  <2>1. m[s] + 1 \in Nat /\ m[s] < m[s] + 1 /\ f[s] = g[s]
    OBVIOUS
  <2>2. Good(g, m[s] + 1)
    <3> HIDE DEF Good, G
    <3> QED BY <2>1, <1>6
  <2>3. g[s] = Once(g)[s]
    <3> HIDE DEF g, Once
    <3> QED BY <2>1, <2>2
  <2>4. CASE s \in stop
    <3> HIDE DEF f, g
    <3> QED BY <2>1, <2>3, <2>4, <1>2
  <2>5. CASE s \notin stop
    <3> DEFINE t == nxt[s]
               h == G(m[t] + 1)
    <3>1. t \in S /\ m[t] \in Nat /\ m[t] < m[s] /\ m[s] \in Nat
      BY <2>5
    <3>2. f[t] = h[t] /\ m[t] + 1 \in Nat
      BY <3>1
    <3>3. Good(h, m[t] + 1)
      <4> HIDE DEF Good, G
      <4> QED BY <3>2, <1>6
    <3>4. g[t] = h[t]
      <4>1. m[t] < m[s] + 1 /\ m[t] < m[t] + 1
        BY <3>1
      <4> HIDE DEF g, h, Good
      <4> QED BY <4>1, <3>1, <3>2, <3>3, <2>1, <2>2, <1>5
    <3> HIDE DEF f, g, h
    <3> QED BY <2>1, <2>3, <2>5, <3>2, <3>4, <1>2
  <2> QED BY <2>4, <2>5
<1>9. Once(f) \in [S -> R]
  <2> HIDE DEF f, Once
  <2> QED BY <1>1, <1>7
<1>10. f = Once(f)
  <2> HIDE DEF f, Once
  <2> QED BY <1>7, <1>8, <1>9
<1> HIDE DEF f
<1> QED BY <1>7, <1>10

\* A loop: in state s it returns res[s] (stop), or goes on in nxt[s].
Loops(S, R, stop, res, nxt, m) ==
    /\ stop \in SUBSET S /\ res \in [S -> R] /\ nxt \in [S -> S] /\ m \in [S -> Nat]
    /\ \A s \in S \ stop : m[nxt[s]] < m[s]

\* A loop whose rounds make a measure smaller returns from every state.
LEMMA LoopReturns ==
    ASSUME NEW S, NEW R, NEW stop, NEW res, NEW nxt, NEW m,
           Loops(S, R, stop, res, nxt, m)
    PROVE  \E f \in [S -> R] : \A s \in S : f[s] = IF s \in stop THEN res[s] ELSE f[nxt[s]]
<1> DEFINE step == [p \in S \X R |-> p[2]]
<1>1. step \in [S \X R -> R]
  OBVIOUS
<1>2. Recursive(S, R, stop, res, nxt, step, m)
  <2> HIDE DEF step
  <2> QED BY <1>1 DEF Loops, Recursive
<1>3. PICK f \in [S -> R] :
          f = [s \in S |-> IF s \in stop THEN res[s] ELSE step[<<s, f[nxt[s]]>>]]
  <2> HIDE DEF step
  <2> QED BY <1>2, Recursion
<1>4. ASSUME NEW s \in S PROVE f[s] = IF s \in stop THEN res[s] ELSE f[nxt[s]]
  <2>1. nxt[s] \in S
    BY DEF Loops
  <2>2. step[<<s, f[nxt[s]]>>] = f[nxt[s]]
    BY <2>1
  <2>3. f[s] = IF s \in stop THEN res[s] ELSE step[<<s, f[nxt[s]]>>]
    <3> HIDE DEF step
    <3> QED BY <1>3
  <2> HIDE DEF step
  <2> QED BY <2>2, <2>3
<1> QED BY <1>4

\* A set of sequences that has the empty one and with every one its extensions by
\* one element has them all.
LEMMA AllSequences ==
    ASSUME NEW S, NEW P \in SUBSET Seq(S), <<>> \in P,
           \A s \in P, e \in S : Append(s, e) \in P
    PROVE  P = Seq(S)
<1> DEFINE N == {n \in Nat : \A s \in Seq(S) : Len(s) = n => s \in P}
<1>1. 0 \in N
  <2>1. ASSUME NEW s \in Seq(S), Len(s) = 0 PROVE s \in P
    <3>1. s = <<>>
      BY <2>1, EmptySeq
    <3> QED BY <3>1
  <2> QED BY <2>1
<1>2. ASSUME NEW n \in N PROVE n + 1 \in N
  <2>1. ASSUME NEW s \in Seq(S), Len(s) = n + 1 PROVE s \in P
    <3>1. s # <<>> /\ n \in Nat
      BY <2>1, EmptySeq
    <3>2. PICK t \in Seq(S), e \in S : s = Append(t, e)
      BY <3>1, SequenceEmptyOrAppend
    <3>3. Len(t) = n
      <4>1. Len(t) \in Nat /\ Len(s) = Len(t) + 1
        BY <3>2, AppendProperties, LenProperties
      <4> QED BY <4>1, <2>1, <3>1
    <3>4. t \in P
      BY <3>3
    <3> QED BY <3>2, <3>4
  <2> QED BY <2>1
<1>3. N = Nat
  <2>1. N \in SUBSET Nat
    OBVIOUS
  <2> HIDE DEF N
  <2> QED BY <1>1, <1>2, <2>1, AllNumbers
<1>4. ASSUME NEW s \in Seq(S) PROVE s \in P
  <2>1. Len(s) \in N
    BY <1>3, LenProperties
  <2> QED BY <2>1
<1> QED BY <1>4

-----------------------------------------------------------------------------
(* FlattenSeq, by its definition.                                          *)

\* The concatenations of the first i sequences, for every i.
Prefixed(ss) ==
    CHOOSE flatten : flatten = [i \in 1 .. Len(ss) |->
                                   IF i = 1 THEN ss[i] ELSE flatten[i - 1] \o ss[i]]

\* The concatenations satisfy the equation that defines them.
LEMMA PrefixedUnfold ==
    ASSUME NEW S, NEW ss \in Seq(Seq(S))
    PROVE  /\ Prefixed(ss) \in [1 .. Len(ss) -> Seq(S)]
           /\ Prefixed(ss) = [i \in 1 .. Len(ss) |->
                                IF i = 1 THEN ss[i] ELSE Prefixed(ss)[i - 1] \o ss[i]]
<1> DEFINE D == 1 .. Len(ss)
           R == Seq(S)
           stop == D \cap {1}
           res == [i \in D |-> ss[i]]
           nxt == [i \in D |-> IF i = 1 THEN 1 ELSE i - 1]
           step == [p \in D \X R |-> p[2] \o ss[p[1]]]
           m == [i \in D |-> i]
           Body(f) == [i \in D |-> IF i = 1 THEN ss[i] ELSE f[i - 1] \o ss[i]]
<1>0. Len(ss) \in Nat /\ \A i \in D : ss[i] \in R
  BY LenProperties, ElementOfSeq
<1>1. /\ stop \in SUBSET D /\ res \in [D -> R] /\ m \in [D -> Nat]
      /\ nxt \in [D -> D]
  BY <1>0
<1>2. step \in [D \X R -> R]
  <2>1. ASSUME NEW p \in D \X R PROVE p[2] \o ss[p[1]] \in R
    <3>1. p[2] \in Seq(S) /\ ss[p[1]] \in Seq(S)
      BY <1>0
    <3> QED BY <3>1, ConcatProperties
  <2> QED BY <2>1
<1>3. \A i \in D \ stop : m[nxt[i]] < m[i]
  BY <1>0
<1>4. PICK f \in [D -> R] :
          f = [i \in D |-> IF i \in stop THEN res[i] ELSE step[<<i, f[nxt[i]]>>]]
  <2>1. Recursive(D, R, stop, res, nxt, step, m)
    BY <1>1, <1>2, <1>3 DEF Recursive
  <2> HIDE DEF D, R, stop, res, nxt, step, m
  <2> QED BY <2>1, Recursion
<1>5. ASSUME NEW g \in [D -> R], NEW i \in D
      PROVE  (IF i \in stop THEN res[i] ELSE step[<<i, g[nxt[i]]>>]) = Body(g)[i]
  <2>1. CASE i = 1
    BY <2>1
  <2>2. CASE i # 1
    <3>1. i \notin stop /\ nxt[i] = i - 1 /\ i - 1 \in D
      BY <2>2, <1>0
    <3>2. <<i, g[i - 1]>> \in D \X R
      BY <3>1
    <3>3. step[<<i, g[i - 1]>>] = g[i - 1] \o ss[i]
      BY <3>2
    <3> QED BY <3>1, <3>3, <2>2
  <2> QED BY <2>1, <2>2
<1>6. f = Body(f)
  <2>1. \A i \in D : f[i] = Body(f)[i]
    <3> HIDE DEF Body, stop, res, step, nxt
    <3> QED BY <1>4, <1>5
  <2> QED BY <2>1, <1>4
<1>7. Prefixed(ss) = Body(Prefixed(ss))
  BY <1>6 DEF Prefixed
<1>8. \A i \in D : Prefixed(ss)[i] \in R
  <2> DEFINE Bad == {i \in D : Prefixed(ss)[i] \notin R}
  <2>1. SUFFICES ASSUME Bad # {} PROVE FALSE
    OBVIOUS
  <2>2. Bad \in SUBSET Nat
    BY <1>0
  <2>3. PICK i \in Bad : \A j \in Bad : i <= j
    <3> HIDE DEF Bad
    <3> QED BY <2>1, <2>2, LeastNumber
  <2>4. i # 1 /\ i \in D
    BY <1>0, <1>7, <2>3
  <2>5. i - 1 \in D /\ Prefixed(ss)[i] = Prefixed(ss)[i - 1] \o ss[i]
    <3>1. i - 1 \in D
      BY <1>0, <2>4
    <3>2. PICK F : F = Prefixed(ss)
      OBVIOUS
    <3>3. F = Body(F)
      BY <1>7, <3>2
    <3>4. F[i] = F[i - 1] \o ss[i]
      BY <3>3, <2>4
    <3> QED BY <3>1, <3>2, <3>4
  <2>6. i - 1 \notin Bad
    BY <2>3, <2>4, <1>0
  <2>7. Prefixed(ss)[i - 1] \in Seq(S) /\ ss[i] \in Seq(S)
    BY <1>0, <2>4, <2>5, <2>6
  <2>8. Prefixed(ss)[i] \in R
    BY <2>5, <2>7, ConcatProperties
  <2> QED BY <2>3, <2>8
<1>9. Prefixed(ss) \in [D -> R]
  <2> HIDE DEF R
  <2> QED BY <1>7, <1>8
<1> QED BY <1>7, <1>9

\* What FlattenSeq makes of nothing, and of one sequence more.
LEMMA Flatten ==
    ASSUME NEW S, NEW ss \in Seq(Seq(S)), NEW e \in Seq(S)
    PROVE  /\ FlattenSeq(<<>>) = <<>>
           /\ FlattenSeq(ss) \in Seq(S)
           /\ FlattenSeq(Append(ss, e)) = FlattenSeq(ss) \o e
<1> DEFINE tt == Append(ss, e)
           n == Len(ss)
<1>1. /\ tt \in Seq(Seq(S)) /\ n \in Nat /\ Len(tt) = n + 1
      /\ \A i \in 1 .. n : tt[i] = ss[i]
      /\ tt[n + 1] = e
  BY AppendProperties, LenProperties
<1>2. FlattenSeq(<<>>) = <<>>
  BY EmptySeq DEF FlattenSeq
<1>3. n # 0 => FlattenSeq(ss) = Prefixed(ss)[n]
  BY DEF FlattenSeq, Prefixed
<1>4. FlattenSeq(tt) = Prefixed(tt)[n + 1]
  <2>1. Len(tt) = n + 1 /\ Len(tt) # 0
    BY <1>1
  <2> HIDE DEF tt, n
  <2>2. FlattenSeq(tt) = Prefixed(tt)[Len(tt)]
    BY <2>1 DEF FlattenSeq, Prefixed
  <2> QED BY <2>1, <2>2
<1>5. n = 0 => ss = <<>> /\ FlattenSeq(ss) = <<>>
  BY EmptySeq DEF FlattenSeq
<1>6. FlattenSeq(ss) \in Seq(S)
  <2>1. CASE n = 0
    <3>1. FlattenSeq(ss) = <<>>
      BY <2>1, <1>5
    <3> QED BY <3>1, EmptySeq
  <2>2. CASE n # 0
    <3>1. Prefixed(ss) \in [1 .. n -> Seq(S)]
      BY PrefixedUnfold
    <3>2. n \in 1 .. n
      BY <2>2, <1>1
    <3>3. Prefixed(ss)[n] \in Seq(S)
      BY <3>1, <3>2
    <3> QED BY <2>2, <1>3, <3>3
  <2> QED BY <2>1, <2>2
<1> DEFINE f == Prefixed(ss)
           g == Prefixed(tt)
<1>7. \A i \in 1 .. n : f[i] = IF i = 1 THEN ss[i] ELSE f[i - 1] \o ss[i]
  <2>1. f = [i \in 1 .. n |-> IF i = 1 THEN ss[i] ELSE f[i - 1] \o ss[i]]
    BY PrefixedUnfold
  <2> HIDE DEF f
  <2> QED BY <2>1
<1>8. \A i \in 1 .. n + 1 : g[i] = IF i = 1 THEN tt[i] ELSE g[i - 1] \o tt[i]
  <2> HIDE DEF tt
  <2>1. g = [i \in 1 .. Len(tt) |-> IF i = 1 THEN tt[i] ELSE g[i - 1] \o tt[i]]
    BY <1>1, PrefixedUnfold
  <2> HIDE DEF g
  <2> QED BY <1>1, <2>1
<1>9. \A i \in 1 .. n : g[i] = f[i]
  <2> HIDE DEF f, g, tt, n
  <2> DEFINE Bad == {i \in 1 .. n : g[i] # f[i]}
  <2>1. SUFFICES ASSUME Bad # {} PROVE FALSE
    OBVIOUS
  <2>2. Bad \in SUBSET Nat
    BY <1>1
  <2>3. PICK i \in Bad : \A j \in Bad : i <= j
    <3> HIDE DEF Bad
    <3> QED BY <2>1, <2>2, LeastNumber
  <2>4. i \in 1 .. n /\ i \in 1 .. n + 1 /\ g[i] # f[i]
    BY <1>1, <2>3
  <2>5. i # 1
    BY <1>1, <1>7, <1>8, <2>4
  <2>6. PICK k \in Int : k = i - 1
    BY <2>4, <1>1
  <2>7. k \in 1 .. n /\ k < i
    BY <2>4, <2>5, <2>6, <1>1
  <2>8. g[k] = f[k]
    BY <2>3, <2>7, <2>4, <1>1
  <2>9. g[i] = g[k] \o tt[i] /\ f[i] = f[k] \o ss[i] /\ tt[i] = ss[i]
    BY <1>1, <1>7, <1>8, <2>4, <2>5, <2>6
  <2> QED BY <2>4, <2>8, <2>9
<1>10. FlattenSeq(tt) = FlattenSeq(ss) \o e
  <2> HIDE DEF f, g, tt, n
  <2>1. CASE n = 0
    <3>1. g[1] = e
      BY <1>1, <1>8, <2>1
    <3>2. FlattenSeq(tt) = e
      BY <3>1, <1>4, <2>1 DEF g
    <3>3. <<>> \o e = e
      BY ConcatEmptySeq
    <3> QED BY <3>2, <3>3, <1>5, <2>1
  <2>2. CASE n # 0
    <3>1. n \in 1 .. n /\ n + 1 \in 1 .. n + 1 /\ n + 1 # 1 /\ n + 1 - 1 = n
      BY <2>2, <1>1
    <3>2. g[n + 1] = g[n] \o e
      <4>1. PICK k \in Int : k = n + 1
        BY <1>1
      <4>2. k \in 1 .. n + 1 /\ k # 1 /\ k - 1 = n /\ tt[k] = e
        BY <4>1, <3>1, <1>1
      <4>3. g[k] = g[k - 1] \o tt[k]
        BY <4>2, <1>8
      <4> QED BY <4>1, <4>2, <4>3
    <3>3. g[n] = f[n]
      BY <3>1, <1>9
    <3> QED BY <3>2, <3>3, <1>3, <1>4, <2>2 DEF f, g
  <2> QED BY <2>1, <2>2
<1> QED BY <1>2, <1>6, <1>10

\* The concatenation of what a function makes of each element.
FlatMap(g, s) == FlattenSeq([j \in 1 .. Len(s) |-> g[s[j]]])

\* What FlatMap makes of nothing, and of one element more.
LEMMA FlatMapped ==
    ASSUME NEW A, NEW S, NEW g \in [A -> Seq(S)], NEW s \in Seq(A), NEW e \in A
    PROVE  /\ FlatMap(g, <<>>) = <<>>
           /\ FlatMap(g, s) \in Seq(S)
           /\ FlatMap(g, Append(s, e)) = FlatMap(g, s) \o g[e]
<1> DEFINE n == Len(s)
           a == Append(s, e)
           ss == [j \in 1 .. n |-> g[s[j]]]
           tt == [j \in 1 .. Len(a) |-> g[a[j]]]
<1>1. /\ n \in Nat /\ \A j \in 1 .. n : s[j] \in A
      /\ a \in Seq(A) /\ Len(a) = n + 1 /\ a[n + 1] = e
      /\ \A j \in 1 .. n : a[j] = s[j]
  BY LenProperties, AppendProperties, ElementOfSeq
<1>2. ss \in Seq(Seq(S)) /\ Len(ss) = n
  BY <1>1
<1>3. g[e] \in Seq(S)
  OBVIOUS
<1>4. /\ Append(ss, g[e]) \in Seq(Seq(S)) /\ Len(Append(ss, g[e])) = n + 1
      /\ \A j \in 1 .. n : Append(ss, g[e])[j] = ss[j]
      /\ Append(ss, g[e])[n + 1] = g[e]
  <2> HIDE DEF ss, n
  <2> QED BY <1>2, <1>3, AppendProperties
<1>5. tt \in Seq(Seq(S)) /\ Len(tt) = n + 1
  <2>1. \A j \in 1 .. n + 1 : a[j] \in A
    <3> HIDE DEF a
    <3> QED BY <1>1, ElementOfSeq
  <2>2. PICK q \in Nat : q = n + 1
    BY <1>1
  <2>3. tt = [j \in 1 .. q |-> g[a[j]]]
    <3> HIDE DEF a, n
    <3> QED BY <1>1, <2>2
  <2>4. \A j \in 1 .. q : g[a[j]] \in Seq(S)
    <3> HIDE DEF a, n
    <3> QED BY <2>1, <2>2
  <2> HIDE DEF tt, a, n
  <2> QED BY <2>2, <2>3, <2>4, SMTT(20)
<1>6. ASSUME NEW j \in 1 .. n + 1 PROVE tt[j] = Append(ss, g[e])[j]
  <2>1. CASE j = n + 1
    <3>1. tt[j] = g[e]
      <4> HIDE DEF a, n
      <4> QED BY <1>1, <2>1
    <3> HIDE DEF tt, ss, n
    <3> QED BY <3>1, <2>1, <1>4
  <2>2. CASE j # n + 1
    <3>1. j \in 1 .. n
      BY <2>2, <1>1
    <3>2. tt[j] = ss[j]
      <4> HIDE DEF a, n
      <4> QED BY <3>1, <1>1
    <3> HIDE DEF tt, ss, n
    <3> QED BY <3>1, <3>2, <1>4
  <2> QED BY <2>1, <2>2
<1>7. tt = Append(ss, g[e])
  <2> HIDE DEF tt, ss, n
  <2>1. Len(tt) = Len(Append(ss, g[e])) /\ \A j \in 1 .. Len(tt) : tt[j] = Append(ss, g[e])[j]
    BY <1>4, <1>5, <1>6
  <2> QED BY <1>4, <1>5, <2>1, SeqEqual
<1>8. FlatMap(g, <<>>) = <<>>
  <2>1. [j \in 1 .. Len(<<>>) |-> g[<<>>[j]]] = <<>>
    OBVIOUS
  <2>2. FlattenSeq(<<>>) = <<>>
    BY <1>2, <1>3, Flatten
  <2> QED BY <2>1, <2>2 DEF FlatMap
<1>9. FlatMap(g, s) = FlattenSeq(ss) /\ FlatMap(g, a) = FlattenSeq(tt)
  BY DEF FlatMap
<1> HIDE DEF ss, tt, a
<1>10. FlattenSeq(ss) \in Seq(S) /\ FlattenSeq(Append(ss, g[e])) = FlattenSeq(ss) \o g[e]
  BY <1>2, <1>3, Flatten
<1>11. FlatMap(g, a) = FlatMap(g, s) \o g[e]
  BY <1>7, <1>9, <1>10
<1> QED BY <1>8, <1>9, <1>10, <1>11 DEF a

-----------------------------------------------------------------------------
(* Reading a concatenation.                                                *)

\* The two halves of a concatenation, read by offset.
LEMMA Halves ==
    ASSUME NEW u \in Seq(Byte), NEW v \in Seq(Byte)
    PROVE  /\ u \o v \in Seq(Byte) /\ Len(u \o v) = Len(u) + Len(v)
           /\ Slice(u \o v, 0, Len(u)) = u
           /\ From(u \o v, Len(u)) = v
           /\ \A i \in 0 .. Len(v) - 1 : At(u \o v, Len(u) + i) = At(v, i)
<1> DEFINE a == u \o v
<1>1. /\ a \in Seq(Byte) /\ Len(a) = Len(u) + Len(v)
      /\ \A i \in 1 .. Len(u) + Len(v) : a[i] = IF i <= Len(u) THEN u[i] ELSE v[i - Len(u)]
      /\ Len(u) \in Nat /\ Len(v) \in Nat
  BY ConcatProperties, LenProperties
<1> HIDE DEF a
<1>2. ASSUME NEW i \in 0 .. Len(v) - 1 PROVE At(a, Len(u) + i) = At(v, i)
  <2>1. PICK k \in Int : k = Len(u) + i + 1
    BY <1>1
  <2>2. k \in 1 .. Len(u) + Len(v) /\ ~(k <= Len(u)) /\ k - Len(u) = i + 1
    BY <1>1, <2>1
  <2>3. a[k] = v[k - Len(u)]
    BY <1>1, <2>2
  <2> QED BY <2>1, <2>2, <2>3 DEF At
<1>3. Slice(a, 0, Len(u)) = u
  <2> DEFINE b == SubSeq(a, 1, Len(u))
  <2>1. \A i \in 1 .. Len(u) : a[i] = u[i] /\ a[i] \in Byte
    BY <1>1, ElementOfSeq
  <2>2. /\ b \in Seq(Byte) /\ Len(b) = (IF 1 <= Len(u) THEN Len(u) - 1 + 1 ELSE 0)
        /\ \A i \in 1 .. Len(u) - 1 + 1 : b[i] = a[1 + i - 1]
    BY <1>1, <2>1, SubSeqProperties
  <2> HIDE DEF b
  <2>3. Len(b) = Len(u) /\ \A i \in 1 .. Len(b) : b[i] = u[i]
    BY <1>1, <2>1, <2>2
  <2>4. b = u
    BY <2>2, <2>3, SeqEqual
  <2> QED BY <2>4, <1>1 DEF b, Slice
<1>4. From(a, Len(u)) = v
  <2> DEFINE b == SubSeq(a, Len(u) + 1, Len(a))
  <2>1. \A i \in Len(u) + 1 .. Len(a) : a[i] \in Byte
    BY <1>1, ElementOfSeq
  <2>2. Len(u) + 1 \in Int /\ Len(a) \in Int
    BY <1>1
  <2>3. /\ b \in Seq(Byte) /\ Len(b) = (IF Len(u) + 1 <= Len(a) THEN Len(a) - (Len(u) + 1) + 1 ELSE 0)
        /\ \A i \in 1 .. Len(a) - (Len(u) + 1) + 1 : b[i] = a[Len(u) + 1 + i - 1]
    BY <2>1, <2>2, SubSeqProperties
  <2> HIDE DEF b
  <2>4. Len(b) = Len(v)
    BY <1>1, <2>3
  <2>5. ASSUME NEW i \in 1 .. Len(v) PROVE b[i] = v[i]
    <3>1. PICK k \in Int : k = Len(u) + i
      BY <1>1
    <3>2. b[i] = a[k]
      <4>1. i \in 1 .. Len(a) - (Len(u) + 1) + 1 /\ Len(u) + 1 + i - 1 = k
        BY <1>1, <3>1
      <4>2. b[i] = a[Len(u) + 1 + i - 1]
        BY <4>1, <2>3
      <4> QED BY <4>1, <4>2
    <3>3. k \in 1 .. Len(u) + Len(v) /\ ~(k <= Len(u)) /\ k - Len(u) = i
      BY <1>1, <3>1
    <3>4. a[k] = v[k - Len(u)]
      BY <1>1, <3>3
    <3> QED BY <3>2, <3>3, <3>4
  <2>6. b = v
    BY <2>3, <2>4, <2>5, SeqEqual
  <2> QED BY <2>6 DEF b, From
<1> QED BY <1>1, <1>2, <1>3, <1>4 DEF a

\* What stands between two parts of an area.
LEMMA Middle ==
    ASSUME NEW u \in Seq(Byte), NEW v \in Seq(Byte), NEW w \in Seq(Byte)
    PROVE  /\ u \o (v \o w) \in Seq(Byte)
           /\ Len(u \o (v \o w)) = Len(u) + Len(v) + Len(w)
           /\ u \o (v \o w) = (u \o v) \o w
           /\ Slice(u \o (v \o w), Len(u), Len(v)) = v
           /\ \A i \in 0 .. Len(v) - 1 : At(u \o (v \o w), Len(u) + i) = At(v, i)
<1> DEFINE x == u \o v
           a == u \o (v \o w)
<1>1. /\ x \in Seq(Byte) /\ Len(x) = Len(u) + Len(v)
      /\ \A i \in 1 .. Len(u) + Len(v) : x[i] = IF i <= Len(u) THEN u[i] ELSE v[i - Len(u)]
      /\ Len(u) \in Nat /\ Len(v) \in Nat /\ Len(w) \in Nat
  BY ConcatProperties, LenProperties
<1>2. a = x \o w
  BY ConcatAssociative, SMTT(30)
<1>3. /\ a \in Seq(Byte) /\ Len(a) = Len(x) + Len(w)
      /\ \A i \in 1 .. Len(x) + Len(w) : a[i] = IF i <= Len(x) THEN x[i] ELSE w[i - Len(x)]
  <2> HIDE DEF x, a
  <2>1. x \in Seq(Byte)
    BY <1>1
  <2>2. /\ x \o w \in Seq(Byte) /\ Len(x \o w) = Len(x) + Len(w)
        /\ \A i \in 1 .. Len(x) + Len(w) :
              (x \o w)[i] = IF i <= Len(x) THEN x[i] ELSE w[i - Len(x)]
    BY <2>1, ConcatProperties
  <2> QED BY <1>2, <2>2
<1> HIDE DEF x, a
<1>4. ASSUME NEW i \in 1 .. Len(v) PROVE a[Len(u) + i] = v[i] /\ v[i] \in Byte
  <2>1. PICK k \in Int : k = Len(u) + i
    BY <1>1
  <2>2. /\ k \in 1 .. Len(x) + Len(w) /\ k <= Len(x)
        /\ k \in 1 .. Len(u) + Len(v) /\ ~(k <= Len(u)) /\ k - Len(u) = i
    BY <1>1, <2>1
  <2>3. a[k] = x[k] /\ x[k] = v[k - Len(u)]
    BY <1>1, <1>3, <2>2
  <2>4. v[i] \in Byte
    BY <1>1, ElementOfSeq
  <2> QED BY <2>1, <2>2, <2>3, <2>4
<1>5. ASSUME NEW i \in 0 .. Len(v) - 1 PROVE At(a, Len(u) + i) = At(v, i)
  <2>1. PICK k \in 1 .. Len(v) : k = i + 1
    BY <1>1
  <2>2. a[Len(u) + k] = v[k]
    BY <1>4
  <2>3. Len(u) + k = Len(u) + i + 1
    BY <1>1, <2>1
  <2> QED BY <2>1, <2>2, <2>3 DEF At
<1>6. Slice(a, Len(u), Len(v)) = v
  <2> DEFINE p == Len(u) + 1
             q == Len(u) + Len(v)
             b == SubSeq(a, p, q)
  <2>1. ASSUME NEW i \in p .. q PROVE a[i] \in Byte
    <3>1. PICK k \in 1 .. Len(v) : Len(u) + k = i
      BY <1>1
    <3> QED BY <3>1, <1>4
  <2>2. p \in Int /\ q \in Int
    BY <1>1
  <2>3. /\ b \in Seq(Byte) /\ Len(b) = (IF p <= q THEN q - p + 1 ELSE 0)
        /\ \A i \in 1 .. q - p + 1 : b[i] = a[p + i - 1]
    <3> HIDE DEF p, q
    <3> QED BY <2>1, <2>2, SubSeqProperties
  <2> HIDE DEF b
  <2>4. Len(b) = Len(v)
    BY <1>1, <2>3
  <2>5. ASSUME NEW i \in 1 .. Len(v) PROVE b[i] = v[i]
    <3>1. b[i] = a[p + i - 1] /\ p + i - 1 = Len(u) + i
      BY <1>1, <2>3
    <3> QED BY <3>1, <1>4
  <2>6. b = v
    BY <2>3, <2>4, <2>5, SeqEqual
  <2> QED BY <2>6 DEF b, Slice
<1>7. Len(a) = Len(u) + Len(v) + Len(w)
  BY <1>1, <1>3
<1> QED BY <1>2, <1>3, <1>5, <1>6, <1>7 DEF a, x

-----------------------------------------------------------------------------
(* The parts of an area and its bytes.                                     *)

\* Concatenation of bytes, as the proofs below use it.
LEMMA Joined ==
    ASSUME NEW u \in Seq(Byte), NEW v \in Seq(Byte)
    PROVE  /\ u \o v \in Seq(Byte) /\ Len(u \o v) = Len(u) + Len(v)
           /\ Len(u) \in Nat /\ Len(v) \in Nat
           /\ u \o <<>> = u /\ <<>> \o u = u
<1>1. u \o v \in Seq(Byte) /\ Len(u \o v) = Len(u) + Len(v)
  BY Halves
<1>2. Len(u) \in Nat /\ Len(v) \in Nat
  BY LenProperties
<1>3. u \o <<>> = u /\ <<>> \o u = u
  BY ConcatEmptySeq
<1> QED BY <1>1, <1>2, <1>3

\* Concatenation of bytes associates.
LEMMA Regrouped ==
    ASSUME NEW u \in Seq(Byte), NEW v \in Seq(Byte), NEW w \in Seq(Byte)
    PROVE  (u \o v) \o w = u \o (v \o w)
BY ConcatAssociative, SMTT(30)

\* The same, as one fact about three sequences.
Groups(u, v, w) == (u \o v) \o w = u \o (v \o w)

\* It holds of all sequences of bytes.
LEMMA Grouped ==
    ASSUME NEW u \in Seq(Byte), NEW v \in Seq(Byte), NEW w \in Seq(Byte)
    PROVE  Groups(u, v, w)
BY Regrouped DEF Groups

\* The two bytes in front of a payload.
LEMMA Header ==
    ASSUME NEW c \in Byte, NEW l \in Byte
    PROVE  <<c, l>> \in Seq(Byte) /\ Len(<<c, l>>) = 2 /\ <<c, l>>[1] = c /\ <<c, l>>[2] = l
OBVIOUS

\* The bytes of an item.
LEMMA ItemBytes ==
    ASSUME NEW o \in Item
    PROVE  /\ Bytes(o) \in Seq(Byte)
           /\ o \in Option /\ o.code \in 0 .. 254 /\ o.code \in Byte /\ o.data \in Seq(Byte)
           /\ Len(o.data) \in Byte
           /\ o = [code |-> o.code, data |-> o.data]
           /\ o.code = dhcpOptPad => Len(Bytes(o)) = 1 /\ Bytes(o) = <<dhcpOptPad>>
           /\ o.code # dhcpOptPad => /\ Len(Bytes(o)) = 2 + Len(o.data)
                                     /\ Bytes(o) = <<o.code, Len(o.data)>> \o o.data
<1>1. o \in Option /\ o.code # 255 /\ Len(o.data) <= 255
  BY DEF Item, dhcpOptEnd
<1>2. /\ o.code \in Byte /\ o.data \in Seq(Byte)
      /\ o = [code |-> o.code, data |-> o.data]
  BY <1>1 DEF Option
<1> DEFINE c == o.code
           d == o.data
           b == Bytes(o)
<1>3. c \in Byte /\ d \in Seq(Byte) /\ c # 255 /\ Len(d) <= 255
  BY <1>1, <1>2
<1>4. b = IF c = dhcpOptPad THEN <<dhcpOptPad>> ELSE <<c, Len(d)>> \o d
  BY DEF Bytes
<1> HIDE DEF c, d, b
<1>5. c \in 0 .. 254
  BY <1>3 DEF Byte
<1>6. Len(d) \in Byte
  <2>1. Len(d) \in Nat
    BY <1>3, LenProperties
  <2>2. PICK n : n = Len(d)
    OBVIOUS
  <2>3. n \in Nat /\ n <= 255
    BY <1>3, <2>1, <2>2
  <2>4. n \in Byte
    BY <2>3 DEF Byte
  <2> QED BY <2>2, <2>4
<1>7. CASE c = dhcpOptPad
  <2>1. b = <<dhcpOptPad>>
    BY <1>4, <1>7
  <2>2. b \in Seq(Byte) /\ Len(b) = 1
    BY <2>1 DEF Byte, dhcpOptPad
  <2> QED BY <1>1, <1>2, <1>5, <1>6, <1>7, <2>1, <2>2 DEF b, c, d
<1>8. CASE c # dhcpOptPad
  <2>1. PICK h : h = <<c, Len(d)>>
    OBVIOUS
  <2>2. b = h \o d
    BY <1>4, <1>8, <2>1
  <2>3. h \in Seq(Byte) /\ Len(h) = 2
    BY <1>3, <1>6, <2>1, Header
  <2>4. b \in Seq(Byte) /\ Len(b) = 2 + Len(d)
    <3>0. h \in Seq(Byte) /\ d \in Seq(Byte)
      BY <2>3, <1>3
    <3>1. h \o d \in Seq(Byte) /\ Len(h \o d) = Len(h) + Len(d)
      BY <3>0, Joined, SMTT(20)
    <3> QED BY <2>2, <2>3, <3>1
  <2> QED BY <1>1, <1>2, <1>5, <1>6, <1>8, <2>1, <2>2, <2>4 DEF b, c, d
<1> QED BY <1>7, <1>8

\* An area with one item more.
LEMMA Encoded ==
    ASSUME NEW s \in Seq(Item), NEW o \in Item
    PROVE  /\ Encode(<<>>) = <<>> /\ Encode(s) \in Seq(Byte)
           /\ Encode(Append(s, o)) = Encode(s) \o Bytes(o)
<1> DEFINE g == [i \in Item |-> Bytes(i)]
<1>1. g \in [Item -> Seq(Byte)] /\ g[o] = Bytes(o)
  BY ItemBytes
<1>2. ASSUME NEW t \in Seq(Item) PROVE Encode(t) = FlatMap(g, t)
  <2>1. \A j \in 1 .. Len(t) : t[j] \in Item
    BY ElementOfSeq
  <2>2. [j \in 1 .. Len(t) |-> Bytes(t[j])] = [j \in 1 .. Len(t) |-> g[t[j]]]
    BY <2>1
  <2> HIDE DEF g
  <2> QED BY <2>2 DEF Encode, FlatMap
<1>3. <<>> \in Seq(Item) /\ Append(s, o) \in Seq(Item)
  BY AppendProperties, EmptySeq
<1> HIDE DEF g
<1>4. /\ FlatMap(g, <<>>) = <<>> /\ FlatMap(g, s) \in Seq(Byte)
      /\ FlatMap(g, Append(s, o)) = FlatMap(g, s) \o g[o]
  BY <1>1, FlatMapped
<1> QED BY <1>1, <1>2, <1>3, <1>4

\* The options of an area with one item more.
LEMMA OptionsOf ==
    ASSUME NEW s \in Seq(Item), NEW o \in Item
    PROVE  /\ Options(<<>>) = <<>> /\ Options(s) \in Seq(Option)
           /\ Options(Append(s, o)) =
                 IF o.code = dhcpOptPad THEN Options(s) ELSE Append(Options(s), o)
<1> DEFINE g == [i \in Item |-> IF i.code = dhcpOptPad THEN <<>> ELSE <<i>>]
<1>1. g \in [Item -> Seq(Option)]
  <2>1. ASSUME NEW i \in Item PROVE (IF i.code = dhcpOptPad THEN <<>> ELSE <<i>>) \in Seq(Option)
    <3>1. i \in Option
      BY DEF Item
    <3> QED BY <3>1
  <2> QED BY <2>1
<1>2. ASSUME NEW t \in Seq(Item) PROVE Options(t) = FlatMap(g, t)
  <2>1. \A j \in 1 .. Len(t) : t[j] \in Item
    BY ElementOfSeq
  <2>2. [j \in 1 .. Len(t) |-> IF t[j].code = dhcpOptPad THEN <<>> ELSE <<t[j]>>]
        = [j \in 1 .. Len(t) |-> g[t[j]]]
    BY <2>1
  <2> HIDE DEF g
  <2> QED BY <2>2 DEF Options, FlatMap
<1>3. <<>> \in Seq(Item) /\ Append(s, o) \in Seq(Item)
  BY AppendProperties, EmptySeq
<1>4. g[o] = IF o.code = dhcpOptPad THEN <<>> ELSE <<o>>
  OBVIOUS
<1> HIDE DEF g
<1>5. /\ FlatMap(g, <<>>) = <<>> /\ FlatMap(g, s) \in Seq(Option)
      /\ FlatMap(g, Append(s, o)) = FlatMap(g, s) \o g[o]
  BY <1>1, FlatMapped
<1>6. o \in Option /\ Options(s) \in Seq(Option)
  BY <1>2, <1>5 DEF Item
<1>7. Options(s) \o <<>> = Options(s) /\ Options(s) \o <<o>> = Append(Options(s), o)
  BY <1>6, ConcatEmptySeq, AppendIsConcat
<1> QED BY <1>2, <1>3, <1>4, <1>5, <1>7

\* What is left of an area without its options 82, with one item more.
LEMMA Without82Of ==
    ASSUME NEW s \in Seq(Item), NEW o \in Item
    PROVE  /\ Without82(<<>>) = <<>> /\ Without82(s) \in Seq(Item)
           /\ Without82(Append(s, o)) =
                 IF o.code = dhcpOptAgentInfo THEN Without82(s) ELSE Append(Without82(s), o)
<1> DEFINE g == [i \in Item |-> IF i.code = dhcpOptAgentInfo THEN <<>> ELSE <<i>>]
<1>1. g \in [Item -> Seq(Item)]
  OBVIOUS
<1>2. ASSUME NEW t \in Seq(Item) PROVE Without82(t) = FlatMap(g, t)
  <2>1. \A j \in 1 .. Len(t) : t[j] \in Item
    BY ElementOfSeq
  <2>2. [j \in 1 .. Len(t) |-> IF t[j].code = dhcpOptAgentInfo THEN <<>> ELSE <<t[j]>>]
        = [j \in 1 .. Len(t) |-> g[t[j]]]
    BY <2>1
  <2> HIDE DEF g
  <2> QED BY <2>2 DEF Without82, FlatMap
<1>3. <<>> \in Seq(Item) /\ Append(s, o) \in Seq(Item)
  BY AppendProperties, EmptySeq
<1>4. g[o] = IF o.code = dhcpOptAgentInfo THEN <<>> ELSE <<o>>
  OBVIOUS
<1> HIDE DEF g
<1>5. /\ FlatMap(g, <<>>) = <<>> /\ FlatMap(g, s) \in Seq(Item)
      /\ FlatMap(g, Append(s, o)) = FlatMap(g, s) \o g[o]
  <2> DEFINE I == Item
  <2>1. g \in [Item -> Seq(I)]
    BY <1>1
  <2> HIDE DEF I
  <2>2. /\ FlatMap(g, <<>>) = <<>> /\ FlatMap(g, s) \in Seq(I)
        /\ FlatMap(g, Append(s, o)) = FlatMap(g, s) \o g[o]
    BY <2>1, FlatMapped
  <2> QED BY <2>2 DEF I
<1>6. Without82(s) \in Seq(Item)
  BY <1>2, <1>5
<1>7. Without82(s) \o <<>> = Without82(s) /\ Without82(s) \o <<o>> = Append(Without82(s), o)
  BY <1>6, ConcatEmptySeq, AppendIsConcat
<1> QED BY <1>2, <1>3, <1>4, <1>5, <1>7

\* An area without items.
LEMMA EmptyArea ==
    Encode(<<>>) = <<>> /\ Options(<<>>) = <<>> /\ Without82(<<>>) = <<>>
<1>1. [code |-> 0, data |-> <<>>] \in Item
  <2>1. 0 \in Byte /\ <<>> \in Seq(Byte) /\ Len(<<>>) = 0
    BY EmptySeq DEF Byte
  <2> QED BY <2>1 DEF Item, Option, dhcpOptEnd
<1>2. <<>> \in Seq(Item)
  BY EmptySeq
<1> QED BY <1>1, <1>2, Encoded, OptionsOf, Without82Of

\* There is an item.
LEMMA SomeItem == \E o \in Item : TRUE
<1>1. [code |-> 1, data |-> <<>>] \in Item
  BY EmptySeq DEF Item, Option, Byte, dhcpOptEnd, dhcpOptPad
<1> QED BY <1>1

\* Item o lies between offsets n and e of an area, as a loop reads it.
Reads(area, n, e, o) ==
    /\ n < Len(area) /\ At(area, n) = o.code
    /\ o.code = dhcpOptPad => e = n + 1
    /\ o.code # dhcpOptPad =>
          /\ Whole(area, n) /\ At(area, n + 1) = Len(o.data) /\ e = n + 2 + Len(o.data)
          /\ Slice(area, n + 2, Len(o.data)) = o.data
          /\ Slice(area, n, 2 + Len(o.data)) = Bytes(o)

\* What a loop reads where an item starts.
LEMMA ItemAt ==
    ASSUME NEW u \in Seq(Byte), NEW o \in Item, NEW t \in Seq(Byte)
    PROVE  Reads(u \o (Bytes(o) \o t), Len(u), Len(u \o Bytes(o)), o)
<1>0. PICK area : area = u \o (Bytes(o) \o t)
  OBVIOUS
<1> DEFINE b == Bytes(o)
           d == o.data
           c == o.code
<1>1. /\ b \in Seq(Byte) /\ d \in Seq(Byte) /\ c \in Byte /\ Len(d) \in Byte
  BY ItemBytes
<1>2. c = dhcpOptPad => Len(b) = 1 /\ b = <<dhcpOptPad>>
  BY ItemBytes
<1>3. c # dhcpOptPad => Len(b) = 2 + Len(d) /\ b = <<c, Len(d)>> \o d
  BY ItemBytes
<1>4. c \in 0 .. 254
  BY ItemBytes
<1>5. area = u \o (b \o t)
  BY <1>0
<1> HIDE DEF b, c, d
<1>6. Len(u) \in Nat /\ Len(t) \in Nat /\ Len(b) \in Nat /\ Len(d) \in Nat
  BY <1>1, Joined
<1>7. Len(b) > 0
  <2>1. PICK n, k : n = Len(b) /\ k = Len(d)
    OBVIOUS
  <2>2. n = 1 \/ n = 2 + k
    BY <1>2, <1>3, <2>1
  <2>3. n \in Nat /\ k \in Nat
    BY <1>6, <2>1
  <2>4. n > 0
    BY <2>2, <2>3
  <2> QED BY <2>1, <2>4
<1>8. b[1] = c /\ (c # dhcpOptPad => b[2] = Len(d))
  <2>1. CASE c = dhcpOptPad
    BY <2>1, <1>2
  <2>2. CASE c # dhcpOptPad
    <3>1. PICK h : h = <<c, Len(d)>>
      OBVIOUS
    <3>2. h \in Seq(Byte) /\ Len(h) = 2 /\ h[1] = c /\ h[2] = Len(d)
      BY <1>1, <3>1, Header
    <3>3. b = h \o d
      BY <1>3, <2>2, <3>1
    <3>4. \A i \in 1 .. Len(h) + Len(d) : b[i] = IF i <= Len(h) THEN h[i] ELSE d[i - Len(h)]
      BY <3>2, <3>3, <1>1, ConcatProperties
    <3>5. 1 \in 1 .. Len(h) + Len(d) /\ 2 \in 1 .. Len(h) + Len(d)
      BY <3>2, <1>6
    <3> QED BY <3>2, <3>4, <3>5
  <2> QED BY <2>1, <2>2
<1>9. /\ area \in Seq(Byte) /\ Len(area) = Len(u) + Len(b) + Len(t)
      /\ area = (u \o b) \o t
      /\ Slice(area, Len(u), Len(b)) = b
      /\ \A i \in 0 .. Len(b) - 1 : At(area, Len(u) + i) = At(b, i)
  <2>1. b \in Seq(Byte)
    BY <1>1
  <2>2. /\ u \o (b \o t) \in Seq(Byte) /\ Len(u \o (b \o t)) = Len(u) + Len(b) + Len(t)
        /\ u \o (b \o t) = (u \o b) \o t
        /\ Slice(u \o (b \o t), Len(u), Len(b)) = b
        /\ \A i \in 0 .. Len(b) - 1 : At(u \o (b \o t), Len(u) + i) = At(b, i)
    BY <2>1, Middle
  <2> QED BY <1>5, <2>2
<1>10. u \o b \in Seq(Byte) /\ Len(u \o b) = Len(u) + Len(b)
  BY <1>1, Joined
<1>11. At(area, Len(u)) = c /\ Len(u) < Len(area)
  <2>1. 0 \in 0 .. Len(b) - 1 /\ Len(u) + 0 = Len(u)
    BY <1>6, <1>7
  <2>2. At(area, Len(u) + 0) = At(b, 0)
    BY <1>9, <2>1
  <2>3. At(b, 0) = c
    BY <1>8 DEF At
  <2>4. Len(u) < Len(area)
    BY <1>6, <1>7, <1>9
  <2> QED BY <2>1, <2>2, <2>3, <2>4
<1>12. ASSUME c # dhcpOptPad
      PROVE  /\ Whole(area, Len(u)) /\ At(area, Len(u) + 1) = Len(d)
             /\ Slice(area, Len(u) + 2, Len(d)) = d
             /\ Slice(area, Len(u), 2 + Len(d)) = b
             /\ Len(u \o b) = Len(u) + 2 + Len(d)
  <2>1. 1 \in 0 .. Len(b) - 1 /\ Len(b) = 2 + Len(d)
    BY <1>3, <1>6, <1>12
  <2>2. At(area, Len(u) + 1) = Len(d)
    <3>1. At(area, Len(u) + 1) = At(b, 1)
      BY <2>1, <1>9
    <3>2. At(b, 1) = b[2]
      BY DEF At
    <3> QED BY <3>1, <3>2, <1>8, <1>12
  <2>3. Whole(area, Len(u))
    BY <2>1, <2>2, <1>6, <1>9 DEF Whole
  <2>4. Slice(area, Len(u) + 2, Len(d)) = d
    <3>1. PICK h : h = <<c, Len(d)>>
      OBVIOUS
    <3>2. h \in Seq(Byte) /\ Len(h) = 2
      BY <1>1, <3>1, Header
    <3>3. b = h \o d
      BY <1>3, <1>12, <3>1
    <3>4. PICK x : x = u \o h
      OBVIOUS
    <3>5. x \in Seq(Byte) /\ Len(x) = Len(u) + 2
      <4>1. x \in Seq(Byte) /\ Len(x) = Len(u) + Len(h)
        BY <3>2, <3>4, Joined
      <4> QED BY <4>1, <3>2
    <3>6. u \o b = x \o d
      <4>1. Groups(u, h, d)
        BY <3>2, <1>1, Grouped
      <4> QED BY <3>3, <3>4, <4>1 DEF Groups
    <3>7. area = x \o (d \o t)
      <4>1. (x \o d) \o t = x \o (d \o t)
        BY <1>1, <3>5, Regrouped, Zenon
      <4>2. area = (x \o d) \o t
        BY <1>9, <3>6
      <4> QED BY <4>1, <4>2
    <3>8. Slice(x \o (d \o t), Len(x), Len(d)) = d
      BY <1>1, <3>5, Middle
    <3> QED BY <3>5, <3>7, <3>8
  <2>5. Slice(area, Len(u), 2 + Len(d)) = b
    BY <2>1, <1>9
  <2>6. Len(u \o b) = Len(u) + 2 + Len(d)
    BY <2>1, <1>6, <1>10
  <2> QED BY <2>2, <2>3, <2>4, <2>5, <2>6
<1>13. c = dhcpOptPad => Len(u \o b) = Len(u) + 1
  BY <1>2, <1>10
<1>14. Reads(area, Len(u), Len(u \o b), o)
  BY <1>11, <1>12, <1>13 DEF Reads, b, c, d
<1> QED BY <1>0, <1>14 DEF b

-----------------------------------------------------------------------------
(* Each loop of the codec, one round at a time.                            *)

\* How far an area reaches beyond an offset: what every round makes less.
Left(area, off) == IF off < Len(area) THEN Len(area) - off ELSE 0

\* It is a number, and less at every later offset.
LEMMA LeftLess ==
    ASSUME NEW area \in Seq(Byte), NEW off \in Nat
    PROVE  /\ Left(area, off) \in Nat
           /\ off < Len(area) => \A k \in Nat : k > off => Left(area, k) < Left(area, off)
<1>1. PICK n : n = Len(area)
  OBVIOUS
<1>2. n \in Nat
  BY <1>1, LenProperties
<1> QED BY <1>1, <1>2 DEF Left

\* What a byte of an area and the offsets reckoned from it are.
LEMMA ByteAt ==
    ASSUME NEW area \in Seq(Byte), NEW off \in Nat, off < Len(area)
    PROVE  At(area, off) \in Byte /\ At(area, off) \in Nat
<1>1. PICK n : n = Len(area)
  OBVIOUS
<1>2. n \in Nat
  BY <1>1, LenProperties
<1>3. off + 1 \in 1 .. n
  BY <1>1, <1>2
<1>4. area[off + 1] \in Byte
  BY <1>1, <1>3, ElementOfSeq
<1>5. PICK b : b = At(area, off)
  OBVIOUS
<1>6. b \in Byte
  BY <1>4, <1>5 DEF At
<1>7. b \in Nat
  BY <1>6 DEF Byte
<1> QED BY <1>5, <1>6, <1>7

\* A whole option has a payload of bytes and ends inside the area.
LEMMA WholeOption ==
    ASSUME NEW area \in Seq(Byte), NEW off \in Nat, Whole(area, off)
    PROVE  /\ off < Len(area) /\ At(area, off + 1) \in Byte /\ At(area, off + 1) \in Nat
           /\ off + 2 + At(area, off + 1) \in Nat
           /\ off + 2 + At(area, off + 1) > off
           /\ Slice(area, off + 2, At(area, off + 1)) \in Seq(Byte)
           /\ Slice(area, off, 2 + At(area, off + 1)) \in Seq(Byte)
<1>1. PICK n : n = Len(area)
  OBVIOUS
<1>2. n \in Nat
  BY <1>1, LenProperties
<1>3. off + 2 <= n
  BY <1>1 DEF Whole
<1>4. off < n /\ off + 1 < n /\ off + 1 \in Nat
  BY <1>2, <1>3
<1>5. PICK l : l = At(area, off + 1)
  OBVIOUS
<1>6. l \in Byte /\ l \in Nat
  BY <1>1, <1>4, <1>5, ByteAt
<1>7. off + 2 + l <= n
  BY <1>1, <1>5 DEF Whole
<1>8. ASSUME NEW p \in Nat, NEW k \in Nat, p + k <= n PROVE Slice(area, p, k) \in Seq(Byte)
  <2>1. \A i \in p + 1 .. p + k : i \in 1 .. n
    BY <1>2, <1>8
  <2>2. \A i \in p + 1 .. p + k : area[i] \in Byte
    BY <1>1, <2>1, ElementOfSeq
  <2>3. p + 1 \in Int /\ p + k \in Int
    OBVIOUS
  <2>4. SubSeq(area, p + 1, p + k) \in Seq(Byte)
    BY <2>2, <2>3, SubSeqProperties
  <2> QED BY <2>4 DEF Slice
<1>9. Slice(area, off + 2, l) \in Seq(Byte) /\ Slice(area, off, 2 + l) \in Seq(Byte)
  <2>1. off + 2 \in Nat /\ 2 + l \in Nat /\ off + (2 + l) <= n
    BY <1>2, <1>6, <1>7
  <2> QED BY <2>1, <1>6, <1>7, <1>8
<1>10. off + 2 + l \in Nat /\ off + 2 + l > off
  BY <1>6
<1> QED BY <1>1, <1>4, <1>5, <1>6, <1>9, <1>10

\* What follows an offset is bytes.
LEMMA FromBytes ==
    ASSUME NEW area \in Seq(Byte), NEW off \in Nat
    PROVE  From(area, off) \in Seq(Byte)
<1>1. PICK n : n = Len(area)
  OBVIOUS
<1>2. n \in Nat
  BY <1>1, LenProperties
<1>3. \A i \in off + 1 .. n : i \in 1 .. n
  BY <1>2
<1>4. \A i \in off + 1 .. n : area[i] \in Byte
  BY <1>1, <1>3, ElementOfSeq
<1>5. off + 1 \in Int /\ n \in Int
  BY <1>2
<1>6. SubSeq(area, off + 1, n) \in Seq(Byte)
  BY <1>4, <1>5, SubSeqProperties
<1> QED BY <1>1, <1>6 DEF From

\* The option at an offset.
OptionAt(area, off) ==
    [code |-> At(area, off), data |-> Slice(area, off + 2, At(area, off + 1))]

\* One round of parseOptionArea.
LEMMA ParseRound ==
    ASSUME NEW area \in Seq(Byte), NEW off \in Nat, NEW out \in Seq(Option)
    PROVE  /\ off >= Len(area) => parseLoop(area)[<<off, out>>] = <<>>
           /\ off < Len(area) /\ At(area, off) = dhcpOptEnd => parseLoop(area)[<<off, out>>] = out
           /\ off < Len(area) /\ At(area, off) = dhcpOptPad =>
                 parseLoop(area)[<<off, out>>] = parseLoop(area)[<<off + 1, out>>]
           /\ off < Len(area) /\ At(area, off) \notin {dhcpOptEnd, dhcpOptPad} =>
                 parseLoop(area)[<<off, out>>] =
                    IF Whole(area, off)
                    THEN parseLoop(area)[<<off + 2 + At(area, off + 1),
                                           Append(out, OptionAt(area, off))>>]
                    ELSE <<>>
<1> DEFINE S == Nat \X Seq(Option)
           R == Seq(Option)
           more(s) == /\ s[1] < Len(area) /\ At(area, s[1]) # dhcpOptEnd
                      /\ At(area, s[1]) = dhcpOptPad \/ Whole(area, s[1])
           after(s) == IF At(area, s[1]) = dhcpOptPad THEN <<s[1] + 1, s[2]>>
                       ELSE <<s[1] + 2 + At(area, s[1] + 1), Append(s[2], OptionAt(area, s[1]))>>
           stop == {s \in S : ~more(s)}
           res == [s \in S |-> IF s[1] < Len(area) /\ At(area, s[1]) = dhcpOptEnd THEN s[2] ELSE <<>>]
           nxt == [s \in S |-> IF s \in stop THEN s ELSE after(s)]
           m == [s \in S |-> Left(area, s[1])]
           Body(f) == [s \in S |->
                          CASE s[1] >= Len(area) -> <<>>
                            [] s[1] < Len(area) /\ At(area, s[1]) = dhcpOptEnd -> s[2]
                            [] s[1] < Len(area) /\ At(area, s[1]) = dhcpOptPad -> f[<<s[1] + 1, s[2]>>]
                            [] OTHER ->
                                  IF ~Whole(area, s[1]) THEN <<>>
                                  ELSE f[<<s[1] + 2 + At(area, s[1] + 1),
                                           Append(s[2], OptionAt(area, s[1]))>>]]
<1>0. Len(area) \in Nat /\ dhcpOptEnd # dhcpOptPad
  BY LenProperties DEF dhcpOptEnd, dhcpOptPad
<1>1. parseLoop(area) = CHOOSE f : f = Body(f)
  BY DEF parseLoop, OptionAt
<1>2. ASSUME NEW s \in S, s \notin stop
      PROVE  after(s) \in S /\ after(s)[1] > s[1]
  <2>1. /\ s[1] \in Nat /\ s[2] \in Seq(Option) /\ s[1] < Len(area)
        /\ At(area, s[1]) = dhcpOptPad \/ Whole(area, s[1])
    BY <1>2
  <2>2. PICK k, o : k = s[1] /\ o = s[2]
    OBVIOUS
  <2>3. CASE At(area, k) = dhcpOptPad
    <3>1. k + 1 \in Nat /\ k + 1 > k
      BY <2>1, <2>2
    <3> QED BY <2>1, <2>2, <2>3, <3>1
  <2>4. CASE At(area, k) # dhcpOptPad
    <3>1. Whole(area, k) /\ k \in Nat /\ k < Len(area)
      BY <2>1, <2>2, <2>4
    <3>2. PICK l, d : l = At(area, k + 1) /\ d = Slice(area, k + 2, At(area, k + 1))
      OBVIOUS
    <3>3. k + 2 + l \in Nat /\ k + 2 + l > k /\ d \in Seq(Byte)
      BY <3>1, <3>2, WholeOption
    <3>4. At(area, k) \in Byte
      BY <3>1, ByteAt
    <3>5. OptionAt(area, k) \in Option
      BY <3>2, <3>3, <3>4 DEF OptionAt, Option
    <3>6. Append(o, OptionAt(area, k)) \in Seq(Option)
      BY <2>1, <2>2, <3>5, AppendProperties
    <3>7. after(s) = <<k + 2 + l, Append(o, OptionAt(area, k))>>
      BY <2>2, <2>4, <3>2
    <3> QED BY <3>3, <3>6, <3>7, <2>2
  <2> QED BY <2>3, <2>4
<1>3. Loops(S, R, stop, res, nxt, m)
  <2>1. stop \in SUBSET S /\ nxt \in [S -> S]
    <3> HIDE DEF more, after
    <3> QED BY <1>2
  <2>2. res \in [S -> R]
    BY EmptySeq
  <2>3. m \in [S -> Nat]
    BY LeftLess
  <2>4. ASSUME NEW s \in S \ stop PROVE m[nxt[s]] < m[s]
    <3>1. nxt[s] = after(s) /\ after(s) \in S /\ after(s)[1] > s[1] /\ s[1] < Len(area)
      BY <1>2
    <3>2. PICK t \in S : t = after(s)
      BY <3>1
    <3>3. s[1] \in Nat /\ t[1] \in Nat /\ t[1] > s[1] /\ s[1] < Len(area)
      BY <3>1, <3>2
    <3>4. Left(area, t[1]) < Left(area, s[1])
      BY <3>3, LeftLess
    <3>5. m[s] = Left(area, s[1]) /\ m[t] = Left(area, t[1])
      BY <3>2
    <3> HIDE DEF m, nxt, after
    <3> QED BY <3>1, <3>2, <3>4, <3>5
  <2> HIDE DEF S, R, stop, res, nxt, m
  <2> QED BY <2>1, <2>2, <2>3, <2>4 DEF Loops
<1>4. PICK f \in [S -> R] : \A s \in S : f[s] = IF s \in stop THEN res[s] ELSE f[nxt[s]]
  <2> HIDE DEF S, R, stop, res, nxt, m
  <2> QED BY <1>3, LoopReturns
<1>5. ASSUME NEW s \in S PROVE f[s] = Body(f)[s]
  <2>1. s[1] \in Nat
    OBVIOUS
  <2>2. CASE s \in stop
    <3>1. f[s] = res[s]
      <4> HIDE DEF stop, res, nxt
      <4> QED BY <1>4, <2>2
    <3> QED BY <3>1, <2>1, <2>2, <1>0, SMTT(30)
  <2>3. CASE s \notin stop
    <3>1. nxt[s] = after(s) /\ after(s) \in S
      BY <2>3, <1>2
    <3>2. f[s] = f[after(s)]
      <4> HIDE DEF after, stop, nxt, res
      <4> QED BY <1>4, <2>3, <3>1
    <3> QED BY <3>2, <2>1, <2>3, <1>0, SMTT(30)
  <2> QED BY <2>2, <2>3
<1>6. f = Body(f)
  <2>1. f \in [S -> R] /\ \A s \in S : f[s] = Body(f)[s]
    <3> HIDE DEF Body
    <3> QED BY <1>4, <1>5
  <2> QED BY <2>1
<1>7. parseLoop(area) = Body(parseLoop(area))
  <2> HIDE DEF Body
  <2> QED BY <1>1, <1>6
<1>8. PICK g : g = parseLoop(area)
  OBVIOUS
<1>9. PICK s : s = <<off, out>>
  OBVIOUS
<1>10. s \in S /\ s[1] = off /\ s[2] = out
  BY <1>9
<1>11. g[s] = Body(g)[s]
  <2> HIDE DEF Body
  <2> QED BY <1>7, <1>8
<1>12. g[<<off, out>>] =
          CASE off >= Len(area) -> <<>>
            [] off < Len(area) /\ At(area, off) = dhcpOptEnd -> out
            [] off < Len(area) /\ At(area, off) = dhcpOptPad -> g[<<off + 1, out>>]
            [] OTHER -> IF ~Whole(area, off) THEN <<>>
                        ELSE g[<<off + 2 + At(area, off + 1), Append(out, OptionAt(area, off))>>]
  BY <1>9, <1>10, <1>11
<1> QED BY <1>0, <1>8, <1>12

\* One round of stripAgentInfo.
LEMMA StripRound ==
    ASSUME NEW area \in Seq(Byte), NEW off \in Nat, NEW out \in Seq(Byte)
    PROVE  /\ off >= Len(area) => stripLoop(area)[<<off, out>>] = Append(out, dhcpOptEnd)
           /\ off < Len(area) /\ At(area, off) = dhcpOptEnd =>
                 stripLoop(area)[<<off, out>>] = out \o From(area, off)
           /\ off < Len(area) /\ At(area, off) = dhcpOptPad =>
                 stripLoop(area)[<<off, out>>] = stripLoop(area)[<<off + 1, Append(out, dhcpOptPad)>>]
           /\ off < Len(area) /\ At(area, off) \notin {dhcpOptEnd, dhcpOptPad} =>
                 stripLoop(area)[<<off, out>>] =
                    IF Whole(area, off)
                    THEN stripLoop(area)[<<off + (2 + At(area, off + 1)),
                                           IF At(area, off) = dhcpOptAgentInfo THEN out
                                           ELSE out \o Slice(area, off, 2 + At(area, off + 1))>>]
                    ELSE Append(out, dhcpOptEnd)
<1> DEFINE S == Nat \X Seq(Byte)
           R == Seq(Byte)
           kept(s) == IF At(area, s[1]) = dhcpOptAgentInfo THEN s[2]
                      ELSE s[2] \o Slice(area, s[1], 2 + At(area, s[1] + 1))
           more(s) == /\ s[1] < Len(area) /\ At(area, s[1]) # dhcpOptEnd
                      /\ At(area, s[1]) = dhcpOptPad \/ Whole(area, s[1])
           after(s) == IF At(area, s[1]) = dhcpOptPad THEN <<s[1] + 1, Append(s[2], dhcpOptPad)>>
                       ELSE <<s[1] + (2 + At(area, s[1] + 1)), kept(s)>>
           stop == {s \in S : ~more(s)}
           res == [s \in S |-> IF s[1] < Len(area) /\ At(area, s[1]) = dhcpOptEnd
                               THEN s[2] \o From(area, s[1]) ELSE Append(s[2], dhcpOptEnd)]
           nxt == [s \in S |-> IF s \in stop THEN s ELSE after(s)]
           m == [s \in S |-> Left(area, s[1])]
           Body(f) == [s \in S |->
                          CASE s[1] >= Len(area) -> Append(s[2], dhcpOptEnd)
                            [] s[1] < Len(area) /\ At(area, s[1]) = dhcpOptEnd ->
                                  s[2] \o From(area, s[1])
                            [] s[1] < Len(area) /\ At(area, s[1]) = dhcpOptPad ->
                                  f[<<s[1] + 1, Append(s[2], dhcpOptPad)>>]
                            [] OTHER ->
                                  IF ~Whole(area, s[1]) THEN Append(s[2], dhcpOptEnd)
                                  ELSE f[<<s[1] + (2 + At(area, s[1] + 1)), kept(s)>>]]
<1>0. /\ Len(area) \in Nat /\ dhcpOptEnd # dhcpOptPad
      /\ dhcpOptEnd \in Byte /\ dhcpOptPad \in Byte
  BY LenProperties DEF dhcpOptEnd, dhcpOptPad, Byte
<1>1. stripLoop(area) = CHOOSE f : f = Body(f)
  BY DEF stripLoop
<1>2. ASSUME NEW s \in S, s \notin stop
      PROVE  after(s) \in S /\ after(s)[1] > s[1]
  <2>1. /\ s[1] \in Nat /\ s[2] \in Seq(Byte) /\ s[1] < Len(area)
        /\ At(area, s[1]) = dhcpOptPad \/ Whole(area, s[1])
    BY <1>2
  <2>2. PICK k, o : k = s[1] /\ o = s[2]
    OBVIOUS
  <2>3. CASE At(area, k) = dhcpOptPad
    <3>1. k + 1 \in Nat /\ k + 1 > k
      BY <2>1, <2>2
    <3>2. Append(o, dhcpOptPad) \in Seq(Byte)
      BY <1>0, <2>1, <2>2, AppendProperties
    <3>3. after(s) = <<k + 1, Append(o, dhcpOptPad)>>
      BY <2>2, <2>3
    <3> QED BY <3>1, <3>2, <3>3, <2>2
  <2>4. CASE At(area, k) # dhcpOptPad
    <3>1. Whole(area, k) /\ k \in Nat /\ k < Len(area)
      BY <2>1, <2>2, <2>4
    <3>2. PICK l, d : l = At(area, k + 1) /\ d = Slice(area, k, 2 + At(area, k + 1))
      OBVIOUS
    <3>3. l \in Nat /\ d \in Seq(Byte)
      BY <3>1, <3>2, WholeOption
    <3>4. k + (2 + l) \in Nat /\ k + (2 + l) > k
      BY <3>1, <3>3
    <3>5. o \o d \in Seq(Byte)
      BY <2>1, <2>2, <3>3, Joined
    <3>6. kept(s) = o \/ kept(s) = o \o d
      BY <2>2, <3>2
    <3>7. PICK q \in Seq(Byte) : q = kept(s)
      BY <3>5, <3>6, <2>1, <2>2
    <3> HIDE DEF kept
    <3>8. after(s) = <<k + (2 + l), q>>
      BY <2>2, <2>4, <3>2, <3>7
    <3> QED BY <3>4, <3>8, <2>2
  <2> QED BY <2>3, <2>4
<1>3. Loops(S, R, stop, res, nxt, m)
  <2>1. stop \in SUBSET S /\ nxt \in [S -> S]
    <3> HIDE DEF more, after
    <3> QED BY <1>2
  <2>2. res \in [S -> R]
    <3>1. ASSUME NEW s \in S PROVE res[s] \in R
      <4>1. PICK k \in Nat, o \in Seq(Byte) : k = s[1] /\ o = s[2]
        OBVIOUS
      <4>2. Append(o, dhcpOptEnd) \in Seq(Byte)
        BY <1>0, AppendProperties
      <4>3. From(area, k) \in Seq(Byte)
        BY FromBytes
      <4>4. o \o From(area, k) \in Seq(Byte)
        BY <4>3, Joined
      <4> QED BY <4>1, <4>2, <4>4
    <3> HIDE DEF R
    <3> QED BY <3>1
  <2>3. m \in [S -> Nat]
    BY LeftLess
  <2>4. ASSUME NEW s \in S \ stop PROVE m[nxt[s]] < m[s]
    <3>1. nxt[s] = after(s) /\ after(s) \in S /\ after(s)[1] > s[1] /\ s[1] < Len(area)
      <4>1. s[1] < Len(area)
        OBVIOUS
      <4> HIDE DEF after
      <4> QED BY <1>2, <4>1
    <3>2. PICK t \in S : t = after(s)
      BY <3>1
    <3>3. s[1] \in Nat /\ t[1] \in Nat /\ t[1] > s[1] /\ s[1] < Len(area)
      BY <3>1, <3>2
    <3>4. Left(area, t[1]) < Left(area, s[1])
      BY <3>3, LeftLess
    <3>5. m[s] = Left(area, s[1]) /\ m[t] = Left(area, t[1])
      BY <3>2
    <3> HIDE DEF m, nxt, after
    <3> QED BY <3>1, <3>2, <3>4, <3>5
  <2> HIDE DEF S, R, stop, res, nxt, m
  <2> QED BY <2>1, <2>2, <2>3, <2>4 DEF Loops
<1>4. PICK f \in [S -> R] : \A s \in S : f[s] = IF s \in stop THEN res[s] ELSE f[nxt[s]]
  <2> HIDE DEF S, R, stop, res, nxt, m
  <2> QED BY <1>3, LoopReturns
<1>5. ASSUME NEW s \in S PROVE f[s] = Body(f)[s]
  <2>1. s[1] \in Nat
    OBVIOUS
  <2>2. CASE s \in stop
    <3>1. f[s] = res[s]
      <4> HIDE DEF stop, res, nxt
      <4> QED BY <1>4, <2>2
    <3> QED BY <3>1, <2>1, <2>2, <1>0
  <2>3. CASE s \notin stop
    <3>1. nxt[s] = after(s) /\ after(s) \in S
      <4> HIDE DEF after
      <4> QED BY <2>3, <1>2
    <3>2. f[s] = f[after(s)]
      <4> HIDE DEF after, stop, nxt, res
      <4> QED BY <1>4, <2>3, <3>1
    <3> HIDE DEF kept
    <3> QED BY <3>2, <2>1, <2>3, <1>0
  <2> QED BY <2>2, <2>3
<1>6. f = Body(f)
  <2>1. f \in [S -> R] /\ \A s \in S : f[s] = Body(f)[s]
    <3> HIDE DEF Body
    <3> QED BY <1>4, <1>5
  <2> QED BY <2>1
<1>7. stripLoop(area) = Body(stripLoop(area))
  <2> HIDE DEF Body
  <2> QED BY <1>1, <1>6
<1>8. PICK g : g = stripLoop(area)
  OBVIOUS
<1>9. PICK s : s = <<off, out>>
  OBVIOUS
<1>10. s \in S /\ s[1] = off /\ s[2] = out
  BY <1>9
<1>11. g[s] = Body(g)[s]
  <2> HIDE DEF Body
  <2> QED BY <1>7, <1>8
<1>12. PICK q : q = IF At(area, off) = dhcpOptAgentInfo THEN out
                    ELSE out \o Slice(area, off, 2 + At(area, off + 1))
  OBVIOUS
<1>13. q = kept(s)
  BY <1>10, <1>12
<1>14. g[<<off, out>>] =
          CASE off >= Len(area) -> Append(out, dhcpOptEnd)
            [] off < Len(area) /\ At(area, off) = dhcpOptEnd -> out \o From(area, off)
            [] off < Len(area) /\ At(area, off) = dhcpOptPad -> g[<<off + 1, Append(out, dhcpOptPad)>>]
            [] OTHER -> IF ~Whole(area, off) THEN Append(out, dhcpOptEnd)
                        ELSE g[<<off + (2 + At(area, off + 1)), q>>]
  <2> HIDE DEF kept
  <2> QED BY <1>9, <1>10, <1>11, <1>13
<1> QED BY <1>0, <1>8, <1>12, <1>14

\* A loop over the offsets of an area alone.
Scans(area, R, stop, res, nxt) ==
    /\ stop \in SUBSET Nat /\ res \in [Nat -> R] /\ nxt \in [Nat -> Nat]
    /\ \A off \in Nat \ stop : off < Len(area) /\ nxt[off] > off

\* It returns from every offset.
LEMMA ScanReturns ==
    ASSUME NEW area \in Seq(Byte), NEW R, NEW stop, NEW res, NEW nxt,
           Scans(area, R, stop, res, nxt)
    PROVE  \E f \in [Nat -> R] : \A off \in Nat : f[off] = IF off \in stop THEN res[off] ELSE f[nxt[off]]
<1> DEFINE m == [off \in Nat |-> Left(area, off)]
<1>1. m \in [Nat -> Nat]
  BY LeftLess
<1>2. ASSUME NEW off \in Nat \ stop PROVE m[nxt[off]] < m[off]
  <2>1. nxt[off] \in Nat /\ off \in Nat /\ off < Len(area) /\ nxt[off] > off
    BY DEF Scans
  <2>2. Left(area, nxt[off]) < Left(area, off)
    BY <2>1, LeftLess
  <2> QED BY <2>1, <2>2
<1>3. Loops(Nat, R, stop, res, nxt, m)
  <2> HIDE DEF m
  <2> QED BY <1>1, <1>2 DEF Loops, Scans
<1> HIDE DEF m
<1> QED BY <1>3, LoopReturns

\* One round of insertAgentInfo's walk.
LEMMA InsertRound ==
    ASSUME NEW area \in Seq(Byte), NEW off \in Nat
    PROVE  /\ off >= Len(area) => insertLoop(area)[off] = [stop |-> "malformed", off |-> off]
           /\ off < Len(area) /\ At(area, off) = dhcpOptEnd =>
                 insertLoop(area)[off] = [stop |-> "end", off |-> off]
           /\ off < Len(area) /\ At(area, off) = dhcpOptPad =>
                 insertLoop(area)[off] = insertLoop(area)[off + 1]
           /\ off < Len(area) /\ At(area, off) = dhcpOptAgentInfo =>
                 insertLoop(area)[off] = [stop |-> "relayed", off |-> off]
           /\ off < Len(area) /\ At(area, off) \notin {dhcpOptEnd, dhcpOptPad, dhcpOptAgentInfo} =>
                 insertLoop(area)[off] =
                    IF Whole(area, off) THEN insertLoop(area)[off + 2 + At(area, off + 1)]
                    ELSE [stop |-> "malformed", off |-> off]
<1> DEFINE more(k) == /\ k < Len(area) /\ At(area, k) \notin {dhcpOptEnd, dhcpOptAgentInfo}
                      /\ At(area, k) = dhcpOptPad \/ Whole(area, k)
           after(k) == IF At(area, k) = dhcpOptPad THEN k + 1 ELSE k + 2 + At(area, k + 1)
           stop == {k \in Nat : ~more(k)}
           bad(k) == [stop |-> "malformed", off |-> k]
           end(k) == [stop |-> "end", off |-> k]
           done(k) == [stop |-> "relayed", off |-> k]
           val(k) == IF k < Len(area) /\ At(area, k) = dhcpOptEnd THEN end(k)
                     ELSE IF k < Len(area) /\ At(area, k) = dhcpOptAgentInfo THEN done(k)
                     ELSE bad(k)
           R == {val(k) : k \in Nat}
           res == [k \in Nat |-> val(k)]
           nxt == [k \in Nat |-> IF k \in stop THEN k ELSE after(k)]
           Body(f) == [k \in Nat |->
                          CASE k >= Len(area) -> bad(k)
                            [] k < Len(area) /\ At(area, k) = dhcpOptEnd -> end(k)
                            [] k < Len(area) /\ At(area, k) = dhcpOptPad -> f[k + 1]
                            [] k < Len(area) /\ At(area, k) = dhcpOptAgentInfo -> done(k)
                            [] OTHER -> IF ~Whole(area, k) THEN bad(k)
                                        ELSE f[k + 2 + At(area, k + 1)]]
<1>0. /\ Len(area) \in Nat /\ dhcpOptEnd # dhcpOptPad
      /\ dhcpOptAgentInfo # dhcpOptEnd /\ dhcpOptAgentInfo # dhcpOptPad
  BY LenProperties DEF dhcpOptEnd, dhcpOptPad, dhcpOptAgentInfo
<1>1. insertLoop(area) = CHOOSE f : f = Body(f)
  BY DEF insertLoop
<1> HIDE DEF bad, end, done
<1>2. ASSUME NEW k \in Nat, k \notin stop PROVE k < Len(area) /\ after(k) \in Nat /\ after(k) > k
  <2>1. k < Len(area) /\ (At(area, k) = dhcpOptPad \/ Whole(area, k))
    BY <1>2
  <2>2. CASE At(area, k) = dhcpOptPad
    BY <2>1, <2>2
  <2>3. CASE At(area, k) # dhcpOptPad
    <3>1. k + 2 + At(area, k + 1) \in Nat /\ k + 2 + At(area, k + 1) > k
      BY <2>1, <2>3, WholeOption
    <3> QED BY <2>1, <2>3, <3>1
  <2> QED BY <2>2, <2>3
<1>3. Scans(area, R, stop, res, nxt)
  <2>1. stop \in SUBSET Nat
    OBVIOUS
  <2>2. nxt \in [Nat -> Nat]
    <3> HIDE DEF stop, after
    <3> QED BY <1>2
  <2>3. res \in [Nat -> R]
    <3> HIDE DEF val
    <3> QED OBVIOUS
  <2>4. \A k \in Nat \ stop : k < Len(area) /\ nxt[k] > k
    <3> HIDE DEF stop, after
    <3> QED BY <1>2
  <2> HIDE DEF stop, res, nxt, R
  <2> QED BY <2>1, <2>2, <2>3, <2>4 DEF Scans
<1>4. PICK f \in [Nat -> R] : \A k \in Nat : f[k] = IF k \in stop THEN res[k] ELSE f[nxt[k]]
  <2> HIDE DEF R, stop, res, nxt
  <2> QED BY <1>3, ScanReturns
<1>5. ASSUME NEW k \in Nat PROVE f[k] = Body(f)[k]
  <2>1. CASE k \in stop
    <3>1. f[k] = val(k)
      <4> HIDE DEF stop, nxt, val
      <4> QED BY <1>4, <2>1
    <3>2. Body(f)[k] = val(k)
      <4>1. CASE k >= Len(area)
        <5>1. ~(k < Len(area))
          BY <4>1, <1>0
        <5> QED BY <4>1, <5>1
      <4>2. CASE k < Len(area) /\ At(area, k) = dhcpOptEnd
        <5>1. ~(k >= Len(area))
          BY <4>2, <1>0
        <5> QED BY <4>2, <5>1, <1>0
      <4>3. CASE k < Len(area) /\ At(area, k) = dhcpOptAgentInfo
        <5>1. ~(k >= Len(area))
          BY <4>3, <1>0
        <5> QED BY <4>3, <5>1, <1>0
      <4>4. CASE /\ k < Len(area) /\ At(area, k) \notin {dhcpOptEnd, dhcpOptAgentInfo}
        <5>1. ~(k >= Len(area))
          BY <4>4, <1>0
        <5>2. At(area, k) # dhcpOptPad /\ ~Whole(area, k)
          BY <4>4, <2>1
        <5> QED BY <4>4, <5>1, <5>2
      <4>5. k >= Len(area) \/ k < Len(area)
        BY <1>0
      <4> HIDE DEF Body, val
      <4> QED BY <4>1, <4>2, <4>3, <4>4, <4>5
    <3> HIDE DEF Body, val
    <3> QED BY <3>1, <3>2
  <2>2. CASE k \notin stop
    <3>1. f[k] = f[after(k)]
      <4> HIDE DEF stop, after, res
      <4> QED BY <1>4, <2>2
    <3>2. /\ k < Len(area) /\ At(area, k) \notin {dhcpOptEnd, dhcpOptAgentInfo}
          /\ At(area, k) = dhcpOptPad \/ Whole(area, k)
      BY <2>2
    <3>3. ~(k >= Len(area))
      BY <3>2, <1>0
    <3>4. Body(f)[k] = f[after(k)]
      <4>1. CASE At(area, k) = dhcpOptPad
        BY <3>2, <3>3, <4>1
      <4>2. CASE At(area, k) # dhcpOptPad
        BY <3>2, <3>3, <4>2
      <4> QED BY <4>1, <4>2
    <3> HIDE DEF Body, after
    <3> QED BY <3>1, <3>4
  <2> QED BY <2>1, <2>2
<1>6. f = Body(f)
  <2>1. f \in [Nat -> R] /\ \A k \in Nat : f[k] = Body(f)[k]
    <3> HIDE DEF Body
    <3> QED BY <1>4, <1>5
  <2> QED BY <2>1
<1>7. insertLoop(area) = Body(insertLoop(area))
  <2> HIDE DEF Body
  <2> QED BY <1>1, <1>6
<1>8. PICK g : g = insertLoop(area)
  OBVIOUS
<1>9. g = Body(g)
  <2> HIDE DEF Body
  <2> QED BY <1>7, <1>8
<1>10. g[off] = CASE off >= Len(area) -> bad(off)
                  [] off < Len(area) /\ At(area, off) = dhcpOptEnd -> end(off)
                  [] off < Len(area) /\ At(area, off) = dhcpOptPad -> g[off + 1]
                  [] off < Len(area) /\ At(area, off) = dhcpOptAgentInfo -> done(off)
                  [] OTHER -> IF ~Whole(area, off) THEN bad(off)
                              ELSE g[off + 2 + At(area, off + 1)]
  BY <1>9
<1>11. off >= Len(area) <=> ~(off < Len(area))
  BY <1>0
<1>12. off >= Len(area) => g[off] = bad(off)
  BY <1>10, <1>11
<1>13. off < Len(area) /\ At(area, off) = dhcpOptEnd => g[off] = end(off)
  BY <1>10, <1>11, <1>0
<1>14. off < Len(area) /\ At(area, off) = dhcpOptPad => g[off] = g[off + 1]
  BY <1>10, <1>11, <1>0
<1>15. off < Len(area) /\ At(area, off) = dhcpOptAgentInfo => g[off] = done(off)
  BY <1>10, <1>11, <1>0
<1>16. off < Len(area) /\ At(area, off) \notin {dhcpOptEnd, dhcpOptPad, dhcpOptAgentInfo} =>
          g[off] = IF Whole(area, off) THEN g[off + 2 + At(area, off + 1)] ELSE bad(off)
  BY <1>10, <1>11
<1> QED BY <1>8, <1>12, <1>13, <1>14, <1>15, <1>16 DEF bad, end, done

\* One round of rewriteGateway's walk.
LEMMA RouterRound ==
    ASSUME NEW area \in Seq(Byte), NEW off \in Nat
    PROVE  /\ off >= Len(area) => routerLoop(area)[off] = <<>>
           /\ off < Len(area) /\ At(area, off) = dhcpOptEnd => routerLoop(area)[off] = <<>>
           /\ off < Len(area) /\ At(area, off) = dhcpOptPad =>
                 routerLoop(area)[off] = routerLoop(area)[off + 1]
           /\ Whole(area, off) /\ At(area, off) = dhcpOptRouter =>
                 routerLoop(area)[off] = IF At(area, off + 1) = 4 THEN <<off + 2>> ELSE <<>>
           /\ Whole(area, off) /\ At(area, off) \notin {dhcpOptEnd, dhcpOptPad, dhcpOptRouter} =>
                 routerLoop(area)[off] = routerLoop(area)[off + 2 + At(area, off + 1)]
<1> DEFINE more(k) == /\ k < Len(area) /\ At(area, k) # dhcpOptEnd
                      /\ \/ At(area, k) = dhcpOptPad
                         \/ k + 2 <= Len(area) /\ At(area, k) # dhcpOptRouter
           after(k) == IF At(area, k) = dhcpOptPad THEN k + 1 ELSE k + 2 + At(area, k + 1)
           stop == {k \in Nat : ~more(k)}
           patch(k) == IF At(area, k + 1) = 4 /\ k + 2 + At(area, k + 1) <= Len(area)
                       THEN <<k + 2>> ELSE <<>>
           val(k) == IF k < Len(area) /\ At(area, k) = dhcpOptRouter /\ k + 2 <= Len(area)
                     THEN patch(k) ELSE <<>>
           R == {val(k) : k \in Nat}
           res == [k \in Nat |-> val(k)]
           nxt == [k \in Nat |-> IF k \in stop THEN k ELSE after(k)]
           Body(f) == [k \in Nat |->
                          CASE k >= Len(area) -> <<>>
                            [] k < Len(area) /\ At(area, k) = dhcpOptEnd -> <<>>
                            [] k < Len(area) /\ At(area, k) = dhcpOptPad -> f[k + 1]
                            [] OTHER -> IF k + 2 > Len(area) THEN <<>>
                                        ELSE IF At(area, k) = dhcpOptRouter THEN patch(k)
                                        ELSE f[k + 2 + At(area, k + 1)]]
<1>0. /\ Len(area) \in Nat /\ dhcpOptEnd # dhcpOptPad
      /\ dhcpOptRouter # dhcpOptEnd /\ dhcpOptRouter # dhcpOptPad
  BY LenProperties DEF dhcpOptEnd, dhcpOptPad, dhcpOptRouter
<1>1. routerLoop(area) = CHOOSE f : f = Body(f)
  BY DEF routerLoop
<1>2. ASSUME NEW k \in Nat
      PROVE  /\ k >= Len(area) <=> ~(k < Len(area))
             /\ k + 2 > Len(area) <=> ~(k + 2 <= Len(area))
  BY <1>0
<1> HIDE DEF patch
<1>3. ASSUME NEW k \in Nat, k \notin stop PROVE k < Len(area) /\ after(k) \in Nat /\ after(k) > k
  <2>1. k < Len(area) /\ (At(area, k) = dhcpOptPad \/ k + 2 <= Len(area))
    BY <1>3
  <2>2. CASE At(area, k) = dhcpOptPad
    BY <2>1, <2>2
  <2>3. CASE At(area, k) # dhcpOptPad
    <3>1. k + 1 \in Nat /\ k + 1 < Len(area)
      BY <2>1, <2>3, <1>0
    <3>2. PICK l : l = At(area, k + 1)
      OBVIOUS
    <3>3. l \in Nat
      BY <3>1, <3>2, ByteAt
    <3>4. k + 2 + l \in Nat /\ k + 2 + l > k
      BY <3>3
    <3> QED BY <2>1, <2>3, <3>2, <3>4
  <2> QED BY <2>2, <2>3
<1>4. Scans(area, R, stop, res, nxt)
  <2>1. stop \in SUBSET Nat
    OBVIOUS
  <2>2. nxt \in [Nat -> Nat]
    <3> HIDE DEF stop, after
    <3> QED BY <1>3
  <2>3. res \in [Nat -> R]
    <3> HIDE DEF val
    <3> QED OBVIOUS
  <2>4. \A k \in Nat \ stop : k < Len(area) /\ nxt[k] > k
    <3> HIDE DEF stop, after
    <3> QED BY <1>3
  <2> HIDE DEF stop, res, nxt, R
  <2> QED BY <2>1, <2>2, <2>3, <2>4 DEF Scans
<1>5. PICK f \in [Nat -> R] : \A k \in Nat : f[k] = IF k \in stop THEN res[k] ELSE f[nxt[k]]
  <2> HIDE DEF R, stop, res, nxt
  <2> QED BY <1>4, ScanReturns
<1>6. ASSUME NEW k \in Nat PROVE f[k] = Body(f)[k]
  <2>1. CASE k \in stop
    <3>1. f[k] = val(k)
      <4> HIDE DEF stop, nxt, val
      <4> QED BY <1>5, <2>1
    <3>2. Body(f)[k] = val(k)
      <4>1. CASE ~(k < Len(area))
        BY <4>1, <1>2
      <4>2. CASE k < Len(area) /\ At(area, k) = dhcpOptEnd
        BY <4>2, <1>0, <1>2
      <4>3. CASE k < Len(area) /\ At(area, k) # dhcpOptEnd
        <5>1. /\ At(area, k) # dhcpOptPad
              /\ ~(k + 2 <= Len(area)) \/ At(area, k) = dhcpOptRouter
          BY <4>3, <2>1
        <5> QED BY <4>3, <5>1, <1>2
      <4> HIDE DEF Body, val
      <4> QED BY <4>1, <4>2, <4>3
    <3> HIDE DEF Body, val
    <3> QED BY <3>1, <3>2
  <2>2. CASE k \notin stop
    <3>1. f[k] = f[after(k)]
      <4> HIDE DEF stop, after, res
      <4> QED BY <1>5, <2>2
    <3>2. /\ k < Len(area) /\ At(area, k) # dhcpOptEnd
          /\ \/ At(area, k) = dhcpOptPad
             \/ k + 2 <= Len(area) /\ At(area, k) # dhcpOptRouter
      BY <2>2
    <3>3. Body(f)[k] = f[after(k)]
      <4>1. CASE At(area, k) = dhcpOptPad
        BY <3>2, <4>1, <1>2
      <4>2. CASE At(area, k) # dhcpOptPad
        BY <3>2, <4>2, <1>2
      <4> QED BY <4>1, <4>2
    <3> HIDE DEF Body, after
    <3> QED BY <3>1, <3>3
  <2> QED BY <2>1, <2>2
<1>7. f = Body(f)
  <2>1. f \in [Nat -> R] /\ \A k \in Nat : f[k] = Body(f)[k]
    <3> HIDE DEF Body
    <3> QED BY <1>5, <1>6
  <2> QED BY <2>1
<1>8. PICK g : g = routerLoop(area) /\ g = Body(g)
  <2> HIDE DEF Body
  <2> QED BY <1>1, <1>7
<1>9. g[off] = CASE off >= Len(area) -> <<>>
                 [] off < Len(area) /\ At(area, off) = dhcpOptEnd -> <<>>
                 [] off < Len(area) /\ At(area, off) = dhcpOptPad -> g[off + 1]
                 [] OTHER -> IF off + 2 > Len(area) THEN <<>>
                             ELSE IF At(area, off) = dhcpOptRouter THEN patch(off)
                             ELSE g[off + 2 + At(area, off + 1)]
  BY <1>8
<1>10. off >= Len(area) => g[off] = <<>>
  BY <1>9, <1>2
<1>11. off < Len(area) /\ At(area, off) = dhcpOptEnd => g[off] = <<>>
  BY <1>9, <1>2, <1>0
<1>12. off < Len(area) /\ At(area, off) = dhcpOptPad => g[off] = g[off + 1]
  BY <1>9, <1>2, <1>0
<1>13. ASSUME Whole(area, off)
       PROVE  /\ off < Len(area) /\ off + 2 <= Len(area)
              /\ off + 2 + At(area, off + 1) <= Len(area)
  BY <1>13, WholeOption DEF Whole
<1>14. Whole(area, off) /\ At(area, off) = dhcpOptRouter => g[off] = patch(off)
  BY <1>9, <1>2, <1>0, <1>13
<1>15. Whole(area, off) => patch(off) = IF At(area, off + 1) = 4 THEN <<off + 2>> ELSE <<>>
  BY <1>13 DEF patch
<1>16. Whole(area, off) /\ At(area, off) \notin {dhcpOptEnd, dhcpOptPad, dhcpOptRouter} =>
          g[off] = g[off + 2 + At(area, off + 1)]
  BY <1>9, <1>2, <1>13
<1> HIDE DEF patch, Body
<1> QED BY <1>8, <1>10, <1>11, <1>12, <1>14, <1>15, <1>16

\* One round of parseCircuitID.
LEMMA CircuitRound ==
    ASSUME NEW info \in Seq(Byte), NEW off \in Nat
    PROVE  /\ ~Whole(info, off) => circuitLoop(info)[off] = <<>>
           /\ Whole(info, off) =>
                 circuitLoop(info)[off] =
                    IF At(info, off) = agentSubOptCircuitID /\ At(info, off + 1) = 4
                    THEN <<int32(Slice(info, off + 2, 4))>>
                    ELSE circuitLoop(info)[off + 2 + At(info, off + 1)]
<1> DEFINE hit(k) == At(info, k) = agentSubOptCircuitID /\ At(info, k + 1) = 4
           after(k) == k + 2 + At(info, k + 1)
           index(k) == <<int32(Slice(info, k + 2, 4))>>
           val(k) == IF Whole(info, k) THEN index(k) ELSE <<>>
           stop == {k \in Nat : ~Whole(info, k) \/ hit(k)}
           R == {val(k) : k \in Nat}
           res == [k \in Nat |-> val(k)]
           nxt == [k \in Nat |-> IF k \in stop THEN k ELSE after(k)]
           Body(f) == [k \in Nat |-> IF ~Whole(info, k) THEN <<>>
                                     ELSE IF hit(k) THEN index(k) ELSE f[after(k)]]
<1>1. circuitLoop(info) = CHOOSE f : f = Body(f)
  BY DEF circuitLoop
<1> HIDE DEF index, hit
<1>2. ASSUME NEW k \in Nat, k \notin stop
      PROVE  k < Len(info) /\ after(k) \in Nat /\ after(k) > k /\ Whole(info, k) /\ ~hit(k)
  BY <1>2, WholeOption
<1> HIDE DEF after
<1>3. Scans(info, R, stop, res, nxt)
  <2>1. stop \in SUBSET Nat
    OBVIOUS
  <2>2. nxt \in [Nat -> Nat]
    <3> HIDE DEF stop
    <3> QED BY <1>2
  <2>3. res \in [Nat -> R]
    <3> HIDE DEF val
    <3> QED OBVIOUS
  <2>4. \A k \in Nat \ stop : k < Len(info) /\ nxt[k] > k
    <3> HIDE DEF stop
    <3> QED BY <1>2
  <2> HIDE DEF stop, res, nxt, R
  <2> QED BY <2>1, <2>2, <2>3, <2>4 DEF Scans
<1>4. PICK f \in [Nat -> R] : \A k \in Nat : f[k] = IF k \in stop THEN res[k] ELSE f[nxt[k]]
  <2> HIDE DEF R, stop, res, nxt
  <2> QED BY <1>3, ScanReturns
<1>5. ASSUME NEW k \in Nat PROVE f[k] = Body(f)[k]
  <2>1. CASE k \in stop
    <3>1. f[k] = val(k)
      <4> HIDE DEF stop, nxt, val
      <4> QED BY <1>4, <2>1
    <3> QED BY <3>1, <2>1
  <2>2. CASE k \notin stop
    <3>1. f[k] = f[after(k)]
      <4> HIDE DEF stop, res
      <4> QED BY <1>4, <2>2
    <3> QED BY <3>1, <2>2, <1>2
  <2> QED BY <2>1, <2>2
<1>6. f = Body(f)
  <2>1. f \in [Nat -> R] /\ \A k \in Nat : f[k] = Body(f)[k]
    <3> HIDE DEF Body
    <3> QED BY <1>4, <1>5
  <2> QED BY <2>1
<1>7. PICK g : g = circuitLoop(info) /\ g = Body(g)
  <2> HIDE DEF Body
  <2> QED BY <1>1, <1>6
<1>8. g[off] = IF ~Whole(info, off) THEN <<>> ELSE IF hit(off) THEN index(off) ELSE g[after(off)]
  BY <1>7
<1> HIDE DEF Body
<1> QED BY <1>7, <1>8 DEF hit, index, after

-----------------------------------------------------------------------------
(* Each loop over the items of an area.                                    *)

\* parseOptionArea passes an item, and takes an option.
LEMMA ParseItem ==
    ASSUME NEW area \in Seq(Byte), NEW n \in Nat, NEW e, NEW o \in Item, Reads(area, n, e, o),
           NEW out \in Seq(Option)
    PROVE  parseLoop(area)[<<n, out>>] =
              parseLoop(area)[<<e, IF o.code = dhcpOptPad THEN out ELSE Append(out, o)>>]
<1>1. n < Len(area) /\ At(area, n) = o.code
  BY DEF Reads
<1>2. o.code # dhcpOptEnd /\ o \in Item
  BY DEF Item
<1>3. CASE o.code = dhcpOptPad
  <2>1. e = n + 1
    BY <1>3 DEF Reads
  <2>2. parseLoop(area)[<<n, out>>] = parseLoop(area)[<<n + 1, out>>]
    BY <1>1, <1>3, ParseRound
  <2> QED BY <2>1, <2>2, <1>3
<1>4. CASE o.code # dhcpOptPad
  <2>1. /\ Whole(area, n) /\ At(area, n + 1) = Len(o.data)
        /\ Slice(area, n + 2, Len(o.data)) = o.data
        /\ e = n + 2 + Len(o.data)
    BY <1>4 DEF Reads
  <2>2. OptionAt(area, n) = o
    <3>1. OptionAt(area, n) = [code |-> o.code, data |-> o.data]
      BY <1>1, <2>1 DEF OptionAt
    <3> QED BY <1>2, <3>1, ItemBytes
  <2>3. parseLoop(area)[<<n, out>>]
        = parseLoop(area)[<<n + 2 + At(area, n + 1), Append(out, OptionAt(area, n))>>]
    <3>1. n < Len(area) /\ At(area, n) \notin {dhcpOptEnd, dhcpOptPad}
      BY <1>1, <1>2, <1>4
    <3> QED BY <1>1, <2>1, <3>1, ParseRound
  <2> QED BY <2>1, <2>2, <2>3, <1>4
<1> QED BY <1>3, <1>4

\* It passes any run of items, and has taken the options.
LEMMA ParseWalk ==
    \A s \in Seq(Item) : \A t \in Seq(Byte) :
        parseLoop(Encode(s) \o t)[<<0, <<>>>>]
            = parseLoop(Encode(s) \o t)[<<Len(Encode(s)), Options(s)>>]
<1> DEFINE P == {s \in Seq(Item) : \A t \in Seq(Byte) :
                    parseLoop(Encode(s) \o t)[<<0, <<>>>>]
                        = parseLoop(Encode(s) \o t)[<<Len(Encode(s)), Options(s)>>]}
<1>1. <<>> \in P
  <2>1. <<>> \in Seq(Item)
    BY EmptySeq
  <2>2. Encode(<<>>) = <<>> /\ Options(<<>>) = <<>> /\ Len(<<>>) = 0
    BY <2>1, EmptyArea
  <2> QED BY <2>1, <2>2
<1>2. ASSUME NEW s \in P, NEW o \in Item PROVE Append(s, o) \in P
  <2>1. s \in Seq(Item) /\ Append(s, o) \in Seq(Item)
    BY AppendProperties
  <2>2. PICK u : u = Encode(s)
    OBVIOUS
  <2>3. u \in Seq(Byte) /\ Encode(Append(s, o)) = u \o Bytes(o)
    BY <2>1, <2>2, Encoded
  <2>4. PICK out : out = Options(s)
    OBVIOUS
  <2>5. /\ out \in Seq(Option)
        /\ Options(Append(s, o)) = IF o.code = dhcpOptPad THEN out ELSE Append(out, o)
    BY <2>1, <2>4, OptionsOf
  <2>6. Bytes(o) \in Seq(Byte)
    BY ItemBytes
  <2>7. ASSUME NEW t \in Seq(Byte)
        PROVE  parseLoop((u \o Bytes(o)) \o t)[<<0, <<>>>>]
               = parseLoop((u \o Bytes(o)) \o t)[<<Len(u \o Bytes(o)), Options(Append(s, o))>>]
    <3>1. PICK area : area = u \o (Bytes(o) \o t)
      OBVIOUS
    <3>2. (u \o Bytes(o)) \o t = area
      BY <2>3, <2>6, <3>1, Regrouped, Zenon
    <3>3. Bytes(o) \o t \in Seq(Byte)
      BY <2>6, Joined
    <3>4. parseLoop(area)[<<0, <<>>>>] = parseLoop(area)[<<Len(u), out>>]
      BY <2>2, <2>4, <3>1, <3>3
    <3>5. parseLoop(area)[<<Len(u), out>>]
          = parseLoop(area)[<<Len(u \o Bytes(o)), IF o.code = dhcpOptPad THEN out ELSE Append(out, o)>>]
      <4>1. Reads(area, Len(u), Len(u \o Bytes(o)), o)
        BY <2>3, <3>1, ItemAt
      <4>2. area \in Seq(Byte)
        BY <2>3, <3>1, <3>3, Joined
      <4>3. Len(u) \in Nat
        BY <2>3, LenProperties
      <4>4. PICK n, e : n = Len(u) /\ e = Len(u \o Bytes(o))
        OBVIOUS
      <4>5. n \in Nat /\ Reads(area, n, e, o)
        BY <4>1, <4>3, <4>4
      <4> HIDE DEF P
      <4> QED BY <2>5, <4>2, <4>4, <4>5, ParseItem
    <3> QED BY <2>5, <3>2, <3>4, <3>5
  <2> QED BY <2>1, <2>3, <2>7
<1>3. P = Seq(Item)
  <2>1. P \in SUBSET Seq(Item)
    OBVIOUS
  <2> HIDE DEF P
  <2> QED BY <1>1, <1>2, <2>1, AllSequences
<1> QED BY <1>3

\* The copy with one item more.
Copied(out, o) == IF o.code = dhcpOptAgentInfo THEN out ELSE out \o Bytes(o)

\* stripAgentInfo passes an item, and copies it unless it is an option 82.
LEMMA StripItem ==
    ASSUME NEW area \in Seq(Byte), NEW n \in Nat, NEW e, NEW o \in Item, Reads(area, n, e, o),
           NEW out \in Seq(Byte)
    PROVE  stripLoop(area)[<<n, out>>] = stripLoop(area)[<<e, Copied(out, o)>>]
<1>1. n < Len(area) /\ At(area, n) = o.code
  BY DEF Reads
<1>2. o.code # dhcpOptEnd /\ o \in Item
  BY DEF Item
<1>3. CASE o.code = dhcpOptPad
  <2>1. e = n + 1
    BY <1>3 DEF Reads
  <2>2. stripLoop(area)[<<n, out>>] = stripLoop(area)[<<n + 1, Append(out, dhcpOptPad)>>]
    BY <1>1, <1>3, StripRound
  <2>3. dhcpOptPad # dhcpOptAgentInfo /\ dhcpOptPad \in Byte
    BY DEF dhcpOptPad, dhcpOptAgentInfo, Byte
  <2>4. Bytes(o) = <<dhcpOptPad>>
    BY <1>2, <1>3, ItemBytes
  <2>5. Append(out, dhcpOptPad) = out \o <<dhcpOptPad>>
    BY <2>3, AppendIsConcat
  <2> QED BY <2>1, <2>2, <2>3, <2>4, <2>5, <1>3 DEF Copied
<1>4. CASE o.code # dhcpOptPad
  <2>1. PICK l : l = Len(o.data)
    OBVIOUS
  <2>2. /\ Whole(area, n) /\ At(area, n + 1) = l
        /\ Slice(area, n, 2 + l) = Bytes(o)
        /\ e = n + 2 + l
    BY <1>4, <2>1 DEF Reads
  <2>3. l \in Nat
    BY <1>1, <2>2, WholeOption
  <2>4. n + (2 + l) = n + 2 + l
    BY <2>3
  <2>5. n < Len(area) /\ At(area, n) \notin {dhcpOptEnd, dhcpOptPad} /\ At(area, n) = o.code
    BY <1>1, <1>2, <1>4
  <2>6. stripLoop(area)[<<n, out>>]
        = stripLoop(area)[<<n + (2 + At(area, n + 1)),
                            IF At(area, n) = dhcpOptAgentInfo THEN out
                            ELSE out \o Slice(area, n, 2 + At(area, n + 1))>>]
    BY <1>1, <2>2, <2>5, StripRound
  <2> QED BY <2>2, <2>4, <2>5, <2>6 DEF Copied
<1> QED BY <1>3, <1>4

\* It passes any run of items, and has copied all but the options 82.
LEMMA StripWalk ==
    \A s \in Seq(Item) : \A t \in Seq(Byte) :
        stripLoop(Encode(s) \o t)[<<0, <<>>>>]
            = stripLoop(Encode(s) \o t)[<<Len(Encode(s)), Encode(Without82(s))>>]
<1> DEFINE P == {s \in Seq(Item) : \A t \in Seq(Byte) :
                    stripLoop(Encode(s) \o t)[<<0, <<>>>>]
                        = stripLoop(Encode(s) \o t)[<<Len(Encode(s)), Encode(Without82(s))>>]}
<1>1. <<>> \in P
  <2>1. <<>> \in Seq(Item)
    BY EmptySeq
  <2>2. Encode(<<>>) = <<>> /\ Without82(<<>>) = <<>> /\ Len(<<>>) = 0
    BY <2>1, EmptyArea
  <2> QED BY <2>1, <2>2
<1>2. ASSUME NEW s \in P, NEW o \in Item PROVE Append(s, o) \in P
  <2>1. s \in Seq(Item) /\ Append(s, o) \in Seq(Item)
    BY AppendProperties
  <2>2. PICK u : u = Encode(s)
    OBVIOUS
  <2>3. u \in Seq(Byte) /\ Encode(Append(s, o)) = u \o Bytes(o)
    BY <2>1, <2>2, Encoded
  <2>4. PICK k : k = Without82(s)
    OBVIOUS
  <2>5. /\ k \in Seq(Item)
        /\ Without82(Append(s, o)) = IF o.code = dhcpOptAgentInfo THEN k ELSE Append(k, o)
    BY <2>1, <2>4, Without82Of
  <2>6. PICK out : out = Encode(k)
    OBVIOUS
  <2>7. /\ out \in Seq(Byte) /\ Encode(Append(k, o)) = out \o Bytes(o)
    BY <2>5, <2>6, Encoded
  <2>8. Encode(Without82(Append(s, o))) = Copied(out, o)
    BY <2>5, <2>6, <2>7 DEF Copied
  <2>9. Bytes(o) \in Seq(Byte)
    BY ItemBytes
  <2>10. ASSUME NEW t \in Seq(Byte)
        PROVE  stripLoop((u \o Bytes(o)) \o t)[<<0, <<>>>>]
               = stripLoop((u \o Bytes(o)) \o t)[<<Len(u \o Bytes(o)), Encode(Without82(Append(s, o)))>>]
    <3>1. PICK area : area = u \o (Bytes(o) \o t)
      OBVIOUS
    <3>2. (u \o Bytes(o)) \o t = area
      BY <2>3, <2>9, <3>1, Regrouped, Zenon
    <3>3. Bytes(o) \o t \in Seq(Byte)
      BY <2>9, Joined
    <3>4. stripLoop(area)[<<0, <<>>>>] = stripLoop(area)[<<Len(u), out>>]
      BY <2>2, <2>4, <2>6, <3>1, <3>3
    <3>5. stripLoop(area)[<<Len(u), out>>]
          = stripLoop(area)[<<Len(u \o Bytes(o)),
                              Copied(out, o)>>]
      <4>1. Reads(area, Len(u), Len(u \o Bytes(o)), o)
        BY <2>3, <3>1, ItemAt
      <4>2. area \in Seq(Byte)
        BY <2>3, <3>1, <3>3, Joined
      <4>3. Len(u) \in Nat
        BY <2>3, LenProperties
      <4>4. PICK n, e : n = Len(u) /\ e = Len(u \o Bytes(o))
        OBVIOUS
      <4>5. n \in Nat /\ Reads(area, n, e, o)
        BY <4>1, <4>3, <4>4
      <4>6. out \in Seq(Byte)
        BY <2>7
      <4>7. stripLoop(area)[<<n, out>>]
            = stripLoop(area)[<<e, Copied(out, o)>>]
        <5> HIDE DEF P
        <5> QED BY <4>2, <4>5, <4>6, StripItem
      <4> HIDE DEF P
      <4> QED BY <4>4, <4>7
    <3> QED BY <2>8, <3>2, <3>4, <3>5
  <2> QED BY <2>1, <2>3, <2>10
<1>3. P = Seq(Item)
  <2>1. P \in SUBSET Seq(Item)
    OBVIOUS
  <2> HIDE DEF P
  <2> QED BY <1>1, <1>2, <2>1, AllSequences
<1> QED BY <1>3

\* Some item has code c.
Has(s, c) == \E j \in 1 .. Len(s) : s[j].code = c

\* No item of an empty area has it; one item more adds its own code.
LEMMA HasOne ==
    ASSUME NEW s \in Seq(Item), NEW o \in Item, NEW c
    PROVE  ~Has(<<>>, c) /\ (Has(Append(s, o), c) <=> Has(s, c) \/ o.code = c)
<1>1. ~Has(<<>>, c)
  BY DEF Has
<1>2. PICK n, a : n = Len(s) /\ a = Append(s, o)
  OBVIOUS
<1>3. /\ n \in Nat /\ Len(a) = n + 1 /\ a[n + 1] = o
      /\ \A j \in 1 .. n : a[j] = s[j]
  BY <1>2, AppendProperties, LenProperties
<1>4. Has(a, c) <=> \E j \in 1 .. n + 1 : a[j].code = c
  BY <1>3 DEF Has
<1>5. Has(s, c) <=> \E j \in 1 .. n : s[j].code = c
  BY <1>2 DEF Has
<1>6. n + 1 \in 1 .. n + 1 /\ \A j \in 1 .. n + 1 : j # n + 1 => j \in 1 .. n
  BY <1>3
<1>7. Has(s, c) \/ o.code = c => Has(a, c)
  <2>1. CASE Has(s, c)
    <3>1. PICK j \in 1 .. n : s[j].code = c
      BY <1>5, <2>1
    <3>2. j \in 1 .. n + 1 /\ a[j].code = c
      BY <1>3, <3>1
    <3> QED BY <1>4, <3>2
  <2>2. CASE o.code = c
    BY <1>3, <1>4, <1>6, <2>2
  <2> QED BY <2>1, <2>2
<1>8. Has(a, c) => Has(s, c) \/ o.code = c
  <2>1. SUFFICES ASSUME Has(a, c) PROVE Has(s, c) \/ o.code = c
    OBVIOUS
  <2>2. PICK j \in 1 .. n + 1 : a[j].code = c
    BY <1>4, <2>1
  <2>3. CASE j = n + 1
    BY <1>3, <2>2, <2>3
  <2>4. CASE j # n + 1
    <3>1. j \in 1 .. n /\ s[j].code = c
      BY <1>3, <1>6, <2>2, <2>4
    <3> QED BY <3>1, <1>5
  <2> QED BY <2>3, <2>4
<1> QED BY <1>1, <1>2, <1>7, <1>8

\* insertAgentInfo passes an item that is no option 82, and stops at one that is.
LEMMA InsertItem ==
    ASSUME NEW area \in Seq(Byte), NEW n \in Nat, NEW e, NEW o \in Item, Reads(area, n, e, o)
    PROVE  /\ o.code # dhcpOptAgentInfo => insertLoop(area)[n] = insertLoop(area)[e]
           /\ o.code = dhcpOptAgentInfo =>
                 insertLoop(area)[n] = [stop |-> "relayed", off |-> n]
<1>1. n < Len(area) /\ At(area, n) = o.code
  BY DEF Reads
<1>2. o.code # dhcpOptEnd
  BY DEF Item
<1>3. ASSUME o.code = dhcpOptAgentInfo
      PROVE  insertLoop(area)[n] = [stop |-> "relayed", off |-> n]
  BY <1>1, <1>3, InsertRound
<1>4. ASSUME o.code = dhcpOptPad PROVE insertLoop(area)[n] = insertLoop(area)[e]
  <2>1. e = n + 1
    BY <1>4 DEF Reads
  <2> QED BY <1>1, <1>4, <2>1, InsertRound
<1>5. ASSUME o.code # dhcpOptPad, o.code # dhcpOptAgentInfo
      PROVE  insertLoop(area)[n] = insertLoop(area)[e]
  <2>1. Whole(area, n) /\ e = n + 2 + At(area, n + 1)
    BY <1>5 DEF Reads
  <2>2. n < Len(area) /\ At(area, n) \notin {dhcpOptEnd, dhcpOptPad, dhcpOptAgentInfo}
    BY <1>1, <1>2, <1>5
  <2> QED BY <2>1, <2>2, InsertRound
<1> QED BY <1>3, <1>4, <1>5

\* What insertAgentInfo's walk has done with a run of items.
Walked(s, area) ==
    IF Has(s, dhcpOptAgentInfo) THEN insertLoop(area)[0].stop = "relayed"
    ELSE insertLoop(area)[0] = insertLoop(area)[Len(Encode(s))]

\* It passes any run of items that has no option 82, and stops in one that has.
LEMMA InsertWalk ==
    \A s \in Seq(Item) : \A t \in Seq(Byte) : Walked(s, Encode(s) \o t)
<1> DEFINE P == {s \in Seq(Item) : \A t \in Seq(Byte) : Walked(s, Encode(s) \o t)}
<1>1. <<>> \in P
  <2>1. <<>> \in Seq(Item)
    BY EmptySeq
  <2>2. Encode(<<>>) = <<>> /\ Len(<<>>) = 0
    BY <2>1, EmptyArea
  <2>3. PICK o \in Item : TRUE
    BY SomeItem
  <2>4. ~Has(<<>>, dhcpOptAgentInfo)
    BY <2>1, <2>3, HasOne
  <2> QED BY <2>1, <2>2, <2>4 DEF Walked
<1>2. ASSUME NEW s \in P, NEW o \in Item PROVE Append(s, o) \in P
  <2>1. s \in Seq(Item) /\ Append(s, o) \in Seq(Item)
    BY AppendProperties
  <2>2. PICK u : u = Encode(s)
    OBVIOUS
  <2>3. u \in Seq(Byte) /\ Encode(Append(s, o)) = u \o Bytes(o)
    BY <2>1, <2>2, Encoded
  <2>4. Bytes(o) \in Seq(Byte)
    BY ItemBytes
  <2>5. ASSUME NEW t \in Seq(Byte) PROVE Walked(Append(s, o), (u \o Bytes(o)) \o t)
    <3>1. PICK area : area = u \o (Bytes(o) \o t)
      OBVIOUS
    <3>2. (u \o Bytes(o)) \o t = area
      BY <2>3, <2>4, <3>1, Regrouped, Zenon
    <3>3. Bytes(o) \o t \in Seq(Byte)
      BY <2>4, Joined
    <3>4. Walked(s, area)
      BY <2>2, <3>1, <3>3
    <3>5. PICK n, e : n = Len(u) /\ e = Len(u \o Bytes(o))
      OBVIOUS
    <3>6. area \in Seq(Byte)
      BY <2>3, <3>1, <3>3, Joined
    <3>7. n \in Nat /\ Reads(area, n, e, o)
      BY <2>3, <3>1, <3>5, ItemAt, LenProperties
    <3>8. /\ o.code # dhcpOptAgentInfo => insertLoop(area)[n] = insertLoop(area)[e]
          /\ o.code = dhcpOptAgentInfo => insertLoop(area)[n] = [stop |-> "relayed", off |-> n]
      BY <3>6, <3>7, InsertItem
    <3>9. Has(Append(s, o), dhcpOptAgentInfo)
          <=> Has(s, dhcpOptAgentInfo) \/ o.code = dhcpOptAgentInfo
      BY <2>1, HasOne
    <3>10. Encode(Append(s, o)) = u \o Bytes(o)
      BY <2>3
    <3> HIDE DEF P
    <3>11. Walked(Append(s, o), area)
      BY <2>2, <3>4, <3>5, <3>8, <3>9, <3>10 DEF Walked
    <3> QED BY <3>2, <3>11
  <2> QED BY <2>1, <2>3, <2>5
<1>3. P = Seq(Item)
  <2>1. P \in SUBSET Seq(Item)
    OBVIOUS
  <2> HIDE DEF P
  <2> QED BY <1>1, <1>2, <2>1, AllSequences
<1> QED BY <1>3

\* rewriteGateway passes an item that is no router option, and patches or gives up at one.
LEMMA RouterItem ==
    ASSUME NEW area \in Seq(Byte), NEW n \in Nat, NEW e, NEW o \in Item, Reads(area, n, e, o)
    PROVE  /\ o.code # dhcpOptRouter => routerLoop(area)[n] = routerLoop(area)[e]
           /\ o.code = dhcpOptRouter =>
                 routerLoop(area)[n] = IF Len(o.data) = 4 THEN <<n + 2>> ELSE <<>>
<1>1. n < Len(area) /\ At(area, n) = o.code
  BY DEF Reads
<1>2. o.code # dhcpOptEnd /\ dhcpOptRouter # dhcpOptPad
  BY DEF Item, dhcpOptRouter, dhcpOptPad
<1>3. ASSUME o.code = dhcpOptRouter
      PROVE  routerLoop(area)[n] = IF Len(o.data) = 4 THEN <<n + 2>> ELSE <<>>
  <2>1. Whole(area, n) /\ At(area, n) = dhcpOptRouter /\ At(area, n + 1) = Len(o.data)
    BY <1>1, <1>2, <1>3 DEF Reads
  <2> QED BY <2>1, RouterRound
<1>4. ASSUME o.code = dhcpOptPad PROVE routerLoop(area)[n] = routerLoop(area)[e]
  <2>1. e = n + 1
    BY <1>4 DEF Reads
  <2> QED BY <1>1, <1>4, <2>1, RouterRound
<1>5. ASSUME o.code # dhcpOptPad, o.code # dhcpOptRouter
      PROVE  routerLoop(area)[n] = routerLoop(area)[e]
  <2>1. Whole(area, n) /\ e = n + 2 + At(area, n + 1)
    BY <1>5 DEF Reads
  <2>2. At(area, n) \notin {dhcpOptEnd, dhcpOptPad, dhcpOptRouter}
    BY <1>1, <1>2, <1>5
  <2> QED BY <2>1, <2>2, RouterRound
<1> QED BY <1>3, <1>4, <1>5

\* The items with the first router option patched, as GatewayCorrect states it.
Patched(kept, gw) ==
    LET routers == {j \in 1 .. Len(kept) : kept[j].code = dhcpOptRouter}
        first == {j \in routers : \A m \in routers : j <= m}
    IN  [j \in 1 .. Len(kept) |-> IF j \in first /\ Len(kept[j].data) = 4
                                  THEN [kept[j] EXCEPT !.data = gw] ELSE kept[j]]

\* An item with the gateway in place of a router's address.
PatchedItem(o, gw) ==
    IF o.code = dhcpOptRouter /\ Len(o.data) = 4 THEN [o EXCEPT !.data = gw] ELSE o

\* Item j is the first router option.
FirstRouter(s, j) ==
    s[j].code = dhcpOptRouter /\ \A m \in 1 .. Len(s) : s[m].code = dhcpOptRouter => j <= m

\* The items are patched one by one.
LEMMA PatchedAt ==
    ASSUME NEW s, NEW gw
    PROVE  Patched(s, gw) = [j \in 1 .. Len(s) |->
                               IF FirstRouter(s, j) THEN PatchedItem(s[j], gw) ELSE s[j]]
<1> DEFINE routers == {j \in 1 .. Len(s) : s[j].code = dhcpOptRouter}
           first == {j \in routers : \A m \in routers : j <= m}
           F == [j \in 1 .. Len(s) |->
                    IF j \in first /\ Len(s[j].data) = 4 THEN [s[j] EXCEPT !.data = gw] ELSE s[j]]
<1>1. Patched(s, gw) = F
  BY DEF Patched
<1>2. ASSUME NEW j \in 1 .. Len(s) PROVE j \in first <=> FirstRouter(s, j)
  BY DEF FirstRouter
<1>3. ASSUME NEW j \in 1 .. Len(s), FirstRouter(s, j) PROVE s[j].code = dhcpOptRouter
  BY <1>3 DEF FirstRouter
<1> HIDE DEF first
<1> QED BY <1>1, <1>2, <1>3 DEF PatchedItem

\* An address is four bytes.
LEMMA Address ==
    ASSUME NEW gw \in [1 .. 4 -> Byte]
    PROVE  gw \in Seq(Byte) /\ Len(gw) = 4
<1>1. PICK n \in Nat : n = 4
  OBVIOUS
<1>2. gw \in [1 .. n -> Byte]
  BY <1>1
<1>3. gw = [i \in 1 .. n |-> gw[i]] /\ \A i \in 1 .. n : gw[i] \in Byte
  BY <1>2
<1>4. gw \in Seq(Byte) /\ Len(gw) = n
  BY <1>3
<1> QED BY <1>1, <1>4

\* A patched item is an item.
LEMMA PatchedIsItem ==
    ASSUME NEW o \in Item, NEW gw \in [1 .. 4 -> Byte]
    PROVE  PatchedItem(o, gw) \in Item
<1>1. gw \in Seq(Byte) /\ Len(gw) = 4
  BY Address
<1>2. dhcpOptRouter # dhcpOptPad /\ dhcpOptRouter # dhcpOptEnd /\ dhcpOptRouter \in Byte
  BY DEF dhcpOptRouter, dhcpOptPad, dhcpOptEnd, Byte
<1>3. CASE o.code = dhcpOptRouter /\ Len(o.data) = 4
  <2>1. o = [code |-> o.code, data |-> o.data]
    BY ItemBytes
  <2>2. [o EXCEPT !.data = gw] = [code |-> dhcpOptRouter, data |-> gw]
    BY <1>3, <2>1
  <2>3. [code |-> dhcpOptRouter, data |-> gw] \in Item
    <3>1. PICK r : r = [code |-> dhcpOptRouter, data |-> gw]
      OBVIOUS
    <3>2. r \in Option
      BY <1>1, <1>2, <3>1 DEF Option
    <3>3. r.code = dhcpOptRouter /\ Len(r.data) = 4
      BY <1>1, <3>1
    <3>4. Len(r.data) <= 255
      BY <3>3
    <3>5. r \in Item
      BY <1>2, <3>2, <3>3, <3>4, Zenon DEF Item
    <3> QED BY <3>1, <3>5
  <2> QED BY <1>3, <2>2, <2>3 DEF PatchedItem
<1>4. CASE ~(o.code = dhcpOptRouter /\ Len(o.data) = 4)
  BY <1>4 DEF PatchedItem
<1> QED BY <1>3, <1>4

\* What is patched of an area with one item more.
LEMMA PatchedOne ==
    ASSUME NEW s \in Seq(Item), NEW o \in Item, NEW gw \in [1 .. 4 -> Byte]
    PROVE  /\ Patched(s, gw) \in Seq(Item)
           /\ ~Has(s, dhcpOptRouter) => Patched(s, gw) = s
           /\ Patched(Append(s, o), gw) =
                 Append(Patched(s, gw), IF Has(s, dhcpOptRouter) THEN o ELSE PatchedItem(o, gw))
<1> DEFINE n == Len(s)
           a == Append(s, o)
           p == Patched(s, gw)
           x == IF Has(s, dhcpOptRouter) THEN o ELSE PatchedItem(o, gw)
           q == Patched(a, gw)
<1>1. /\ n \in Nat /\ a \in Seq(Item) /\ Len(a) = n + 1 /\ a[n + 1] = o
      /\ \A j \in 1 .. n : a[j] = s[j] /\ s[j] \in Item
  BY AppendProperties, LenProperties, ElementOfSeq
<1>2. p = [j \in 1 .. n |-> IF FirstRouter(s, j) THEN PatchedItem(s[j], gw) ELSE s[j]]
  BY PatchedAt
<1>3. q = [j \in 1 .. Len(a) |-> IF FirstRouter(a, j) THEN PatchedItem(a[j], gw) ELSE a[j]]
  BY PatchedAt
<1>4. x \in Item
  BY PatchedIsItem
<1> HIDE DEF n, a, p, q, x
<1>5. p \in Seq(Item) /\ Len(p) = n
  <2>1. \A j \in 1 .. n : p[j] \in Item
    BY <1>1, <1>2, PatchedIsItem
  <2> QED BY <1>1, <1>2, <2>1
<1>6. ASSUME ~Has(s, dhcpOptRouter) PROVE p = s
  <2>1. \A j \in 1 .. n : s[j].code # dhcpOptRouter
    BY <1>6 DEF Has, n
  <2>2. \A j \in 1 .. n : p[j] = s[j]
    BY <1>2, <2>1 DEF FirstRouter
  <2> QED BY <1>5, <2>2, SeqEqual DEF n
<1>7. /\ Append(p, x) \in Seq(Item) /\ Len(Append(p, x)) = n + 1 /\ Append(p, x)[n + 1] = x
      /\ \A j \in 1 .. n : Append(p, x)[j] = p[j]
  BY <1>4, <1>5, AppendProperties
<1>8. q \in Seq(Item) /\ Len(q) = n + 1
  <2>1. PICK k \in Nat : k = n + 1
    BY <1>1
  <2>2. \A j \in 1 .. k : a[j] \in Item
    BY <1>1, <2>1, ElementOfSeq
  <2>3. q = [j \in 1 .. k |-> IF FirstRouter(a, j) THEN PatchedItem(a[j], gw) ELSE a[j]]
    BY <1>1, <1>3, <2>1
  <2>4. \A j \in 1 .. k : q[j] \in Item
    BY <2>2, <2>3, PatchedIsItem
  <2> QED BY <2>1, <2>3, <2>4
<1>9. ASSUME NEW j \in 1 .. n PROVE q[j] = p[j]
  <2>1. j \in 1 .. n + 1 /\ j # n + 1 /\ j <= n + 1 /\ a[j] = s[j]
    BY <1>1
  <2>2. FirstRouter(a, j) <=> FirstRouter(s, j)
    <3>1. /\ \A m \in 1 .. n + 1 : m \in 1 .. n \/ m = n + 1
          /\ \A m \in 1 .. n : m \in 1 .. n + 1
      BY <1>1
    <3>2. FirstRouter(s, j) <=> /\ s[j].code = dhcpOptRouter
                                /\ \A m \in 1 .. n : s[m].code = dhcpOptRouter => j <= m
      BY DEF FirstRouter, n
    <3>3. FirstRouter(a, j) <=> /\ a[j].code = dhcpOptRouter
                                /\ \A m \in 1 .. n + 1 : a[m].code = dhcpOptRouter => j <= m
      BY <1>1 DEF FirstRouter
    <3> QED BY <1>1, <2>1, <3>1, <3>2, <3>3
  <2>3. q[j] = IF FirstRouter(a, j) THEN PatchedItem(a[j], gw) ELSE a[j]
    BY <1>1, <1>3, <2>1
  <2>4. p[j] = IF FirstRouter(s, j) THEN PatchedItem(s[j], gw) ELSE s[j]
    BY <1>2
  <2> QED BY <2>1, <2>2, <2>3, <2>4
<1>10. q[n + 1] = x
  <2>1. PICK k \in Nat : k = n + 1
    BY <1>1
  <2>2. q[k] = IF FirstRouter(a, k) THEN PatchedItem(o, gw) ELSE o
    <3>1. k \in 1 .. Len(a) /\ a[k] = o
      BY <1>1, <2>1
    <3> QED BY <1>3, <3>1
  <2>3. CASE Has(s, dhcpOptRouter)
    <3>1. PICK j \in 1 .. n : s[j].code = dhcpOptRouter
      BY <2>3 DEF Has, n
    <3>2. j \in 1 .. Len(a) /\ a[j].code = dhcpOptRouter /\ ~(k <= j)
      BY <1>1, <2>1, <3>1
    <3>3. ~FirstRouter(a, k)
      BY <3>2 DEF FirstRouter
    <3> QED BY <2>1, <2>2, <2>3, <3>3 DEF x
  <2>4. CASE ~Has(s, dhcpOptRouter)
    <3>1. \A j \in 1 .. n : s[j].code # dhcpOptRouter
      BY <2>4 DEF Has, n
    <3>2. o.code = dhcpOptRouter => FirstRouter(a, k)
      <4>1. \A m \in 1 .. Len(a) : m = k \/ a[m].code # dhcpOptRouter
        <5>1. \A m \in 1 .. Len(a) : m = k \/ m \in 1 .. n
          BY <1>1, <2>1
        <5> QED BY <1>1, <3>1, <5>1
      <4>2. a[k] = o /\ k <= k
        BY <1>1, <2>1
      <4> QED BY <4>1, <4>2 DEF FirstRouter
    <3>3. o.code # dhcpOptRouter => PatchedItem(o, gw) = o
      BY DEF PatchedItem
    <3>4. x = PatchedItem(o, gw)
      BY <2>4 DEF x
    <3>5. q[k] = PatchedItem(o, gw)
      BY <2>2, <3>2, <3>3
    <3> QED BY <2>1, <3>4, <3>5
  <2> QED BY <2>3, <2>4
<1>11. q = Append(p, x)
  <2>1. \A j \in 1 .. n + 1 : q[j] = Append(p, x)[j]
    <3>1. \A j \in 1 .. n + 1 : j = n + 1 \/ j \in 1 .. n
      BY <1>1
    <3> QED BY <1>7, <1>9, <1>10, <3>1
  <2> QED BY <1>7, <1>8, <2>1, SeqEqual
<1> QED BY <1>5, <1>6, <1>11 DEF p, q, a, x

\* An area with gw in place of the four bytes at off.
Put(area, off, gw) == Slice(area, 0, off) \o gw \o From(area, off + 4)

\* The parts of an area around four bytes d: u and two bytes h before, t behind.
Around(u, h, d, t) ==
    /\ u \in Seq(Byte) /\ h \in Seq(Byte) /\ d \in Seq(Byte) /\ t \in Seq(Byte)
    /\ Len(h) = 2 /\ Len(d) = 4

\* Replacing them by gw leaves the others.
Replaces(u, h, d, t, gw) ==
    Put(u \o ((h \o d) \o t), Len(u) + 2, gw) = (u \o (h \o gw)) \o t

\* Put replaces the four bytes and leaves the others.
LEMMA Replaced ==
    ASSUME NEW u, NEW h, NEW d, NEW t, NEW gw \in Seq(Byte), Around(u, h, d, t)
    PROVE  Replaces(u, h, d, t, gw)
<1> USE DEF Around
<1>0. PICK area : area = u \o ((h \o d) \o t)
  OBVIOUS
<1>1. PICK x, y : x = u \o h /\ y = x \o d
  OBVIOUS
<1>2. x \in Seq(Byte) /\ Len(x) = Len(u) + 2
  <2>1. u \o h \in Seq(Byte) /\ Len(u \o h) = Len(u) + Len(h)
    BY Joined
  <2> QED BY <1>1, <2>1
<1>3. y \in Seq(Byte) /\ Len(y) = Len(x) + 4
  <2>1. x \o d \in Seq(Byte) /\ Len(x \o d) = Len(x) + Len(d)
    BY <1>2, Joined
  <2> QED BY <1>1, <2>1
<1>4. Len(u) \in Nat
  BY LenProperties
<1>5. Len(y) = Len(u) + 2 + 4
  BY <1>2, <1>3, <1>4
<1>6. h \o d \in Seq(Byte) /\ d \o t \in Seq(Byte)
  BY Joined
<1>7. area = y \o t
  <2>1. (u \o (h \o d)) \o t = area
    <3>1. PICK v : v = h \o d
      OBVIOUS
    <3>2. u \in Seq(Byte) /\ v \in Seq(Byte) /\ t \in Seq(Byte)
      BY <1>6, <3>1
    <3>3. (u \o v) \o t = u \o (v \o t)
      <4>1. Groups(u, v, t)
        BY <3>2, Grouped
      <4> QED BY <4>1 DEF Groups
    <3> QED BY <1>0, <3>1, <3>3
  <2>2. u \o (h \o d) = y
    <3>1. Groups(u, h, d)
      BY Grouped
    <3> QED BY <1>1, <3>1 DEF Groups
  <2> QED BY <2>1, <2>2
<1>8. area = x \o (d \o t)
  <2>1. Groups(x, d, t)
    BY <1>2, Grouped
  <2> QED BY <1>1, <1>7, <2>1 DEF Groups
<1>9. Slice(area, 0, Len(x)) = x
  BY <1>2, <1>6, <1>8, Halves
<1>10. From(area, Len(y)) = t
  BY <1>3, <1>7, Halves
<1>11. x \o gw = u \o (h \o gw)
  <2>1. Groups(u, h, gw)
    BY Grouped
  <2> QED BY <1>1, <2>1 DEF Groups
<1>12. Slice(area, 0, Len(u) + 2) = x /\ From(area, Len(u) + 2 + 4) = t
  BY <1>2, <1>5, <1>9, <1>10
<1> QED BY <1>0, <1>11, <1>12 DEF Put, Replaces

\* What rewriteGateway makes of a run of items.
Rewritten(s, t, gw) ==
    LET area == Encode(s) \o t
    IN  IF Has(s, dhcpOptRouter) THEN rewriteGateway(area, gw) = Encode(Patched(s, gw)) \o t
        ELSE routerLoop(area)[0] = routerLoop(area)[Len(Encode(s))]

\* It patches the first router option, and passes a run of items that has none.
LEMMA RouterWalk ==
    ASSUME NEW gw \in [1 .. 4 -> Byte]
    PROVE  \A s \in Seq(Item) : \A t \in Seq(Byte) : Rewritten(s, t, gw)
<1> DEFINE P == {s \in Seq(Item) : \A t \in Seq(Byte) : Rewritten(s, t, gw)}
<1>0. gw \in Seq(Byte) /\ Len(gw) = 4
  BY Address
<1>1. <<>> \in P
  <2>1. <<>> \in Seq(Item)
    BY EmptySeq
  <2>2. Encode(<<>>) = <<>> /\ Len(<<>>) = 0
    BY <2>1, EmptyArea
  <2>3. ~Has(<<>>, dhcpOptRouter)
    BY DEF Has
  <2> QED BY <2>1, <2>2, <2>3 DEF Rewritten
<1>2. ASSUME NEW s \in P, NEW o \in Item PROVE Append(s, o) \in P
  <2>1. s \in Seq(Item) /\ Append(s, o) \in Seq(Item)
    BY AppendProperties
  <2>2. PICK u : u = Encode(s)
    OBVIOUS
  <2>3. u \in Seq(Byte) /\ Encode(Append(s, o)) = u \o Bytes(o)
    BY <2>1, <2>2, Encoded
  <2>4. Bytes(o) \in Seq(Byte)
    BY ItemBytes
  <2>5. PICK a : a = Append(s, o)
    OBVIOUS
  <2>6. Encode(a) = u \o Bytes(o)
    BY <2>3, <2>5
  <2>7. Has(a, dhcpOptRouter) <=> Has(s, dhcpOptRouter) \/ o.code = dhcpOptRouter
    BY <2>1, <2>5, HasOne
  <2>8. /\ Patched(s, gw) \in Seq(Item)
        /\ ~Has(s, dhcpOptRouter) => Patched(s, gw) = s
        /\ Patched(a, gw) =
              Append(Patched(s, gw), IF Has(s, dhcpOptRouter) THEN o ELSE PatchedItem(o, gw))
    BY <2>1, <2>5, PatchedOne
  <2>9. ASSUME NEW t \in Seq(Byte) PROVE Rewritten(a, t, gw)
    <3>1. PICK area : area = u \o (Bytes(o) \o t)
      OBVIOUS
    <3>2. Encode(a) \o t = area
      <4>1. u \in Seq(Byte) /\ Bytes(o) \in Seq(Byte)
        BY <2>3, <2>4
      <4>2. (u \o Bytes(o)) \o t = u \o (Bytes(o) \o t)
        BY <4>1, Regrouped, Zenon
      <4> QED BY <2>6, <3>1, <4>2
    <3>3. Bytes(o) \o t \in Seq(Byte)
      BY <2>4, Joined
    <3>4. Rewritten(s, Bytes(o) \o t, gw)
      BY <3>3
    <3> HIDE DEF P
    <3>5. CASE Has(s, dhcpOptRouter)
      <4>1. rewriteGateway(area, gw) = Encode(Patched(s, gw)) \o (Bytes(o) \o t)
        BY <2>2, <3>1, <3>4, <3>5 DEF Rewritten
      <4>2. PICK p : p = Patched(s, gw)
        OBVIOUS
      <4>3. p \in Seq(Item)
        BY <2>8, <4>2
      <4>4. Encode(p) \in Seq(Byte) /\ Encode(Append(p, o)) = Encode(p) \o Bytes(o)
        BY <4>3, Encoded
      <4>5. Encode(Append(p, o)) \o t = Encode(p) \o (Bytes(o) \o t)
        <5>1. PICK z : z = Encode(p)
          OBVIOUS
        <5>2. z \in Seq(Byte) /\ Bytes(o) \in Seq(Byte)
          BY <2>4, <4>4, <5>1
        <5>3. (z \o Bytes(o)) \o t = z \o (Bytes(o) \o t)
          BY <5>2, Regrouped, Zenon
        <5> QED BY <4>4, <5>1, <5>3
      <4>6. Patched(a, gw) = Append(p, o)
        BY <2>8, <3>5, <4>2
      <4>7. rewriteGateway(area, gw) = Encode(Patched(a, gw)) \o t
        BY <4>1, <4>2, <4>5, <4>6
      <4> QED BY <2>7, <3>2, <3>5, <4>7 DEF Rewritten
    <3>6. CASE ~Has(s, dhcpOptRouter)
      <4>1. PICK n, e : n = Len(u) /\ e = Len(u \o Bytes(o))
        OBVIOUS
      <4>2. routerLoop(area)[0] = routerLoop(area)[n]
        BY <2>2, <3>1, <3>4, <3>6, <4>1 DEF Rewritten
      <4>3. area \in Seq(Byte)
        BY <2>3, <3>1, <3>3, Joined
      <4>4. n \in Nat /\ Reads(area, n, e, o)
        BY <2>3, <3>1, <4>1, ItemAt, LenProperties
      <4>5. /\ o.code # dhcpOptRouter => routerLoop(area)[n] = routerLoop(area)[e]
            /\ o.code = dhcpOptRouter =>
                 routerLoop(area)[n] = IF Len(o.data) = 4 THEN <<n + 2>> ELSE <<>>
        BY <4>3, <4>4, RouterItem
      <4>6. Patched(a, gw) = Append(s, PatchedItem(o, gw))
        BY <2>8, <3>6
      <4>7. PatchedItem(o, gw) \in Item
        BY PatchedIsItem
      <4>8. PICK x : x = PatchedItem(o, gw)
        OBVIOUS
      <4>9. Encode(Patched(a, gw)) = u \o Bytes(x)
        <5>1. x \in Item
          BY <4>7, <4>8
        <5>2. Encode(Append(s, x)) = Encode(s) \o Bytes(x)
          BY <2>1, <5>1, Encoded
        <5> QED BY <2>2, <4>6, <4>8, <5>2
      <4>10. CASE o.code # dhcpOptRouter
        <5>1. ~Has(a, dhcpOptRouter)
          BY <2>7, <3>6, <4>10
        <5>2. routerLoop(area)[0] = routerLoop(area)[Len(Encode(a))]
          BY <2>6, <4>1, <4>2, <4>5, <4>10
        <5> QED BY <3>2, <5>1, <5>2 DEF Rewritten
      <4>11. CASE o.code = dhcpOptRouter
        <5>1. Has(a, dhcpOptRouter)
          BY <2>7, <4>11
        <5>2. SUFFICES rewriteGateway(area, gw) = (u \o Bytes(x)) \o t
          BY <3>2, <4>9, <5>1 DEF Rewritten
        <5>3. CASE Len(o.data) = 4
          <6>1. PICK d : d = o.data
            OBVIOUS
          <6>2. /\ o.code # dhcpOptPad
                /\ d \in Seq(Byte) /\ Len(d) = 4 /\ o = [code |-> dhcpOptRouter, data |-> d]
            <7>1. dhcpOptRouter # dhcpOptPad
              BY DEF dhcpOptRouter, dhcpOptPad
            <7>2. o.data \in Seq(Byte) /\ o = [code |-> o.code, data |-> o.data]
              BY ItemBytes
            <7> QED BY <4>11, <5>3, <6>1, <7>1, <7>2
          <6>3. PICK h : h = <<dhcpOptRouter, 4>>
            OBVIOUS
          <6>4. h \in Seq(Byte) /\ Len(h) = 2
            <7>1. dhcpOptRouter \in Byte /\ 4 \in Byte
              BY DEF dhcpOptRouter, Byte
            <7> QED BY <6>3, <7>1, Header
          <6>5. Bytes(o) = h \o d
            BY <4>11, <5>3, <6>1, <6>2, <6>3 DEF Bytes
          <6>6. Bytes(x) = h \o gw
            <7>1. x = [o EXCEPT !.data = gw]
              BY <4>8, <4>11, <5>3 DEF PatchedItem
            <7>2. x.code = dhcpOptRouter /\ x.data = gw
              BY <6>2, <7>1
            <7>3. x.code # dhcpOptPad
              BY <4>11, <6>2, <7>2
            <7> QED BY <1>0, <6>3, <7>2, <7>3 DEF Bytes
          <6>7. routerLoop(area)[0] = <<n + 2>>
            BY <4>2, <4>5, <4>11, <5>3
          <6>8. rewriteGateway(area, gw) = Put(area, n + 2, gw)
            <7>1. <<n + 2>> # <<>> /\ <<n + 2>>[1] = n + 2
              OBVIOUS
            <7> QED BY <6>7, <7>1 DEF rewriteGateway, Put
          <6>9. area = u \o ((h \o d) \o t)
            BY <3>1, <6>5
          <6>10. Put(u \o ((h \o d) \o t), Len(u) + 2, gw) = (u \o (h \o gw)) \o t
            <7>1. Around(u, h, d, t)
              BY <2>3, <6>2, <6>4 DEF Around
            <7>2. gw \in Seq(Byte)
              BY <1>0
            <7>3. Replaces(u, h, d, t, gw)
              BY <7>1, <7>2, Replaced
            <7> QED BY <7>3 DEF Replaces
          <6> QED BY <4>1, <6>6, <6>8, <6>9, <6>10
        <5>4. CASE Len(o.data) # 4
          <6>1. x = o
            BY <4>8, <5>4 DEF PatchedItem
          <6>2. routerLoop(area)[0] = <<>>
            BY <4>2, <4>5, <4>11, <5>4
          <6>3. rewriteGateway(area, gw) = area
            BY <6>2 DEF rewriteGateway
          <6> QED BY <2>6, <3>2, <6>1, <6>3
        <5> QED BY <5>3, <5>4
      <4> QED BY <4>10, <4>11
    <3> QED BY <3>5, <3>6
  <2> QED BY <2>1, <2>5, <2>9
<1>3. P = Seq(Item)
  <2>1. P \in SUBSET Seq(Item)
    OBVIOUS
  <2> HIDE DEF P
  <2> QED BY <1>1, <1>2, <2>1, AllSequences
<1> QED BY <1>3

-----------------------------------------------------------------------------
(* Where an area ends.                                                     *)

\* At offset n the End option starts, then r follows.
Ends(area, n, r) ==
    /\ area \in Seq(Byte) /\ n \in Nat /\ n < Len(area) /\ At(area, n) = dhcpOptEnd
    /\ From(area, n) = <<dhcpOptEnd>> \o r

\* An area that has its End option.
LEMMA EndAt ==
    ASSUME NEW u \in Seq(Byte), NEW r \in Seq(Byte)
    PROVE  /\ Ends(u \o (<<dhcpOptEnd>> \o r), Len(u), r)
           /\ Slice(u \o (<<dhcpOptEnd>> \o r), 0, Len(u)) = u
           /\ <<dhcpOptEnd>> \o r \in Seq(Byte)
<1>1. PICK h, v : h = <<dhcpOptEnd>> /\ v = h \o r
  OBVIOUS
<1>2. h \in Seq(Byte) /\ Len(h) = 1 /\ h[1] = dhcpOptEnd
  BY <1>1 DEF Byte, dhcpOptEnd
<1>3. /\ v \in Seq(Byte) /\ Len(v) = 1 + Len(r) /\ Len(r) \in Nat /\ Len(u) \in Nat
      /\ v[1] = dhcpOptEnd
  <2>1. /\ h \o r \in Seq(Byte) /\ Len(h \o r) = Len(h) + Len(r)
        /\ \A i \in 1 .. Len(h) + Len(r) : (h \o r)[i] = IF i <= Len(h) THEN h[i] ELSE r[i - Len(h)]
    BY <1>2, ConcatProperties
  <2>2. Len(r) \in Nat /\ Len(u) \in Nat
    BY LenProperties
  <2>3. 1 \in 1 .. Len(h) + Len(r) /\ 1 <= Len(h)
    BY <1>2, <2>2
  <2> QED BY <1>1, <1>2, <2>1, <2>2, <2>3
<1>4. PICK area : area = u \o v
  OBVIOUS
<1>5. /\ area \in Seq(Byte) /\ Len(area) = Len(u) + Len(v)
      /\ Slice(area, 0, Len(u)) = u /\ From(area, Len(u)) = v
      /\ \A i \in 0 .. Len(v) - 1 : At(area, Len(u) + i) = At(v, i)
  BY <1>3, <1>4, Halves
<1>6. Len(u) < Len(area)
  BY <1>3, <1>5
<1>7. At(area, Len(u)) = dhcpOptEnd
  <2>1. 0 \in 0 .. Len(v) - 1 /\ Len(u) + 0 = Len(u)
    BY <1>3
  <2>2. At(area, Len(u) + 0) = At(v, 0)
    BY <1>5, <2>1
  <2>3. At(v, 0) = dhcpOptEnd
    BY <1>3 DEF At
  <2> QED BY <2>1, <2>2, <2>3
<1>8. Ends(area, Len(u), r)
  BY <1>1, <1>3, <1>5, <1>6, <1>7 DEF Ends
<1> QED BY <1>1, <1>3, <1>4, <1>5, <1>8

\* At offset n only c is left: nothing, or an option that is cut off.
Breaks(area, n, c) ==
    /\ area \in Seq(Byte) /\ n \in Nat
    /\ c = <<>> => n >= Len(area)
    /\ c # <<>> => /\ n < Len(area) /\ At(area, n) = c[1]
                   /\ At(area, n) \notin {dhcpOptEnd, dhcpOptPad} /\ ~Whole(area, n)

\* An area that is cut off.
LEMMA CutAt ==
    ASSUME NEW u \in Seq(Byte), NEW c \in CutOff
    PROVE  Breaks(u \o c, Len(u), c) /\ c \in Seq(Byte)
<1>1. c \in Seq(Byte) /\ (c # <<>> => c[1] \notin {dhcpOptPad, dhcpOptEnd} /\ ~Whole(c, 0))
  BY DEF CutOff
<1>2. PICK n, k, area : n = Len(u) /\ k = Len(c) /\ area = u \o c
  OBVIOUS
<1>3. /\ area \in Seq(Byte) /\ Len(area) = n + k
      /\ \A i \in 0 .. k - 1 : At(area, n + i) = At(c, i)
  BY <1>1, <1>2, Halves
<1>4. n \in Nat /\ k \in Nat
  BY <1>1, <1>2, LenProperties
<1>5. ASSUME c = <<>> PROVE n >= Len(area)
  <2>1. k = 0
    BY <1>2, <1>5
  <2> QED BY <1>3, <1>4, <2>1
<1>6. ASSUME c # <<>>
      PROVE  /\ n < Len(area) /\ At(area, n) = c[1]
             /\ At(area, n) \notin {dhcpOptEnd, dhcpOptPad} /\ ~Whole(area, n)
  <2>1. k # 0
    BY <1>1, <1>2, <1>6, EmptySeq
  <2>2. 0 \in 0 .. k - 1 /\ n + 0 = n
    BY <1>4, <2>1
  <2>3. At(area, n + 0) = At(c, 0)
    BY <1>3, <2>2
  <2>4. At(area, n) = c[1]
    BY <2>2, <2>3 DEF At
  <2>5. n < Len(area)
    BY <1>3, <1>4, <2>1
  <2>6. ASSUME Whole(area, n) PROVE FALSE
    <3>1. PICK b : b = At(area, n + 1)
      OBVIOUS
    <3>2. b \in Nat
      BY <1>3, <1>4, <2>6, <3>1, WholeOption
    <3>3. n + 2 <= n + k /\ n + 2 + b <= n + k
      BY <1>3, <2>6, <3>1 DEF Whole
    <3>4. 1 \in 0 .. k - 1
      BY <1>4, <3>3
    <3>5. At(c, 1) = b
      BY <1>3, <3>1, <3>4
    <3>6. 0 + 2 <= k /\ 0 + 2 + b <= k /\ 0 + 1 = 1
      BY <1>4, <3>2, <3>3
    <3>7. Whole(c, 0)
      BY <1>2, <3>5, <3>6 DEF Whole
    <3> QED BY <1>1, <1>6, <3>7
  <2> QED BY <1>1, <1>6, <2>4, <2>5, <2>6
<1>7. Breaks(area, n, c)
  BY <1>3, <1>4, <1>5, <1>6 DEF Breaks
<1> QED BY <1>1, <1>2, <1>7

\* parseOptionArea yields the options in front of End, and nothing without it.
LEMMA Parsed ==
    ASSUME NEW s \in Seq(Item), NEW r \in Seq(Byte), NEW c \in CutOff
    PROVE  /\ parseOptionArea(Encode(s) \o (<<dhcpOptEnd>> \o r)) = Options(s)
           /\ parseOptionArea(Encode(s) \o c) = <<>>
           /\ Options(s) \in Seq(Option)
<1>1. PICK u, n, out : u = Encode(s) /\ n = Len(u) /\ out = Options(s)
  OBVIOUS
<1>2. PICK o \in Item : TRUE
  BY SomeItem
<1>3. u \in Seq(Byte) /\ out \in Seq(Option)
  BY <1>1, <1>2, Encoded, OptionsOf
<1>4. PICK v : v = <<dhcpOptEnd>> \o r
  OBVIOUS
<1>5. Ends(u \o v, n, r) /\ v \in Seq(Byte)
  BY <1>1, <1>3, <1>4, EndAt
<1>6. Breaks(u \o c, n, c) /\ c \in Seq(Byte)
  BY <1>1, <1>3, CutAt
<1>7. ASSUME NEW t \in Seq(Byte)
      PROVE  parseOptionArea(u \o t) = parseLoop(u \o t)[<<n, out>>]
  BY <1>1, ParseWalk DEF parseOptionArea
<1>8. parseOptionArea(u \o v) = out
  <2>1. PICK area : area = u \o v
    OBVIOUS
  <2>2. area \in Seq(Byte) /\ n \in Nat /\ n < Len(area) /\ At(area, n) = dhcpOptEnd
    BY <1>5, <2>1 DEF Ends
  <2>3. parseLoop(area)[<<n, out>>] = out
    BY <1>3, <2>2, ParseRound
  <2> QED BY <1>5, <1>7, <2>1, <2>3
<1>9. parseOptionArea(u \o c) = <<>>
  <2>1. PICK area : area = u \o c
    OBVIOUS
  <2>2. Breaks(area, n, c)
    BY <1>6, <2>1
  <2>3. area \in Seq(Byte) /\ n \in Nat
    BY <2>2 DEF Breaks
  <2>4. parseLoop(area)[<<n, out>>] = <<>>
    <3>1. CASE c = <<>>
      <4>1. n >= Len(area)
        BY <2>2, <3>1 DEF Breaks
      <4> QED BY <1>3, <2>3, <4>1, ParseRound
    <3>2. CASE c # <<>>
      <4>1. n < Len(area) /\ At(area, n) \notin {dhcpOptEnd, dhcpOptPad} /\ ~Whole(area, n)
        BY <2>2, <3>2 DEF Breaks
      <4> QED BY <1>3, <2>3, <4>1, ParseRound
    <3> QED BY <3>1, <3>2
  <2> QED BY <1>6, <1>7, <2>1, <2>4
<1> QED BY <1>1, <1>3, <1>4, <1>8, <1>9

\* stripAgentInfo copies all but the options 82 in front of End, and ends the area.
LEMMA Stripped ==
    ASSUME NEW s \in Seq(Item), NEW r \in Seq(Byte), NEW c \in CutOff
    PROVE  /\ stripAgentInfo(Encode(s) \o (<<dhcpOptEnd>> \o r))
                 = Encode(Without82(s)) \o (<<dhcpOptEnd>> \o r)
           /\ stripAgentInfo(Encode(s) \o c) = Encode(Without82(s)) \o <<dhcpOptEnd>>
           /\ Without82(s) \in Seq(Item) /\ Encode(Without82(s)) \in Seq(Byte)
<1>1. PICK u, n, k, out : u = Encode(s) /\ n = Len(u) /\ k = Without82(s) /\ out = Encode(k)
  OBVIOUS
<1>2. PICK o \in Item : TRUE
  BY SomeItem
<1>3. u \in Seq(Byte) /\ k \in Seq(Item)
  BY <1>1, <1>2, Encoded, Without82Of
<1>4. out \in Seq(Byte)
  BY <1>1, <1>2, <1>3, Encoded
<1>5. PICK v : v = <<dhcpOptEnd>> \o r
  OBVIOUS
<1>6. Ends(u \o v, n, r) /\ v \in Seq(Byte)
  BY <1>1, <1>3, <1>5, EndAt
<1>7. Breaks(u \o c, n, c) /\ c \in Seq(Byte)
  BY <1>1, <1>3, CutAt
<1>8. ASSUME NEW t \in Seq(Byte)
      PROVE  stripAgentInfo(u \o t) = stripLoop(u \o t)[<<n, out>>]
  BY <1>1, StripWalk DEF stripAgentInfo
<1>9. stripAgentInfo(u \o v) = out \o v
  <2>1. PICK area : area = u \o v
    OBVIOUS
  <2>2. /\ area \in Seq(Byte) /\ n \in Nat /\ n < Len(area) /\ At(area, n) = dhcpOptEnd
        /\ From(area, n) = v
    BY <1>5, <1>6, <2>1 DEF Ends
  <2>3. stripLoop(area)[<<n, out>>] = out \o From(area, n)
    BY <1>4, <2>2, StripRound
  <2> QED BY <1>6, <1>8, <2>1, <2>2, <2>3
<1>10. stripAgentInfo(u \o c) = Append(out, dhcpOptEnd)
  <2>1. PICK area : area = u \o c
    OBVIOUS
  <2>2. Breaks(area, n, c)
    BY <1>7, <2>1
  <2>3. area \in Seq(Byte) /\ n \in Nat
    BY <2>2 DEF Breaks
  <2>4. stripLoop(area)[<<n, out>>] = Append(out, dhcpOptEnd)
    <3>1. CASE c = <<>>
      <4>1. n >= Len(area)
        BY <2>2, <3>1 DEF Breaks
      <4> QED BY <1>4, <2>3, <4>1, StripRound
    <3>2. CASE c # <<>>
      <4>1. n < Len(area) /\ At(area, n) \notin {dhcpOptEnd, dhcpOptPad} /\ ~Whole(area, n)
        BY <2>2, <3>2 DEF Breaks
      <4> QED BY <1>4, <2>3, <4>1, StripRound
    <3> QED BY <3>1, <3>2
  <2> QED BY <1>7, <1>8, <2>1, <2>4
<1>11. Append(out, dhcpOptEnd) = out \o <<dhcpOptEnd>>
  <2>1. dhcpOptEnd \in Byte
    BY DEF dhcpOptEnd, Byte
  <2> QED BY <1>4, <2>1, AppendIsConcat
<1> QED BY <1>1, <1>3, <1>4, <1>5, <1>9, <1>10, <1>11

-----------------------------------------------------------------------------
(* Option 52.                                                              *)

\* Option o is a one-byte option with code c.
OneByte(o, c) == o.code = c /\ Len(o.data) = 1

\* What dhcpOptionByte finds among one option more: the first one-byte option stays.
LEMMA FirstByte ==
    ASSUME NEW s \in Seq(Option), NEW o \in Option, NEW c
    PROVE  /\ dhcpOptionByte(<<>>, c) = <<>>
           /\ (\E j \in 1 .. Len(s) : OneByte(s[j], c)) =>
                 dhcpOptionByte(Append(s, o), c) = dhcpOptionByte(s, c)
           /\ ~(\E j \in 1 .. Len(s) : OneByte(s[j], c)) =>
                 /\ dhcpOptionByte(s, c) = <<>>
                 /\ dhcpOptionByte(Append(s, o), c) = IF OneByte(o, c) THEN o.data ELSE <<>>
<1> DEFINE hits(q) == {j \in 1 .. Len(q) : OneByte(q[j], c)}
<1>1. ASSUME NEW q
      PROVE  dhcpOptionByte(q, c) = IF hits(q) = {} THEN <<>> ELSE q[Min(hits(q))].data
  BY DEF dhcpOptionByte, OneByte
<1>2. PICK n, a : n = Len(s) /\ a = Append(s, o)
  OBVIOUS
<1>3. /\ n \in Nat /\ Len(a) = n + 1 /\ a[n + 1] = o
      /\ \A j \in 1 .. n : a[j] = s[j]
  BY <1>2, AppendProperties, LenProperties
<1>4. \A j \in 1 .. n + 1 : j = n + 1 \/ j \in 1 .. n
  BY <1>3
<1>5. hits(<<>>) = {}
  OBVIOUS
<1>6. hits(s) \subseteq 1 .. n /\ \A j \in hits(s) : OneByte(s[j], c)
  BY <1>2
<1>7. hits(a) = hits(s) \cup (IF OneByte(o, c) THEN {n + 1} ELSE {})
  <2>1. ASSUME NEW j \in hits(a)
        PROVE  j \in hits(s) \cup (IF OneByte(o, c) THEN {n + 1} ELSE {})
    <3>1. j \in 1 .. n + 1 /\ OneByte(a[j], c)
      BY <1>3
    <3>2. CASE j = n + 1
      BY <1>3, <3>1, <3>2
    <3>3. CASE j \in 1 .. n
      BY <1>2, <1>3, <3>1, <3>3
    <3> QED BY <1>4, <3>1, <3>2, <3>3
  <2>2. ASSUME NEW j \in hits(s) PROVE j \in hits(a)
    <3>1. j \in 1 .. n /\ OneByte(s[j], c)
      BY <1>6
    <3>2. j \in 1 .. n + 1 /\ OneByte(a[j], c)
      BY <1>3, <3>1
    <3> QED BY <1>3, <3>2
  <2>3. ASSUME OneByte(o, c) PROVE n + 1 \in hits(a)
    <3>1. n + 1 \in 1 .. Len(a) /\ OneByte(a[n + 1], c)
      BY <1>3, <2>3
    <3> QED BY <3>1
  <2> HIDE DEF hits
  <2> QED BY <2>1, <2>2, <2>3
<1>8. (\E j \in 1 .. Len(s) : OneByte(s[j], c)) <=> hits(s) # {}
  OBVIOUS
<1> HIDE DEF hits
<1>9. ASSUME hits(s) # {} PROVE dhcpOptionByte(a, c) = dhcpOptionByte(s, c)
  <2>1. PICK m \in hits(s) : \A y \in hits(s) : m <= y
    <3>1. hits(s) \in SUBSET Nat
      BY <1>3, <1>6
    <3> QED BY <1>9, <3>1, LeastNumber
  <2>2. m \in 1 .. n /\ m \in hits(a) /\ \A y \in hits(a) : m <= y
    <3>1. m \in 1 .. n /\ m <= n + 1
      BY <1>3, <1>6, <2>1
    <3> QED BY <1>7, <2>1, <3>1
  <2>3. Min(hits(s)) = m
    <3>1. \A x \in hits(s) : x \in Nat
      BY <1>3, <1>6
    <3>2. \A x \in hits(s) : (\A y \in hits(s) : x <= y) => x = m
      BY <2>1, <3>1
    <3> QED BY <2>1, <3>2 DEF Min
  <2>4. Min(hits(a)) = m
    <3>1. \A x \in hits(a) : x \in Nat
      BY <1>3, <1>6, <1>7
    <3>2. \A x \in hits(a) : (\A y \in hits(a) : x <= y) => x = m
      BY <2>2, <3>1
    <3> QED BY <2>2, <3>2 DEF Min
  <2>5. hits(a) # {} /\ a[m] = s[m]
    BY <1>3, <2>2
  <2> QED BY <1>1, <1>9, <2>3, <2>4, <2>5
<1>10. ASSUME hits(s) = {}
       PROVE  /\ dhcpOptionByte(s, c) = <<>>
              /\ dhcpOptionByte(a, c) = IF OneByte(o, c) THEN o.data ELSE <<>>
  <2>1. dhcpOptionByte(s, c) = <<>>
    BY <1>1, <1>10
  <2>2. CASE OneByte(o, c)
    <3>1. hits(a) = {n + 1}
      BY <1>7, <1>10, <2>2
    <3>2. PICK k \in Int : k = n + 1
      BY <1>3
    <3>3. Min({k}) = k
      BY DEF Min
    <3>4. dhcpOptionByte(a, c) = a[k].data
      BY <1>1, <3>1, <3>2, <3>3
    <3> QED BY <1>3, <2>1, <2>2, <3>2, <3>4
  <2>3. CASE ~OneByte(o, c)
    BY <1>1, <1>7, <1>10, <2>1, <2>3
  <2> QED BY <2>2, <2>3
<1>11. dhcpOptionByte(<<>>, c) = <<>>
  BY <1>1, <1>5
<1> QED BY <1>2, <1>8, <1>9, <1>10, <1>11

\* The options of a run of items and the items have the same first one-byte option 52.
SameByte(s) ==
    /\ dhcpOptionByte(Options(s), dhcpOptOverload) = dhcpOptionByte(s, dhcpOptOverload)
    /\ (\E j \in 1 .. Len(Options(s)) : OneByte(Options(s)[j], dhcpOptOverload))
          <=> (\E j \in 1 .. Len(s) : OneByte(s[j], dhcpOptOverload))

\* Some option of s is a one-byte option with code c; one option more adds itself.
LEMMA SomeByte ==
    ASSUME NEW s \in Seq(Option), NEW o \in Option, NEW c
    PROVE  (\E j \in 1 .. Len(Append(s, o)) : OneByte(Append(s, o)[j], c))
           <=> (\E j \in 1 .. Len(s) : OneByte(s[j], c)) \/ OneByte(o, c)
<1>1. PICK n, a : n = Len(s) /\ a = Append(s, o)
  OBVIOUS
<1>2. /\ n \in Nat /\ Len(a) = n + 1 /\ a[n + 1] = o
      /\ \A j \in 1 .. n : a[j] = s[j]
  BY <1>1, AppendProperties, LenProperties
<1>3. /\ n + 1 \in 1 .. n + 1 /\ \A j \in 1 .. n + 1 : j = n + 1 \/ j \in 1 .. n
      /\ \A j \in 1 .. n : j \in 1 .. n + 1
  BY <1>2
<1>4. (\E j \in 1 .. n + 1 : OneByte(a[j], c)) <=> (\E j \in 1 .. n : OneByte(s[j], c)) \/ OneByte(o, c)
  BY <1>2, <1>3
<1> QED BY <1>1, <1>2, <1>4

\* A run of items and its options agree on the first one-byte option 52.
LEMMA OverloadByte == \A s \in Seq(Item) : SameByte(s)
<1> DEFINE P == {s \in Seq(Item) : SameByte(s)}
<1>0. \A x : x \in Seq(Item) => x \in Seq(Option)
  <2>1. Item \subseteq Option
    BY DEF Item
  <2> QED BY <2>1
<1>1. <<>> \in P
  <2>1. <<>> \in Seq(Item)
    BY EmptySeq
  <2>2. Options(<<>>) = <<>>
    BY <2>1, EmptyArea
  <2> QED BY <2>1, <2>2 DEF SameByte
<1>2. ASSUME NEW s \in P, NEW o \in Item PROVE Append(s, o) \in P
  <2>1. s \in Seq(Item) /\ Append(s, o) \in Seq(Item) /\ SameByte(s)
    BY AppendProperties
  <2>2. s \in Seq(Option) /\ o \in Option
    BY <1>0, <2>1, ItemBytes
  <2>3. PICK t, a : t = Options(s) /\ a = Append(s, o)
    OBVIOUS
  <2>4. t \in Seq(Option) /\ Options(a) = IF o.code = dhcpOptPad THEN t ELSE Append(t, o)
    BY <2>1, <2>3, OptionsOf
  <2> DEFINE c == dhcpOptOverload
             some(q) == \E j \in 1 .. Len(q) : OneByte(q[j], c)
  <2>5. /\ some(s) => dhcpOptionByte(a, c) = dhcpOptionByte(s, c)
        /\ ~some(s) => /\ dhcpOptionByte(s, c) = <<>>
                       /\ dhcpOptionByte(a, c) = IF OneByte(o, c) THEN o.data ELSE <<>>
    BY <2>2, <2>3, FirstByte
  <2>6. /\ some(t) => dhcpOptionByte(Append(t, o), c) = dhcpOptionByte(t, c)
        /\ ~some(t) => /\ dhcpOptionByte(t, c) = <<>>
                       /\ dhcpOptionByte(Append(t, o), c) = IF OneByte(o, c) THEN o.data ELSE <<>>
    BY <2>2, <2>4, FirstByte
  <2>7. some(a) <=> some(s) \/ OneByte(o, c)
    BY <2>2, <2>3, SomeByte
  <2>8. some(Append(t, o)) <=> some(t) \/ OneByte(o, c)
    BY <2>2, <2>4, SomeByte
  <2>9. dhcpOptionByte(t, c) = dhcpOptionByte(s, c) /\ (some(t) <=> some(s))
    BY <2>1, <2>3 DEF SameByte
  <2>10. o.code = dhcpOptPad => ~OneByte(o, c)
    BY DEF OneByte, dhcpOptPad, dhcpOptOverload
  <2>11. dhcpOptionByte(Options(a), c) = dhcpOptionByte(a, c) /\ (some(Options(a)) <=> some(a))
    <3> HIDE DEF some, P
    <3>1. CASE o.code = dhcpOptPad
      <4>1. Options(a) = t /\ ~OneByte(o, c)
        BY <2>4, <2>10, <3>1
      <4> QED BY <2>5, <2>7, <2>9, <4>1
    <3>2. CASE o.code # dhcpOptPad
      <4>1. Options(a) = Append(t, o)
        BY <2>4, <3>2
      <4> QED BY <2>5, <2>6, <2>7, <2>8, <2>9, <4>1
    <3> QED BY <3>1, <3>2
  <2>12. SameByte(a)
    BY <2>11 DEF SameByte
  <2> QED BY <2>1, <2>3, <2>12
<1>3. P = Seq(Item)
  <2>1. P \in SUBSET Seq(Item)
    OBVIOUS
  <2> HIDE DEF P
  <2> QED BY <1>1, <1>2, <2>1, AllSequences
<1> QED BY <1>3

\* A sequence of one byte.
LEMMA Single ==
    ASSUME NEW d \in Seq(Byte), Len(d) = 1
    PROVE  d = <<d[1]>> /\ d # <<>>
<1>1. 1 \in 1 .. Len(d) /\ \A i \in 1 .. Len(d) : i = 1
  OBVIOUS
<1>2. PICK x : x = d[1]
  OBVIOUS
<1>3. x \in Byte
  BY <1>1, <1>2, ElementOfSeq
<1>4. <<x>> \in Seq(Byte) /\ Len(<<x>>) = 1 /\ <<x>>[1] = x
  BY <1>3
<1>5. Len(d) = Len(<<x>>) /\ \A i \in 1 .. Len(d) : d[i] = <<x>>[i]
  BY <1>1, <1>2, <1>4
<1>6. d = <<x>>
  BY <1>4, <1>5, SeqEqual
<1>7. Len(<<>>) = 0
  OBVIOUS
<1>8. d # <<>>
  <2>1. SUFFICES ASSUME d = <<>> PROVE FALSE
    OBVIOUS
  <2>2. Len(d) = 0
    BY <1>7, <2>1
  <2> QED BY <2>2
<1> QED BY <1>2, <1>6, <1>8

\* The byte that is found declares field n overloaded exactly if Overloads says so.
LEMMA Overloaded ==
    ASSUME NEW s \in Seq(Item), NEW n
    PROVE  Overloads(s, n) <=> /\ dhcpOptionByte(s, dhcpOptOverload) # <<>>
                               /\ dhcpOptionByte(s, dhcpOptOverload)[1] \in {n, 3}
<1> DEFINE c == dhcpOptOverload
           hits == {j \in 1 .. Len(s) : OneByte(s[j], c)}
           b == dhcpOptionByte(s, c)
<1>1. b = IF hits = {} THEN <<>> ELSE s[Min(hits)].data
  BY DEF dhcpOptionByte, OneByte
<1>2. Len(s) \in Nat /\ \A j \in 1 .. Len(s) : s[j] \in Item
  BY LenProperties, ElementOfSeq
<1>3. Overloads(s, n) <=> \E j \in 1 .. Len(s) :
                             /\ s[j].code = c /\ s[j].data \in {<<n>>, <<3>>}
                             /\ \A k \in 1 .. j - 1 : ~OneByte(s[k], c)
  BY DEF Overloads, OneByte
<1>4. CASE hits = {}
  <2>1. \A j \in 1 .. Len(s) : ~OneByte(s[j], c)
    BY <1>4
  <2>2. \A j \in 1 .. Len(s) : s[j].code = c => ~(s[j].data \in {<<n>>, <<3>>})
    <3>1. \A j \in 1 .. Len(s) : s[j].data \in {<<n>>, <<3>>} => Len(s[j].data) = 1
      OBVIOUS
    <3> QED BY <2>1, <3>1 DEF OneByte
  <2>3. ~Overloads(s, n)
    BY <1>3, <2>2
  <2>4. b = <<>>
    BY <1>1, <1>4
  <2> QED BY <2>3, <2>4
<1>5. CASE hits # {}
  <2>1. PICK m \in hits : \A y \in hits : m <= y
    <3>1. hits \in SUBSET Nat
      BY <1>2
    <3> HIDE DEF hits
    <3> QED BY <1>5, <3>1, LeastNumber
  <2>2. \A x \in hits : x \in Nat
    BY <1>2
  <2>3. Min(hits) = m
    <3> HIDE DEF hits
    <3>1. \A x \in hits : (\A y \in hits : x <= y) => x = m
      BY <2>1, <2>2
    <3> QED BY <2>1, <3>1 DEF Min
  <2>4. b = s[m].data
    <3> HIDE DEF hits, b
    <3> QED BY <1>1, <1>5, <2>3
  <2>5. m \in 1 .. Len(s) /\ s[m].code = c /\ Len(s[m].data) = 1 /\ s[m] \in Item
    BY <1>2, <2>1 DEF OneByte
  <2>6. s[m].data \in Seq(Byte)
    BY <2>5, ItemBytes
  <2>7. b = <<b[1]>> /\ b # <<>>
    <3>1. PICK d : d = s[m].data
      OBVIOUS
    <3>2. d \in Seq(Byte) /\ Len(d) = 1
      BY <2>5, <2>6, <3>1
    <3>3. d = <<d[1]>> /\ d # <<>>
      BY <3>2, Single
    <3> HIDE DEF b
    <3> QED BY <2>4, <3>1, <3>3
  <2>8. ASSUME b[1] \in {n, 3} PROVE Overloads(s, n)
    <3>1. s[m].data \in {<<n>>, <<3>>}
      <4> HIDE DEF b
      <4> QED BY <2>4, <2>7, <2>8
    <3>2. \A k \in 1 .. m - 1 : ~OneByte(s[k], c)
      <4>1. ASSUME NEW k \in 1 .. m - 1, OneByte(s[k], c) PROVE FALSE
        <5>1. k \in 1 .. Len(s) /\ ~(m <= k)
          BY <1>2, <2>5
        <5>2. k \in hits
          BY <4>1, <5>1
        <5> QED BY <2>1, <5>1, <5>2
      <4> QED BY <4>1
    <3> QED BY <1>3, <2>5, <3>1, <3>2
  <2>9. ASSUME Overloads(s, n) PROVE b[1] \in {n, 3}
    <3>1. PICK j \in 1 .. Len(s) : /\ s[j].code = c /\ s[j].data \in {<<n>>, <<3>>}
                                   /\ \A k \in 1 .. j - 1 : ~OneByte(s[k], c)
      BY <1>3, <2>9
    <3>2. Len(s[j].data) = 1
      BY <3>1
    <3>3. j \in hits
      BY <3>1, <3>2 DEF OneByte
    <3>4. m <= j /\ m \in Nat /\ j \in Nat /\ 1 <= m
      BY <1>2, <2>1, <2>5, <3>3
    <3>5. OneByte(s[m], c)
      BY <2>5 DEF OneByte
    <3>6. m = j
      BY <3>1, <3>4, <3>5
    <3>7. b \in {<<n>>, <<3>>}
      <4> HIDE DEF b
      <4> QED BY <2>4, <3>1, <3>6
    <3> HIDE DEF b
    <3> QED BY <3>7
  <2> HIDE DEF b
  <2> QED BY <2>7, <2>8, <2>9 DEF b
<1> QED BY <1>4, <1>5

-----------------------------------------------------------------------------
(* Option 82.                                                              *)

\* Items without an option 82 are kept as they are.
LEMMA AllKept == \A s \in Seq(Item) : ~Has(s, dhcpOptAgentInfo) => Without82(s) = s
<1> DEFINE P == {s \in Seq(Item) : ~Has(s, dhcpOptAgentInfo) => Without82(s) = s}
<1>1. <<>> \in P
  <2>1. <<>> \in Seq(Item)
    BY EmptySeq
  <2>2. Without82(<<>>) = <<>>
    BY <2>1, EmptyArea
  <2> QED BY <2>1, <2>2
<1>2. ASSUME NEW s \in P, NEW o \in Item PROVE Append(s, o) \in P
  <2>1. s \in Seq(Item) /\ Append(s, o) \in Seq(Item)
    BY AppendProperties
  <2>2. PICK k : k = Without82(s)
    OBVIOUS
  <2>3. Without82(Append(s, o)) = IF o.code = dhcpOptAgentInfo THEN k ELSE Append(k, o)
    BY <2>1, <2>2, Without82Of
  <2>4. Has(Append(s, o), dhcpOptAgentInfo)
        <=> Has(s, dhcpOptAgentInfo) \/ o.code = dhcpOptAgentInfo
    BY <2>1, HasOne
  <2> QED BY <2>1, <2>2, <2>3, <2>4
<1>3. P = Seq(Item)
  <2>1. P \in SUBSET Seq(Item)
    OBVIOUS
  <2> HIDE DEF P
  <2> QED BY <1>1, <1>2, <2>1, AllSequences
<1> QED BY <1>3

\* PutUint32 writes four bytes, and reading them as an int32 gives the index back.
LEMMA Index32 ==
    ASSUME NEW i \in Nat, i <= MaxInt32
    PROVE  /\ le32(i) \in Seq(Byte) /\ Len(le32(i)) = 4
           /\ int32(le32(i)) = i
<1>1. PICK q \in Int, r \in Int : q = i \div 256 /\ r = i % 256
  OBVIOUS
<1>2. i = 256 * q + r /\ r \in 0 .. 255
  BY <1>1
<1>3. PICK q2 \in Int, r2 \in Int : q2 = q \div 256 /\ r2 = q % 256
  OBVIOUS
<1>4. q = 256 * q2 + r2 /\ r2 \in 0 .. 255
  BY <1>3
<1>5. PICK q3 \in Int, r3 \in Int : q3 = q2 \div 256 /\ r3 = q2 % 256
  OBVIOUS
<1>6. q2 = 256 * q3 + r3 /\ r3 \in 0 .. 255
  BY <1>5
<1>7. i = 256 * (256 * (256 * q3 + r3) + r2) + r
  BY <1>2, <1>4, <1>6
<1>8. q3 \in 0 .. 127
  <2>1. i <= 2147483647
    BY SMT DEF MaxInt32
  <2> QED BY <1>2, <1>4, <1>6, <1>7, <2>1
<1>9. i \div 65536 = q2
  BY <1>2, <1>4
<1>10. i \div 16777216 = q3
  BY <1>2, <1>4, <1>6
<1>11. q3 % 256 = q3
  BY <1>8
<1>12. le32(i) = <<r, r2, r3, q3>>
  BY <1>1, <1>3, <1>5, <1>9, <1>10, <1>11 DEF le32
<1>13. PICK b : b = <<r, r2, r3, q3>>
  OBVIOUS
<1>14. b[1] = r /\ b[2] = r2 /\ b[3] = r3 /\ b[4] = q3
  BY <1>13
<1>15. int32(b) = r + 256 * r2 + 65536 * r3 + 16777216 * q3
  BY <1>8, <1>14 DEF int32
<1>16. i = r + 256 * r2 + 65536 * r3 + 16777216 * q3
  BY <1>2, <1>4, <1>6
<1>17. r \in Byte /\ r2 \in Byte /\ r3 \in Byte /\ q3 \in Byte
  BY <1>2, <1>4, <1>6, <1>8 DEF Byte
<1>18. b \in Seq(Byte) /\ Len(b) = 4
  BY <1>13, <1>17
<1> QED BY <1>12, <1>13, <1>15, <1>16, <1>18

\* Two headers in a row.
LEMMA TwoHeaders ==
    ASSUME NEW a \in Byte, NEW b \in Byte, NEW c \in Byte, NEW d \in Byte
    PROVE  <<a, b>> \o <<c, d>> = <<a, b, c, d>>
<1>1. PICK g, h, x, y : g = <<a, b>> /\ h = <<c, d>> /\ x = <<a, b, c, d>> /\ y = g \o h
  OBVIOUS
<1>2. /\ g \in Seq(Byte) /\ Len(g) = 2 /\ g[1] = a /\ g[2] = b
      /\ h \in Seq(Byte) /\ Len(h) = 2 /\ h[1] = c /\ h[2] = d
  BY <1>1, Header
<1>3. x \in Seq(Byte) /\ Len(x) = 4 /\ x[1] = a /\ x[2] = b /\ x[3] = c /\ x[4] = d
  BY <1>1
<1>4. /\ y \in Seq(Byte) /\ Len(y) = 2 + 2
      /\ \A i \in 1 .. 2 + 2 : y[i] = IF i <= 2 THEN g[i] ELSE h[i - 2]
  <2>1. /\ g \o h \in Seq(Byte) /\ Len(g \o h) = Len(g) + Len(h)
        /\ \A i \in 1 .. Len(g) + Len(h) : (g \o h)[i] = IF i <= Len(g) THEN g[i] ELSE h[i - Len(g)]
    BY <1>2, ConcatProperties
  <2> QED BY <1>1, <1>2, <2>1
<1>5. y[1] = a /\ y[2] = b /\ y[3] = c /\ y[4] = d
  BY <1>2, <1>4
<1>6. Len(x) = Len(y) /\ \A i \in 1 .. Len(x) : x[i] = y[i]
  <2>1. \A i \in 1 .. 4 : i \in {1, 2, 3, 4}
    OBVIOUS
  <2> QED BY <1>3, <1>4, <1>5, <2>1
<1>7. x = y
  BY <1>3, <1>4, <1>6, SeqEqual
<1> QED BY <1>1, <1>7

\* The option 82 the relay adds.
AgentOption(i) == [code |-> dhcpOptAgentInfo, data |-> <<agentSubOptCircuitID, 4>> \o le32(i)]

\* It is an item, agentInfo writes its bytes, and parseCircuitID reads the index.
LEMMA AgentItem ==
    ASSUME NEW i \in Nat, i <= MaxInt32
    PROVE  /\ AgentOption(i) \in Item
           /\ Bytes(AgentOption(i)) = agentInfo(i)
           /\ parseCircuitID(AgentOption(i).data) = <<i>>
<1>1. PICK b, h, d : b = le32(i) /\ h = <<agentSubOptCircuitID, 4>> /\ d = h \o b
  OBVIOUS
<1>2. b \in Seq(Byte) /\ Len(b) = 4 /\ int32(b) = i
  BY <1>1, Index32
<1>3. h \in Seq(Byte) /\ Len(h) = 2 /\ h[1] = agentSubOptCircuitID /\ h[2] = 4
  <2>1. agentSubOptCircuitID \in Byte /\ 4 \in Byte
    BY DEF agentSubOptCircuitID, Byte
  <2> QED BY <1>1, <2>1, Header
<1>4. /\ h \o b \in Seq(Byte) /\ Len(h \o b) = Len(h) + Len(b)
      /\ \A k \in 1 .. Len(h) + Len(b) : (h \o b)[k] = IF k <= Len(h) THEN h[k] ELSE b[k - Len(h)]
  BY <1>2, <1>3, ConcatProperties
<1>5. d \in Seq(Byte) /\ Len(d) = 6
  BY <1>1, <1>2, <1>3, <1>4
<1>6. d[1] = agentSubOptCircuitID /\ d[2] = 4
  <2>1. 1 \in 1 .. Len(h) + Len(b) /\ 2 \in 1 .. Len(h) + Len(b) /\ 1 <= Len(h) /\ 2 <= Len(h)
    BY <1>2, <1>3
  <2> QED BY <1>1, <1>3, <1>4, <2>1
<1>7. AgentOption(i) = [code |-> dhcpOptAgentInfo, data |-> d]
  BY <1>1 DEF AgentOption
<1>8. dhcpOptAgentInfo \in Byte /\ dhcpOptAgentInfo # dhcpOptEnd /\ dhcpOptAgentInfo # dhcpOptPad
  BY DEF dhcpOptAgentInfo, dhcpOptEnd, dhcpOptPad, Byte
<1>9. PICK x : x = AgentOption(i)
  OBVIOUS
<1>10. x.code = dhcpOptAgentInfo /\ x.data = d
  BY <1>7, <1>9
<1>11. x \in Item
  <2>1. x \in Option
    BY <1>5, <1>7, <1>8, <1>9 DEF Option
  <2>2. Len(x.data) <= 255
    <3>1. Len(x.data) = 6
      BY <1>5, <1>10
    <3> QED BY <3>1
  <2>3. x.code # dhcpOptEnd /\ x.code # dhcpOptPad
    BY <1>8, <1>10
  <2> QED BY <2>1, <2>2, <2>3, Zenon DEF Item
<1>12. Bytes(x) = agentInfo(i)
  <2>1. Bytes(x) = <<dhcpOptAgentInfo, 6>> \o d
    BY <1>5, <1>8, <1>10 DEF Bytes
  <2>2. PICK g : g = <<dhcpOptAgentInfo, 6>>
    OBVIOUS
  <2>3. g \in Seq(Byte) /\ Len(g) = 2 /\ g[1] = dhcpOptAgentInfo /\ g[2] = 6
    <3>1. 6 \in Byte
      BY DEF Byte
    <3> QED BY <1>8, <2>2, <3>1, Header
  <2>4. g \o (h \o b) = (g \o h) \o b
    BY <1>2, <1>3, <2>3, Regrouped, Zenon
  <2>5. g \o h = <<dhcpOptAgentInfo, 6, agentSubOptCircuitID, 4>>
    <3>1. 6 \in Byte /\ 4 \in Byte /\ agentSubOptCircuitID \in Byte
      BY DEF Byte, agentSubOptCircuitID
    <3>2. <<dhcpOptAgentInfo, 6>> \o <<agentSubOptCircuitID, 4>>
          = <<dhcpOptAgentInfo, 6, agentSubOptCircuitID, 4>>
      BY <1>8, <3>1, TwoHeaders
    <3> QED BY <1>1, <2>2, <3>2
  <2> QED BY <1>1, <2>1, <2>2, <2>4, <2>5 DEF agentInfo
<1>13. Slice(d, 2, 4) = b
  <2>1. PICK e : e = <<>> /\ e \in Seq(Byte)
    BY EmptySeq
  <2>2. h \o (b \o e) = d /\ b \o e = b
    BY <1>1, <1>2, <2>1, Joined
  <2>3. Slice(h \o (b \o e), Len(h), Len(b)) = b
    BY <1>2, <1>3, <2>1, Middle
  <2> QED BY <1>2, <1>3, <2>2, <2>3
<1>14. Whole(d, 0) /\ At(d, 0) = agentSubOptCircuitID /\ At(d, 0 + 1) = 4
  <2>1. At(d, 0) = agentSubOptCircuitID /\ At(d, 0 + 1) = 4
    BY <1>6 DEF At
  <2> QED BY <1>5, <2>1 DEF Whole
<1>15. circuitLoop(d)[0] = <<int32(Slice(d, 0 + 2, 4))>>
  BY <1>5, <1>14, CircuitRound
<1>16. parseCircuitID(d) = <<i>>
  BY <1>2, <1>13, <1>15 DEF parseCircuitID
<1> QED BY <1>9, <1>10, <1>11, <1>12, <1>16

-----------------------------------------------------------------------------
(* The invariants.                                                         *)

\* The state: a run of items, then a tail behind End or an option that is cut off.
WellFormed ==
    /\ items \in Seq(Item) /\ ended \in BOOLEAN
    /\ ended => rest \in Seq(Byte)
    /\ ~ended => rest \in CutOff

\* Every state of the specification is such an area.
THEOREM AlwaysWellFormed == Spec => []WellFormed
<1>1. Init => WellFormed
  BY OptionsAssumption, EmptySeq DEF Init, WellFormed
<1>2. WellFormed /\ [Next]_vars => WellFormed'
  <2>1. SUFFICES ASSUME WellFormed, [Next]_vars PROVE WellFormed'
    OBVIOUS
  <2>2. ASSUME NEW o \in Items, AddItem(o) PROVE WellFormed'
    <3>1. o \in Item /\ items \in Seq(Item)
      BY <2>1, OptionsAssumption DEF WellFormed
    <3>2. Append(items, o) \in Seq(Item)
      BY <3>1, AppendProperties
    <3> QED BY <2>1, <2>2, <3>2 DEF AddItem, WellFormed
  <2>3. CASE UNCHANGED vars
    BY <2>1, <2>3 DEF vars, WellFormed
  <2> QED BY <2>1, <2>2, <2>3 DEF Next
<1> QED BY <1>1, <1>2, PTL DEF Spec

\* The bytes of the area, by its parts.
LEMMA AreaOf ==
    ASSUME WellFormed
    PROVE  /\ ended => Area = Encode(items) \o (<<dhcpOptEnd>> \o rest)
           /\ ~ended => Area = Encode(items) \o rest
           /\ items \in Seq(Item) /\ Encode(items) \in Seq(Byte)
<1>1. PICK s, r : s = items /\ r = rest
  OBVIOUS
<1>2. s \in Seq(Item) /\ (ended => r \in Seq(Byte)) /\ (~ended => r \in CutOff)
  BY <1>1 DEF WellFormed
<1>3. PICK u : u = Encode(s)
  OBVIOUS
<1>4. PICK o \in Item : TRUE
  BY SomeItem
<1>5. u \in Seq(Byte)
  BY <1>2, <1>3, <1>4, Encoded
<1>6. CASE ended
  <2>1. PICK h : h = <<dhcpOptEnd>>
    OBVIOUS
  <2>2. h \in Seq(Byte)
    <3>1. dhcpOptEnd \in Byte
      BY DEF dhcpOptEnd, Byte
    <3> QED BY <2>1, <3>1
  <2>3. r \in Seq(Byte)
    BY <1>2, <1>6
  <2>4. (u \o h) \o r = u \o (h \o r)
    BY <1>5, <2>2, <2>3, Regrouped, Zenon
  <2>5. Area = (u \o h) \o r
    BY <1>1, <1>3, <1>6, <2>1 DEF Area
  <2> QED BY <1>1, <1>2, <1>3, <1>5, <1>6, <2>1, <2>4, <2>5
<1>7. CASE ~ended
  <2>1. u \o <<>> = u
    BY <1>5, Joined
  <2>2. Area = (u \o <<>>) \o r
    BY <1>1, <1>3, <1>7 DEF Area
  <2> QED BY <1>1, <1>2, <1>3, <1>5, <1>7, <2>1, <2>2
<1> QED BY <1>6, <1>7

\* What parseOptionArea yields for the area.
LEMMA ParsedArea ==
    ASSUME WellFormed
    PROVE  /\ parseOptionArea(Area) = (IF ended THEN Options(items) ELSE <<>>)
           /\ Options(items) \in Seq(Option)
<1>1. PICK s, r, a : s = items /\ r = rest /\ a = Area
  OBVIOUS
<1>2. /\ s \in Seq(Item)
      /\ ended => r \in Seq(Byte) /\ a = Encode(s) \o (<<dhcpOptEnd>> \o r)
      /\ ~ended => r \in CutOff /\ a = Encode(s) \o r
  BY <1>1, AreaOf DEF WellFormed
<1>3. <<>> \in Seq(Byte) /\ <<>> \in CutOff
  BY EmptySeq DEF CutOff
<1>4. CASE ended
  <2>1. parseOptionArea(Encode(s) \o (<<dhcpOptEnd>> \o r)) = Options(s) /\ Options(s) \in Seq(Option)
    BY <1>2, <1>3, <1>4, Parsed
  <2> QED BY <1>1, <1>2, <1>4, <2>1
<1>5. CASE ~ended
  <2>1. parseOptionArea(Encode(s) \o r) = <<>> /\ Options(s) \in Seq(Option)
    BY <1>2, <1>3, <1>5, Parsed
  <2> QED BY <1>1, <1>2, <1>5, <2>1
<1> QED BY <1>4, <1>5

\* parseDHCPOptions adds the options of the overloaded fields that parse.
LEMMA ParsedFields ==
    ASSUME WellFormed, NEW f, NEW s
    PROVE  parseDHCPOptions(Area, f, s)
              = parseOptionArea(Area)
                \o (IF ended /\ Overloads(items, 1) THEN parseOptionArea(f) ELSE <<>>)
                \o (IF ended /\ Overloads(items, 2) THEN parseOptionArea(s) ELSE <<>>)
<1>1. PICK q, t : q = parseOptionArea(Area) /\ t = items
  OBVIOUS
<1>2. PICK ov : ov = dhcpOptionByte(q, dhcpOptOverload)
  OBVIOUS
<1>3. PICK x, y : x = parseOptionArea(f) /\ y = parseOptionArea(s)
  OBVIOUS
<1>4. parseDHCPOptions(Area, f, s)
        = IF q = <<>> \/ ov = <<>> THEN q
          ELSE q \o (IF ov[1] \in {1, 3} THEN x ELSE <<>>) \o (IF ov[1] \in {2, 3} THEN y ELSE <<>>)
  BY <1>1, <1>2, <1>3, Zenon DEF parseDHCPOptions
<1>5. /\ t \in Seq(Item) /\ q = (IF ended THEN Options(t) ELSE <<>>) /\ Options(t) \in Seq(Option)
  BY <1>1, ParsedArea DEF WellFormed
<1>6. q \in Seq(Option)
  BY <1>5, EmptySeq
<1>7. q = <<>> => ov = <<>>
  BY <1>2 DEF dhcpOptionByte
<1>8. q \o <<>> = q
  BY <1>6, ConcatEmptySeq
<1>9. CASE ~ended
  <2>1. q = <<>>
    BY <1>5, <1>9
  <2> QED BY <1>1, <1>4, <1>8, <1>9, <2>1
<1>10. CASE ended
  <2>1. ov = dhcpOptionByte(t, dhcpOptOverload)
    <3>1. SameByte(t)
      BY <1>5, OverloadByte
    <3> QED BY <1>2, <1>5, <1>10, <3>1 DEF SameByte
  <2>2. /\ Overloads(t, 1) <=> ov # <<>> /\ ov[1] \in {1, 3}
        /\ Overloads(t, 2) <=> ov # <<>> /\ ov[1] \in {2, 3}
    BY <1>5, <2>1, Overloaded
  <2>3. CASE ov = <<>>
    BY <1>1, <1>4, <1>8, <2>2, <2>3
  <2>4. CASE ov # <<>>
    <3>1. q # <<>>
      BY <1>7, <2>4
    <3> QED BY <1>1, <1>3, <1>4, <1>10, <2>2, <2>4, <3>1
  <2> QED BY <2>3, <2>4
<1> QED BY <1>9, <1>10

\* parseOptionArea and parseDHCPOptions are correct on every area.
THEOREM ParsesCorrectly == Spec => []ParseCorrect
<1>1. WellFormed => ParseCorrect
  BY ParsedArea, ParsedFields DEF ParseCorrect
<1> QED BY <1>1, AlwaysWellFormed, PTL

\* What stripAgentInfo makes of the area.
LEMMA StrippedArea ==
    ASSUME WellFormed
    PROVE  /\ stripAgentInfo(Area)
                = Encode(Without82(items)) \o (<<dhcpOptEnd>> \o (IF ended THEN rest ELSE <<>>))
           /\ Without82(items) \in Seq(Item) /\ Encode(Without82(items)) \in Seq(Byte)
<1>1. PICK s, r, a : s = items /\ r = rest /\ a = Area
  OBVIOUS
<1>2. /\ s \in Seq(Item)
      /\ ended => r \in Seq(Byte) /\ a = Encode(s) \o (<<dhcpOptEnd>> \o r)
      /\ ~ended => r \in CutOff /\ a = Encode(s) \o r
  BY <1>1, AreaOf DEF WellFormed
<1>3. <<>> \in Seq(Byte) /\ <<>> \in CutOff
  BY EmptySeq DEF CutOff
<1>4. CASE ended
  <2>1. /\ stripAgentInfo(Encode(s) \o (<<dhcpOptEnd>> \o r))
             = Encode(Without82(s)) \o (<<dhcpOptEnd>> \o r)
        /\ Without82(s) \in Seq(Item) /\ Encode(Without82(s)) \in Seq(Byte)
    BY <1>2, <1>3, <1>4, Stripped
  <2> QED BY <1>1, <1>2, <1>4, <2>1
<1>5. CASE ~ended
  <2>1. /\ stripAgentInfo(Encode(s) \o r) = Encode(Without82(s)) \o <<dhcpOptEnd>>
        /\ Without82(s) \in Seq(Item) /\ Encode(Without82(s)) \in Seq(Byte)
    BY <1>2, <1>3, <1>5, Stripped
  <2>2. <<dhcpOptEnd>> \o <<>> = <<dhcpOptEnd>>
    <3>1. dhcpOptEnd \in Byte
      BY DEF dhcpOptEnd, Byte
    <3>2. <<dhcpOptEnd>> \in Seq(Byte)
      BY <3>1
    <3> QED BY <3>2, ConcatEmptySeq
  <2> QED BY <1>1, <1>2, <1>5, <2>1, <2>2
<1> QED BY <1>4, <1>5

\* An area with its End option, grouped the other way.
LEMMA EndGrouped ==
    ASSUME NEW u \in Seq(Byte), NEW r \in Seq(Byte)
    PROVE  u \o <<dhcpOptEnd>> \o r = u \o (<<dhcpOptEnd>> \o r)
<1>1. PICK h : h = <<dhcpOptEnd>>
  OBVIOUS
<1>2. h \in Seq(Byte)
  <2>1. dhcpOptEnd \in Byte
    BY DEF dhcpOptEnd, Byte
  <2> QED BY <1>1, <2>1
<1>3. (u \o h) \o r = u \o (h \o r)
  BY <1>2, Regrouped, Zenon
<1> QED BY <1>1, <1>3

\* What follows the End option of the stripped area.
LEMMA Behind ==
    ASSUME WellFormed
    PROVE  (IF ended THEN rest ELSE <<>>) \in Seq(Byte)
BY EmptySeq DEF WellFormed

\* stripAgentInfo is correct on every area.
THEOREM StripsCorrectly == Spec => []StripCorrect
<1>1. ASSUME WellFormed PROVE StripCorrect
  <2>1. PICK u, r : u = Encode(Without82(items)) /\ r = (IF ended THEN rest ELSE <<>>)
    OBVIOUS
  <2>2. stripAgentInfo(Area) = u \o (<<dhcpOptEnd>> \o r) /\ u \in Seq(Byte) /\ r \in Seq(Byte)
    BY <1>1, <2>1, StrippedArea, Behind
  <2>3. stripAgentInfo(Area) = u \o <<dhcpOptEnd>> \o r
    BY <2>2, EndGrouped
  <2> QED BY <2>1, <2>3 DEF StripCorrect
<1> QED BY <1>1, AlwaysWellFormed, PTL

\* rewriteGateway is correct on every stripped area.
THEOREM RewritesCorrectly == Spec => []GatewayCorrect
<1>1. ASSUME WellFormed, NEW gw \in Gateways
      PROVE  rewriteGateway(stripAgentInfo(Area), gw)
                = Encode(Patched(Without82(items), gw)) \o <<dhcpOptEnd>>
                  \o (IF ended THEN rest ELSE <<>>)
  <2>1. PICK k, u, r : /\ k = Without82(items) /\ u = Encode(k)
                       /\ r = (IF ended THEN rest ELSE <<>>)
    OBVIOUS
  <2>2. PICK t : t = <<dhcpOptEnd>> \o r
    OBVIOUS
  <2>3. /\ stripAgentInfo(Area) = u \o t /\ k \in Seq(Item)
        /\ u \in Seq(Byte) /\ r \in Seq(Byte)
    BY <1>1, <2>1, <2>2, StrippedArea, Behind
  <2>4. gw \in [1 .. 4 -> Byte]
    BY OptionsAssumption
  <2>5. Ends(u \o t, Len(u), r) /\ t \in Seq(Byte)
    BY <2>2, <2>3, EndAt
  <2>6. Rewritten(k, t, gw)
    BY <2>3, <2>4, <2>5, RouterWalk
  <2>7. PICK o \in Item : TRUE
    BY SomeItem
  <2>8. Patched(k, gw) \in Seq(Item) /\ (~Has(k, dhcpOptRouter) => Patched(k, gw) = k)
    BY <2>3, <2>4, <2>7, PatchedOne
  <2>9. rewriteGateway(u \o t, gw) = Encode(Patched(k, gw)) \o t
    <3>1. CASE Has(k, dhcpOptRouter)
      BY <2>1, <2>6, <3>1 DEF Rewritten
    <3>2. CASE ~Has(k, dhcpOptRouter)
      <4>1. PICK area, n : area = u \o t /\ n = Len(u)
        OBVIOUS
      <4>2. routerLoop(area)[0] = routerLoop(area)[n]
        BY <2>1, <2>6, <3>2, <4>1 DEF Rewritten
      <4>3. area \in Seq(Byte) /\ n \in Nat /\ n < Len(area) /\ At(area, n) = dhcpOptEnd
        BY <2>5, <4>1 DEF Ends
      <4>4. routerLoop(area)[n] = <<>>
        BY <4>3, RouterRound
      <4>5. rewriteGateway(area, gw) = area
        BY <4>2, <4>4 DEF rewriteGateway
      <4> QED BY <2>1, <2>8, <3>2, <4>1, <4>5
    <3> QED BY <3>1, <3>2
  <2>10. PICK p : p = Encode(Patched(k, gw))
    OBVIOUS
  <2>11. p \in Seq(Byte)
    <3>1. PICK w : w = Patched(k, gw)
      OBVIOUS
    <3>2. w \in Seq(Item)
      BY <2>8, <3>1
    <3>3. Encode(w) \in Seq(Byte)
      BY <2>7, <3>2, Encoded
    <3> QED BY <2>10, <3>1, <3>3
  <2>12. p \o <<dhcpOptEnd>> \o r = p \o (<<dhcpOptEnd>> \o r)
    BY <2>3, <2>11, EndGrouped
  <2> QED BY <2>1, <2>2, <2>3, <2>9, <2>10, <2>12
<1>2. WellFormed => GatewayCorrect
  BY <1>1 DEF GatewayCorrect, Patched
<1> QED BY <1>2, AlwaysWellFormed, PTL

\* What the theorem below says of the outcome r of inserting index i into the area a:
\* it was relayed before, or has no end or no room, or has the option 82 of the relay.
Inserts(a, s, e, c, i, r) ==
    LET relayed == Has(s, dhcpOptAgentInfo) \/ (~e /\ c # <<>> /\ c[1] = dhcpOptAgentInfo)
        room == Len(a) + 8 <= MaxArea
    IN  /\ relayed => r = [ok |-> TRUE, out |-> a]
        /\ ~relayed /\ e /\ room =>
              r = [ok |-> TRUE,
                   out |-> Encode(Append(s, AgentOption(i))) \o (<<dhcpOptEnd>> \o c)]
        /\ ~relayed /\ ~(e /\ room) => r = [ok |-> FALSE, out |-> <<>>]

\* There is room for the option 82.
Fits(a) == Len(a) + 8 <= MaxArea

\* The area with the option 82 of index i at off.
With82(a, off, i) == Slice(a, 0, off) \o agentInfo(i) \o From(a, off)

\* What insertAgentInfo returns, by where its walk stops (p).
Outcome(a, i, p) ==
    /\ p.stop = "relayed" => insertAgentInfo(a, i) = [ok |-> TRUE, out |-> a]
    /\ p.stop = "end" /\ Fits(a) =>
          insertAgentInfo(a, i) = [ok |-> TRUE, out |-> With82(a, p.off, i)]
    /\ p.stop = "end" /\ ~Fits(a) => insertAgentInfo(a, i) = [ok |-> FALSE, out |-> <<>>]
    /\ p.stop = "malformed" => insertAgentInfo(a, i) = [ok |-> FALSE, out |-> <<>>]

\* insertAgentInfo returns what its walk calls for.
LEMMA InsertBy ==
    ASSUME NEW a, NEW i
    PROVE  Outcome(a, i, insertLoop(a)[0])
<1>0. PICK p : p = insertLoop(a)[0]
  OBVIOUS
<1>1. "relayed" # "end" /\ "relayed" # "malformed" /\ "end" # "malformed"
  OBVIOUS
<1>2. insertAgentInfo(a, i) =
         CASE p.stop = "relayed" -> [ok |-> TRUE, out |-> a]
           [] p.stop = "end" /\ Fits(a) ->
                 [ok |-> TRUE, out |-> With82(a, p.off, i)]
           [] OTHER -> [ok |-> FALSE, out |-> <<>>]
  BY <1>0 DEF insertAgentInfo, With82, Fits
<1>3. Outcome(a, i, p)
  BY <1>1, <1>2 DEF Outcome
<1> QED BY <1>0, <1>3

\* Inserting into an area that has its End option.
LEMMA InsertEnded ==
    ASSUME NEW s \in Seq(Item), NEW c \in Seq(Byte), NEW i \in Nat, i <= MaxInt32,
           NEW a, a = Encode(s) \o (<<dhcpOptEnd>> \o c)
    PROVE  Inserts(a, s, TRUE, c, i, insertAgentInfo(a, i))
<1>1. PICK u, n, t : u = Encode(s) /\ n = Len(u) /\ t = <<dhcpOptEnd>> \o c
  OBVIOUS
<1>2. AgentOption(i) \in Item /\ Bytes(AgentOption(i)) = agentInfo(i)
  BY AgentItem
<1>3. PICK o : o = AgentOption(i)
  OBVIOUS
<1>4. o \in Item /\ Bytes(o) = agentInfo(i)
  BY <1>2, <1>3
<1>5. u \in Seq(Byte) /\ Encode(Append(s, o)) = u \o Bytes(o)
  BY <1>1, <1>4, Encoded
<1>6. Ends(u \o t, n, c) /\ Slice(u \o t, 0, n) = u /\ t \in Seq(Byte)
  BY <1>1, <1>5, EndAt
<1>7. a = u \o t
  BY <1>1
<1>8. /\ a \in Seq(Byte) /\ n \in Nat /\ n < Len(a) /\ At(a, n) = dhcpOptEnd
      /\ From(a, n) = t /\ Slice(a, 0, n) = u
  BY <1>1, <1>6, <1>7 DEF Ends
<1>9. Walked(s, a)
  BY <1>1, <1>6, <1>7, InsertWalk
<1>10. PICK p : p = insertLoop(a)[0] /\ Outcome(a, i, p)
  BY InsertBy
<1>11. CASE Has(s, dhcpOptAgentInfo)
  <2>1. p.stop = "relayed"
    BY <1>9, <1>10, <1>11 DEF Walked
  <2>2. insertAgentInfo(a, i) = [ok |-> TRUE, out |-> a]
    BY <1>10, <2>1 DEF Outcome
  <2> QED BY <1>11, <2>2 DEF Inserts, Fits
<1>12. CASE ~Has(s, dhcpOptAgentInfo)
  <2>1. insertLoop(a)[n] = [stop |-> "end", off |-> n]
    BY <1>8, InsertRound
  <2>2. p = [stop |-> "end", off |-> n]
    BY <1>1, <1>9, <1>10, <1>12, <2>1 DEF Walked
  <2>3. p.stop = "end" /\ p.off = n
    BY <2>2
  <2>4. CASE Fits(a)
    <3>1. insertAgentInfo(a, i) = [ok |-> TRUE, out |-> With82(a, p.off, i)]
      BY <1>10, <2>3, <2>4 DEF Outcome
    <3>2. With82(a, p.off, i) = Encode(Append(s, o)) \o t
      BY <1>4, <1>5, <1>8, <2>3 DEF With82
    <3>3. insertAgentInfo(a, i)
             = [ok |-> TRUE, out |-> Encode(Append(s, AgentOption(i))) \o (<<dhcpOptEnd>> \o c)]
      BY <1>1, <1>3, <3>1, <3>2
    <3> QED BY <1>12, <2>4, <3>3 DEF Inserts, Fits
  <2>5. CASE ~Fits(a)
    <3>1. insertAgentInfo(a, i) = [ok |-> FALSE, out |-> <<>>]
      BY <1>10, <2>3, <2>5 DEF Outcome
    <3> QED BY <1>12, <2>5, <3>1 DEF Inserts, Fits
  <2> QED BY <2>4, <2>5
<1> QED BY <1>11, <1>12

\* Inserting into an area that is cut off.
LEMMA InsertCut ==
    ASSUME NEW s \in Seq(Item), NEW c \in CutOff, NEW i, NEW a, a = Encode(s) \o c
    PROVE  Inserts(a, s, FALSE, c, i, insertAgentInfo(a, i))
<1>1. PICK u, n : u = Encode(s) /\ n = Len(u)
  OBVIOUS
<1>2. PICK o \in Item : TRUE
  BY SomeItem
<1>3. u \in Seq(Byte)
  BY <1>1, <1>2, Encoded
<1>4. Breaks(a, n, c) /\ c \in Seq(Byte)
  BY <1>1, <1>3, CutAt
<1>5. Walked(s, a)
  BY <1>4, InsertWalk
<1>6. PICK p : p = insertLoop(a)[0] /\ Outcome(a, i, p)
  BY InsertBy
<1>7. a \in Seq(Byte) /\ n \in Nat
  BY <1>4 DEF Breaks
<1>8. CASE Has(s, dhcpOptAgentInfo)
  <2>1. p.stop = "relayed"
    BY <1>5, <1>6, <1>8 DEF Walked
  <2>2. insertAgentInfo(a, i) = [ok |-> TRUE, out |-> a]
    BY <1>6, <2>1 DEF Outcome
  <2> QED BY <1>8, <2>2 DEF Inserts
<1>9. CASE ~Has(s, dhcpOptAgentInfo)
  <2>1. p = insertLoop(a)[n]
    BY <1>1, <1>5, <1>6, <1>9 DEF Walked
  <2>2. CASE c # <<>> /\ c[1] = dhcpOptAgentInfo
    <3>1. n < Len(a) /\ At(a, n) = dhcpOptAgentInfo
      BY <1>4, <2>2 DEF Breaks
    <3>2. p = [stop |-> "relayed", off |-> n]
      BY <1>7, <2>1, <3>1, InsertRound
    <3>3. p.stop = "relayed"
      BY <3>2
    <3>4. insertAgentInfo(a, i) = [ok |-> TRUE, out |-> a]
      BY <1>6, <3>3 DEF Outcome
    <3> QED BY <2>2, <3>4 DEF Inserts
  <2>3. CASE ~(c # <<>> /\ c[1] = dhcpOptAgentInfo)
    <3>1. p = [stop |-> "malformed", off |-> n]
      <4>1. CASE c = <<>>
        <5>1. n >= Len(a)
          BY <1>4, <4>1 DEF Breaks
        <5> QED BY <1>7, <2>1, <5>1, InsertRound
      <4>2. CASE c # <<>>
        <5>1. /\ n < Len(a) /\ At(a, n) \notin {dhcpOptEnd, dhcpOptPad, dhcpOptAgentInfo}
              /\ ~Whole(a, n)
          BY <1>4, <2>3, <4>2 DEF Breaks
        <5> QED BY <1>7, <2>1, <5>1, InsertRound
      <4> QED BY <4>1, <4>2
    <3>2. p.stop = "malformed"
      BY <3>1
    <3>3. insertAgentInfo(a, i) = [ok |-> FALSE, out |-> <<>>]
      BY <1>6, <3>2 DEF Outcome
    <3> QED BY <1>9, <2>3, <3>3 DEF Inserts
  <2> QED BY <2>2, <2>3
<1> QED BY <1>8, <1>9

\* From the area w the reply path takes the option 82 away and the index i back.
TakesBack(w, s, c, i) ==
    /\ stripAgentInfo(w) = Encode(s) \o (<<dhcpOptEnd>> \o c)
    /\ parseOptionArea(w) = Append(Options(s), AgentOption(i))
    /\ Last(parseOptionArea(w)) = AgentOption(i)
    /\ AgentOption(i).code = dhcpOptAgentInfo
    /\ parseCircuitID(AgentOption(i).data) = <<i>>

\* From what insertAgentInfo makes of an area, the reply path takes the option back.
LEMMA RoundTrip ==
    ASSUME NEW s \in Seq(Item), NEW c \in Seq(Byte), NEW i \in Nat, i <= MaxInt32,
           ~Has(s, dhcpOptAgentInfo)
    PROVE  TakesBack(Encode(Append(s, AgentOption(i))) \o (<<dhcpOptEnd>> \o c), s, c, i)
<1>0. PICK w : w = Encode(Append(s, AgentOption(i))) \o (<<dhcpOptEnd>> \o c)
  OBVIOUS
<1>1. AgentOption(i) \in Item /\ parseCircuitID(AgentOption(i).data) = <<i>>
  BY AgentItem
<1>2. PICK o, b : o = AgentOption(i) /\ b = Append(s, o)
  OBVIOUS
<1>3. o \in Item /\ o.code = dhcpOptAgentInfo
  BY <1>1, <1>2 DEF AgentOption
<1>4. b \in Seq(Item)
  BY <1>2, <1>3, AppendProperties
<1>5. <<>> \in CutOff
  BY EmptySeq DEF CutOff
<1>6. Without82(b) = s
  <2>1. Without82(s) = s
    BY AllKept
  <2>2. Without82(b) = IF o.code = dhcpOptAgentInfo THEN Without82(s) ELSE Append(Without82(s), o)
    BY <1>2, <1>3, Without82Of
  <2> QED BY <1>3, <2>1, <2>2
<1>7. stripAgentInfo(Encode(b) \o (<<dhcpOptEnd>> \o c)) = Encode(Without82(b)) \o (<<dhcpOptEnd>> \o c)
  BY <1>4, <1>5, Stripped
<1>8. parseOptionArea(Encode(b) \o (<<dhcpOptEnd>> \o c)) = Options(b)
  BY <1>4, <1>5, Parsed
<1>9. PICK t : t = Options(s)
  OBVIOUS
<1>10. t \in Seq(Option) /\ Options(b) = Append(t, o) /\ o \in Option
  <2>1. /\ t \in Seq(Option)
        /\ Options(b) = IF o.code = dhcpOptPad THEN t ELSE Append(t, o)
    BY <1>2, <1>3, <1>9, OptionsOf
  <2>2. o.code # dhcpOptPad
    BY <1>3 DEF dhcpOptAgentInfo, dhcpOptPad
  <2> QED BY <1>3, <2>1, <2>2, ItemBytes
<1>11. Last(Append(t, o)) = o
  <2>1. Len(Append(t, o)) = Len(t) + 1 /\ Append(t, o)[Len(t) + 1] = o
    BY <1>10, AppendProperties
  <2> QED BY <2>1 DEF Last
<1>12. w = Encode(b) \o (<<dhcpOptEnd>> \o c)
  BY <1>0, <1>2
<1>13. TakesBack(w, s, c, i)
  BY <1>1, <1>2, <1>3, <1>6, <1>7, <1>8, <1>9, <1>10, <1>11, <1>12 DEF TakesBack
<1> QED BY <1>0, <1>13

\* insertAgentInfo and the reply path round-trip on every area.
THEOREM InsertsCorrectly == Spec => []InsertRoundTrips
<1>1. ASSUME WellFormed, NEW i \in Indexes
      PROVE  LET r == insertAgentInfo(Area, i)
                 relayed == \/ \E j \in 1 .. Len(items) : items[j].code = dhcpOptAgentInfo
                            \/ ~ended /\ rest # <<>> /\ rest[1] = dhcpOptAgentInfo
                 room == Len(Area) + 8 <= MaxArea
             IN  /\ r.ok <=> relayed \/ (ended /\ room)
                 /\ relayed => r.out = Area
                 /\ r.ok /\ ~relayed =>
                       /\ stripAgentInfo(r.out) = Area
                       /\ \E info \in {Last(parseOptionArea(r.out))} :
                             /\ parseOptionArea(r.out) = Append(parseOptionArea(Area), info)
                             /\ info.code = dhcpOptAgentInfo
                             /\ parseCircuitID(info.data) = <<i>>
  <2>1. PICK s, e, c, a : s = items /\ e = ended /\ c = rest /\ a = Area
    OBVIOUS
  <2>2. PICK r : r = insertAgentInfo(a, i)
    OBVIOUS
  <2> DEFINE relayed == Has(s, dhcpOptAgentInfo) \/ (~e /\ c # <<>> /\ c[1] = dhcpOptAgentInfo)
             room == Len(a) + 8 <= MaxArea
  <2>3. SUFFICES /\ r.ok <=> relayed \/ (e /\ room)
                 /\ relayed => r.out = a
                 /\ r.ok /\ ~relayed =>
                       /\ stripAgentInfo(r.out) = a
                       /\ \E info \in {Last(parseOptionArea(r.out))} :
                             /\ parseOptionArea(r.out) = Append(parseOptionArea(a), info)
                             /\ info.code = dhcpOptAgentInfo
                             /\ parseCircuitID(info.data) = <<i>>
    BY <2>1, <2>2 DEF Has
  <2>4. /\ s \in Seq(Item) /\ e \in BOOLEAN
        /\ e => c \in Seq(Byte) /\ a = Encode(s) \o (<<dhcpOptEnd>> \o c)
        /\ ~e => c \in CutOff /\ a = Encode(s) \o c
    BY <1>1, <2>1, AreaOf DEF WellFormed
  <2>5. i \in Nat /\ i <= MaxInt32
    <3>1. i \in 0 .. MaxInt32
      BY OptionsAssumption
    <3>2. MaxInt32 \in Int
      BY DEF MaxInt32
    <3> QED BY <3>1, <3>2
  <2>6. Inserts(a, s, e, c, i, r)
    <3>1. CASE e
      <4>1. Inserts(a, s, TRUE, c, i, insertAgentInfo(a, i))
        BY <2>4, <2>5, <3>1, InsertEnded
      <4>2. e = TRUE
        BY <2>4, <3>1
      <4> QED BY <2>2, <4>1, <4>2
    <3>2. CASE ~e
      <4>1. Inserts(a, s, FALSE, c, i, insertAgentInfo(a, i))
        BY <2>4, <3>2, InsertCut
      <4>2. e = FALSE
        BY <2>4, <3>2
      <4> QED BY <2>2, <4>1, <4>2
    <3> QED BY <3>1, <3>2
  <2>7. /\ relayed => r = [ok |-> TRUE, out |-> a]
        /\ ~relayed /\ e /\ room =>
              r = [ok |-> TRUE, out |-> Encode(Append(s, AgentOption(i))) \o (<<dhcpOptEnd>> \o c)]
        /\ ~relayed /\ ~(e /\ room) => r = [ok |-> FALSE, out |-> <<>>]
    BY <2>6 DEF Inserts
  <2>8. CASE relayed
    <3>1. r.ok = TRUE /\ r.out = a
      BY <2>7, <2>8
    <3> HIDE DEF relayed
    <3> QED BY <2>8, <3>1
  <2>9. CASE ~relayed /\ ~(e /\ room)
    <3>1. r.ok = FALSE
      BY <2>7, <2>9
    <3> HIDE DEF relayed, room
    <3> QED BY <2>9, <3>1
  <2>10. CASE ~relayed /\ e /\ room
    <3>1. PICK w : w = Encode(Append(s, AgentOption(i))) \o (<<dhcpOptEnd>> \o c)
      OBVIOUS
    <3>2. r.ok = TRUE /\ r.out = w
      <4>1. r = [ok |-> TRUE, out |-> w]
        BY <2>7, <2>10, <3>1
      <4> QED BY <4>1
    <3>3. ~Has(s, dhcpOptAgentInfo) /\ c \in Seq(Byte) /\ a = Encode(s) \o (<<dhcpOptEnd>> \o c)
      BY <2>4, <2>10
    <3>4. /\ stripAgentInfo(w) = Encode(s) \o (<<dhcpOptEnd>> \o c)
          /\ parseOptionArea(w) = Append(Options(s), AgentOption(i))
          /\ Last(parseOptionArea(w)) = AgentOption(i)
          /\ AgentOption(i).code = dhcpOptAgentInfo
          /\ parseCircuitID(AgentOption(i).data) = <<i>>
      <4>1. TakesBack(Encode(Append(s, AgentOption(i))) \o (<<dhcpOptEnd>> \o c), s, c, i)
        <5>1. s \in Seq(Item) /\ c \in Seq(Byte) /\ ~Has(s, dhcpOptAgentInfo)
          BY <2>4, <3>3
        <5> QED BY <2>5, <5>1, RoundTrip
      <4> QED BY <3>1, <4>1 DEF TakesBack
    <3>5. parseOptionArea(a) = Options(s)
      BY <1>1, <2>1, <2>10, ParsedArea
    <3>6. \E info \in {Last(parseOptionArea(r.out))} :
             /\ parseOptionArea(r.out) = Append(parseOptionArea(a), info)
             /\ info.code = dhcpOptAgentInfo
             /\ parseCircuitID(info.data) = <<i>>
      BY <3>2, <3>4, <3>5
    <3>7. stripAgentInfo(r.out) = a
      BY <3>2, <3>3, <3>4
    <3> HIDE DEF relayed, room
    <3> QED BY <2>10, <3>2, <3>6, <3>7
  <2> HIDE DEF relayed, room
  <2> QED BY <2>8, <2>9, <2>10
<1>2. WellFormed => InsertRoundTrips
  BY <1>1 DEF InsertRoundTrips
<1> QED BY <1>2, AlwaysWellFormed, PTL

-----------------------------------------------------------------------------
(* The areas of the specification are all there are.                       *)

\* A sequence is made of its two parts around any offset.
LEMMA Parted ==
    ASSUME NEW r \in Seq(Byte), NEW n \in Nat, n <= Len(r)
    PROVE  /\ r = Slice(r, 0, n) \o From(r, n)
           /\ Slice(r, 0, n) \in Seq(Byte) /\ Len(Slice(r, 0, n)) = n
           /\ From(r, n) \in Seq(Byte) /\ Len(From(r, n)) = Len(r) - n
<1>1. PICK k : k = Len(r)
  OBVIOUS
<1>2. k \in Nat /\ n <= k
  BY <1>1, LenProperties
<1>3. \A i \in 1 .. k : r[i] \in Byte
  BY <1>1, ElementOfSeq
<1>4. PICK x, y : x = SubSeq(r, 1, n) /\ y = SubSeq(r, n + 1, k)
  OBVIOUS
<1>5. x \in Seq(Byte) /\ Len(x) = n
  <2>1. \A i \in 1 .. n : r[i] \in Byte
    BY <1>2, <1>3
  <2>2. SubSeq(r, 1, n) \in Seq(Byte) /\ Len(SubSeq(r, 1, n)) = IF 1 <= n THEN n - 1 + 1 ELSE 0
    BY <2>1, SubSeqProperties
  <2>3. Len(x) = IF 1 <= n THEN n - 1 + 1 ELSE 0
    BY <1>4, <2>2
  <2>4. PICK l : l = Len(x)
    OBVIOUS
  <2>5. l = n
    BY <2>3, <2>4
  <2> QED BY <1>4, <2>2, <2>4, <2>5
<1>6. y \in Seq(Byte) /\ Len(y) = k - n
  <2>1. \A i \in n + 1 .. k : r[i] \in Byte
    BY <1>2, <1>3
  <2>2. n + 1 \in Int /\ k \in Int
    BY <1>2
  <2>3. /\ SubSeq(r, n + 1, k) \in Seq(Byte)
        /\ Len(SubSeq(r, n + 1, k)) = IF n + 1 <= k THEN k - (n + 1) + 1 ELSE 0
    BY <2>1, <2>2, SubSeqProperties
  <2>4. PICK l : l = Len(y)
    OBVIOUS
  <2>5. l = IF n + 1 <= k THEN k - (n + 1) + 1 ELSE 0
    BY <1>4, <2>3, <2>4
  <2>6. l = k - n
    BY <1>2, <2>5
  <2> QED BY <1>4, <2>3, <2>4, <2>6
<1>7. x \o y = r
  <2>1. 1 \in 1 .. k + 1 /\ n \in 1 - 1 .. k /\ k \in n .. k
    BY <1>2
  <2>2. SubSeq(r, 1, n) \o SubSeq(r, n + 1, k) = SubSeq(r, 1, k)
    BY <1>1, <2>1, ConcatAdjacentSubSeq
  <2>3. SubSeq(r, 1, k) = r
    BY <1>1, SubSeqFull
  <2> QED BY <1>4, <2>2, <2>3
<1>8. Slice(r, 0, n) = x
  BY <1>4 DEF Slice
<1>9. From(r, n) = y
  BY <1>1, <1>4 DEF From
<1> QED BY <1>1, <1>5, <1>6, <1>7, <1>8, <1>9

\* What is neither over, cut off nor at its End starts with an item.
LEMMA FrontItem ==
    ASSUME NEW r \in Seq(Byte), r \notin CutOff, r[1] # dhcpOptEnd
    PROVE  \E o \in Item, w \in Seq(Byte) : r = Bytes(o) \o w /\ Len(w) < Len(r)
<1>1. r # <<>> /\ (r[1] = dhcpOptPad \/ Whole(r, 0))
  BY DEF CutOff
<1>2. PICK k : k = Len(r)
  OBVIOUS
<1>3. k \in Nat /\ k # 0
  BY <1>1, <1>2, LenProperties, EmptySeq
<1>4. r[1] \in Byte
  <2>1. 1 \in 1 .. Len(r)
    BY <1>2, <1>3
  <2> QED BY <2>1, ElementOfSeq
<1>5. CASE r[1] = dhcpOptPad
  <2>1. 1 \in Nat /\ 1 <= Len(r)
    BY <1>2, <1>3
  <2>2. PICK x, w : x = Slice(r, 0, 1) /\ w = From(r, 1)
    OBVIOUS
  <2>3. r = x \o w /\ x \in Seq(Byte) /\ Len(x) = 1 /\ w \in Seq(Byte) /\ Len(w) = Len(r) - 1
    BY <2>1, <2>2, Parted
  <2>4. x[1] = r[1]
    <3>1. /\ \A i \in 1 .. Len(x) + Len(w) : (x \o w)[i] = IF i <= Len(x) THEN x[i] ELSE w[i - Len(x)]
      BY <2>3, ConcatProperties
    <3>2. 1 \in 1 .. Len(x) + Len(w) /\ 1 <= Len(x)
      BY <1>2, <1>3, <2>3
    <3>3. (x \o w)[1] = x[1]
      BY <3>1, <3>2
    <3> QED BY <2>3, <3>3
  <2>5. x = <<dhcpOptPad>>
    BY <1>5, <2>3, <2>4, Single
  <2>6. PICK o : o = [code |-> dhcpOptPad, data |-> <<>>]
    OBVIOUS
  <2>7. o \in Item /\ o.code = dhcpOptPad
    BY <2>6, EmptySeq DEF Item, Option, Byte, dhcpOptEnd, dhcpOptPad
  <2>8. Bytes(o) = x
    BY <2>5, <2>7 DEF Bytes
  <2>9. Len(w) < Len(r)
    BY <1>2, <1>3, <2>3
  <2> QED BY <2>3, <2>7, <2>8, <2>9
<1>6. CASE r[1] # dhcpOptPad
  <2>1. Whole(r, 0)
    BY <1>1, <1>6
  <2>2. PICK l : l = At(r, 0 + 1)
    OBVIOUS
  <2>3. /\ l \in Byte /\ l \in Nat
    BY <2>1, <2>2, WholeOption
  <2>4. 2 <= k /\ 2 + l <= k
    BY <1>2, <1>3, <2>1, <2>2, <2>3 DEF Whole
  <2>5. l = r[2]
    BY <2>2 DEF At
  <2>6. PICK h, v : h = Slice(r, 0, 2) /\ v = From(r, 2)
    OBVIOUS
  <2>7. r = h \o v /\ h \in Seq(Byte) /\ Len(h) = 2 /\ v \in Seq(Byte) /\ Len(v) = k - 2
    <3>1. 2 \in Nat /\ 2 <= Len(r)
      BY <1>2, <2>4
    <3> QED BY <1>2, <2>6, <3>1, Parted
  <2>8. PICK d, w : d = Slice(v, 0, l) /\ w = From(v, l)
    OBVIOUS
  <2>9. v = d \o w /\ d \in Seq(Byte) /\ Len(d) = l /\ w \in Seq(Byte) /\ Len(w) = k - 2 - l
    <3>1. l \in Nat /\ l <= Len(v)
      BY <1>3, <2>3, <2>4, <2>7
    <3>2. v \in Seq(Byte)
      BY <2>7
    <3>3. /\ v = d \o w /\ d \in Seq(Byte) /\ Len(d) = l
          /\ w \in Seq(Byte) /\ Len(w) = Len(v) - l
      BY <2>8, <3>1, <3>2, Parted
    <3> QED BY <2>7, <3>3
  <2>10. h = <<r[1], l>>
    <3>1. \A i \in 1 .. Len(h) + Len(v) : (h \o v)[i] = IF i <= Len(h) THEN h[i] ELSE v[i - Len(h)]
      BY <2>7, ConcatProperties
    <3>2. /\ 1 \in 1 .. Len(h) + Len(v) /\ 1 <= Len(h)
          /\ 2 \in 1 .. Len(h) + Len(v) /\ 2 <= Len(h)
      BY <1>3, <2>4, <2>7
    <3>3. (h \o v)[1] = h[1] /\ (h \o v)[2] = h[2]
      BY <3>1, <3>2
    <3>4. h[1] = r[1] /\ h[2] = l
      BY <2>5, <2>7, <3>3
    <3>5. PICK g : g = <<r[1], l>>
      OBVIOUS
    <3>6. g \in Seq(Byte) /\ Len(g) = 2 /\ g[1] = r[1] /\ g[2] = l
      BY <1>4, <2>3, <3>5, Header
    <3>7. Len(h) = Len(g) /\ \A i \in 1 .. Len(h) : h[i] = g[i]
      <4>1. \A i \in 1 .. 2 : i \in {1, 2}
        OBVIOUS
      <4> QED BY <2>7, <3>4, <3>6, <4>1
    <3>8. h = g
      BY <2>7, <3>6, <3>7, SeqEqual
    <3> QED BY <3>5, <3>8
  <2>11. PICK o : o = [code |-> r[1], data |-> d]
    OBVIOUS
  <2>12. o.code = r[1] /\ o.data = d
    BY <2>11
  <2>13. o \in Item
    <3>1. o \in Option
      BY <1>4, <2>9, <2>11 DEF Option
    <3>2. l <= 255
      BY <2>3 DEF Byte
    <3>3. Len(o.data) <= 255
      BY <2>9, <2>12, <3>2
    <3> QED BY <1>6, <2>12, <3>1, <3>3, Zenon DEF Item
  <2>14. Bytes(o) = h \o d
    BY <1>6, <2>9, <2>10, <2>12 DEF Bytes
  <2>15. r = Bytes(o) \o w
    <3>0. h \in Seq(Byte) /\ d \in Seq(Byte) /\ w \in Seq(Byte)
      BY <2>7, <2>9
    <3>1. (h \o d) \o w = h \o (d \o w)
      <4>1. Groups(h, d, w)
        BY <3>0, Grouped
      <4> QED BY <4>1 DEF Groups
    <3> QED BY <2>7, <2>9, <2>14, <3>1
  <2>16. Len(w) < Len(r)
    BY <1>2, <1>3, <2>3, <2>9
  <2> QED BY <2>9, <2>13, <2>15, <2>16
<1> QED BY <1>5, <1>6

\* Every sequence of bytes, so every options area a peer can send, is a run of items
\* followed by End and a tail, or by nothing or an option that is cut off: what the
\* invariants say of the parts of an area they say of every input of the codec.
THEOREM EveryArea ==
    ASSUME NEW a \in Seq(Byte)
    PROVE  \E s \in Seq(Item) :
              \/ \E r \in Seq(Byte) : a = Encode(s) \o (<<dhcpOptEnd>> \o r)
              \/ \E c \in CutOff : a = Encode(s) \o c
<1> DEFINE Rest(s, r) == s \in Seq(Item) /\ r \in Seq(Byte) /\ a = Encode(s) \o r
           T == {n \in Nat : \E s, r : Rest(s, r) /\ Len(r) = n}
<1>1. Rest(<<>>, a)
  <2>1. <<>> \in Seq(Item)
    BY EmptySeq
  <2>2. Encode(<<>>) = <<>> /\ <<>> \o a = a
    BY <2>1, EmptyArea, Joined
  <2> QED BY <2>1, <2>2
<1>2. T \in SUBSET Nat /\ T # {}
  <2>1. Len(a) \in Nat
    BY LenProperties
  <2> HIDE DEF Rest
  <2>2. Len(a) \in T
    BY <1>1, <2>1
  <2> QED BY <2>2
<1>3. PICK n \in T : \A m \in T : n <= m
  <2> HIDE DEF T
  <2> QED BY <1>2, LeastNumber
<1>4. PICK s, r : Rest(s, r) /\ Len(r) = n
  BY <1>3
<1>5. s \in Seq(Item) /\ r \in Seq(Byte) /\ a = Encode(s) \o r
  BY <1>4
<1>6. CASE r \in CutOff
  BY <1>5, <1>6
<1>7. CASE r \notin CutOff /\ r[1] = dhcpOptEnd
  <2>1. r # <<>>
    <3>1. <<>> \in CutOff
      BY EmptySeq DEF CutOff
    <3> QED BY <1>7, <3>1
  <2>2. PICK k : k = Len(r)
    OBVIOUS
  <2>3. k \in Nat /\ k # 0
    BY <1>5, <2>1, <2>2, LenProperties, EmptySeq
  <2>4. 1 \in Nat /\ 1 <= Len(r)
    BY <2>2, <2>3
  <2>5. PICK x, w : x = Slice(r, 0, 1) /\ w = From(r, 1)
    OBVIOUS
  <2>6. r = x \o w /\ x \in Seq(Byte) /\ Len(x) = 1 /\ w \in Seq(Byte) /\ Len(w) = Len(r) - 1
    BY <1>5, <2>4, <2>5, Parted
  <2>7. x[1] = r[1]
    <3>1. \A i \in 1 .. Len(x) + Len(w) : (x \o w)[i] = IF i <= Len(x) THEN x[i] ELSE w[i - Len(x)]
      BY <2>6, ConcatProperties
    <3>2. 1 \in 1 .. Len(x) + Len(w) /\ 1 <= Len(x)
      BY <2>2, <2>3, <2>6
    <3>3. (x \o w)[1] = x[1]
      BY <3>1, <3>2
    <3> QED BY <2>6, <3>3
  <2>8. x = <<dhcpOptEnd>>
    BY <1>7, <2>6, <2>7, Single
  <2>9. a = Encode(s) \o (<<dhcpOptEnd>> \o w)
    BY <1>5, <2>6, <2>8
  <2> QED BY <1>5, <2>6, <2>9
<1>8. CASE r \notin CutOff /\ r[1] # dhcpOptEnd
  <2>1. PICK o \in Item, w \in Seq(Byte) : r = Bytes(o) \o w /\ Len(w) < Len(r)
    BY <1>5, <1>8, FrontItem
  <2>2. PICK u, b : u = Encode(s) /\ b = Append(s, o)
    OBVIOUS
  <2>3. b \in Seq(Item)
    BY <1>5, <2>2, AppendProperties
  <2>4. u \in Seq(Byte) /\ Encode(b) = u \o Bytes(o)
    BY <1>5, <2>2, Encoded
  <2>5. Bytes(o) \in Seq(Byte)
    BY ItemBytes
  <2>6. (u \o Bytes(o)) \o w = u \o (Bytes(o) \o w)
    BY <2>4, <2>5, Regrouped, Zenon
  <2>7. Rest(b, w)
    BY <1>5, <2>1, <2>2, <2>3, <2>4, <2>6
  <2>8. Len(w) \in Nat
    BY LenProperties
  <2>9. Len(w) \in T
    <3> HIDE DEF Rest
    <3> QED BY <2>7, <2>8
  <2>10. Len(w) < n /\ n \in Nat /\ n <= Len(w)
    BY <1>3, <1>4, <2>1, <2>9
  <2> QED BY <2>8, <2>10
<1> QED BY <1>6, <1>7, <1>8

=============================================================================
