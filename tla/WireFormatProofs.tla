----------------------------- MODULE WireFormatProofs -----------------------------
(****************************************************************************)
(* Proofs about the wire format: whatever its kind and its text, a message  *)
(* is read back from its fields, from its JSON line and from its binary     *)
(* frame.  What the readers compute by recursion is derived by induction,   *)
(* in the form of a smallest counterexample (LeastNat).                     *)
(****************************************************************************)
EXTENDS WireFormat, SequenceTheorems, WellFoundedInduction, TLAPS

--------------------------------------------------------------------------------
(****************************************************************************)
(* Sequences                                                                *)
(****************************************************************************)

\* Every non-empty set of natural numbers has a least element.
LEMMA LeastNat ==
    ASSUME NEW T \in SUBSET Nat, T # {}
    PROVE  \E n \in T : \A m \in T : n <= m
<1> DEFINE R == {ss \in Nat \X Nat : ss[1] < ss[2]}
<1>1. IsWellFoundedOn(R, Nat)
  BY NatLessThanWellFounded DEF OpToRel
<1>2. PICK n \in T : \A m \in T : <<m, n>> \notin R
  <2> HIDE DEF R
  <2> QED BY <1>1, WFMin
<1>3. \A m \in T : ~(m < n)
  BY <1>2
<1> QED BY <1>2, <1>3

\* What FlattenSeq makes of the first i sequences, for every i.
Partials(g, s, S) ==
    /\ g \in [0 .. Len(s) -> Seq(S)]
    /\ g[0] = <<>>
    /\ \A i \in 1 .. Len(s) : g[i] = g[i - 1] \o s[i]

\* There is such a function.
LEMMA PartialsExist ==
    ASSUME NEW S, NEW s \in Seq(Seq(S))
    PROVE  \E g : Partials(g, s, S)
<1> DEFINE Good(g, n) == /\ g \in [0 .. n -> Seq(S)]
                         /\ g[0] = <<>>
                         /\ \A i \in 1 .. n : g[i] = g[i - 1] \o s[i]
           Bad == {n \in 0 .. Len(s) : ~\E g : Good(g, n)}
<1>0. Len(s) \in Nat
  OBVIOUS
<1>1. \A n : n \in Bad <=> n \in 0 .. Len(s) /\ ~\E g : Good(g, n)
  OBVIOUS
<1>2. SUFFICES ASSUME Bad # {} PROVE FALSE
  <2>1. Len(s) \in 0 .. Len(s)
    BY <1>0
  <2>2. Good(CHOOSE g : Good(g, Len(s)), Len(s)) => Partials(CHOOSE g : Good(g, Len(s)), s, S)
    BY DEF Partials
  <2> HIDE DEF Bad, Good
  <2> QED BY <1>1, <2>1, <2>2
<1>3. PICK n \in Bad : \A m \in Bad : n <= m
  <2> HIDE DEF Bad, Good
  <2>1. Bad \in SUBSET Nat
    BY <1>0, <1>1
  <2> QED BY <2>1, <1>2, LeastNat
<1>4. CASE n = 0
  <2> DEFINE g == [i \in 0 .. 0 |-> <<>>]
  <2>1. Good(g, 0)
    BY EmptySeq
  <2> HIDE DEF Bad, Good
  <2> QED BY <1>1, <1>3, <1>4, <2>1
<1>5. CASE n # 0
  <2>1. n - 1 \in 0 .. Len(s) /\ n \in 1 .. Len(s) /\ n \in Nat
    BY <1>3, <1>5, <1>0
  <2>2. PICK g : Good(g, n - 1)
    <3> HIDE DEF Bad, Good
    <3>1. n - 1 \notin Bad
      BY <1>3, <2>1
    <3> QED BY <1>1, <3>1, <2>1
  <2> DEFINE h == [i \in 0 .. n |-> IF i = n THEN g[n - 1] \o s[n] ELSE g[i]]
  <2>3. s[n] \in Seq(S)
    BY <2>1
  <2>4. g[n - 1] \o s[n] \in Seq(S)
    <3>1. g[n - 1] \in Seq(S)
      BY <2>2, <2>1
    <3> QED BY <3>1, <2>3, ConcatProperties
  <2>5. h \in [0 .. n -> Seq(S)]
    <3>1. \A i \in 0 .. n : i # n => g[i] \in Seq(S)
      BY <2>1, <2>2
    <3> QED BY <3>1, <2>4
  <2>6. h[0] = <<>>
    BY <2>1, <2>2
  <2>7. ASSUME NEW i \in 1 .. n PROVE h[i] = h[i - 1] \o s[i]
    <3>1. i \in 0 .. n /\ i - 1 \in 0 .. n /\ i - 1 # n
      BY <2>1
    <3>2. h[i - 1] = g[i - 1]
      BY <3>1
    <3>3. CASE i = n
      BY <3>1, <3>2, <3>3
    <3>4. CASE i # n
      <4>1. i \in 1 .. n - 1
        BY <2>1, <3>4
      <4>2. h[i] = g[i]
        BY <3>1, <3>4
      <4> QED BY <4>1, <4>2, <3>2, <2>2
    <3> QED BY <3>3, <3>4
  <2>8. Good(h, n)
    BY <2>5, <2>6, <2>7
  <2> HIDE DEF Bad, Good
  <2> QED BY <1>1, <2>8, <1>3
<1> QED BY <1>4, <1>5

\* And only one, whose last value FlattenSeq is.
LEMMA FlattenIsLast ==
    ASSUME NEW S, NEW s \in Seq(Seq(S)), NEW g, Partials(g, s, S)
    PROVE  FlattenSeq(s) = g[Len(s)]
<1>0. Len(s) \in Nat /\ DOMAIN s = 1 .. Len(s)
  OBVIOUS
<1>3. 1 \in 1 .. Len(s) => g[1] = <<>> \o s[1] /\ s[1] \in Seq(S)
  <2> SUFFICES ASSUME 1 \in 1 .. Len(s) PROVE g[1] = <<>> \o s[1] /\ s[1] \in Seq(S)
    OBVIOUS
  <2>1. g[1] = g[1 - 1] \o s[1]
    BY DEF Partials
  <2>2. g[1 - 1] = <<>>
    BY DEF Partials
  <2>3. s[1] \in Seq(S)
    OBVIOUS
  <2> QED BY <2>1, <2>2, <2>3
<1>1. CASE Len(s) = 0
  <2>1. s = <<>>
    BY <1>1
  <2> QED BY <1>1, <2>1 DEF FlattenSeq, Partials
<1>2. CASE Len(s) # 0
  <2> DEFINE F(f) == [i \in 1 .. Len(s) |-> IF i = 1 THEN s[i] ELSE f[i - 1] \o s[i]]
             flatten == CHOOSE f : f = F(f)
             h == [i \in 1 .. Len(s) |-> g[i]]
  <2>1. h = F(h)
    <3>1. ASSUME NEW i \in 1 .. Len(s)
          PROVE  g[i] = IF i = 1 THEN s[i] ELSE h[i - 1] \o s[i]
      <4>1. CASE i = 1
        <5>1. g[1] = <<>> \o s[1] /\ s[1] \in Seq(S)
          BY <4>1, <1>3
        <5>2. <<>> \o s[1] = s[1]
          BY <5>1, ConcatEmptySeq
        <5> QED BY <4>1, <5>1, <5>2
      <4>2. CASE i # 1
        <5>1. i - 1 \in 1 .. Len(s)
          BY <4>2, <1>0
        <5> QED BY <5>1, <4>2 DEF Partials
      <4> QED BY <4>1, <4>2
    <3> QED BY <3>1
  <2>2. flatten = F(flatten)
    <3> HIDE DEF h, F
    <3> QED BY <2>1
  <2>3. \A i \in 1 .. Len(s) : flatten[i] = IF i = 1 THEN s[i] ELSE flatten[i - 1] \o s[i]
    <3>1. \A i \in 1 .. Len(s) : F(flatten)[i] = IF i = 1 THEN s[i] ELSE flatten[i - 1] \o s[i]
      <4> HIDE DEF flatten
      <4> QED BY DEF F
    <3> HIDE DEF flatten, F
    <3> QED BY <2>2, <3>1
  <2>4. FlattenSeq(s) = flatten[Len(s)]
    BY <1>2, Zenon DEF FlattenSeq
  <2> HIDE DEF flatten, F
  <2> DEFINE Bad == {i \in 1 .. Len(s) : flatten[i] # g[i]}
  <2>5. Bad = {}
    <3>1. SUFFICES ASSUME Bad # {} PROVE FALSE
      OBVIOUS
    <3>2. PICK n \in Bad : \A m \in Bad : n <= m
      <4>1. Bad \in SUBSET Nat
        OBVIOUS
      <4> HIDE DEF Bad
      <4> QED BY <4>1, <3>1, LeastNat
    <3>3. n \in 1 .. Len(s) /\ flatten[n] # g[n]
      BY <3>2
    <3>4. CASE n = 1
      <4>1. g[1] = <<>> \o s[1] /\ s[1] \in Seq(S)
        BY <3>3, <3>4, <1>3
      <4>2. <<>> \o s[1] = s[1]
        BY <4>1, ConcatEmptySeq
      <4> QED BY <3>3, <3>4, <4>1, <4>2, <2>3
    <3>5. CASE n # 1
      <4>1. n - 1 \in 1 .. Len(s) /\ n - 1 < n
        BY <3>3, <3>5, <1>0
      <4>2. n - 1 \notin Bad
        BY <3>2, <4>1, <3>3, <1>0
      <4>3. flatten[n - 1] = g[n - 1]
        BY <4>1, <4>2
      <4>4. g[n] = g[n - 1] \o s[n]
        BY <3>3 DEF Partials
      <4>5. flatten[n] = flatten[n - 1] \o s[n]
        BY <2>3, <3>3, <3>5
      <4> QED BY <4>3, <4>4, <4>5, <3>3
    <3> QED BY <3>4, <3>5
  <2>6. Len(s) \in 1 .. Len(s)
    BY <1>0, <1>2
  <2> QED BY <2>4, <2>5, <2>6
<1> QED BY <1>1, <1>2

\* Concatenation under a name of its own, for the steps that only regroup.
Cat(a, b) == a \o b

\* Its type.
LEMMA CatType ==
    ASSUME NEW S, NEW a \in Seq(S), NEW b \in Seq(S)
    PROVE  Cat(a, b) \in Seq(S)
BY ConcatProperties DEF Cat

\* It is associative.
LEMMA Regroup ==
    ASSUME NEW S, NEW a \in Seq(S), NEW b \in Seq(S), NEW c \in Seq(S)
    PROVE  Cat(Cat(a, b), c) = Cat(a, Cat(b, c))
BY ConcatAssociative, SMT DEF Cat

\* Of no sequences there is nothing.
LEMMA FlattenEmpty == FlattenSeq(<<>>) = <<>>
BY DEF FlattenSeq

\* What flattening gives is a sequence over the same set.
LEMMA FlattenType ==
    ASSUME NEW S, NEW s \in Seq(Seq(S))
    PROVE  FlattenSeq(s) \in Seq(S)
<1>1. PICK g : Partials(g, s, S)
  BY PartialsExist
<1>2. FlattenSeq(s) = g[Len(s)]
  BY <1>1, FlattenIsLast
<1>3. Len(s) \in 0 .. Len(s)
  OBVIOUS
<1> QED BY <1>1, <1>2, <1>3 DEF Partials

\* A sequence behind the others comes last.
LEMMA FlattenAppend ==
    ASSUME NEW S, NEW s \in Seq(Seq(S)), NEW e \in Seq(S)
    PROVE  FlattenSeq(Append(s, e)) = FlattenSeq(s) \o e
<1>1. PICK g : Partials(g, s, S)
  BY PartialsExist
<1>2. FlattenSeq(s) = g[Len(s)]
  BY <1>1, FlattenIsLast
<1>0. PICK n \in Nat : n = Len(s)
  OBVIOUS
<1> DEFINE t == Append(s, e)
           h == [i \in 0 .. n + 1 |-> IF i = n + 1 THEN g[n] \o e ELSE g[i]]
<1>3. /\ t \in Seq(Seq(S)) /\ Len(t) = n + 1
      /\ \A i \in 1 .. n : t[i] = s[i]
      /\ t[n + 1] = e
  BY <1>0, AppendProperties
<1> HIDE DEF t
<1>4. Partials(h, t, S)
  <2>0. g \in [0 .. n -> Seq(S)]
    BY <1>1, <1>0 DEF Partials
  <2>1. g[n] \in Seq(S)
    BY <1>3, <2>0
  <2>2. g[n] \o e \in Seq(S)
    BY <2>1, ConcatProperties
  <2>3. h \in [0 .. Len(t) -> Seq(S)]
    BY <1>3, <2>0, <2>2
  <2>4. h[0] = <<>>
    BY <1>1, <1>0 DEF Partials
  <2>5. ASSUME NEW i \in 1 .. Len(t) PROVE h[i] = h[i - 1] \o t[i]
    <3>1. h[i - 1] = g[i - 1]
      BY <1>3
    <3>2. CASE i = n + 1
      <4>1. h[i] = g[n] \o e /\ i - 1 = n /\ t[i] = e
        BY <3>2, <1>3
      <4> HIDE DEF h
      <4> QED BY <3>1, <4>1
    <3>3. CASE i # n + 1
      <4>1. i \in 1 .. n
        BY <3>3, <1>3
      <4>2. g[i] = g[i - 1] \o s[i]
        <5>1. \A j \in 1 .. n : g[j] = g[j - 1] \o s[j]
          BY <1>1, <1>0 DEF Partials
        <5> QED BY <4>1, <5>1
      <4>3. h[i] = g[i] /\ t[i] = s[i]
        BY <4>1, <1>3
      <4> HIDE DEF h
      <4> QED BY <4>2, <4>3, <3>1
    <3> QED BY <3>2, <3>3
  <2> QED BY <2>3, <2>4, <2>5 DEF Partials
<1>5. FlattenSeq(t) = h[Len(t)]
  <2> HIDE DEF h
  <2> QED BY <1>3, <1>4, FlattenIsLast
<1>6. h[Len(t)] = g[n] \o e
  BY <1>3
<1>7. FlattenSeq(t) = FlattenSeq(s) \o e
  BY <1>0, <1>2, <1>5, <1>6
<1> QED BY <1>7 DEF t

\* Pairs.
LEMMA AppendToSingle ==
    ASSUME NEW T, NEW d \in T, NEW e \in T
    PROVE  Append(<<d>>, e) = <<d, e>>
<1>1. <<d>> \in Seq(T) /\ Len(<<d>>) = 1 /\ <<d>>[1] = d
  OBVIOUS
<1>2. <<d, e>> \in Seq(T) /\ Len(<<d, e>>) = 2 /\ <<d, e>>[1] = d /\ <<d, e>>[2] = e
  OBVIOUS
<1>3. /\ Append(<<d>>, e) \in Seq(T) /\ Len(Append(<<d>>, e)) = 2
      /\ Append(<<d>>, e)[1] = d /\ Append(<<d>>, e)[2] = e
  BY <1>1, AppendProperties
<1>4. \A i \in 1 .. Len(Append(<<d>>, e)) : Append(<<d>>, e)[i] = <<d, e>>[i]
  BY <1>2, <1>3
<1> QED BY <1>2, <1>3, <1>4, SeqEqual, Zenon

\* One sequence is itself.
LEMMA FlattenSingle ==
    ASSUME NEW S, NEW e \in Seq(S)
    PROVE  FlattenSeq(<<e>>) = e
<1>1. <<>> \in Seq(Seq(S)) /\ Append(<<>>, e) = <<e>>
  OBVIOUS
<1>2. FlattenSeq(Append(<<>>, e)) = FlattenSeq(<<>>) \o e
  BY <1>1, FlattenAppend
<1>3. <<>> \o e = e
  BY ConcatEmptySeq
<1> QED BY <1>1, <1>2, <1>3, FlattenEmpty

\* A sequence before the others comes first.
LEMMA FlattenCons ==
    ASSUME NEW S, NEW s \in Seq(Seq(S)), NEW e \in Seq(S)
    PROVE  FlattenSeq(<<e>> \o s) = e \o FlattenSeq(s)
<1>1. PICK g : Partials(g, s, S)
  BY PartialsExist
<1>2. FlattenSeq(s) = g[Len(s)]
  BY <1>1, FlattenIsLast
<1>0. PICK n \in Nat : n = Len(s)
  OBVIOUS
<1> DEFINE t == <<e>> \o s
           h == [i \in 0 .. n + 1 |-> IF i = 0 THEN <<>> ELSE e \o g[i - 1]]
<1>3. /\ t \in Seq(Seq(S)) /\ Len(t) = n + 1
      /\ t[1] = e
      /\ \A i \in 2 .. n + 1 : t[i] = s[i - 1] /\ s[i - 1] \in Seq(S)
  <2>1. <<e>> \in Seq(Seq(S)) /\ Len(<<e>>) = 1 /\ <<e>>[1] = e
    OBVIOUS
  <2>2. n \in Nat
    BY <1>0
  <2>3. /\ t \in Seq(Seq(S)) /\ Len(t) = 1 + n
        /\ \A i \in 1 .. 1 + n : t[i] = IF i <= 1 THEN <<e>>[i] ELSE s[i - 1]
    BY <2>1, <1>0, ConcatProperties
  <2>4. \A i \in 2 .. n + 1 : s[i - 1] \in Seq(S)
    BY <1>0
  <2> HIDE DEF t
  <2> QED BY <2>1, <2>2, <2>3, <2>4
<1> HIDE DEF t
<1>4. Partials(h, t, S)
  <2>0. g \in [0 .. n -> Seq(S)]
    BY <1>1, <1>0 DEF Partials
  <2>1. \A i \in 1 .. n + 1 : g[i - 1] \in Seq(S)
    BY <1>3, <2>0
  <2>2. \A i \in 1 .. n + 1 : e \o g[i - 1] \in Seq(S)
    BY <2>1, ConcatProperties
  <2>3. h \in [0 .. Len(t) -> Seq(S)]
    BY <1>3, <2>2, EmptySeq
  <2>4. h[0] = <<>>
    BY <1>3
  <2>5. ASSUME NEW i \in 1 .. Len(t) PROVE h[i] = h[i - 1] \o t[i]
    <3>1. i \in 1 .. n + 1 /\ i - 1 \in 0 .. n + 1
      BY <1>3
    <3>2. h[i] = e \o g[i - 1]
      BY <3>1, SMTT(30)
    <3>3. CASE i = 1
      <4>0. g[0] = <<>>
        BY <1>1 DEF Partials
      <4>1. h[i - 1] = <<>> /\ g[i - 1] = <<>> /\ t[i] = e
        BY <3>3, <1>3, <4>0
      <4>2. e \o <<>> = e /\ <<>> \o e = e
        BY ConcatEmptySeq
      <4> QED BY <4>1, <4>2, <3>2
    <3>4. CASE i # 1
      <4>1. i - 1 \in 1 .. n /\ i \in 2 .. n + 1
        BY <3>4, <3>1, <1>3
      <4>2. g[i - 1] = g[i - 2] \o s[i - 1]
        <5>1. \A j \in 1 .. n : g[j] = g[j - 1] \o s[j]
          BY <1>1, <1>0 DEF Partials
        <5>2. (i - 1) - 1 = i - 2
          BY <3>1
        <5> QED BY <4>1, <5>1, <5>2
      <4>3. h[i - 1] = e \o g[i - 2]
        BY <3>1, <4>1
      <4>4. g[i - 2] \in Seq(S) /\ s[i - 1] \in Seq(S) /\ t[i] = s[i - 1]
        <5>1. i - 2 \in 0 .. n
          BY <4>1
        <5>2. g[i - 2] \in Seq(S)
          BY <5>1, <2>0
        <5> QED BY <4>1, <5>2, <1>3
      <4>5. PICK x \in Seq(S), y \in Seq(S) : x = g[i - 2] /\ y = s[i - 1]
        BY <4>4
      <4>6. Cat(Cat(e, x), y) = Cat(e, Cat(x, y))
        BY Regroup
      <4> HIDE DEF h
      <4>7. h[i] = Cat(e, Cat(x, y))
        BY <3>2, <4>2, <4>5 DEF Cat
      <4>8. h[i - 1] \o t[i] = Cat(Cat(e, x), y)
        BY <4>3, <4>4, <4>5 DEF Cat
      <4> QED BY <4>6, <4>7, <4>8
    <3> QED BY <3>3, <3>4
  <2> QED BY <2>3, <2>4, <2>5 DEF Partials
<1>5. FlattenSeq(t) = h[Len(t)]
  <2> HIDE DEF h
  <2> QED BY <1>3, <1>4, FlattenIsLast
<1>6. h[Len(t)] = e \o g[n]
  BY <1>3, <1>0
<1>7. FlattenSeq(t) = e \o FlattenSeq(s)
  BY <1>0, <1>2, <1>5, <1>6
<1> QED BY <1>7 DEF t

\* Two sequences are joined.
LEMMA FlattenPair ==
    ASSUME NEW S, NEW d \in Seq(S), NEW e \in Seq(S)
    PROVE  FlattenSeq(<<d, e>>) = d \o e
<1>1. <<d>> \in Seq(Seq(S)) /\ Append(<<d>>, e) = <<d, e>>
  BY AppendToSingle
<1>2. FlattenSeq(Append(<<d>>, e)) = FlattenSeq(<<d>>) \o e
  BY <1>1, FlattenAppend
<1> QED BY <1>1, <1>2, FlattenSingle

\* Where the sequences lie in what FlattenSeq makes of them: the k-th begins at
\* at[k], and there is nothing between them.
Places(at, s) ==
    /\ at \in [1 .. Len(s) + 1 -> 1 .. Len(FlattenSeq(s)) + 1]
    /\ at[1] = 1 /\ at[Len(s) + 1] = Len(FlattenSeq(s)) + 1
    /\ \A k \in 1 .. Len(s) :
          /\ at[k + 1] = at[k] + Len(s[k])
          /\ \A j \in 1 .. Len(s[k]) : FlattenSeq(s)[at[k] + j - 1] = s[k][j]

\* Every value of s[i] stands at its place in the flattened sequence, and nothing else is there.
LEMMA FlattenPlaces ==
    ASSUME NEW S, NEW s \in Seq(Seq(S))
    PROVE  \E at : Places(at, s)
<1>1. PICK g : Partials(g, s, S)
  BY PartialsExist
<1>0. PICK n \in Nat : n = Len(s)
  OBVIOUS
<1>2. PICK flat \in Seq(S) : flat = FlattenSeq(s) /\ flat = g[n]
  BY <1>0, <1>1, FlattenIsLast, FlattenType
<1>3. /\ g \in [0 .. n -> Seq(S)]
      /\ g[0] = <<>>
      /\ \A k \in 1 .. n : g[k] = g[k - 1] \o s[k]
  BY <1>0, <1>1 DEF Partials
<1>4. ASSUME NEW k \in 1 .. n
      PROVE  /\ g[k - 1] \in Seq(S) /\ g[k] \in Seq(S) /\ s[k] \in Seq(S)
             /\ Len(g[k]) = Len(g[k - 1]) + Len(s[k])
             /\ \A i \in 1 .. Len(g[k - 1]) : g[k][i] = g[k - 1][i]
             /\ \A j \in 1 .. Len(s[k]) : g[k][Len(g[k - 1]) + j] = s[k][j]
  <2>1. PICK a \in Seq(S) : a = g[k - 1]
    <3>1. k - 1 \in 0 .. n
      OBVIOUS
    <3> QED BY <3>1, <1>3
  <2>2. PICK b \in Seq(S) : b = s[k]
    BY <1>0
  <2>3. g[k] = a \o b
    BY <1>3, <2>1, <2>2
  <2>4. PICK c \in Seq(S) : c = a \o b
    BY ConcatProperties
  <2>5. Len(c) = Len(a) + Len(b)
    BY <2>4, ConcatProperties
  <2>6. \A i \in 1 .. Len(a) : c[i] = a[i]
    BY <2>4, ConcatProperties
  <2>7. \A j \in 1 .. Len(b) : c[Len(a) + j] = b[j]
    <3>1. SUFFICES ASSUME NEW j \in 1 .. Len(b) PROVE c[Len(a) + j] = b[j]
      OBVIOUS
    <3>2. Len(a) + j \in 1 .. Len(a) + Len(b) /\ ~(Len(a) + j <= Len(a)) /\ (Len(a) + j) - Len(a) = j
      OBVIOUS
    <3> QED BY <2>4, <3>2, ConcatProperties
  <2> QED BY <2>1, <2>2, <2>3, <2>4, <2>5, <2>6, <2>7
\* What is put together stays the beginning of everything put together later.
<1>5. ASSUME NEW k \in 0 .. n
      PROVE  /\ g[k] \in Seq(S) /\ Len(g[k]) <= Len(flat)
             /\ \A i \in 1 .. Len(g[k]) : flat[i] = g[k][i]
  <2> DEFINE Good(m) == /\ g[m] \in Seq(S) /\ Len(g[m]) <= Len(flat)
                        /\ \A i \in 1 .. Len(g[m]) : flat[i] = g[m][i]
             Bad == {d \in 0 .. n : ~Good(n - d)}
  <2>1. \A d : d \in Bad <=> d \in 0 .. n /\ ~Good(n - d)
    OBVIOUS
  <2>2. Bad = {}
    <3>1. SUFFICES ASSUME Bad # {} PROVE FALSE
      OBVIOUS
    <3>2. PICK d \in Bad : \A m \in Bad : d <= m
      <4> HIDE DEF Bad, Good
      <4>1. Bad \in SUBSET Nat
        BY <2>1
      <4> QED BY <4>1, <3>1, LeastNat
    <3>3. d \in 0 .. n /\ ~Good(n - d)
      <4> HIDE DEF Bad, Good
      <4> QED BY <2>1, <3>2
    <3>4. CASE d = 0
      <4>1. Good(n)
        BY <1>2, <1>3
      <4>2. n - d = n
        BY <3>4
      <4> HIDE DEF Good
      <4> QED BY <4>1, <4>2, <3>3
    <3>5. CASE d # 0
      <4>1. d - 1 \in 0 .. n /\ ~(d <= d - 1)
        BY <3>3, <3>5
      <4>2. Good(n - (d - 1))
        <5> HIDE DEF Bad, Good
        <5> QED BY <4>1, <2>1, <3>2
      <4>3. PICK k1 \in 1 .. n : k1 = n - (d - 1) /\ k1 - 1 = n - d
        <5>1. d \in 1 .. n
          BY <3>3, <3>5
        <5>2. n - (d - 1) \in 1 .. n /\ (n - (d - 1)) - 1 = n - d
          BY <5>1
        <5> QED BY <5>2
      <4>4. Good(k1)
        <5> HIDE DEF Good
        <5> QED BY <4>2, <4>3
      <4>5. Good(k1 - 1)
        <5>1. PICK a \in Seq(S), c \in Seq(S) : a = g[k1 - 1] /\ c = g[k1]
          BY <1>4
        <5>2. /\ Len(a) <= Len(c)
              /\ \A i \in 1 .. Len(a) : c[i] = a[i]
          <6>1. PICK b \in Seq(S) : b = s[k1]
            BY <1>4
          <6>2. Len(c) = Len(a) + Len(b) /\ \A i \in 1 .. Len(a) : c[i] = a[i]
            BY <1>4, <5>1, <6>1, Zenon
          <6> QED BY <6>2
        <5>3. Len(c) <= Len(flat) /\ \A i \in 1 .. Len(c) : flat[i] = c[i]
          BY <4>4, <5>1, Zenon
        <5>4. Len(a) <= Len(flat) /\ \A i \in 1 .. Len(a) : flat[i] = a[i]
          BY <5>2, <5>3
        <5> QED BY <5>1, <5>4, Zenon
      <4> HIDE DEF Good
      <4> QED BY <4>3, <4>5, <3>3
    <3> QED BY <3>4, <3>5
  <2>3. n - k \in 0 .. n /\ n - (n - k) = k
    OBVIOUS
  <2>4. Good(k)
    <3> HIDE DEF Bad, Good
    <3> QED BY <2>1, <2>2, <2>3
  <2> QED BY <2>4
<1> DEFINE at == [k \in 1 .. n + 1 |-> Len(g[k - 1]) + 1]
<1>6. at \in [1 .. n + 1 -> 1 .. Len(flat) + 1]
  <2>1. ASSUME NEW k \in 1 .. n + 1 PROVE Len(g[k - 1]) + 1 \in 1 .. Len(flat) + 1
    <3>1. k - 1 \in 0 .. n
      OBVIOUS
    <3>2. PICK a \in Seq(S) : a = g[k - 1] /\ Len(a) <= Len(flat)
      BY <3>1, <1>5
    <3> QED BY <3>2
  <2> QED BY <2>1
<1>7. at[1] = 1 /\ at[n + 1] = Len(flat) + 1
  <2>1. at[1] = Len(g[0]) + 1
    OBVIOUS
  <2>2. at[n + 1] = Len(g[n]) + 1
    OBVIOUS
  <2>3. Len(<<>>) = 0
    OBVIOUS
  <2> QED BY <2>1, <2>2, <2>3, <1>2, <1>3
<1>8. ASSUME NEW k \in 1 .. n
      PROVE  /\ at[k + 1] = at[k] + Len(s[k])
             /\ \A j \in 1 .. Len(s[k]) : flat[at[k] + j - 1] = s[k][j]
  <2>1. at[k] = Len(g[k - 1]) + 1 /\ at[k + 1] = Len(g[k]) + 1
    OBVIOUS
  <2>2. PICK a \in Seq(S), b \in Seq(S), c \in Seq(S) : a = g[k - 1] /\ b = s[k] /\ c = g[k]
    BY <1>4
  <2> HIDE DEF at
  <2>0. at[k] = Len(a) + 1 /\ at[k + 1] = Len(c) + 1
    BY <2>1, <2>2, Zenon
  <2>3. /\ Len(c) = Len(a) + Len(b)
        /\ \A j \in 1 .. Len(b) : c[Len(a) + j] = b[j]
    BY <1>4, <2>2, Zenon
  <2>4. Len(c) <= Len(flat) /\ \A i \in 1 .. Len(c) : flat[i] = c[i]
    <3>1. k \in 0 .. n
      OBVIOUS
    <3> QED BY <1>5, <2>2, <3>1, Zenon
  <2>5. ASSUME NEW j \in 1 .. Len(b) PROVE flat[at[k] + j - 1] = b[j]
    <3>1. at[k] + j - 1 = Len(a) + j /\ Len(a) + j \in 1 .. Len(c)
      <4>1. PICK la \in Nat, lb \in Nat : la = Len(a) /\ lb = Len(b) /\ j \in 1 .. lb
        OBVIOUS
      <4>2. (la + 1) + j - 1 = la + j /\ la + j \in 1 .. la + lb
        BY <4>1
      <4> QED BY <2>0, <2>3, <4>1, <4>2, Zenon
    <3> QED BY <3>1, <2>3, <2>4
  <2>6. at[k + 1] = at[k] + Len(b)
    BY <2>0, <2>3
  <2> QED BY <2>2, <2>5, <2>6
<1> HIDE DEF at
<1>9. Places(at, s)
  BY <1>0, <1>2, <1>6, <1>7, <1>8 DEF Places
<1> QED BY <1>9

\* The values of a concatenation.
LEMMA CatLen ==
    ASSUME NEW S, NEW a \in Seq(S), NEW b \in Seq(S)
    PROVE  Len(Cat(a, b)) = Len(a) + Len(b)
BY ConcatProperties DEF Cat

\* The first part keeps its places.
LEMMA CatFirst ==
    ASSUME NEW S, NEW a \in Seq(S), NEW b \in Seq(S), NEW i \in 1 .. Len(a)
    PROVE  Cat(a, b)[i] = a[i]
BY ConcatProperties DEF Cat

\* The second part is moved behind the first.
LEMMA CatSecond ==
    ASSUME NEW S, NEW a \in Seq(S), NEW b \in Seq(S), NEW j \in 1 .. Len(b)
    PROVE  Cat(a, b)[Len(a) + j] = b[j]
<1>1. PICK c \in Seq(S) : c = a \o b
  BY ConcatProperties
<1>2. Len(a) + j \in 1 .. Len(a) + Len(b) /\ ~(Len(a) + j <= Len(a)) /\ (Len(a) + j) - Len(a) = j
  OBVIOUS
<1>3. c[Len(a) + j] = b[j]
  BY <1>1, <1>2, ConcatProperties
<1> QED BY <1>1, <1>3 DEF Cat

\* A part of a sequence is u when its values are.
LEMMA SubSeqIs ==
    ASSUME NEW S, NEW w \in Seq(S), NEW u \in Seq(S), NEW p \in Nat, p + Len(u) <= Len(w),
           \A j \in 1 .. Len(u) : w[p + j] = u[j]
    PROVE  SubSeq(w, p + 1, p + Len(u)) = u
<1>1. \A i \in p + 1 .. p + Len(u) : w[i] \in S
  OBVIOUS
<1>2. PICK t : t = SubSeq(w, p + 1, p + Len(u))
  OBVIOUS
<1>3. /\ t \in Seq(S)
      /\ Len(t) = IF p + 1 <= p + Len(u) THEN (p + Len(u)) - (p + 1) + 1 ELSE 0
      /\ \A i \in 1 .. (p + Len(u)) - (p + 1) + 1 : t[i] = w[(p + 1) + i - 1]
  <2>1. p + 1 \in Int /\ p + Len(u) \in Int
    OBVIOUS
  <2> QED BY <1>1, <1>2, <2>1, SubSeqProperties
<1>4. Len(t) = Len(u)
  BY <1>3
<1>5. ASSUME NEW i \in 1 .. Len(t) PROVE t[i] = u[i]
  <2>1. i \in 1 .. (p + Len(u)) - (p + 1) + 1 /\ (p + 1) + i - 1 = p + i /\ i \in 1 .. Len(u)
    BY <1>4
  <2>2. t[i] = w[(p + 1) + i - 1]
    BY <1>3, <2>1
  <2>3. w[p + i] = u[i]
    BY <2>1
  <2> QED BY <2>1, <2>2, <2>3
<1>6. t = u
  BY <1>3, <1>4, <1>5, SeqEqual
<1> QED BY <1>2, <1>6

\* The least of a set of places, and the place Find finds.
LEMMA MinIs ==
    ASSUME NEW I \in SUBSET Nat, NEW p \in I, \A i \in I : p <= i
    PROVE  Min(I) = p
<1>1. Min(I) \in I /\ \A i \in I : Min(I) <= i
  BY DEF Min
<1>2. PICK m \in Nat : m = Min(I)
  BY <1>1
<1>3. m <= p /\ p <= m /\ p \in Nat
  BY <1>1, <1>2
<1> QED BY <1>2, <1>3

\* The place of the first byte of a kind.
LEMMA FindIs ==
    ASSUME NEW S, NEW text \in Seq(S), NEW byte, NEW i \in Nat \ {0}, NEW p \in i .. Len(text) + 1,
           \A j \in i .. p - 1 : text[j] # byte, p <= Len(text) => text[p] = byte
    PROVE  Find(text, byte, i) = p
<1> DEFINE I == {j \in i .. Len(text) : text[j] = byte} \cup {Len(text) + 1}
<1>1. I \in SUBSET Nat /\ p \in I
  OBVIOUS
<1>2. ASSUME NEW j \in I PROVE p <= j
  OBVIOUS
<1>3. Find(text, byte, i) = Min(I)
  BY DEF Find
<1> HIDE DEF I
<1> QED BY <1>1, <1>2, <1>3, MinIs

\* Find finds a place of the text or the one behind it.
LEMMA FindRange ==
    ASSUME NEW S, NEW text \in Seq(S), NEW byte, NEW i \in 1 .. Len(text) + 1
    PROVE  Find(text, byte, i) \in i .. Len(text) + 1
<1> DEFINE I == {j \in i .. Len(text) : text[j] = byte} \cup {Len(text) + 1}
<1>1. I \in SUBSET Nat /\ I # {} /\ I \subseteq i .. Len(text) + 1
  OBVIOUS
<1>2. Find(text, byte, i) = Min(I)
  BY DEF Find
<1> HIDE DEF I
<1>3. PICK p \in I : \A j \in I : p <= j
  BY <1>1, LeastNat
<1>4. Min(I) = p
  BY <1>1, <1>3, MinIs
<1> QED BY <1>1, <1>2, <1>3, <1>4

\* A sequence is what is before a cut, and what is behind it.
LEMMA CutInTwo ==
    ASSUME NEW S, NEW w \in Seq(S), NEW n \in 0 .. Len(w)
    PROVE  /\ SubSeq(w, 1, n) \in Seq(S) /\ Len(SubSeq(w, 1, n)) = n
           /\ SubSeq(w, n + 1, Len(w)) \in Seq(S) /\ Len(SubSeq(w, n + 1, Len(w))) = Len(w) - n
           /\ Cat(SubSeq(w, 1, n), SubSeq(w, n + 1, Len(w))) = w
<1>1. PICK N \in Nat : N = Len(w)
  OBVIOUS
<1>2. PICK a, c : a = SubSeq(w, 1, n) /\ c = SubSeq(w, n + 1, N)
  OBVIOUS
<1>3. a \in Seq(S) /\ Len(a) = n /\ \A i \in 1 .. n : a[i] = w[i]
  <2>1. \A i \in 1 .. n : w[i] \in S
    OBVIOUS
  <2>2. /\ a \in Seq(S) /\ Len(a) = IF 1 <= n THEN n - 1 + 1 ELSE 0
        /\ \A i \in 1 .. n - 1 + 1 : a[i] = w[1 + i - 1]
    BY <1>2, <2>1, SubSeqProperties
  <2> QED BY <2>2
<1>4. c \in Seq(S) /\ Len(c) = N - n /\ \A i \in 1 .. N - n : c[i] = w[n + i]
  <2>1. \A i \in n + 1 .. N : w[i] \in S
    BY <1>1
  <2>2. n + 1 \in Int /\ N \in Int
    BY <1>1
  <2>3. /\ c \in Seq(S) /\ Len(c) = IF n + 1 <= N THEN N - (n + 1) + 1 ELSE 0
        /\ \A i \in 1 .. N - (n + 1) + 1 : c[i] = w[(n + 1) + i - 1]
    BY <1>2, <2>1, <2>2, SubSeqProperties
  <2>4. Len(c) = N - n
    BY <1>1, <2>3
  <2>5. ASSUME NEW i \in 1 .. N - n PROVE c[i] = w[n + i]
    <3>1. i \in 1 .. N - (n + 1) + 1 /\ (n + 1) + i - 1 = n + i
      BY <1>1
    <3> QED BY <2>3, <3>1
  <2> QED BY <2>3, <2>4, <2>5
<1>5. PICK d \in Seq(S) : d = Cat(a, c)
  BY <1>3, <1>4, CatType
<1>6. Len(d) = N
  BY <1>1, <1>3, <1>4, <1>5, CatLen
<1>7. ASSUME NEW i \in 1 .. N PROVE d[i] = w[i]
  <2>1. CASE i <= n
    <3>1. i \in 1 .. Len(a)
      BY <1>3, <2>1
    <3>2. d[i] = a[i]
      BY <1>3, <1>4, <1>5, <3>1, CatFirst
    <3> QED BY <1>3, <3>1, <3>2
  <2>2. CASE i > n
    <3>1. PICK j \in 1 .. Len(c) : Len(a) + j = i /\ n + j = i /\ j \in 1 .. N - n
      <4>1. i - n \in 1 .. N - n /\ n + (i - n) = i
        BY <2>2
      <4> QED BY <1>3, <1>4, <4>1
    <3>2. Cat(a, c)[Len(a) + j] = c[j]
      <4>1. a \in Seq(S) /\ c \in Seq(S)
        BY <1>3, <1>4
      <4> QED BY <4>1, CatSecond
    <3>4. d[Len(a) + j] = c[j]
      BY <1>5, <3>2, Zenon
    <3>3. c[j] = w[n + j]
      BY <1>4, <3>1
    <3> QED BY <3>1, <3>3, <3>4, Zenon
  <2> QED BY <2>1, <2>2
<1>8. d = w
  BY <1>1, <1>6, <1>7, SeqEqual
<1> QED BY <1>1, <1>2, <1>3, <1>4, <1>5, <1>8, Zenon

\* Behind equal beginnings stands the same.
LEMMA Cancel ==
    ASSUME NEW S, NEW f \in Seq(S), NEW x \in Seq(S), NEW y \in Seq(S), Cat(f, x) = Cat(f, y)
    PROVE  x = y
<1>1. Len(Cat(f, x)) = Len(f) + Len(x) /\ Len(Cat(f, y)) = Len(f) + Len(y)
  BY CatLen
<1>2. Len(x) = Len(y)
  BY <1>1
<1>3. ASSUME NEW i \in 1 .. Len(x) PROVE x[i] = y[i]
  <2>1. i \in 1 .. Len(y)
    BY <1>2
  <2>2. Cat(f, x)[Len(f) + i] = x[i]
    BY CatSecond
  <2>3. Cat(f, y)[Len(f) + i] = y[i]
    BY <2>1, CatSecond
  <2> QED BY <2>2, <2>3, Zenon
<1> QED BY <1>2, <1>3, SeqEqual

\* A sequence over a set is one over a larger set.
LEMMA WiderSeq ==
    ASSUME NEW S, NEW T, S \subseteq T, NEW s \in Seq(S)
    PROVE  s \in Seq(T)
<1>1. \A i \in 1 .. Len(s) : s[i] \in T
  OBVIOUS
<1>2. s = [i \in 1 .. Len(s) |-> s[i]] /\ Len(s) \in Nat
  OBVIOUS
<1>3. [i \in 1 .. Len(s) |-> s[i]] \in Seq(T)
  BY <1>1, <1>2
<1> QED BY <1>2, <1>3, Zenon

\* Where two concatenations are equal, their first parts agree as far as both go.
LEMMA SameBeginning ==
    ASSUME NEW S, NEW b \in Seq(S), NEW x \in Seq(S), NEW f \in Seq(S), NEW y \in Seq(S),
           Cat(b, x) = Cat(f, y), NEW j \in 1 .. Len(b), j \in 1 .. Len(f)
    PROVE  b[j] = f[j]
<1>1. Cat(b, x)[j] = b[j]
  BY CatFirst
<1>2. Cat(f, y)[j] = f[j]
  BY CatFirst
<1> QED BY <1>1, <1>2, Zenon

\* A sequence with the same values as far as it goes is a prefix.
LEMMA PrefixMeans ==
    ASSUME NEW S, NEW r \in Seq(S), NEW g \in Seq(S), Len(r) <= Len(g),
           \A i \in 1 .. Len(r) : r[i] = g[i]
    PROVE  IsPrefix(r, g)
<1>1. \A j \in 1 .. Len(r) : g[0 + j] = r[j]
  OBVIOUS
<1>2. 0 \in Nat /\ 0 + Len(r) <= Len(g)
  OBVIOUS
<1>3. SubSeq(g, 0 + 1, 0 + Len(r)) = r
  BY <1>1, <1>2, SubSeqIs
<1>4. 0 + 1 = 1 /\ 0 + Len(r) = Len(r)
  OBVIOUS
<1>5. SubSeq(g, 1, Len(r)) = r
  BY <1>3, <1>4, Zenon
<1>6. SubSeq(r, 1, Len(r)) = r
  BY SubSeqFull
<1> QED BY <1>5, <1>6, Zenon DEF IsPrefix

\* Sequence y stands in f behind place p.
Stands(S, f, p, y) ==
    /\ f \in Seq(S) /\ y \in Seq(S) /\ p \in Nat /\ p + Len(y) <= Len(f)
    /\ \A j \in 1 .. Len(y) : f[p + j] = y[j]

\* A sequence stands in itself.
LEMMA StandsWhole ==
    ASSUME NEW S, NEW x \in Seq(S)
    PROVE  Stands(S, x, 0, x)
BY DEF Stands

\* What comes first stands at the front.
LEMMA StandsFirst ==
    ASSUME NEW S, NEW c \in Seq(S), NEW x \in Seq(S)
    PROVE  Stands(S, Cat(c, x), 0, c)
<1>1. Cat(c, x) \in Seq(S) /\ Len(Cat(c, x)) = Len(c) + Len(x)
  BY CatType, CatLen
<1>2. \A i \in 1 .. Len(c) : Cat(c, x)[i] = c[i]
  BY CatFirst
<1>3. PICK d \in Seq(S) : d = Cat(c, x)
  BY <1>1
<1>4. Len(d) = Len(c) + Len(x) /\ \A i \in 1 .. Len(c) : d[i] = c[i]
  BY <1>1, <1>2, <1>3
<1>5. Stands(S, d, 0, c)
  BY <1>4 DEF Stands
<1> QED BY <1>3, <1>5

\* What stands in the second part stands in the whole.
LEMMA StandsBehind ==
    ASSUME NEW S, NEW c \in Seq(S), NEW x, NEW p, NEW y, Stands(S, x, p, y)
    PROVE  Stands(S, Cat(c, x), Len(c) + p, y)
<1>0. /\ x \in Seq(S) /\ y \in Seq(S) /\ p \in Nat /\ p + Len(y) <= Len(x)
      /\ \A j \in 1 .. Len(y) : x[p + j] = y[j]
  BY DEF Stands
<1>1. PICK d \in Seq(S) : d = Cat(c, x)
  BY <1>0, CatType
<1>2. Len(d) = Len(c) + Len(x)
  BY <1>0, <1>1, CatLen
<1>3. \A j \in 1 .. Len(x) : d[Len(c) + j] = x[j]
  BY <1>0, <1>1, CatSecond
<1>4. ASSUME NEW j \in 1 .. Len(y) PROVE d[Len(c) + p + j] = y[j]
  <2>1. p + j \in 1 .. Len(x) /\ Len(c) + (p + j) = Len(c) + p + j
    BY <1>0
  <2> QED BY <1>0, <1>3, <2>1
<1>5. Len(c) + p \in Nat /\ Len(c) + p + Len(y) <= Len(d)
  BY <1>0, <1>2
<1>6. Stands(S, d, Len(c) + p, y)
  BY <1>0, <1>4, <1>5 DEF Stands
<1> QED BY <1>1, <1>6

\* Five sequences one behind the other.
Five(S, f, a, b, c, d, e) ==
    /\ a \in Seq(S) /\ b \in Seq(S) /\ c \in Seq(S) /\ d \in Seq(S) /\ e \in Seq(S)
    /\ f = Cat(a, Cat(b, Cat(c, Cat(d, e))))

\* Where each of the five stands.
LEMMA FiveStand ==
    ASSUME NEW S, NEW f, NEW a, NEW b, NEW c, NEW d, NEW e, Five(S, f, a, b, c, d, e)
    PROVE  /\ Stands(S, f, 0, a)
           /\ Stands(S, f, Len(a), b)
           /\ Stands(S, f, Len(a) + Len(b), c)
           /\ Stands(S, f, Len(a) + Len(b) + Len(c), d)
           /\ Stands(S, f, Len(a) + Len(b) + Len(c) + Len(d), e)
           /\ f \in Seq(S) /\ Len(f) = Len(a) + Len(b) + Len(c) + Len(d) + Len(e)
<1>0. /\ a \in Seq(S) /\ b \in Seq(S) /\ c \in Seq(S) /\ d \in Seq(S) /\ e \in Seq(S)
      /\ f = Cat(a, Cat(b, Cat(c, Cat(d, e))))
  BY DEF Five
<1>1. PICK u \in Seq(S) : u = Cat(d, e)
  BY <1>0, CatType
<1>2. PICK v \in Seq(S) : v = Cat(c, u)
  BY <1>0, CatType
<1>3. PICK w \in Seq(S) : w = Cat(b, v)
  BY <1>0, CatType
<1>4. f = Cat(a, w) /\ f \in Seq(S)
  BY <1>0, <1>1, <1>2, <1>3, CatType
<1>5. /\ Len(u) = Len(d) + Len(e) /\ Len(v) = Len(c) + Len(u)
      /\ Len(w) = Len(b) + Len(v) /\ Len(f) = Len(a) + Len(w)
  BY <1>0, <1>1, <1>2, <1>3, <1>4, CatLen, ZenonT(40)
<1>6. Stands(S, f, 0, a)
  BY <1>0, <1>4, StandsFirst
<1>7. Stands(S, f, Len(a) + 0, b)
  <2>1. Stands(S, w, 0, b)
    BY <1>0, <1>3, StandsFirst
  <2> QED BY <1>0, <1>4, <2>1, StandsBehind
<1>8. Stands(S, f, Len(a) + (Len(b) + 0), c)
  <2>1. Stands(S, v, 0, c)
    BY <1>0, <1>2, StandsFirst
  <2>2. Stands(S, w, Len(b) + 0, c)
    BY <1>0, <1>3, <2>1, StandsBehind
  <2> QED BY <1>0, <1>4, <2>2, StandsBehind
<1>9. Stands(S, f, Len(a) + (Len(b) + (Len(c) + 0)), d)
  <2>1. Stands(S, u, 0, d)
    BY <1>0, <1>1, StandsFirst
  <2>2. Stands(S, v, Len(c) + 0, d)
    BY <1>0, <1>2, <2>1, StandsBehind
  <2>3. Stands(S, w, Len(b) + (Len(c) + 0), d)
    BY <1>0, <1>3, <2>2, StandsBehind
  <2> QED BY <1>0, <1>4, <2>3, StandsBehind
<1>10. Stands(S, f, Len(a) + (Len(b) + (Len(c) + (Len(d) + 0))), e)
  <2>1. Stands(S, e, 0, e)
    BY <1>0, StandsWhole
  <2>2. Stands(S, u, Len(d) + 0, e)
    BY <1>0, <1>1, <2>1, StandsBehind
  <2>3. Stands(S, v, Len(c) + (Len(d) + 0), e)
    BY <1>0, <1>2, <2>2, StandsBehind
  <2>4. Stands(S, w, Len(b) + (Len(c) + (Len(d) + 0)), e)
    BY <1>0, <1>3, <2>3, StandsBehind
  <2> QED BY <1>0, <1>4, <2>4, StandsBehind
<1>11. /\ Len(a) + 0 = Len(a) /\ Len(a) + (Len(b) + 0) = Len(a) + Len(b)
       /\ Len(a) + (Len(b) + (Len(c) + 0)) = Len(a) + Len(b) + Len(c)
       /\ Len(a) + (Len(b) + (Len(c) + (Len(d) + 0))) = Len(a) + Len(b) + Len(c) + Len(d)
  BY <1>0
<1>12. Len(f) = Len(a) + Len(b) + Len(c) + Len(d) + Len(e)
  BY <1>0, <1>5
<1> QED BY <1>4, <1>6, <1>7, <1>8, <1>9, <1>10, <1>11, <1>12, Zenon

--------------------------------------------------------------------------------
(****************************************************************************)
(* What a reader puts together                                              *)
(****************************************************************************)

\* A reader that always goes forward takes its text apart as its definition says.
LEMMA ReadFromUnfolds ==
    ASSUME NEW n \in Nat, NEW piece, NEW next,
           \A i \in 1 .. n : next[i] \in i + 1 .. n + 1
    PROVE  /\ ReadFrom(n + 1, n, piece, next) = <<>>
           /\ \A i \in 1 .. n :
                 ReadFrom(i, n, piece, next) = piece[i] \o ReadFrom(next[i], n, piece, next)
<1> DEFINE F(f, m) == [i \in m .. n + 1 |-> IF i > n THEN <<>> ELSE piece[i] \o f[next[i]]]
           Bad == {d \in 0 .. n : ~\E f : f = F(f, n + 1 - d)}
<1>1. \A d : d \in Bad <=> d \in 0 .. n /\ ~\E f : f = F(f, n + 1 - d)
  OBVIOUS
<1>2. Bad = {}
  <2>1. SUFFICES ASSUME Bad # {} PROVE FALSE
    OBVIOUS
  <2>2. PICK d \in Bad : \A m \in Bad : d <= m
    <3> HIDE DEF Bad, F
    <3>1. Bad \in SUBSET Nat
      BY <1>1
    <3> QED BY <3>1, <2>1, LeastNat
  <2>3. d \in 0 .. n /\ ~\E f : f = F(f, n + 1 - d)
    <3> HIDE DEF Bad, F
    <3> QED BY <1>1, <2>2
  <2>4. CASE d = 0
    <3> DEFINE h == [i \in n + 1 .. n + 1 |-> <<>>]
    <3>1. h = F(h, n + 1)
      <4>1. \A i \in n + 1 .. n + 1 : i > n
        OBVIOUS
      <4>2. \A g : F(g, n + 1) = [i \in n + 1 .. n + 1 |-> <<>>]
        BY <4>1
      <4> HIDE DEF F
      <4> QED BY <4>2
    <3>2. n + 1 - d = n + 1
      BY <2>4
    <3> HIDE DEF F, h
    <3> QED BY <3>1, <3>2, <2>3
  <2>5. CASE d # 0
    <3>1. d - 1 \in 0 .. n /\ ~(d <= d - 1)
      BY <2>3, <2>5
    <3>2. PICK m \in 1 .. n : m = n + 1 - d /\ m + 1 = n + 1 - (d - 1)
      BY <2>3, <2>5
    <3>3. PICK f : f = F(f, m + 1)
      <4> HIDE DEF Bad, F
      <4>1. d - 1 \notin Bad
        BY <2>2, <3>1
      <4> QED BY <4>1, <1>1, <3>1, <3>2
    <3> DEFINE h == [i \in m .. n + 1 |-> IF i = m THEN piece[m] \o f[next[m]] ELSE f[i]]
    <3>4. \A i \in m + 1 .. n + 1 : f[i] = IF i > n THEN <<>> ELSE piece[i] \o f[next[i]]
      <4>1. \A i \in m + 1 .. n + 1 : F(f, m + 1)[i] = IF i > n THEN <<>> ELSE piece[i] \o f[next[i]]
        OBVIOUS
      <4> HIDE DEF F
      <4> QED BY <4>1, <3>3, Zenon
    <3>5. ASSUME NEW i \in m .. n + 1
          PROVE  h[i] = IF i > n THEN <<>> ELSE piece[i] \o h[next[i]]
      <4>1. CASE i > n
        <5>1. i \in m + 1 .. n + 1 /\ i # m
          BY <4>1
        <5> QED BY <5>1, <3>4, <4>1
      <4>2. CASE ~(i > n)
        <5>1. i \in 1 .. n
          BY <4>2
        <5>2. PICK j \in m + 1 .. n + 1 : j = next[i] /\ j # m
          BY <5>1
        <5>3. h[j] = f[j]
          BY <5>2
        <5>4. h[i] = piece[i] \o f[next[i]]
          <6>1. CASE i = m
            BY <6>1
          <6>2. CASE i # m
            <7>1. i \in m + 1 .. n + 1
              BY <6>2
            <7>2. f[i] = piece[i] \o f[next[i]]
              BY <7>1, <3>4, <4>2
            <7>3. h[i] = f[i]
              BY <6>2
            <7> QED BY <7>2, <7>3
          <6> QED BY <6>1, <6>2
        <5> HIDE DEF h
        <5> QED BY <5>2, <5>3, <5>4, <4>2
      <4> QED BY <4>1, <4>2
    <3>6. h = F(h, m)
      <4>1. h = [i \in m .. n + 1 |-> h[i]]
        OBVIOUS
      <4> HIDE DEF h
      <4> QED BY <3>5, <4>1
    <3> HIDE DEF F, h
    <3> QED BY <3>6, <3>2, <2>3
  <2> QED BY <2>4, <2>5
<1> DEFINE from == CHOOSE f : f = F(f, 1)
<1>3. from = F(from, 1)
  <2>1. n \in 0 .. n /\ n + 1 - n = 1
    OBVIOUS
  <2> HIDE DEF Bad, F
  <2>2. \E f : f = F(f, 1)
    BY <1>1, <1>2, <2>1
  <2> QED BY <2>2
<1>4. \A i \in 1 .. n + 1 : from[i] = IF i > n THEN <<>> ELSE piece[i] \o from[next[i]]
  <2>1. \A i \in 1 .. n + 1 : F(from, 1)[i] = IF i > n THEN <<>> ELSE piece[i] \o from[next[i]]
    <3> HIDE DEF from
    <3> QED BY DEF F
  <2> HIDE DEF from, F
  <2> QED BY <1>3, <2>1, Zenon
<1>5. \A i : ReadFrom(i, n, piece, next) = from[i]
  BY Zenon DEF ReadFrom
<1> HIDE DEF from, F, Bad
<1>6. ReadFrom(n + 1, n, piece, next) = <<>>
  <2>1. n + 1 \in 1 .. n + 1 /\ n + 1 > n
    OBVIOUS
  <2> QED BY <2>1, <1>4, <1>5
<1>7. ASSUME NEW i \in 1 .. n
      PROVE  ReadFrom(i, n, piece, next) = piece[i] \o ReadFrom(next[i], n, piece, next)
  <2>1. i \in 1 .. n + 1 /\ ~(i > n)
    OBVIOUS
  <2>2. from[i] = piece[i] \o from[next[i]]
    BY <2>1, <1>4
  <2> QED BY <2>2, <1>5, Zenon
<1> QED BY <1>6, <1>7

\* On its way from one place to another a reader adds one value of v at each of
\* the places at[1], at[2], ... and goes on at the next of them, and there it stops.
Copies(S, v, start, end, n, piece, next) ==
    /\ v \in Seq(S) /\ n \in Nat
    /\ \A i \in 1 .. n : next[i] \in i + 1 .. n + 1
    /\ \E at \in [1 .. Len(v) + 1 -> 1 .. n + 1] :
          /\ at[1] = start /\ at[Len(v) + 1] = end
          /\ \A k \in 1 .. Len(v) :
                at[k] \in 1 .. n /\ piece[at[k]] = <<v[k]>> /\ next[at[k]] = at[k + 1]
    /\ end # n + 1 => piece[end] = <<>> /\ next[end] = n + 1

\* It puts together v.
LEMMA ReadFromCopies ==
    ASSUME NEW S, NEW v, NEW n, NEW piece, NEW next, NEW start, NEW end,
           Copies(S, v, start, end, n, piece, next)
    PROVE  ReadFrom(start, n, piece, next) = v
<1>0. v \in Seq(S) /\ n \in Nat
  BY DEF Copies
<1>11. PICK m \in Nat : m = Len(v)
  BY <1>0
<1>8. PICK at \in [1 .. m + 1 -> 1 .. n + 1] :
         /\ at[1] = start /\ at[m + 1] = end
         /\ \A k \in 1 .. m :
               at[k] \in 1 .. n /\ piece[at[k]] = <<v[k]>> /\ next[at[k]] = at[k + 1]
  BY <1>11, Zenon DEF Copies
<1>10. \A i \in 1 .. n : next[i] \in i + 1 .. n + 1
  BY DEF Copies
<1>12. /\ ReadFrom(n + 1, n, piece, next) = <<>>
       /\ \A i \in 1 .. n :
            ReadFrom(i, n, piece, next) = piece[i] \o ReadFrom(next[i], n, piece, next)
  BY <1>0, <1>10, ReadFromUnfolds
<1>13. ReadFrom(end, n, piece, next) = <<>>
  <2>0. end \in 1 .. n + 1
    BY <1>0, <1>8, <1>11
  <2>1. CASE end = n + 1
    BY <1>12, <2>1
  <2>2. CASE end # n + 1
    <3>1. end \in 1 .. n
      BY <1>0, <2>0, <2>2
    <3>2. ReadFrom(end, n, piece, next) = piece[end] \o ReadFrom(next[end], n, piece, next)
      BY <1>12, <3>1
    <3>3. <<>> \o <<>> = <<>>
      BY EmptySeq, ConcatEmptySeq
    <3>4. piece[end] = <<>> /\ next[end] = n + 1
      BY <2>2 DEF Copies
    <3> QED BY <1>12, <3>2, <3>3, <3>4, Zenon
  <2> QED BY <2>1, <2>2
<1>9. PICK tail \in Seq(S) : tail = <<>> /\ tail = ReadFrom(at[m + 1], n, piece, next)
  BY <1>8, <1>13, EmptySeq
<1> DEFINE R(k) == ReadFrom(at[k], n, piece, next)
           Good(k) == R(k) = SubSeq(v, k, m) \o tail
           Bad == {d \in 0 .. m : ~Good(m + 1 - d)}
<1>1. \A d : d \in Bad <=> d \in 0 .. m /\ ~Good(m + 1 - d)
  OBVIOUS
<1>2. \A k \in 1 .. m : R(k) = <<v[k]>> \o R(k + 1)
  BY <1>8, <1>12, Zenon
<1>3. Good(m + 1)
  <2>1. SubSeq(v, m + 1, m) = <<>>
    BY SubSeqEmpty
  <2>2. <<>> \o tail = tail
    BY ConcatEmptySeq
  <2> QED BY <2>1, <2>2, <1>9, Zenon
<1>4. ASSUME NEW k \in 1 .. m, Good(k + 1) PROVE Good(k)
  <2>1. SubSeq(v, k, m) = <<v[k]>> \o SubSeq(v, k + 1, m)
    BY <1>0, <1>11, SubSeqRecursiveFirst
  <2>2. PICK a \in Seq(S), b \in Seq(S) : a = <<v[k]>> /\ b = SubSeq(v, k + 1, m)
    <3>1. v[k] \in S /\ <<v[k]>> \in Seq(S)
      BY <1>0, <1>11
    <3>2. SubSeq(v, k + 1, m) \in Seq(S)
      <4>1. \A i \in k + 1 .. m : v[i] \in S
        BY <1>0, <1>11
      <4> QED BY <4>1, SubSeqProperties
    <3> QED BY <3>1, <3>2
  <2>3. Cat(Cat(a, b), tail) = Cat(a, Cat(b, tail))
    BY Regroup
  <2>4. R(k + 1) = Cat(b, tail)
    <3> HIDE DEF R
    <3> QED BY <1>4, <2>2, Zenon DEF Cat
  <2>5. R(k) = Cat(a, Cat(b, tail))
    <3> HIDE DEF R
    <3> QED BY <1>2, <2>2, <2>4, Zenon DEF Cat
  <2>6. SubSeq(v, k, m) \o tail = Cat(Cat(a, b), tail)
    BY <2>1, <2>2, Zenon DEF Cat
  <2> HIDE DEF R
  <2> QED BY <2>3, <2>5, <2>6, Zenon
<1>5. Bad = {}
  <2>1. SUFFICES ASSUME Bad # {} PROVE FALSE
    OBVIOUS
  <2> HIDE DEF Bad, Good
  <2>2. PICK d \in Bad : \A e \in Bad : d <= e
    <3>1. Bad \in SUBSET Nat
      BY <1>1
    <3> QED BY <3>1, <2>1, LeastNat
  <2>3. d \in 0 .. m /\ ~Good(m + 1 - d)
    BY <1>1, <2>2
  <2>4. CASE d = 0
    <3>1. m + 1 - d = m + 1
      BY <2>4
    <3> QED BY <3>1, <1>3, <2>3
  <2>5. CASE d # 0
    <3>1. d - 1 \in 0 .. m /\ ~(d <= d - 1)
      BY <2>3, <2>5
    <3>2. PICK k \in 1 .. m : k = m + 1 - d /\ k + 1 = m + 1 - (d - 1)
      BY <2>3, <2>5
    <3>3. Good(k + 1)
      BY <1>1, <2>2, <3>1, <3>2
    <3> QED BY <1>4, <3>2, <3>3, <2>3
  <2> QED BY <2>4, <2>5
<1>6. Good(1)
  <2>1. m \in 0 .. m /\ m + 1 - m = 1
    OBVIOUS
  <2> HIDE DEF Bad, Good
  <2> QED BY <1>1, <1>5, <2>1
<1>7. SubSeq(v, 1, m) = v
  BY <1>0, <1>11, SubSeqFull
<1>14. v \o <<>> = v
  BY <1>0, ConcatEmptySeq
<1> QED BY <1>6, <1>7, <1>8, <1>9, <1>14, Zenon

--------------------------------------------------------------------------------
(****************************************************************************)
(* Fields                                                                   *)
(****************************************************************************)

\* The bytes of an encoded value: no control byte, no ';' and no '='.
Plain == {b \in Byte : b >= 32 /\ b # Semicolon /\ b # Equals}

\* Two hexadecimal digits give the byte back they were made of.
LEMMA HexDigitsReadBack ==
    ASSUME NEW d \in 0 .. 15
    PROVE  HexDigit(d) \in Plain /\ Hex(HexDigit(d)) = d
<1>1. CASE d < 10
  <2>1. HexDigit(d) = 48 + d
    BY <1>1 DEF HexDigit
  <2>2. 48 + d \in 48 .. 57 /\ (48 + d) - 48 = d
    BY <1>1
  <2>3. Hex(48 + d) = (48 + d) - 48
    BY <2>2 DEF Hex
  <2> QED BY <2>1, <2>2, <2>3 DEF Plain, Byte, Semicolon, Equals
<1>2. CASE ~(d < 10)
  <2>1. HexDigit(d) = 55 + d
    BY <1>2 DEF HexDigit
  <2>2. 55 + d \in 65 .. 70 /\ 55 + d \notin 48 .. 57 /\ 55 + d \notin 97 .. 102 /\ (55 + d) - 55 = d
    BY <1>2
  <2>3. Hex(55 + d) = (55 + d) - 55
    BY <2>2 DEF Hex
  <2> QED BY <2>1, <2>2, <2>3 DEF Plain, Byte, Semicolon, Equals
<1> QED BY <1>1, <1>2

\* A byte is written as three plain bytes, which read back give it, or as itself.
Escaped(b) == b \in {Percent, Semicolon, Equals} \/ b < 32

\* A byte is itself or an escape of three.
LEMMA EncodedByteForms ==
    ASSUME NEW b \in Byte
    PROVE  /\ EncodedByte(b) \in Seq(Plain)
           /\ Escaped(b) =>
                 /\ Len(EncodedByte(b)) = 3
                 /\ EncodedByte(b)[1] = Percent
                 /\ 16 * Hex(EncodedByte(b)[2]) + Hex(EncodedByte(b)[3]) = b
           /\ ~Escaped(b) => /\ Len(EncodedByte(b)) = 1
                             /\ EncodedByte(b)[1] = b /\ b # Percent
<1>0. b \in 0 .. 255
  BY DEF Byte
<1>1. CASE Escaped(b)
  <2>1. PICK x \in 0 .. 15, y \in 0 .. 15 : x = b \div 16 /\ y = b % 16 /\ 16 * x + y = b
    BY <1>0
  <2>2. EncodedByte(b) = <<Percent, HexDigit(x), HexDigit(y)>>
    BY <1>1, <2>1 DEF EncodedByte, Escaped
  <2>3. Percent \in Plain
    BY DEF Plain, Byte, Percent, Semicolon, Equals
  <2>4. /\ HexDigit(x) \in Plain /\ HexDigit(y) \in Plain
        /\ Hex(HexDigit(x)) = x /\ Hex(HexDigit(y)) = y
    BY HexDigitsReadBack
  <2>5. PICK p \in Plain, q \in Plain, r \in Plain :
           p = Percent /\ q = HexDigit(x) /\ r = HexDigit(y)
    BY <2>3, <2>4
  <2>6. /\ <<p, q, r>> \in Seq(Plain) /\ Len(<<p, q, r>>) = 3
        /\ <<p, q, r>>[1] = p /\ <<p, q, r>>[2] = q /\ <<p, q, r>>[3] = r
    OBVIOUS
  <2>7. EncodedByte(b) = <<p, q, r>>
    BY <2>2, <2>5
  <2>8. 16 * Hex(q) + Hex(r) = b
    BY <2>1, <2>4, <2>5
  <2> QED BY <1>1, <2>5, <2>6, <2>7, <2>8
<1>2. CASE ~Escaped(b)
  <2>1. EncodedByte(b) = <<b>>
    BY <1>2 DEF EncodedByte, Escaped
  <2>2. b \in Plain /\ b # Percent
    BY <1>0, <1>2 DEF Escaped, Plain
  <2>3. <<b>> \in Seq(Plain) /\ Len(<<b>>) = 1 /\ <<b>>[1] = b
    BY <2>2
  <2> QED BY <1>2, <2>1, <2>2, <2>3
<1> QED BY <1>1, <1>2

\* A value written byte by byte, in an encoding of S, is a text of S.
LEMMA BytewiseType ==
    ASSUME NEW S, NEW v \in Seq(Byte), NEW s,
           s \in [1 .. Len(v) -> Seq(S)]
    PROVE  s \in Seq(Seq(S)) /\ Len(s) = Len(v)
OBVIOUS

\* Percent-encoding loses nothing (encode_field_value, decode_field_value), and
\* leaves no byte that borders a field, a key or a line.
LEMMA FieldValueReadBack ==
    ASSUME NEW v \in Seq(Byte)
    PROVE  /\ EncodeFieldValue(v) \in Seq(Plain)
           /\ DecodeFieldValue(EncodeFieldValue(v)) = v
<1>0. /\ v \in Seq(Byte) /\ DOMAIN v = 1 .. Len(v) /\ Len(v) \in Nat
      /\ \A k \in 1 .. Len(v) : v[k] \in Byte
  OBVIOUS
<1> DEFINE s == [i \in DOMAIN v |-> EncodedByte(v[i])]
<1>1. s \in [1 .. Len(v) -> Seq(Plain)]
  <2>1. \A k \in 1 .. Len(v) : EncodedByte(v[k]) \in Seq(Plain)
    BY <1>0, EncodedByteForms
  <2> QED BY <1>0, <2>1
<1>2. \A k \in 1 .. Len(v) : s[k] = EncodedByte(v[k])
  BY <1>0
<1>3. EncodeFieldValue(v) = FlattenSeq(s)
  BY Zenon DEF EncodeFieldValue
<1> HIDE DEF s
<1>4. s \in Seq(Seq(Plain)) /\ Len(s) = Len(v)
  BY <1>0, <1>1, BytewiseType
<1>5. PICK e \in Seq(Plain) : e = FlattenSeq(s)
  BY <1>4, FlattenType
<1>6. PICK at : Places(at, s)
  BY <1>4, FlattenPlaces
<1>7. PICK n \in Nat : n = Len(e)
  OBVIOUS
<1>8. /\ at \in [1 .. Len(v) + 1 -> 1 .. n + 1]
      /\ at[1] = 1 /\ at[Len(v) + 1] = n + 1
      /\ \A k \in 1 .. Len(v) :
            /\ at[k + 1] = at[k] + Len(s[k])
            /\ \A j \in 1 .. Len(s[k]) : e[at[k] + j - 1] = s[k][j]
  BY <1>4, <1>5, <1>6, <1>7, Zenon DEF Places
<1> DEFINE Escape(i) == e[i] = Percent /\ i + 2 <= n
<1>20. PICK piece, next :
          /\ piece = [i \in 1 .. n |-> IF Escape(i) THEN <<16 * Hex(e[i + 1]) + Hex(e[i + 2])>>
                                                   ELSE <<e[i]>>]
          /\ next = [i \in 1 .. n |-> IF Escape(i) THEN i + 3 ELSE i + 1]
  OBVIOUS
<1>9. DecodeFieldValue(e) = ReadFrom(1, n, piece, next)
  BY <1>7, <1>20, Zenon DEF DecodeFieldValue
<1>10. \A i \in 1 .. n : next[i] \in i + 1 .. n + 1
  BY <1>20
<1>11. ASSUME NEW k \in 1 .. Len(v)
       PROVE  at[k] \in 1 .. n /\ piece[at[k]] = <<v[k]>> /\ next[at[k]] = at[k + 1]
  <2>1. PICK a \in 1 .. n + 1, z \in 1 .. n + 1 : a = at[k] /\ z = at[k + 1]
    <3>1. k \in 1 .. Len(v) + 1 /\ k + 1 \in 1 .. Len(v) + 1
      BY <1>0
    <3> QED BY <1>8, <3>1
  <2>2. PICK b \in Byte : b = v[k]
    BY <1>0
  <2>3. PICK t \in Seq(Plain) : t = s[k] /\ t = EncodedByte(b)
    BY <1>2, <2>2, EncodedByteForms
  <2>4. z = a + Len(t) /\ \A j \in 1 .. Len(t) : e[a + j - 1] = t[j]
    BY <1>8, <2>1, <2>3, Zenon
  <2>5. CASE Escaped(b)
    <3>1. Len(t) = 3 /\ t[1] = Percent /\ 16 * Hex(t[2]) + Hex(t[3]) = b
      BY <2>3, <2>5, EncodedByteForms
    <3>2. e[a] = t[1] /\ e[a + 1] = t[2] /\ e[a + 2] = t[3]
      <4>1. e[a + 1 - 1] = t[1] /\ e[a + 2 - 1] = t[2] /\ e[a + 3 - 1] = t[3]
        BY <2>4, <3>1
      <4>2. a + 1 - 1 = a /\ a + 2 - 1 = a + 1 /\ a + 3 - 1 = a + 2
        OBVIOUS
      <4> QED BY <4>1, <4>2
    <3>3. z = a + 3 /\ a + 2 <= n /\ a \in 1 .. n
      BY <2>4, <3>1
    <3>4. Escape(a)
      BY <3>1, <3>2, <3>3
    <3>5. piece[a] = <<16 * Hex(e[a + 1]) + Hex(e[a + 2])>> /\ next[a] = a + 3
      BY <3>3, <3>4, <1>20
    <3>6. piece[a] = <<b>>
      BY <3>1, <3>2, <3>5
    <3> QED BY <2>1, <2>2, <3>3, <3>5, <3>6
  <2>6. CASE ~Escaped(b)
    <3>1. Len(t) = 1 /\ t[1] = b /\ b # Percent
      BY <2>3, <2>6, EncodedByteForms
    <3>2. e[a] = b
      <4>1. e[a + 1 - 1] = t[1]
        BY <2>4, <3>1
      <4>2. a + 1 - 1 = a
        OBVIOUS
      <4> QED BY <4>1, <4>2, <3>1
    <3>3. z = a + 1 /\ a \in 1 .. n
      BY <2>4, <3>1
    <3>4. ~Escape(a)
      BY <3>1, <3>2
    <3>5. piece[a] = <<e[a]>> /\ next[a] = a + 1
      BY <3>3, <3>4, <1>20
    <3> QED BY <2>1, <2>2, <3>2, <3>3, <3>5
  <2> QED BY <2>5, <2>6
<1>13. Copies(Byte, v, 1, n + 1, n, piece, next)
  BY <1>8, <1>10, <1>11 DEF Copies
<1>14. ReadFrom(1, n, piece, next) = v
  BY <1>13, ReadFromCopies
<1>16. DecodeFieldValue(e) = v
  BY <1>9, <1>14
<1> QED BY <1>3, <1>5, <1>16

\* What a field value is written with are bytes.
LEMMA PlainIsByte == Plain \subseteq Byte /\ Seq(Plain) \subseteq Seq(Byte)
<1>1. Plain \subseteq Byte
  BY DEF Plain
<1> HIDE DEF Plain
<1>2. ASSUME NEW e \in Seq(Plain) PROVE e \in Seq(Byte)
  BY <1>1
<1> QED BY <1>1, <1>2

\* Sequences of one, two and six.
LEMMA ShortTexts ==
    ASSUME NEW S, NEW x \in S, NEW y \in S
    PROVE  /\ <<x>> \in Seq(S) /\ Len(<<x>>) = 1 /\ <<x>>[1] = x
           /\ <<x, y>> \in Seq(S) /\ Len(<<x, y>>) = 2 /\ <<x, y>>[1] = x /\ <<x, y>>[2] = y
OBVIOUS

\* Single bytes joined.
LEMMA CatOfSingles ==
    ASSUME NEW S, NEW x \in S, NEW y \in S
    PROVE  Cat(<<x>>, <<y>>) = <<x, y>>
<1>1. PICK a \in Seq(S), b \in Seq(S), c \in Seq(S) :
         /\ a = <<x>> /\ b = <<y>> /\ c = <<x, y>>
         /\ Len(a) = 1 /\ Len(b) = 1 /\ Len(c) = 2
         /\ a[1] = x /\ b[1] = y /\ c[1] = x /\ c[2] = y
  <2>1. <<x>> \in Seq(S) /\ Len(<<x>>) = 1 /\ <<x>>[1] = x
    BY ShortTexts
  <2>2. <<y>> \in Seq(S) /\ Len(<<y>>) = 1 /\ <<y>>[1] = y
    BY ShortTexts
  <2>3. <<x, y>> \in Seq(S) /\ Len(<<x, y>>) = 2 /\ <<x, y>>[1] = x /\ <<x, y>>[2] = y
    BY ShortTexts
  <2> QED BY <2>1, <2>2, <2>3, Zenon
<1>2. PICK d \in Seq(S) : d = Cat(a, b)
  BY CatType
<1>3. Len(d) = 2 /\ d[1] = x /\ d[1 + 1] = y
  <2>1. Len(d) = Len(a) + Len(b)
    BY <1>2, CatLen
  <2>2. \A i \in 1 .. Len(a) : d[i] = a[i]
    BY <1>2, CatFirst
  <2>3. \A j \in 1 .. Len(b) : d[Len(a) + j] = b[j]
    BY <1>2, CatSecond
  <2>4. d[1] = x
    BY <1>1, <2>2
  <2>5. d[1 + 1] = y
    BY <1>1, <2>3
  <2> QED BY <1>1, <2>1, <2>4, <2>5
<1>4. \A i \in 1 .. Len(d) : d[i] = c[i]
  BY <1>1, <1>3
<1>5. d = c
  BY <1>1, <1>3, <1>4, SeqEqual
<1> QED BY <1>1, <1>2, <1>5

\* The field key=value, with a key of one letter, is read back.
LEMMA ParseFieldReadBack ==
    ASSUME NEW c \in Byte, c # Equals, NEW v \in Seq(Byte)
    PROVE  ParseField(Cat(<<c, Equals>>, EncodeFieldValue(v))) = [key |-> <<c>>, value |-> v]
<1>1. PICK e \in Seq(Plain) : e = EncodeFieldValue(v) /\ e \in Seq(Byte) /\ DecodeFieldValue(e) = v
  BY FieldValueReadBack, PlainIsByte
<1>2. Equals \in Byte
  BY DEF Equals, Byte
<1>3. PICK a \in Seq(Byte) : a = <<c, Equals>> /\ Len(a) = 2 /\ a[1] = c /\ a[2] = Equals
  <2>1. PICK q \in Byte : q = Equals
    BY <1>2
  <2>2. <<c, q>> \in Seq(Byte) /\ Len(<<c, q>>) = 2 /\ <<c, q>>[1] = c /\ <<c, q>>[2] = q
    BY ShortTexts
  <2> QED BY <2>1, <2>2
<1>4. PICK part \in Seq(Byte) : part = Cat(a, e)
  BY <1>1, CatType
<1>5. /\ Len(part) = 2 + Len(e) /\ part[1] = c /\ part[2] = Equals
      /\ \A j \in 1 .. Len(e) : part[2 + j] = e[j]
  <2>1. Len(part) = Len(a) + Len(e)
    BY <1>1, <1>4, CatLen
  <2>2. \A i \in 1 .. Len(a) : part[i] = a[i]
    BY <1>1, <1>4, CatFirst
  <2>3. \A j \in 1 .. Len(e) : part[Len(a) + j] = e[j]
    BY <1>1, <1>4, CatSecond
  <2>4. part[1] = c /\ part[2] = Equals
    BY <1>3, <2>2
  <2>5. \A j \in 1 .. Len(e) : part[2 + j] = e[j]
    BY <1>3, <2>3, Zenon
  <2> QED BY <1>3, <2>1, <2>4, <2>5
<1>6. Find(part, Equals, 1) = 2
  <2>1. 2 \in 1 .. Len(part) + 1 /\ \A j \in 1 .. 2 - 1 : part[j] # Equals
    BY <1>5
  <2> QED BY <1>5, <2>1, FindIs
<1>7. SubSeq(part, 1, 1) = <<c>>
  <2>1. PICK u \in Seq(Byte) : u = <<c>> /\ Len(u) = 1 /\ u[1] = c
    <3>1. <<c>> \in Seq(Byte) /\ Len(<<c>>) = 1 /\ <<c>>[1] = c
      BY ShortTexts
    <3> QED BY <3>1, Zenon
  <2>2. 0 + Len(u) <= Len(part) /\ \A j \in 1 .. Len(u) : part[0 + j] = u[j]
    BY <2>1, <1>5
  <2>3. SubSeq(part, 0 + 1, 0 + Len(u)) = u
    BY <2>2, SubSeqIs
  <2> QED BY <2>1, <2>3
<1>8. SubSeq(part, 3, Len(part)) = e
  <2>1. SubSeq(part, 2 + 1, 2 + Len(e)) = e
    BY <1>1, <1>5, SubSeqIs
  <2> QED BY <2>1, <1>5
<1>9. ParseField(part) = [key |-> SubSeq(part, 1, 1),
                          value |-> DecodeFieldValue(SubSeq(part, 3, Len(part)))]
  <2>1. ~(2 > Len(part)) /\ 2 - 1 = 1 /\ 2 + 1 = 3
    BY <1>5
  <2> QED BY <1>6, <2>1 DEF ParseField
<1> QED BY <1>1, <1>3, <1>4, <1>7, <1>8, <1>9

\* The text of a message, field by field.
LEMMA SerializeForm ==
    ASSUME NEW message \in Message
    PROVE  Serialize(message) =
             Cat(Cat(<<107, Equals>>, EncodeFieldValue(message.kind)),
                 Cat(<<Semicolon>>, Cat(<<118, Equals>>, EncodeFieldValue(message.text))))
<1>1. message.kind \in Seq(Byte) /\ message.text \in Seq(Byte)
  BY DEF Message, Text
<1>4. /\ Equals \in Byte /\ Semicolon \in Byte /\ 107 \in Byte /\ 118 \in Byte
      /\ KindKey = <<107>> /\ TextKey = <<118>>
  BY DEF Equals, Byte, Semicolon, KindKey, TextKey
<1>10. PICK kc \in Byte, tc \in Byte, eq \in Byte, sc \in Byte :
          kc = 107 /\ tc = 118 /\ eq = Equals /\ sc = Semicolon
  BY <1>4
<1>2. PICK k \in Seq(Byte), t \in Seq(Byte) :
         k = EncodeFieldValue(message.kind) /\ t = EncodeFieldValue(message.text)
  BY <1>1, FieldValueReadBack, PlainIsByte
<1> DEFINE f1 == [key |-> KindKey, value |-> message.kind]
           f2 == [key |-> TextKey, value |-> message.text]
           part(i) == (IF i = 1 THEN <<>> ELSE <<Semicolon>>)
                      \o <<f1, f2>>[i].key \o <<Equals>> \o EncodeFieldValue(<<f1, f2>>[i].value)
           parts == [i \in DOMAIN <<f1, f2>> |-> part(i)]
<1>3. Serialize(message) = FlattenSeq(parts)
  BY Zenon DEF Serialize, JoinFields
<1>5. part(1) = Cat(<<107, Equals>>, k)
  <2>1. part(1) = ((<<>> \o <<kc>>) \o <<eq>>) \o k
    <3>1. <<f1, f2>>[1].key = <<kc>> /\ <<f1, f2>>[1].value = message.kind
      BY <1>4, <1>10
    <3>2. part(1) = ((<<>> \o <<f1, f2>>[1].key) \o <<Equals>>)
                      \o EncodeFieldValue(<<f1, f2>>[1].value)
      OBVIOUS
    <3> HIDE DEF part, f1, f2
    <3> QED BY <1>2, <1>10, <3>1, <3>2, Zenon
  <2> HIDE DEF part
  <2>2. <<>> \o <<kc>> = <<kc>>
    BY ShortTexts, ConcatEmptySeq
  <2>3. Cat(<<kc>>, <<eq>>) = <<kc, eq>>
    BY CatOfSingles
  <2> QED BY <1>10, <2>1, <2>2, <2>3, Zenon DEF Cat
<1>6. part(2) = Cat(<<Semicolon>>, Cat(<<118, Equals>>, t))
  <2>1. part(2) = ((<<sc>> \o <<tc>>) \o <<eq>>) \o t
    <3>1. <<f1, f2>>[2].key = <<tc>> /\ <<f1, f2>>[2].value = message.text
      BY <1>4, <1>10
    <3>2. part(2) = ((<<Semicolon>> \o <<f1, f2>>[2].key) \o <<Equals>>)
                      \o EncodeFieldValue(<<f1, f2>>[2].value)
      OBVIOUS
    <3> HIDE DEF part, f1, f2
    <3> QED BY <1>2, <1>10, <3>1, <3>2, Zenon
  <2> HIDE DEF part
  <2>2. PICK x \in Seq(Byte), y \in Seq(Byte), z \in Seq(Byte) :
           x = <<sc>> /\ y = <<tc>> /\ z = <<eq>>
    BY ShortTexts
  <2>3. Cat(y, z) = <<tc, eq>>
    BY <2>2, CatOfSingles
  <2>4. part(2) = Cat(Cat(Cat(x, y), z), t)
    BY <2>1, <2>2, Zenon DEF Cat
  <2>5. Cat(x, y) \in Seq(Byte) /\ Cat(y, z) \in Seq(Byte)
    BY CatType
  <2>6. Cat(Cat(x, y), z) = Cat(x, Cat(y, z))
    BY Regroup
  <2>7. Cat(Cat(x, Cat(y, z)), t) = Cat(x, Cat(Cat(y, z), t))
    BY <2>5, Regroup
  <2> QED BY <1>10, <2>2, <2>3, <2>4, <2>6, <2>7, SMTT(30)
<1>7. parts = <<part(1), part(2)>>
  <2>1. DOMAIN <<f1, f2>> = {1, 2}
    OBVIOUS
  <2> HIDE DEF part
  <2>2. \A i \in {1, 2} : parts[i] = <<part(1), part(2)>>[i]
    BY <2>1
  <2> QED BY <2>1, <2>2
<1> HIDE DEF part, parts
<1>8. PICK a \in Seq(Byte), b \in Seq(Byte) : a = part(1) /\ b = part(2)
  <2>1. <<107, Equals>> \in Seq(Byte) /\ <<118, Equals>> \in Seq(Byte) /\ <<Semicolon>> \in Seq(Byte)
    <3>1. <<kc, eq>> \in Seq(Byte) /\ <<tc, eq>> \in Seq(Byte) /\ <<sc>> \in Seq(Byte)
      BY ShortTexts
    <3> QED BY <1>10, <3>1
  <2>2. Cat(<<118, Equals>>, t) \in Seq(Byte)
    BY <2>1, CatType
  <2>3. part(1) \in Seq(Byte) /\ part(2) \in Seq(Byte)
    <3> HIDE DEF part
    <3>1. Cat(<<107, Equals>>, k) \in Seq(Byte)
      BY <2>1, CatType
    <3>2. Cat(<<Semicolon>>, Cat(<<118, Equals>>, t)) \in Seq(Byte)
      BY <2>1, <2>2, CatType
    <3> QED BY <1>5, <1>6, <3>1, <3>2, Zenon
  <2> QED BY <2>3
<1>9. FlattenSeq(<<a, b>>) = Cat(a, b)
  BY FlattenPair, Zenon DEF Cat
<1> QED BY <1>2, <1>3, <1>5, <1>6, <1>7, <1>8, <1>9, Zenon

\* Two fields with a semicolon between them, and none inside, are found as two.
LEMMA TwoFields ==
    ASSUME NEW A \in Seq(Byte), NEW B \in Seq(Byte), Len(A) > 0, Len(B) > 0,
           \A i \in 1 .. Len(A) : A[i] # Semicolon,
           \A i \in 1 .. Len(B) : B[i] # Semicolon
    PROVE  ParseFields(Cat(A, Cat(<<Semicolon>>, B))) = <<ParseField(A), ParseField(B)>>
<1>1. PICK sc \in Byte : sc = Semicolon
  BY DEF Semicolon, Byte
<1>2. PICK d \in Seq(Byte) : d = <<Semicolon>> /\ Len(d) = 1 /\ d[1] = Semicolon
  <2>1. <<sc>> \in Seq(Byte) /\ Len(<<sc>>) = 1 /\ <<sc>>[1] = sc
    BY ShortTexts
  <2> QED BY <1>1, <2>1
<1>3. PICK r \in Seq(Byte) : r = Cat(d, B)
  BY CatType
<1>4. PICK w \in Seq(Byte) : w = Cat(A, r)
  BY CatType
<1>5. PICK la \in Nat, lb \in Nat, n \in Nat : la = Len(A) /\ lb = Len(B) /\ n = Len(w)
  OBVIOUS
<1>6. Len(r) = 1 + lb /\ n = la + 1 + lb
  <2>1. Len(r) = Len(d) + Len(B)
    BY <1>3, CatLen
  <2>2. Len(w) = Len(A) + Len(r)
    BY <1>4, CatLen
  <2> QED BY <1>2, <1>5, <2>1, <2>2
<1>7. r[1] = Semicolon /\ \A j \in 1 .. lb : r[1 + j] = B[j]
  <2>1. \A i \in 1 .. Len(d) : r[i] = d[i]
    BY <1>3, CatFirst
  <2>2. \A j \in 1 .. Len(B) : r[Len(d) + j] = B[j]
    BY <1>3, CatSecond
  <2>3. r[1] = d[1]
    BY <1>2, <2>1
  <2> QED BY <1>2, <1>5, <2>2, <2>3
<1>8. \A i \in 1 .. la : w[i] = A[i]
  BY <1>4, <1>5, CatFirst
<1>9. \A j \in 1 .. 1 + lb : w[la + j] = r[j]
  <2>1. \A j \in 1 .. Len(r) : w[Len(A) + j] = r[j]
    BY <1>4, CatSecond
  <2> QED BY <2>1, <1>5, <1>6
<1>10. w[la + 1] = Semicolon
  BY <1>7, <1>9
<1>11. ASSUME NEW j \in 1 .. lb PROVE w[la + 1 + j] = B[j]
  <2>1. 1 + j \in 1 .. 1 + lb /\ la + (1 + j) = la + 1 + j
    OBVIOUS
  <2> QED BY <1>7, <1>9, <2>1
<1>12. Find(w, Semicolon, 1) = la + 1
  <2>1. la + 1 \in 1 .. Len(w) + 1
    BY <1>5, <1>6
  <2>2. \A j \in 1 .. (la + 1) - 1 : w[j] # Semicolon
    BY <1>5, <1>8
  <2> QED BY <1>10, <2>1, <2>2, FindIs
<1>13. Find(w, Semicolon, la + 2) = n + 1
  <2>1. n + 1 \in la + 2 .. Len(w) + 1
    BY <1>5, <1>6
  <2>2. ASSUME NEW j \in la + 2 .. (n + 1) - 1 PROVE w[j] # Semicolon
    <3>1. PICK i \in 1 .. lb : j = la + 1 + i
      <4>1. j - la - 1 \in 1 .. lb /\ j = la + 1 + (j - la - 1)
        BY <1>6
      <4> QED BY <4>1
    <3>2. w[j] = B[i]
      BY <1>11, <3>1
    <3> QED BY <1>5, <3>2
  <2>3. ~(n + 1 <= Len(w)) /\ la + 2 \in Nat \ {0}
    BY <1>5
  <2> QED BY <2>1, <2>2, <2>3, FindIs
<1> DEFINE End(i) == Find(w, Semicolon, i)
<1>14. PICK piece, next :
          /\ piece = [i \in 1 .. n |-> IF End(i) = i THEN <<>>
                                       ELSE <<ParseField(SubSeq(w, i, End(i) - 1))>>]
          /\ next = [i \in 1 .. n |-> IF End(i) > n THEN n + 1 ELSE End(i) + 1]
  OBVIOUS
<1>15. ParseFields(w) = ReadFrom(1, n, piece, next)
  BY <1>5, <1>14, Zenon DEF ParseFields
<1>16. ASSUME NEW i \in 1 .. n PROVE next[i] \in i + 1 .. n + 1
  <2>1. i \in 1 .. Len(w) + 1
    BY <1>5
  <2>2. PICK e \in i .. n + 1 : e = Find(w, Semicolon, i)
    BY <1>5, <2>1, FindRange
  <2>3. next[i] = IF e > n THEN n + 1 ELSE e + 1
    BY <1>14, <2>2
  <2> QED BY <2>2, <2>3
<1>17. /\ ReadFrom(n + 1, n, piece, next) = <<>>
       /\ \A i \in 1 .. n :
             ReadFrom(i, n, piece, next) = piece[i] \o ReadFrom(next[i], n, piece, next)
  BY <1>16, ReadFromUnfolds, ZenonT(40)
<1>18. 1 \in 1 .. n /\ la + 2 \in 1 .. n /\ ~(la + 1 > n) /\ la + 1 # 1 /\ la + 2 # n + 1
  BY <1>5, <1>6
<1>19. SubSeq(w, 1, la) = A
  <2>1. 0 \in Nat /\ 0 + Len(A) <= Len(w) /\ \A j \in 1 .. Len(A) : w[0 + j] = A[j]
    BY <1>5, <1>6, <1>8
  <2>2. SubSeq(w, 0 + 1, 0 + Len(A)) = A
    BY <2>1, SubSeqIs
  <2> QED BY <1>5, <2>2
<1>20. SubSeq(w, la + 2, n) = B
  <2>1. la + 1 \in Nat /\ la + 1 + Len(B) <= Len(w) /\ \A j \in 1 .. Len(B) : w[la + 1 + j] = B[j]
    BY <1>5, <1>6, <1>11
  <2>2. SubSeq(w, la + 1 + 1, la + 1 + Len(B)) = B
    BY <2>1, SubSeqIs
  <2>3. la + 1 + 1 = la + 2 /\ la + 1 + Len(B) = n
    BY <1>5, <1>6
  <2> QED BY <2>2, <2>3
<1>21. piece[1] = <<ParseField(A)>> /\ next[1] = la + 2
  <2>1. piece[1] = <<ParseField(SubSeq(w, 1, (la + 1) - 1))>>
    BY <1>12, <1>14, <1>18
  <2>2. (la + 1) - 1 = la /\ (la + 1) + 1 = la + 2
    OBVIOUS
  <2>3. next[1] = (la + 1) + 1
    BY <1>12, <1>14, <1>18
  <2> QED BY <1>19, <2>1, <2>2, <2>3
<1>22. piece[la + 2] = <<ParseField(B)>> /\ next[la + 2] = n + 1
  <2>1. piece[la + 2] = <<ParseField(SubSeq(w, la + 2, (n + 1) - 1))>>
    BY <1>13, <1>14, <1>18
  <2>2. (n + 1) - 1 = n /\ n + 1 > n
    OBVIOUS
  <2>3. next[la + 2] = n + 1
    BY <1>13, <1>14, <1>18, <2>2
  <2> QED BY <1>20, <2>1, <2>2, <2>3
<1>23. PICK x, y : x = ParseField(A) /\ y = ParseField(B)
  OBVIOUS
<1>24. ReadFrom(1, n, piece, next) = <<x>> \o (<<y>> \o <<>>)
  BY <1>17, <1>18, <1>21, <1>22, <1>23, Zenon
<1>25. <<y>> \o <<>> = <<y>>
  BY ShortTexts, ConcatEmptySeq
<1>26. Cat(<<x>>, <<y>>) = <<x, y>>
  <2>1. x \in {x, y} /\ y \in {x, y}
    OBVIOUS
  <2> QED BY <2>1, CatOfSingles
<1>27. ParseFields(w) = <<x, y>>
  BY <1>15, <1>24, <1>25, <1>26, Zenon DEF Cat
<1> QED BY <1>2, <1>3, <1>4, <1>23, <1>27, Zenon

\* A field holds no semicolon.
LEMMA FieldHasNoSemicolon ==
    ASSUME NEW c \in Byte, c # Semicolon, NEW v \in Seq(Byte),
           NEW A, A = Cat(<<c, Equals>>, EncodeFieldValue(v))
    PROVE  A \in Seq(Byte) /\ Len(A) > 0 /\ \A i \in 1 .. Len(A) : A[i] # Semicolon
<1>1. PICK e \in Seq(Plain) : e = EncodeFieldValue(v) /\ e \in Seq(Byte)
  BY FieldValueReadBack, PlainIsByte
<1>2. Equals \in Byte /\ Equals # Semicolon /\ \A b \in Plain : b # Semicolon
  BY DEF Equals, Byte, Semicolon, Plain
<1>3. PICK a \in Seq(Byte) : a = <<c, Equals>> /\ Len(a) = 2 /\ a[1] = c /\ a[2] = Equals
  <2>1. PICK q \in Byte : q = Equals
    BY <1>2
  <2>2. <<c, q>> \in Seq(Byte) /\ Len(<<c, q>>) = 2 /\ <<c, q>>[1] = c /\ <<c, q>>[2] = q
    BY ShortTexts
  <2> QED BY <2>1, <2>2
<1>4. A = Cat(a, e) /\ A \in Seq(Byte)
  BY <1>1, <1>3, CatType
<1>5. Len(A) = Len(a) + Len(e)
  BY <1>1, <1>4, CatLen
<1>6. \A i \in 1 .. Len(a) : A[i] = a[i]
  BY <1>1, <1>4, CatFirst
<1>7. \A j \in 1 .. Len(e) : A[Len(a) + j] = e[j]
  BY <1>1, <1>4, CatSecond
<1>8. ASSUME NEW i \in 1 .. Len(A) PROVE A[i] # Semicolon
  <2>1. CASE i <= 2
    <3>1. i \in {1, 2} /\ i \in 1 .. Len(a)
      BY <1>3, <2>1
    <3> QED BY <1>2, <1>3, <1>6, <3>1
  <2>2. CASE ~(i <= 2)
    <3>1. i - 2 \in 1 .. Len(e) /\ 2 + (i - 2) = i
      BY <1>3, <1>5, <2>2
    <3>2. A[2 + (i - 2)] = e[i - 2]
      BY <1>3, <1>7, <3>1, Zenon
    <3>3. e[i - 2] \in Plain
      BY <3>1
    <3> QED BY <1>2, <3>1, <3>2, <3>3
  <2> QED BY <2>1, <2>2
<1> QED BY <1>3, <1>4, <1>5, <1>8, SMTT(30)

\* The first of two fields, and the second, is found by its key.
LEMMA RequireOfTwo ==
    ASSUME NEW f1, NEW f2
    PROVE  /\ Require(<<f1, f2>>, f1.key) = f1.value
           /\ f1.key # f2.key => Require(<<f1, f2>>, f2.key) = f2.value
<1> DEFINE I(key) == {i \in 1 .. Len(<<f1, f2>>) : <<f1, f2>>[i].key = key}
<1>1. Len(<<f1, f2>>) = 2 /\ <<f1, f2>>[1] = f1 /\ <<f1, f2>>[2] = f2
  OBVIOUS
<1>2. \A key : Require(<<f1, f2>>, key) = <<f1, f2>>[IF I(key) # {} THEN Min(I(key)) ELSE 0].value
  BY DEF Require, SelectInSeq
<1>3. Require(<<f1, f2>>, f1.key) = f1.value
  <2>1. I(f1.key) \in SUBSET Nat /\ 1 \in I(f1.key) /\ \A i \in I(f1.key) : 1 <= i
    BY <1>1
  <2> HIDE DEF I
  <2>2. Min(I(f1.key)) = 1
    BY <2>1, MinIs
  <2>3. I(f1.key) # {}
    BY <2>1
  <2>4. Require(<<f1, f2>>, f1.key) = <<f1, f2>>[1].value
    BY <1>2, <2>2, <2>3
  <2> QED BY <1>1, <2>4
<1>4. ASSUME f1.key # f2.key PROVE Require(<<f1, f2>>, f2.key) = f2.value
  <2>1. I(f2.key) \in SUBSET Nat /\ 2 \in I(f2.key) /\ \A i \in I(f2.key) : 2 <= i
    BY <1>1, <1>4
  <2> HIDE DEF I
  <2>2. Min(I(f2.key)) = 2
    BY <2>1, MinIs
  <2>3. I(f2.key) # {}
    BY <2>1
  <2>4. Require(<<f1, f2>>, f2.key) = <<f1, f2>>[2].value
    BY <1>2, <2>2, <2>3
  <2> QED BY <1>1, <2>4
<1> QED BY <1>3, <1>4

\* serialize and the parse of its kind are inverse: no ';', '=', '%' or control
\* character in a text splits its field, ends its key or is read as an escape.
THEOREM TextReadBack ==
    ASSUME NEW message \in Message
    PROVE  Serialize(message) \in Seq(Byte) /\ Parse(message.kind, Serialize(message)) = message
<1>1. PICK k \in Seq(Byte), t \in Seq(Byte) : k = message.kind /\ t = message.text
  BY DEF Message, Text
<1>2. PICK kc \in Byte, tc \in Byte :
         /\ kc = 107 /\ tc = 118
         /\ kc # Equals /\ kc # Semicolon /\ tc # Equals /\ tc # Semicolon /\ kc # tc
  BY DEF Byte, Equals, Semicolon
<1>3. PICK A, B : /\ A = Cat(<<kc, Equals>>, EncodeFieldValue(k))
                  /\ B = Cat(<<tc, Equals>>, EncodeFieldValue(t))
  OBVIOUS
<1>4. /\ A \in Seq(Byte) /\ Len(A) > 0 /\ \A i \in 1 .. Len(A) : A[i] # Semicolon
      /\ B \in Seq(Byte) /\ Len(B) > 0 /\ \A i \in 1 .. Len(B) : B[i] # Semicolon
  BY <1>2, <1>3, FieldHasNoSemicolon
<1>5. Serialize(message) = Cat(A, Cat(<<Semicolon>>, B))
  BY <1>1, <1>2, <1>3, SerializeForm, ZenonT(40)
<1>6. Serialize(message) \in Seq(Byte)
  <2>1. Semicolon \in Byte
    BY DEF Semicolon, Byte
  <2>2. PICK sc \in Byte : sc = Semicolon
    BY <2>1
  <2>3. <<sc>> \in Seq(Byte)
    BY ShortTexts
  <2>4. Cat(<<sc>>, B) \in Seq(Byte)
    BY <1>4, <2>3, CatType
  <2>5. Cat(A, Cat(<<sc>>, B)) \in Seq(Byte)
    BY <1>4, <2>4, CatType
  <2> QED BY <1>5, <2>2, <2>5
<1> DEFINE f1 == [key |-> <<kc>>, value |-> k]
           f2 == [key |-> <<tc>>, value |-> t]
<1>7. ParseFields(Serialize(message)) = <<f1, f2>>
  <2>1. ParseField(A) = f1
    BY <1>2, <1>3, ParseFieldReadBack
  <2>2. ParseField(B) = f2
    BY <1>2, <1>3, ParseFieldReadBack
  <2>3. ParseFields(Cat(A, Cat(<<Semicolon>>, B))) = <<ParseField(A), ParseField(B)>>
    BY <1>4, TwoFields
  <2> HIDE DEF f1, f2
  <2> QED BY <1>5, <2>1, <2>2, <2>3
<1>8. f1.key = KindKey /\ f2.key = TextKey /\ f1.key # f2.key
  <2>1. <<kc>>[1] # <<tc>>[1]
    BY <1>2
  <2>2. f1.key = <<kc>> /\ f2.key = <<tc>>
    OBVIOUS
  <2> HIDE DEF f1, f2
  <2>3. f1.key # f2.key
    BY <2>1, <2>2
  <2> QED BY <1>2, <2>2, <2>3 DEF KindKey, TextKey
<1>9. ~Malformed(<<f1, f2>>)
  <2>1. <<kc>> # <<-1>> /\ <<tc>> # <<-1>>
    BY <1>2
  <2>2. /\ f1.key # <<-1>> /\ f2.key # <<-1>>
        /\ ~\E j \in DOMAIN f1.value : f1.value[j] < 0
        /\ ~\E j \in DOMAIN f2.value : f2.value[j] < 0
    <3>1. \A b \in Byte : ~(b < 0)
      BY DEF Byte
    <3>2. \A j \in DOMAIN k : k[j] \in Byte
      OBVIOUS
    <3>3. \A j \in DOMAIN t : t[j] \in Byte
      OBVIOUS
    <3> QED BY <2>1, <3>1, <3>2, <3>3
  <2>3. DOMAIN <<f1, f2>> = {1, 2} /\ <<f1, f2>>[1] = f1 /\ <<f1, f2>>[2] = f2
    OBVIOUS
  <2> HIDE DEF f1, f2
  <2> QED BY <2>2, <2>3 DEF Malformed
<1>10. Has(<<f1, f2>>, KindKey) /\ Has(<<f1, f2>>, TextKey)
  <2>1. DOMAIN <<f1, f2>> = {1, 2} /\ <<f1, f2>>[1] = f1 /\ <<f1, f2>>[2] = f2
    OBVIOUS
  <2> HIDE DEF f1, f2
  <2> QED BY <1>8, <2>1 DEF Has
<1>11. Require(<<f1, f2>>, KindKey) = k /\ Require(<<f1, f2>>, TextKey) = t
  <2>1. f1.value = k /\ f2.value = t
    OBVIOUS
  <2> HIDE DEF f1, f2
  <2> QED BY <1>8, <2>1, RequireOfTwo
<1>12. Parse(message.kind, Serialize(message)) = [kind |-> k, text |-> t]
  <2> HIDE DEF f1, f2
  <2> QED BY <1>1, <1>7, <1>9, <1>10, <1>11, Zenon DEF Parse
<1>13. message = [kind |-> k, text |-> t]
  BY <1>1 DEF Message
<1> QED BY <1>6, <1>12, <1>13

--------------------------------------------------------------------------------
(****************************************************************************)
(* JSON lines                                                               *)
(****************************************************************************)

\* Place i lies in one of the sequences.
Covers(i, at, s) == \E k \in 1 .. Len(s) : \E j \in 1 .. Len(s[k]) : i = at[k] + j - 1

\* Every place of what FlattenSeq makes does.
LEMMA PlacesCover ==
    ASSUME NEW S, NEW s \in Seq(Seq(S)), NEW at, Places(at, s),
           NEW i \in 1 .. Len(FlattenSeq(s))
    PROVE  Covers(i, at, s)
<1>1. PICK e \in Seq(S), n \in Nat : e = FlattenSeq(s) /\ n = Len(s)
  BY FlattenType
<1>2. /\ at \in [1 .. n + 1 -> 1 .. Len(e) + 1]
      /\ at[1] = 1 /\ at[n + 1] = Len(e) + 1
      /\ \A k \in 1 .. n : at[k + 1] = at[k] + Len(s[k])
  BY <1>1, Zenon DEF Places
<1>3. i \in 1 .. Len(e)
  BY <1>1
<1> DEFINE I == {k \in 1 .. n + 1 : i < at[k]}
<1>4. I \in SUBSET Nat /\ I # {}
  <2>1. n + 1 \in I
    BY <1>2, <1>3
  <2> QED BY <2>1
<1>5. PICK m \in I : \A k \in I : m <= k
  <2> HIDE DEF I
  <2> QED BY <1>4, LeastNat
<1>6. m \in 1 .. n + 1 /\ i < at[m] /\ m # 1
  BY <1>2, <1>3, <1>5
<1>7. PICK k \in 1 .. n : m = k + 1
  <2>1. m - 1 \in 1 .. n /\ m = (m - 1) + 1
    BY <1>6
  <2> QED BY <2>1
<1>8. PICK a \in 1 .. Len(e) + 1 : a = at[k]
  <2>1. k \in 1 .. n + 1
    OBVIOUS
  <2> QED BY <1>2, <2>1
<1>9. a <= i
  <2>1. k \notin I
    <3>1. ~(m <= k)
      BY <1>7
    <3> HIDE DEF I
    <3> QED BY <1>5, <3>1
  <2>2. k \in 1 .. n + 1
    OBVIOUS
  <2> QED BY <1>3, <1>8, <2>1, <2>2
<1>10. i < a + Len(s[k]) /\ s[k] \in Seq(S)
  <2>1. at[k + 1] = a + Len(s[k])
    BY <1>2, <1>8
  <2>2. s[k] \in Seq(S)
    BY <1>1
  <2> QED BY <1>6, <1>7, <2>1, <2>2
<1>11. PICK j \in 1 .. Len(s[k]) : i = a + j - 1
  <2>1. Len(s[k]) \in Nat
    BY <1>10
  <2>2. i - a + 1 \in 1 .. Len(s[k]) /\ i = a + (i - a + 1) - 1
    BY <1>3, <1>9, <1>10, <2>1
  <2> QED BY <2>2
<1> QED BY <1>1, <1>8, <1>11 DEF Covers

\* The bytes that JSON escapes, as a backslash and a byte that tells which.
Special == {Backslash, Quote, Newline, CarriageReturn, Tab}

\* A byte is itself or an escape of two.
LEMMA EscapedByteForms ==
    ASSUME NEW b \in Byte
    PROVE  /\ EscapedByte(b) \in Seq(Byte)
           /\ \A i \in DOMAIN EscapedByte(b) : EscapedByte(b)[i] # Newline
           /\ b \in Special =>
                 /\ Len(EscapedByte(b)) = 2
                 /\ EscapedByte(b)[1] = Backslash
                 /\ Unescaped(EscapedByte(b)[2]) = b
           /\ b \notin Special =>
                 /\ Len(EscapedByte(b)) = 1
                 /\ EscapedByte(b)[1] = b /\ b # Backslash /\ b # Quote
<1>1. CASE b \in Special
  <2>1. PICK c \in Byte : EscapedByte(b) = <<Backslash, c>> /\ c # Newline /\ Unescaped(c) = b
    <3>1. CASE b = Backslash
      <4>1. EscapedByte(b) = <<Backslash, Backslash>>
        BY <3>1 DEF EscapedByte, Letter, Backslash, Quote, Newline, CarriageReturn, Tab
      <4>2. Backslash \in Byte /\ Backslash # Newline /\ Unescaped(Backslash) = Backslash
        BY DEF Quote, Newline, Backslash, Byte, Unescaped, Letter
      <4> QED BY <3>1, <4>1, <4>2
    <3>2. CASE b = Quote
      <4>1. EscapedByte(b) = <<Backslash, Quote>>
        BY <3>2 DEF EscapedByte, Letter, Backslash, Quote, Newline, CarriageReturn, Tab
      <4>2. Quote \in Byte /\ Quote # Newline /\ Unescaped(Quote) = Quote
        BY DEF Quote, Newline, Backslash, Byte, Unescaped, Letter
      <4> QED BY <3>2, <4>1, <4>2
    <3>3. CASE b = Newline
      <4>1. EscapedByte(b) = <<Backslash, 110>>
        BY <3>3 DEF EscapedByte, Letter, Backslash, Quote, Newline, CarriageReturn, Tab
      <4>2. 110 \in Byte /\ 110 # Newline /\ Unescaped(110) = Newline
        BY DEF Quote, Newline, Backslash, Byte, Unescaped, Letter
      <4> QED BY <3>3, <4>1, <4>2
    <3>4. CASE b = CarriageReturn
      <4>1. EscapedByte(b) = <<Backslash, 114>>
        BY <3>4 DEF EscapedByte, Letter, Backslash, Quote, Newline, CarriageReturn, Tab
      <4>2. 114 \in Byte /\ 114 # Newline /\ Unescaped(114) = CarriageReturn
        BY DEF Quote, Newline, Backslash, Byte, Unescaped, Letter
      <4> QED BY <3>4, <4>1, <4>2
    <3>5. CASE b = Tab
      <4>1. EscapedByte(b) = <<Backslash, 116>>
        BY <3>5 DEF EscapedByte, Letter, Backslash, Quote, Newline, CarriageReturn, Tab
      <4>2. 116 \in Byte /\ 116 # Newline /\ Unescaped(116) = Tab
        BY DEF Quote, Newline, Backslash, Byte, Unescaped, Letter
      <4> QED BY <3>5, <4>1, <4>2
    <3> QED BY <1>1, <3>1, <3>2, <3>3, <3>4, <3>5 DEF Special
  <2>2. PICK s \in Byte : s = Backslash /\ s # Newline
    BY DEF Backslash, Newline, Byte
  <2>3. <<s, c>> \in Seq(Byte) /\ Len(<<s, c>>) = 2 /\ <<s, c>>[1] = s /\ <<s, c>>[2] = c
    BY ShortTexts
  <2>4. DOMAIN <<s, c>> = {1, 2}
    OBVIOUS
  <2>5. EscapedByte(b) = <<s, c>>
    BY <2>1, <2>2
  <2>6. \A i \in DOMAIN <<s, c>> : <<s, c>>[i] # Newline
    BY <2>1, <2>2, <2>3, <2>4
  <2>7. /\ Len(EscapedByte(b)) = 2
        /\ EscapedByte(b)[1] = Backslash
        /\ Unescaped(EscapedByte(b)[2]) = b
    BY <2>1, <2>2, <2>3, <2>5, Zenon
  <2>8. EscapedByte(b) \in Seq(Byte)
    BY <2>3, <2>5, Zenon
  <2> QED BY <1>1, <2>5, <2>6, <2>7, <2>8, Zenon
<1>2. CASE b \notin Special
  <2>1. EscapedByte(b) = <<b>>
    BY <1>2 DEF Special, EscapedByte
  <2>2. <<b>> \in Seq(Byte) /\ Len(<<b>>) = 1 /\ <<b>>[1] = b
    BY ShortTexts
  <2>3. DOMAIN <<b>> = {1}
    OBVIOUS
  <2>4. b # Newline /\ b # Backslash /\ b # Quote
    BY <1>2 DEF Special
  <2>5. \A i \in DOMAIN <<b>> : <<b>>[i] # Newline
    BY <2>2, <2>3, <2>4
  <2> QED BY <1>2, <2>1, <2>2, <2>4, <2>5, Zenon
<1> QED BY <1>1, <1>2, Zenon

\* A text with its special bytes escaped is one line, in which every quote has its
\* backslash before it.
Quoted(e) == /\ \A i \in 1 .. Len(e) : e[i] # Newline
             /\ \A i \in 1 .. Len(e) : e[i] = Quote => i - 1 \in 1 .. Len(e) /\ e[i - 1] = Backslash

\* The escaped text, piece by piece.
LEMMA EscapeJsonPieces ==
    ASSUME NEW v \in Seq(Byte)
    PROVE  \E s \in Seq(Seq(Byte)) :
              /\ EscapeJson(v) = FlattenSeq(s) /\ Len(s) = Len(v)
              /\ \A k \in 1 .. Len(v) : s[k] = EscapedByte(v[k])
<1>0. DOMAIN v = 1 .. Len(v) /\ Len(v) \in Nat /\ \A k \in 1 .. Len(v) : v[k] \in Byte
  OBVIOUS
<1> DEFINE s == [i \in DOMAIN v |-> EscapedByte(v[i])]
<1>1. s \in [1 .. Len(v) -> Seq(Byte)]
  <2>1. \A k \in 1 .. Len(v) : EscapedByte(v[k]) \in Seq(Byte)
    BY <1>0, EscapedByteForms
  <2> QED BY <1>0, <2>1
<1>2. \A k \in 1 .. Len(v) : s[k] = EscapedByte(v[k])
  BY <1>0
<1>3. EscapeJson(v) = FlattenSeq(s)
  BY Zenon DEF EscapeJson
<1> HIDE DEF s
<1>4. s \in Seq(Seq(Byte)) /\ Len(s) = Len(v)
  BY <1>0, <1>1, BytewiseType
<1> QED BY <1>2, <1>3, <1>4

\* An escaped text has quotes only behind a backslash, and no newline.
LEMMA EscapeJsonQuoted ==
    ASSUME NEW v \in Seq(Byte)
    PROVE  EscapeJson(v) \in Seq(Byte) /\ Quoted(EscapeJson(v))
<1>1. PICK s \in Seq(Seq(Byte)) :
         /\ EscapeJson(v) = FlattenSeq(s) /\ Len(s) = Len(v)
         /\ \A k \in 1 .. Len(v) : s[k] = EscapedByte(v[k])
  BY EscapeJsonPieces
<1>2. PICK e \in Seq(Byte) : e = FlattenSeq(s)
  BY FlattenType
<1>3. PICK at : Places(at, s)
  BY FlattenPlaces
<1>4. PICK n \in Nat : n = Len(s) /\ n = Len(v)
  BY <1>1
<1>5. /\ at \in [1 .. n + 1 -> 1 .. Len(e) + 1]
      /\ \A k \in 1 .. n :
            /\ at[k + 1] = at[k] + Len(s[k])
            /\ \A j \in 1 .. Len(s[k]) : e[at[k] + j - 1] = s[k][j]
  BY <1>2, <1>3, <1>4, Zenon DEF Places
<1>6. ASSUME NEW i \in 1 .. Len(e)
      PROVE  /\ e[i] # Newline
             /\ e[i] = Quote => i - 1 \in 1 .. Len(e) /\ e[i - 1] = Backslash
  <2>1. PICK k \in 1 .. n : \E j \in 1 .. Len(s[k]) : i = at[k] + j - 1
    <3>1. i \in 1 .. Len(FlattenSeq(s))
      BY <1>2
    <3>2. Covers(i, at, s)
      BY <1>3, <3>1, PlacesCover
    <3> QED BY <1>4, <3>2 DEF Covers
  <2>2. PICK t \in Seq(Byte), b \in Byte : t = s[k] /\ b = v[k] /\ t = EscapedByte(b)
    <3>1. v[k] \in Byte
      BY <1>4
    <3>2. s[k] = EscapedByte(v[k]) /\ s[k] \in Seq(Byte)
      BY <1>1, <1>4
    <3> QED BY <3>1, <3>2
  <2>3. PICK a \in 1 .. Len(e) + 1 : a = at[k]
    <3>1. k \in 1 .. n + 1
      OBVIOUS
    <3> QED BY <1>5, <3>1
  <2>4. PICK j \in 1 .. Len(t) : i = a + j - 1
    BY <2>1, <2>2, <2>3
  <2>5. \A l \in 1 .. Len(t) : e[a + l - 1] = t[l]
    BY <1>5, <2>2, <2>3, Zenon
  <2>6. e[i] = t[j]
    BY <2>4, <2>5
  <2>7. e[i] # Newline
    <3>1. \A l \in DOMAIN t : t[l] # Newline
      BY <2>2, EscapedByteForms
    <3> QED BY <2>6, <3>1
  <2>8. ASSUME e[i] = Quote PROVE i - 1 \in 1 .. Len(e) /\ e[i - 1] = Backslash
    <3>1. CASE b \in Special
      <4>1. Len(t) = 2 /\ t[1] = Backslash
        BY <2>2, <3>1, EscapedByteForms
      <4>2. j # 1
        <5>1. Backslash # Quote
          BY DEF Backslash, Quote
        <5> QED BY <2>6, <2>8, <4>1, <5>1
      <4>3. j = 2 /\ i = a + 1
        BY <2>4, <4>1, <4>2
      <4>4. e[a + 1 - 1] = t[1]
        BY <2>5, <4>1
      <4>5. a + 1 - 1 = i - 1 /\ i - 1 \in 1 .. Len(e)
        BY <4>3
      <4> QED BY <4>1, <4>4, <4>5
    <3>2. CASE b \notin Special
      <4>1. Len(t) = 1 /\ t[1] = b /\ b # Quote
        BY <2>2, <3>2, EscapedByteForms
      <4>2. j = 1
        BY <4>1
      <4> QED BY <2>6, <2>8, <4>1, <4>2
    <3> QED BY <3>1, <3>2
  <2> QED BY <2>7, <2>8
<1>7. Quoted(e)
  BY <1>6 DEF Quoted
<1> QED BY <1>1, <1>2, <1>7

\* How ExtractJsonField reads on in a frame of n bytes.
JsonEnds(f, n, i) == f[i] = Quote \/ (f[i] = Backslash /\ i = n)
\* What the reader of a string takes at a position.
JsonPiece(f, n) == [i \in 1 .. n |-> IF JsonEnds(f, n, i) THEN <<>>
                                     ELSE IF f[i] = Backslash THEN <<Unescaped(f[i + 1])>>
                                     ELSE <<f[i]>>]
\* Where it goes on.
JsonNext(f, n) == [i \in 1 .. n |-> IF JsonEnds(f, n, i) THEN n + 1
                                    ELSE IF f[i] = Backslash THEN i + 2 ELSE i + 1]

\* Text e stands in f behind place p, and a quote behind it.
QuotedAt(f, p, e) ==
    /\ p + Len(e) + 1 <= Len(f)
    /\ \A j \in 1 .. Len(e) : f[p + j] = e[j]
    /\ f[p + Len(e) + 1] = Quote

\* From where an escaped text stands, up to the quote behind it, it reads that text.
LEMMA EscapedReadBack ==
    ASSUME NEW v \in Seq(Byte), NEW f \in Seq(Byte), NEW n \in Nat, n = Len(f),
           NEW p \in Nat, QuotedAt(f, p, EscapeJson(v))
    PROVE  ReadFrom(p + 1, n, JsonPiece(f, n), JsonNext(f, n)) = v
<1>1. PICK s \in Seq(Seq(Byte)) :
         /\ EscapeJson(v) = FlattenSeq(s) /\ Len(s) = Len(v)
         /\ \A k \in 1 .. Len(v) : s[k] = EscapedByte(v[k])
  BY EscapeJsonPieces
<1>2. PICK e \in Seq(Byte) : e = FlattenSeq(s) /\ e = EscapeJson(v)
  BY <1>1, FlattenType
<1>3. PICK at : Places(at, s)
  BY FlattenPlaces
<1>4. PICK m \in Nat : m = Len(s) /\ m = Len(v)
  BY <1>1
<1>5. /\ at \in [1 .. m + 1 -> 1 .. Len(e) + 1]
      /\ at[1] = 1 /\ at[m + 1] = Len(e) + 1
      /\ \A k \in 1 .. m :
            /\ at[k + 1] = at[k] + Len(s[k])
            /\ \A j \in 1 .. Len(s[k]) : e[at[k] + j - 1] = s[k][j]
  BY <1>2, <1>3, <1>4, Zenon DEF Places
<1>6. /\ p + Len(e) + 1 <= n /\ f[p + Len(e) + 1] = Quote
      /\ \A j \in 1 .. Len(e) : f[p + j] = e[j]
  BY <1>2 DEF QuotedAt
<1>7. PICK piece, next : piece = JsonPiece(f, n) /\ next = JsonNext(f, n)
  OBVIOUS
<1>8. \A i \in 1 .. n : next[i] \in i + 1 .. n + 1
  <2> SUFFICES ASSUME NEW i \in 1 .. n PROVE next[i] \in i + 1 .. n + 1
    OBVIOUS
  <2>1. next[i] = IF JsonEnds(f, n, i) THEN n + 1
                  ELSE IF f[i] = Backslash THEN i + 2 ELSE i + 1
    BY <1>7 DEF JsonNext
  <2>2. ~JsonEnds(f, n, i) /\ f[i] = Backslash => i # n
    BY DEF JsonEnds
  <2> QED BY <2>1, <2>2
<1> DEFINE to == [k \in 1 .. m + 1 |-> p + at[k]]
<1>9. to \in [1 .. Len(v) + 1 -> 1 .. n + 1]
  <2>1. \A k \in 1 .. m + 1 : p + at[k] \in 1 .. n + 1
    <3> SUFFICES ASSUME NEW k \in 1 .. m + 1 PROVE p + at[k] \in 1 .. n + 1
      OBVIOUS
    <3>1. at[k] \in 1 .. Len(e) + 1
      BY <1>5
    <3> QED BY <3>1, <1>6
  <2> QED BY <2>1, <1>4
<1>10. ASSUME NEW k \in 1 .. m
       PROVE  to[k] \in 1 .. n /\ piece[to[k]] = <<v[k]>> /\ next[to[k]] = to[k + 1]
  <2>1. PICK a \in 1 .. Len(e) + 1, z \in 1 .. Len(e) + 1 : a = at[k] /\ z = at[k + 1]
    <3>1. k \in 1 .. m + 1 /\ k + 1 \in 1 .. m + 1
      OBVIOUS
    <3> QED BY <1>5, <3>1
  <2>2. to[k] = p + a /\ to[k + 1] = p + z
    BY <2>1
  <2> HIDE DEF to
  <2>3. PICK t \in Seq(Byte), b \in Byte : t = s[k] /\ b = v[k] /\ t = EscapedByte(b)
    <3>1. v[k] \in Byte
      BY <1>4
    <3>2. s[k] = EscapedByte(v[k]) /\ s[k] \in Seq(Byte)
      BY <1>1, <1>4
    <3> QED BY <3>1, <3>2
  <2>4. z = a + Len(t) /\ \A j \in 1 .. Len(t) : e[a + j - 1] = t[j]
    BY <1>5, <2>1, <2>3, Zenon
  <2>5. CASE b \in Special
    <3>1. Len(t) = 2 /\ t[1] = Backslash /\ Unescaped(t[2]) = b
      BY <2>3, <2>5, EscapedByteForms
    <3>2. z = a + 2 /\ a \in 1 .. Len(e) /\ a + 1 \in 1 .. Len(e)
      BY <2>4, <3>1
    <3>3. e[a] = t[1] /\ e[a + 1] = t[2]
      <4>1. e[a + 1 - 1] = t[1] /\ e[a + 2 - 1] = t[2]
        BY <2>4, <3>1
      <4>2. a + 1 - 1 = a /\ a + 2 - 1 = a + 1
        OBVIOUS
      <4> QED BY <4>1, <4>2
    <3>4. f[p + a] = t[1] /\ f[p + a + 1] = t[2] /\ p + a \in 1 .. n /\ p + a # n
      <4>1. p + (a + 1) = p + a + 1
        OBVIOUS
      <4>2. p + a \in 1 .. n /\ p + a # n
        BY <1>6, <3>2
      <4> QED BY <1>6, <3>2, <3>3, <4>1, <4>2
    <3>5. ~JsonEnds(f, n, p + a)
      BY <3>1, <3>4 DEF JsonEnds, Backslash, Quote
    <3>6. piece[p + a] = <<Unescaped(f[p + a + 1])>> /\ next[p + a] = p + a + 2
      BY <1>7, <3>1, <3>4, <3>5 DEF JsonPiece, JsonNext
    <3>7. p + z = p + a + 2
      BY <3>2
    <3> QED BY <2>2, <2>3, <3>1, <3>4, <3>6, <3>7
  <2>6. CASE b \notin Special
    <3>1. Len(t) = 1 /\ t[1] = b /\ b # Backslash /\ b # Quote
      BY <2>3, <2>6, EscapedByteForms
    <3>2. z = a + 1 /\ a \in 1 .. Len(e)
      BY <2>4, <3>1
    <3>3. e[a] = b
      <4>1. e[a + 1 - 1] = t[1]
        BY <2>4, <3>1
      <4>2. a + 1 - 1 = a
        OBVIOUS
      <4> QED BY <3>1, <4>1, <4>2
    <3>4. f[p + a] = b /\ p + a \in 1 .. n
      BY <1>6, <3>2, <3>3
    <3>5. ~JsonEnds(f, n, p + a)
      BY <3>1, <3>4 DEF JsonEnds
    <3>6. piece[p + a] = <<f[p + a]>> /\ next[p + a] = p + a + 1
      BY <1>7, <3>1, <3>4, <3>5 DEF JsonPiece, JsonNext
    <3>7. p + z = p + a + 1
      BY <3>2
    <3> QED BY <2>2, <2>3, <3>4, <3>6, <3>7
  <2> QED BY <2>5, <2>6
<1>11. to[1] = p + 1 /\ to[Len(v) + 1] = p + Len(e) + 1
  <2>1. 1 \in 1 .. m + 1 /\ m + 1 \in 1 .. m + 1
    OBVIOUS
  <2>2. to[1] = p + at[1] /\ to[m + 1] = p + at[m + 1]
    BY <2>1
  <2> HIDE DEF to
  <2>3. p + (Len(e) + 1) = p + Len(e) + 1
    OBVIOUS
  <2> QED BY <1>4, <1>5, <2>2, <2>3
<1> HIDE DEF to
<1>12. PICK q \in 1 .. n : q = p + Len(e) + 1 /\ f[q] = Quote
  BY <1>6
<1>13. q # n + 1 => piece[q] = <<>> /\ next[q] = n + 1
  BY <1>7, <1>12 DEF JsonPiece, JsonNext, JsonEnds
<1>15. Copies(Byte, v, p + 1, q, n, piece, next)
  BY <1>4, <1>8, <1>9, <1>10, <1>11, <1>12, <1>13 DEF Copies
<1>16. ReadFrom(p + 1, n, piece, next) = v
  BY <1>15, ReadFromCopies
<1> QED BY <1>7, <1>16

\* The texts a frame is put together from.
LEMMA HeadText ==
    ASSUME NEW S, NEW a \in S, NEW b \in S, NEW c \in S, NEW d \in S, NEW e \in S, NEW g \in S,
           NEW h, h = <<a, b, c, d, e, g>>
    PROVE  /\ h \in Seq(S) /\ Len(h) = 6
           /\ h[1] = a /\ h[2] = b /\ h[3] = c /\ h[4] = d /\ h[5] = e /\ h[6] = g
           /\ h = Cat(Cat(<<a, b>>, <<c>>), <<d, e, g>>)
<1>1. /\ h \in Seq(S) /\ Len(h) = 6
      /\ h[1] = a /\ h[2] = b /\ h[3] = c /\ h[4] = d /\ h[5] = e /\ h[6] = g
  OBVIOUS
<1>2. h = (<<a, b>> \o <<c>>) \o <<d, e, g>>
  OBVIOUS
<1> QED BY <1>1, <1>2, Zenon DEF Cat

\* The same of seven bytes.
LEMMA MiddleText ==
    ASSUME NEW S, NEW a \in S, NEW b \in S, NEW c \in S, NEW d \in S, NEW e \in S,
           NEW g \in S, NEW i \in S,
           NEW h, h = <<a, b, c, d, e, g, i>>
    PROVE  /\ h \in Seq(S) /\ Len(h) = 7
           /\ h[1] = a /\ h[2] = b /\ h[3] = c /\ h[4] = d /\ h[5] = e /\ h[6] = g /\ h[7] = i
           /\ h = Cat(Cat(<<a, b, c>>, <<d>>), <<e, g, i>>)
<1>1. /\ h \in Seq(S) /\ Len(h) = 7
      /\ h[1] = a /\ h[2] = b /\ h[3] = c /\ h[4] = d /\ h[5] = e /\ h[6] = g /\ h[7] = i
  OBVIOUS
<1>2. h = (<<a, b, c>> \o <<d>>) \o <<e, g, i>>
  OBVIOUS
<1> QED BY <1>1, <1>2, Zenon DEF Cat

\* Three bytes.
LEMMA Triple ==
    ASSUME NEW S, NEW x \in S, NEW y \in S, NEW z \in S
    PROVE  /\ <<x, y, z>> \in Seq(S) /\ Len(<<x, y, z>>) = 3
           /\ <<x, y, z>>[1] = x /\ <<x, y, z>>[2] = y /\ <<x, y, z>>[3] = z
OBVIOUS

\* The nine texts EncodeJsonFrame joins, as five.
Nine(S, x1, x2, x3, ek, x5, x6, ep, x9) ==
    /\ x1 \in Seq(S) /\ x2 \in Seq(S) /\ x3 \in Seq(S) /\ ek \in Seq(S)
    /\ x5 \in Seq(S) /\ x6 \in Seq(S) /\ ep \in Seq(S) /\ x9 \in Seq(S)

\* Nine texts grouped as five.
LEMMA NineAreFive ==
    ASSUME NEW S, NEW x1, NEW x2, NEW x3, NEW ek, NEW x5, NEW x6, NEW ep, NEW x9,
           Nine(S, x1, x2, x3, ek, x5, x6, ep, x9)
    PROVE  Cat(Cat(Cat(Cat(Cat(Cat(Cat(Cat(x1, x2), x3), ek), x5), x6), x3), ep), x9)
              = Cat(Cat(Cat(x1, x2), x3), Cat(ek, Cat(Cat(Cat(x5, x6), x3), Cat(ep, x9))))
<1>0. /\ x1 \in Seq(S) /\ x2 \in Seq(S) /\ x3 \in Seq(S) /\ ek \in Seq(S)
      /\ x5 \in Seq(S) /\ x6 \in Seq(S) /\ ep \in Seq(S) /\ x9 \in Seq(S)
  BY DEF Nine
<1>6. PICK h, m : h = Cat(Cat(x1, x2), x3) /\ m = Cat(Cat(x5, x6), x3)
  OBVIOUS
<1>1. h \in Seq(S) /\ m \in Seq(S) /\ Cat(h, ek) \in Seq(S) /\ Cat(x5, x6) \in Seq(S)
  BY <1>0, <1>6, CatType
<1>2. PICK b \in Seq(S) : b = Cat(h, ek)
  BY <1>1
<1>3. Cat(Cat(Cat(b, x5), x6), x3) = Cat(b, m)
  <2>1. Cat(Cat(b, x5), x6) = Cat(b, Cat(x5, x6))
    BY <1>0, Regroup
  <2>2. Cat(Cat(b, Cat(x5, x6)), x3) = Cat(b, Cat(Cat(x5, x6), x3))
    BY <1>0, <1>1, Regroup
  <2> QED BY <1>6, <2>1, <2>2, Zenon
<1>4. Cat(Cat(Cat(b, m), ep), x9) = Cat(b, Cat(m, Cat(ep, x9)))
  <2>1. Cat(b, m) \in Seq(S) /\ Cat(ep, x9) \in Seq(S) /\ Cat(m, ep) \in Seq(S)
    BY <1>0, <1>1, CatType
  <2>2. Cat(Cat(Cat(b, m), ep), x9) = Cat(Cat(b, m), Cat(ep, x9))
    BY <1>0, <2>1, Regroup
  <2>3. Cat(Cat(b, m), Cat(ep, x9)) = Cat(b, Cat(m, Cat(ep, x9)))
    BY <1>0, <1>1, <2>1, Regroup
  <2> QED BY <2>2, <2>3, Zenon
<1>5. Cat(b, Cat(m, Cat(ep, x9))) = Cat(h, Cat(ek, Cat(m, Cat(ep, x9))))
  <2>1. Cat(m, Cat(ep, x9)) \in Seq(S)
    BY <1>0, <1>1, CatType
  <2> QED BY <1>0, <1>1, <1>2, <2>1, Regroup
<1> QED BY <1>6, <1>2, <1>3, <1>4, <1>5, Zenon

\* What stands before the kind, between the two texts and behind the payload.
JsonHead == <<OpenBrace, Quote, 107, Quote, Colon, Quote>>
JsonMiddle == <<Quote, Comma, Quote, 112, Quote, Colon, Quote>>
JsonFoot == <<Quote, CloseBrace>>

\* A JSON frame, from one end to the other.
LEMMA JsonFrameText ==
    ASSUME NEW kind \in Seq(Byte), NEW payload \in Seq(Byte)
    PROVE  EncodeJsonFrame(kind, payload)
             = Cat(JsonHead, Cat(EscapeJson(kind), Cat(JsonMiddle, Cat(EscapeJson(payload), JsonFoot))))
<1>1. PICK ek \in Seq(Byte), ep \in Seq(Byte) : ek = EscapeJson(kind) /\ ep = EscapeJson(payload)
  BY EscapeJsonQuoted
<1>2. PICK ob \in Byte, qu \in Byte, kk \in Byte, co \in Byte, cm \in Byte, pp \in Byte, cb \in Byte :
         /\ ob = OpenBrace /\ qu = Quote /\ kk = 107 /\ co = Colon /\ cm = Comma /\ pp = 112
         /\ cb = CloseBrace
  BY DEF OpenBrace, Quote, Colon, Comma, CloseBrace, Byte
<1>3. /\ <<ob, qu>> \in Seq(Byte) /\ <<kk>> \in Seq(Byte) /\ <<qu, co, qu>> \in Seq(Byte)
      /\ <<qu, cm, qu>> \in Seq(Byte) /\ <<pp>> \in Seq(Byte) /\ <<qu, cb>> \in Seq(Byte)
  <2>1. /\ <<ob, qu>> \in Seq(Byte) /\ <<kk>> \in Seq(Byte)
        /\ <<pp>> \in Seq(Byte) /\ <<qu, cb>> \in Seq(Byte)
    BY ShortTexts
  <2>2. <<qu, co, qu>> \in Seq(Byte) /\ <<qu, cm, qu>> \in Seq(Byte)
    BY Triple
  <2> QED BY <2>1, <2>2
<1>4. PICK x1 \in Seq(Byte), x2 \in Seq(Byte), x3 \in Seq(Byte),
           x5 \in Seq(Byte), x6 \in Seq(Byte), x9 \in Seq(Byte) :
         /\ x1 = <<ob, qu>> /\ x2 = <<kk>> /\ x3 = <<qu, co, qu>>
         /\ x5 = <<qu, cm, qu>> /\ x6 = <<pp>> /\ x9 = <<qu, cb>>
  BY <1>3, Zenon
<1>5. EncodeJsonFrame(kind, payload)
        = Cat(Cat(Cat(Cat(Cat(Cat(Cat(Cat(x1, x2), x3), ek), x5), x6), x3), ep), x9)
  BY <1>1, <1>2, <1>4, Zenon DEF EncodeJsonFrame, Cat, KindKey, PayloadKey
<1>6. JsonHead = Cat(Cat(x1, x2), x3)
  <2>1. PICK h : h = <<ob, qu, kk, qu, co, qu>>
    OBVIOUS
  <2>2. h = Cat(Cat(<<ob, qu>>, <<kk>>), <<qu, co, qu>>)
    BY <2>1, HeadText
  <2>3. JsonHead = h
    BY <1>2, <2>1, Zenon DEF JsonHead
  <2> QED BY <1>4, <2>2, <2>3, Zenon
<1>7. JsonMiddle = Cat(Cat(x5, x6), x3)
  <2>1. PICK h : h = <<qu, cm, qu, pp, qu, co, qu>>
    OBVIOUS
  <2>2. h = Cat(Cat(<<qu, cm, qu>>, <<pp>>), <<qu, co, qu>>)
    BY <2>1, MiddleText, SMTT(30)
  <2>3. JsonMiddle = h
    BY <1>2, <2>1, Zenon DEF JsonMiddle
  <2> QED BY <1>4, <2>2, <2>3, Zenon
<1>8. JsonFoot = x9
  BY <1>2, <1>4, Zenon DEF JsonFoot
<1>9. Cat(Cat(Cat(Cat(Cat(Cat(Cat(Cat(x1, x2), x3), ek), x5), x6), x3), ep), x9)
        = Cat(JsonHead, Cat(ek, Cat(JsonMiddle, Cat(ep, x9))))
  <2>1. Nine(Byte, x1, x2, x3, ek, x5, x6, ep, x9)
    BY DEF Nine
  <2>2. Cat(Cat(Cat(Cat(Cat(Cat(Cat(Cat(x1, x2), x3), ek), x5), x6), x3), ep), x9)
          = Cat(Cat(Cat(x1, x2), x3), Cat(ek, Cat(Cat(Cat(x5, x6), x3), Cat(ep, x9))))
    BY <2>1, NineAreFive
  <2> QED BY <1>6, <1>7, <2>2, Zenon
<1> QED BY <1>1, <1>5, <1>8, <1>9, Zenon

\* The layout of a JSON frame, q being the place of the quote behind the kind.
JsonForm(f, ek, ep, q) ==
    /\ f \in Seq(Byte) /\ q = 7 + Len(ek) /\ Len(f) = q + 8 + Len(ep)
    /\ f[1] = OpenBrace /\ f[2] = Quote /\ f[3] = 107 /\ f[4] = Quote /\ f[5] = Colon
    /\ f[6] = Quote
    /\ \A j \in 1 .. Len(ek) : f[6 + j] = ek[j]
    /\ f[q] = Quote /\ f[q + 1] = Comma
    /\ f[q + 2] = Quote /\ f[q + 3] = 112 /\ f[q + 4] = Quote /\ f[q + 5] = Colon
    /\ f[q + 6] = Quote
    /\ \A j \in 1 .. Len(ep) : f[q + 6 + j] = ep[j]
    /\ f[q + 7 + Len(ep)] = Quote /\ f[q + 8 + Len(ep)] = CloseBrace

\* The bytes of these texts.
LEMMA ConstantTexts ==
    /\ JsonHead \in Seq(Byte) /\ Len(JsonHead) = 6
    /\ JsonHead[1] = OpenBrace /\ JsonHead[2] = Quote /\ JsonHead[3] = 107
    /\ JsonHead[4] = Quote /\ JsonHead[5] = Colon /\ JsonHead[6] = Quote
    /\ JsonMiddle \in Seq(Byte) /\ Len(JsonMiddle) = 7
    /\ JsonMiddle[1] = Quote /\ JsonMiddle[2] = Comma /\ JsonMiddle[3] = Quote
    /\ JsonMiddle[4] = 112
    /\ JsonMiddle[5] = Quote /\ JsonMiddle[6] = Colon /\ JsonMiddle[7] = Quote
    /\ JsonFoot \in Seq(Byte) /\ Len(JsonFoot) = 2 /\ JsonFoot[1] = Quote
    /\ JsonFoot[2] = CloseBrace
BY DEF JsonHead, JsonMiddle, JsonFoot, OpenBrace, Quote, Colon, Comma, CloseBrace, Byte

\* What is known of a frame, byte by byte.
LEMMA JsonFrameForm ==
    ASSUME NEW kind \in Seq(Byte), NEW payload \in Seq(Byte)
    PROVE  JsonForm(EncodeJsonFrame(kind, payload), EscapeJson(kind), EscapeJson(payload),
                    7 + Len(EscapeJson(kind)))
<1>1. PICK ek \in Seq(Byte), ep \in Seq(Byte) : ek = EscapeJson(kind) /\ ep = EscapeJson(payload)
  BY EscapeJsonQuoted
<1>2. PICK f : f = EncodeJsonFrame(kind, payload)
  OBVIOUS
<1>3. f = Cat(JsonHead, Cat(ek, Cat(JsonMiddle, Cat(ep, JsonFoot))))
  BY <1>1, <1>2, JsonFrameText
<1>4. /\ Stands(Byte, f, 0, JsonHead) /\ Stands(Byte, f, Len(JsonHead), ek)
      /\ Stands(Byte, f, Len(JsonHead) + Len(ek), JsonMiddle)
      /\ Stands(Byte, f, Len(JsonHead) + Len(ek) + Len(JsonMiddle), ep)
      /\ Stands(Byte, f, Len(JsonHead) + Len(ek) + Len(JsonMiddle) + Len(ep), JsonFoot)
      /\ f \in Seq(Byte)
      /\ Len(f) = Len(JsonHead) + Len(ek) + Len(JsonMiddle) + Len(ep) + Len(JsonFoot)
  <2>1. PICK hd \in Seq(Byte), md \in Seq(Byte), ft \in Seq(Byte) :
           hd = JsonHead /\ md = JsonMiddle /\ ft = JsonFoot
    BY ConstantTexts
  <2>2. f = Cat(hd, Cat(ek, Cat(md, Cat(ep, ft))))
    BY <1>3, <2>1, Zenon
  <2>3. /\ Stands(Byte, f, 0, hd) /\ Stands(Byte, f, Len(hd), ek)
        /\ Stands(Byte, f, Len(hd) + Len(ek), md)
        /\ Stands(Byte, f, Len(hd) + Len(ek) + Len(md), ep)
        /\ Stands(Byte, f, Len(hd) + Len(ek) + Len(md) + Len(ep), ft)
        /\ f \in Seq(Byte) /\ Len(f) = Len(hd) + Len(ek) + Len(md) + Len(ep) + Len(ft)
    <3>1. Five(Byte, f, hd, ek, md, ep, ft)
      BY <2>2 DEF Five
    <3> QED BY <3>1, FiveStand
  <2> QED BY <2>1, <2>3, Zenon
<1>5. PICK K \in Nat, P \in Nat, q \in Nat : K = Len(ek) /\ P = Len(ep) /\ q = 7 + K
  OBVIOUS
<1>6. Len(JsonHead) = 6 /\ Len(JsonMiddle) = 7 /\ Len(JsonFoot) = 2
  BY ConstantTexts
<1>7. /\ Len(JsonHead) + Len(ek) = q - 1 /\ Len(JsonHead) + Len(ek) + Len(JsonMiddle) = q + 6
      /\ Len(JsonHead) + Len(ek) + Len(JsonMiddle) + Len(ep) = q + 6 + P /\ Len(f) = q + 8 + P
  BY <1>4, <1>5, <1>6
<1>8. /\ \A j \in 1 .. 6 : f[0 + j] = JsonHead[j]
      /\ \A j \in 1 .. K : f[6 + j] = ek[j]
      /\ \A j \in 1 .. 7 : f[(q - 1) + j] = JsonMiddle[j]
      /\ \A j \in 1 .. P : f[(q + 6) + j] = ep[j]
      /\ \A j \in 1 .. 2 : f[(q + 6 + P) + j] = JsonFoot[j]
  BY <1>4, <1>5, <1>6, <1>7, ZenonT(40) DEF Stands
<1>9. f[1] = OpenBrace /\ f[2] = Quote /\ f[3] = 107 /\ f[4] = Quote /\ f[5] = Colon /\ f[6] = Quote
  BY <1>8, ConstantTexts
<1>10. /\ f[q] = Quote /\ f[q + 1] = Comma
       /\ f[q + 2] = Quote /\ f[q + 3] = 112 /\ f[q + 4] = Quote /\ f[q + 5] = Colon
       /\ f[q + 6] = Quote
  <2>1. /\ f[(q - 1) + 1] = Quote /\ f[(q - 1) + 2] = Comma /\ f[(q - 1) + 3] = Quote
        /\ f[(q - 1) + 4] = 112 /\ f[(q - 1) + 5] = Quote /\ f[(q - 1) + 6] = Colon
        /\ f[(q - 1) + 7] = Quote
    BY <1>8, ConstantTexts
  <2>2. /\ (q - 1) + 1 = q /\ (q - 1) + 2 = q + 1 /\ (q - 1) + 3 = q + 2 /\ (q - 1) + 4 = q + 3
        /\ (q - 1) + 5 = q + 4 /\ (q - 1) + 6 = q + 5 /\ (q - 1) + 7 = q + 6
    OBVIOUS
  <2> QED BY <2>1, <2>2, Zenon
<1>11. f[q + 7 + P] = Quote /\ f[q + 8 + P] = CloseBrace
  <2>1. f[(q + 6 + P) + 1] = Quote /\ f[(q + 6 + P) + 2] = CloseBrace
    BY <1>8, ConstantTexts
  <2>2. (q + 6 + P) + 1 = q + 7 + P /\ (q + 6 + P) + 2 = q + 8 + P
    OBVIOUS
  <2> QED BY <2>1, <2>2, Zenon
<1>12. JsonForm(f, ek, ep, q)
  BY <1>4, <1>5, <1>7, <1>8, <1>9, <1>10, <1>11 DEF JsonForm
<1> QED BY <1>1, <1>2, <1>5, <1>12

\* The text that ExtractJsonField looks for stands at place i.
KeyAt(f, c, i) ==
    /\ i \in 1 .. Len(f) - 4
    /\ f[i] = Quote /\ f[i + 1] = c /\ f[i + 2] = Quote /\ f[i + 3] = Colon /\ f[i + 4] = Quote

\* That text, and the places where it is found.
Needle(c) == <<Quote>> \o <<c>> \o <<Quote, Colon, Quote>>
\* The places of a needle.
Found(f, needle) ==
    {i \in 1 .. Len(f) - Len(needle) + 1 : SubSeq(f, i, i + Len(needle) - 1) = needle}

\* The bytes of a needle.
LEMMA NeedleText ==
    ASSUME NEW c \in Byte, NEW needle, needle = Needle(c)
    PROVE  /\ needle \in Seq(Byte) /\ Len(needle) = 5
           /\ needle[1] = Quote /\ needle[2] = c /\ needle[3] = Quote /\ needle[4] = Colon
           /\ needle[5] = Quote
<1>1. PICK q \in Byte, o \in Byte : q = Quote /\ o = Colon
  BY DEF Quote, Colon, Byte
<1>2. PICK t : t = <<q, c, q, o, q>>
  OBVIOUS
<1>3. /\ t \in Seq(Byte) /\ Len(t) = 5
      /\ t[1] = q /\ t[2] = c /\ t[3] = q /\ t[4] = o /\ t[5] = q
  BY <1>2
<1>5. t = (<<q>> \o <<c>>) \o <<q, o, q>>
  BY <1>2
<1>4. needle = t
  BY <1>1, <1>5, Zenon DEF Needle
<1> QED BY <1>1, <1>3, <1>4, Zenon

\* A needle stands exactly where the key does.
LEMMA NeedleStands ==
    ASSUME NEW f \in Seq(Byte), NEW c \in Byte, NEW needle, needle = Needle(c)
    PROVE  Found(f, needle) = {i \in 1 .. Len(f) - 4 : KeyAt(f, c, i)}
<1>1. /\ needle \in Seq(Byte) /\ Len(needle) = 5
      /\ needle[1] = Quote /\ needle[2] = c /\ needle[3] = Quote /\ needle[4] = Colon
      /\ needle[5] = Quote
  BY NeedleText
<1>2. PICK n \in Nat : n = Len(f)
  OBVIOUS
<1>3. ASSUME NEW i \in 1 .. n - 4 PROVE SubSeq(f, i, i + 4) = needle <=> KeyAt(f, c, i)
  <2>1. ASSUME KeyAt(f, c, i) PROVE SubSeq(f, i, i + 4) = needle
    <3>1. f[i] = Quote /\ f[i + 1] = c /\ f[i + 2] = Quote /\ f[i + 3] = Colon /\ f[i + 4] = Quote
      BY <2>1 DEF KeyAt
    <3>2. PICK p \in Nat : i = p + 1 /\ p + 5 <= n
      <4>1. i - 1 \in Nat /\ i = (i - 1) + 1 /\ (i - 1) + 5 <= n
        OBVIOUS
      <4> QED BY <4>1
    <3>3. /\ f[p + 1] = Quote /\ f[p + 2] = c /\ f[p + 3] = Quote /\ f[p + 4] = Colon
          /\ f[p + 5] = Quote
      <4>1. i = p + 1 /\ i + 1 = p + 2 /\ i + 2 = p + 3 /\ i + 3 = p + 4 /\ i + 4 = p + 5
        BY <3>2
      <4> QED BY <3>1, <4>1
    <3>4. \A j \in 1 .. 5 : f[p + j] = needle[j]
      <4> SUFFICES ASSUME NEW j \in 1 .. 5 PROVE f[p + j] = needle[j]
        OBVIOUS
      <4>1. j \in {1, 2, 3, 4, 5}
        OBVIOUS
      <4> QED BY <1>1, <3>3, <4>1
    <3>5. SubSeq(f, p + 1, p + Len(needle)) = needle
      BY <1>1, <1>2, <3>2, <3>4, SubSeqIs
    <3>6. p + 5 = i + 4 /\ p + 1 = i
      BY <3>2
    <3> QED BY <1>1, <3>5, <3>6, Zenon
  <2>2. ASSUME SubSeq(f, i, i + 4) = needle PROVE KeyAt(f, c, i)
    <3>1. i \in Int /\ i + 4 \in Int /\ \A j \in i .. i + 4 : f[j] \in Byte
      BY <1>2
    <3>2. \A j \in 1 .. (i + 4) - i + 1 : SubSeq(f, i, i + 4)[j] = f[i + j - 1]
      BY <3>1, SubSeqProperties
    <3>3. /\ SubSeq(f, i, i + 4)[1] = f[i + 1 - 1] /\ SubSeq(f, i, i + 4)[2] = f[i + 2 - 1]
          /\ SubSeq(f, i, i + 4)[3] = f[i + 3 - 1] /\ SubSeq(f, i, i + 4)[4] = f[i + 4 - 1]
          /\ SubSeq(f, i, i + 4)[5] = f[i + 5 - 1]
      <4>1. (i + 4) - i + 1 = 5
        OBVIOUS
      <4>2. \A j \in 1 .. 5 : SubSeq(f, i, i + 4)[j] = f[i + j - 1]
        BY <3>2, <4>1, Zenon
      <4>3. 1 \in 1 .. 5 /\ 2 \in 1 .. 5 /\ 3 \in 1 .. 5 /\ 4 \in 1 .. 5 /\ 5 \in 1 .. 5
        OBVIOUS
      <4> QED BY <4>2, <4>3, Zenon
    <3>4. i + 1 - 1 = i /\ i + 2 - 1 = i + 1 /\ i + 3 - 1 = i + 2 /\ i + 4 - 1 = i + 3
          /\ i + 5 - 1 = i + 4
      OBVIOUS
    <3>5. f[i] = Quote /\ f[i + 1] = c /\ f[i + 2] = Quote /\ f[i + 3] = Colon /\ f[i + 4] = Quote
      BY <1>1, <2>2, <3>3, <3>4, Zenon
    <3> QED BY <1>2, <3>5 DEF KeyAt
  <2> QED BY <2>1, <2>2
<1>4. Len(f) - Len(needle) + 1 = n - 4 /\ \A i \in 1 .. n - 4 : i + Len(needle) - 1 = i + 4
  BY <1>1, <1>2
<1>5. {i \in 1 .. Len(f) - Len(needle) + 1 : SubSeq(f, i, i + Len(needle) - 1) = needle}
        = {i \in 1 .. n - 4 : SubSeq(f, i, i + Len(needle) - 1) = needle}
  BY <1>4
<1>6. \A i \in 1 .. n - 4 : SubSeq(f, i, i + Len(needle) - 1) = needle <=> KeyAt(f, c, i)
  BY <1>3, <1>4, Zenon
<1>7. {i \in 1 .. n - 4 : SubSeq(f, i, i + Len(needle) - 1) = needle}
         = {i \in 1 .. n - 4 : KeyAt(f, c, i)}
  BY <1>6, Zenon
<1> QED BY <1>2, <1>5, <1>7, Zenon DEF Found

\* What ExtractJsonField reads behind the first place of its key.
LEMMA ExtractReads ==
    ASSUME NEW f \in Seq(Byte), NEW c \in Byte, NEW p \in Nat, KeyAt(f, c, p),
           \A i \in 1 .. p - 1 : ~KeyAt(f, c, i),
           NEW v \in Seq(Byte), QuotedAt(f, p + 4, EscapeJson(v))
    PROVE  ExtractJsonField(f, <<c>>) = v
<1>1. PICK needle : needle = Needle(c) /\ Len(needle) = 5
  BY NeedleText
<1>2. PICK n \in Nat : n = Len(f)
  OBVIOUS
<1> DEFINE I == Found(f, Needle(c))
           start == CHOOSE i \in I : \A j \in I : i <= j
<1>3. I = {i \in 1 .. n - 4 : KeyAt(f, c, i)}
  BY <1>2, NeedleStands
<1>4. ExtractJsonField(f, <<c>>) =
        IF I = {} THEN <<-1>> ELSE ReadFrom(start + Len(needle), n, JsonPiece(f, n), JsonNext(f, n))
  <2>1. ExtractJsonField(f, <<c>>) =
          IF I = {} THEN <<-1>>
          ELSE ReadFrom(start + Len(Needle(c)), Len(f), JsonPiece(f, Len(f)), JsonNext(f, Len(f)))
    BY Zenon DEF ExtractJsonField, JsonPiece, JsonNext, JsonEnds, Needle, Found
  <2> HIDE DEF I, start
  <2> QED BY <1>1, <1>2, <2>1, Zenon
<1>5. start = Min(I)
  BY Zenon DEF Min
<1> HIDE DEF I, start
<1>6. p \in I /\ I \in SUBSET Nat /\ \A i \in I : p <= i
  <2>1. p \in 1 .. n - 4
    BY <1>2 DEF KeyAt
  <2>2. ASSUME NEW i \in I PROVE p <= i
    <3>1. i \in 1 .. n - 4 /\ KeyAt(f, c, i)
      BY <1>3
    <3>2. i \notin 1 .. p - 1
      BY <3>1
    <3> QED BY <3>1, <3>2, <2>1
  <2> QED BY <1>3, <2>1, <2>2
<1>7. start = p /\ I # {}
  BY <1>5, <1>6, MinIs
<1>8. ReadFrom((p + 4) + 1, n, JsonPiece(f, n), JsonNext(f, n)) = v
  <2>1. p + 4 \in Nat
    OBVIOUS
  <2> QED BY <1>2, <2>1, EscapedReadBack
<1>9. start + Len(needle) = (p + 4) + 1
  BY <1>1, <1>7
<1> QED BY <1>4, <1>7, <1>8, <1>9, Zenon

\* f is a frame of two quoted texts.
FrameOf(f, ek, ep, q) ==
    /\ JsonForm(f, ek, ep, q)
    /\ ek \in Seq(Byte) /\ ep \in Seq(Byte) /\ Quoted(ek) /\ Quoted(ep)

\* Both keys and the texts behind them.
KeysFound(f, ek, ep, q) ==
    /\ f \in Seq(Byte) /\ q \in Nat
    /\ KeyAt(f, 107, 2) /\ \A i \in 1 .. 1 : ~KeyAt(f, 107, i)
    /\ KeyAt(f, 112, q + 2) /\ \A i \in 1 .. q + 1 : ~KeyAt(f, 112, i)
    /\ QuotedAt(f, 6, ek) /\ QuotedAt(f, q + 6, ep)

\* Each of the two keys is first found where it was put, and its text stands behind it.
LEMMA JsonKeys ==
    ASSUME NEW f, NEW ek, NEW ep, NEW q, FrameOf(f, ek, ep, q)
    PROVE  KeysFound(f, ek, ep, q)
<1>0. JsonForm(f, ek, ep, q) /\ ek \in Seq(Byte) /\ ep \in Seq(Byte) /\ Quoted(ek)
  BY DEF FrameOf
<1>1. PICK K \in Nat, P \in Nat : K = Len(ek) /\ P = Len(ep)
  BY <1>0
<1>2. /\ f \in Seq(Byte) /\ q = 7 + K /\ Len(f) = q + 8 + P
      /\ f[1] = OpenBrace /\ f[2] = Quote /\ f[3] = 107 /\ f[4] = Quote /\ f[5] = Colon
      /\ f[6] = Quote
      /\ \A j \in 1 .. K : f[6 + j] = ek[j]
      /\ f[q] = Quote /\ f[q + 1] = Comma
      /\ f[q + 2] = Quote /\ f[q + 3] = 112 /\ f[q + 4] = Quote /\ f[q + 5] = Colon
      /\ f[q + 6] = Quote
      /\ \A j \in 1 .. P : f[q + 6 + j] = ep[j]
      /\ f[q + 7 + P] = Quote /\ f[q + 8 + P] = CloseBrace
  BY <1>0, <1>1, Zenon DEF JsonForm
<1>3. PICK n \in Nat : n = Len(f) /\ n = q + 8 + P /\ q \in Nat
  BY <1>2
<1>4. KeyAt(f, 107, 2)
  BY <1>1, <1>2, <1>3 DEF KeyAt
<1>5. \A i \in 1 .. 1 : ~KeyAt(f, 107, i)
  BY <1>2 DEF KeyAt, OpenBrace, Quote
<1>6. KeyAt(f, 112, q + 2)
  <2>1. q + 2 \in 1 .. n - 4
    BY <1>1, <1>2, <1>3
  <2>2. (q + 2) + 1 = q + 3 /\ (q + 2) + 2 = q + 4 /\ (q + 2) + 3 = q + 5 /\ (q + 2) + 4 = q + 6
    BY <1>3
  <2> QED BY <1>2, <1>3, <2>1, <2>2, Zenon DEF KeyAt
\* A quote with the letter before it and a colon behind it is no quote of the kind.
<1>7. ASSUME NEW i \in 1 .. q + 1, KeyAt(f, 112, i) PROVE FALSE
  <2>1. f[i] = Quote /\ f[i + 1] = 112 /\ f[i + 2] = Quote /\ f[i + 3] = Colon
    BY <1>7 DEF KeyAt
  <2>2. /\ Quote # 112 /\ Quote # Colon /\ Quote # Comma /\ Quote # 107 /\ Backslash # 112
        /\ Colon # Comma /\ Comma # 112 /\ Colon # 112 /\ 107 # 112 /\ OpenBrace # Quote
    BY DEF Quote, Colon, Comma, Backslash, OpenBrace
  <2>3. i \in Nat
    BY <1>3
  <2>4. CASE i <= 3
    <3>1. i = 1 \/ i = 2 \/ i = 3
      BY <2>4
    <3>2. CASE i = 1
      BY <1>2, <2>1, <2>2, <3>2
    <3>3. CASE i = 2
      <4>1. i + 1 = 3
        BY <3>3
      <4> QED BY <1>2, <2>1, <2>2, <4>1
    <3>4. CASE i = 3
      BY <1>2, <2>1, <2>2, <3>4
    <3> QED BY <3>1, <3>2, <3>3, <3>4
  <2>5. CASE i = 4
    <3>1. i + 1 = 5
      BY <2>5
    <3> QED BY <1>2, <2>1, <2>2, <3>1
  <2>6. CASE i >= 5 /\ i + 2 <= 6 + K
    <3>1. PICK j \in 1 .. K : i + 2 = 6 + j
      <4>1. i - 4 \in 1 .. K /\ i + 2 = 6 + (i - 4)
        BY <1>1, <2>3, <2>6
      <4> QED BY <4>1
    <3>2. ek[j] = Quote
      BY <1>2, <2>1, <3>1, SMTT(30)
    <3>3. j - 1 \in 1 .. K /\ ek[j - 1] = Backslash
      BY <1>0, <1>1, <3>1, <3>2 DEF Quoted
    <3>4. f[6 + (j - 1)] = Backslash
      BY <1>2, <3>3
    <3>5. 6 + (j - 1) = i + 1
      BY <3>1, <2>3
    <3> QED BY <2>1, <2>2, <3>4, <3>5
  <2>7. CASE i >= 5 /\ i + 2 = q
    <3>1. i + 3 = q + 1
      BY <1>3, <2>3, <2>7
    <3> QED BY <1>2, <2>1, <2>2, <3>1
  <2>8. CASE i >= 5 /\ i + 2 = q + 1
    <3>1. f[i + 2] = Comma
      BY <1>2, <2>8
    <3> QED BY <2>1, <2>2, <3>1
  <2>9. CASE i >= 5 /\ i + 2 = q + 2
    <3>1. i + 1 = q + 1
      BY <1>3, <2>3, <2>9
    <3> QED BY <1>2, <2>1, <2>2, <3>1
  <2>10. CASE i >= 5 /\ i + 2 = q + 3
    <3>1. f[i + 2] = 112
      BY <1>2, <2>10
    <3> QED BY <2>1, <2>2, <3>1
  <2>11. /\ i <= 3 \/ i = 4 \/ i >= 5
         /\ i + 2 <= 6 + K \/ i + 2 = q \/ i + 2 = q + 1 \/ i + 2 = q + 2 \/ i + 2 = q + 3
    <3>1. i \in Nat /\ i <= q + 1 /\ q = 7 + K
      BY <1>2, <1>3
    <3> QED BY <3>1
  <2> QED BY <2>4, <2>5, <2>6, <2>7, <2>8, <2>9, <2>10, <2>11, Zenon
<1>8. QuotedAt(f, 6, ek)
  <2>1. 6 + K + 1 <= n /\ 6 + K + 1 = q
    BY <1>1, <1>2, <1>3
  <2> QED BY <1>1, <1>2, <1>3, <2>1, Zenon DEF QuotedAt
<1>9. QuotedAt(f, q + 6, ep)
  <2>1. q + 6 + P + 1 <= n /\ q + 6 + P + 1 = q + 7 + P
    BY <1>1, <1>3
  <2> QED BY <1>1, <1>2, <1>3, <2>1, Zenon DEF QuotedAt
<1> QED BY <1>2, <1>3, <1>4, <1>5, <1>6, <1>7, <1>8, <1>9 DEF KeysFound

\* No byte of a frame is a newline.
LEMMA FrameIsLine ==
    ASSUME NEW f, NEW ek, NEW ep, NEW q, FrameOf(f, ek, ep, q), NEW i \in 1 .. Len(f)
    PROVE  f[i] # Newline
<1>0. /\ JsonForm(f, ek, ep, q) /\ ek \in Seq(Byte) /\ ep \in Seq(Byte)
      /\ \A j \in 1 .. Len(ek) : ek[j] # Newline
      /\ \A j \in 1 .. Len(ep) : ep[j] # Newline
  BY DEF FrameOf, Quoted
<1>1. PICK K \in Nat, P \in Nat : K = Len(ek) /\ P = Len(ep)
  BY <1>0
<1>2. q = 7 + K /\ Len(f) = q + 8 + P
  BY <1>0, <1>1, Zenon DEF JsonForm
<1>3. i \in 1 .. q + 8 + P /\ q \in Nat /\ i \in Nat /\ q = 7 + K
  BY <1>2
<1>4. /\ f[1] = OpenBrace /\ f[2] = Quote /\ f[3] = 107 /\ f[4] = Quote /\ f[5] = Colon
      /\ f[6] = Quote
      /\ f[q] = Quote /\ f[q + 1] = Comma
      /\ f[q + 2] = Quote /\ f[q + 3] = 112 /\ f[q + 4] = Quote /\ f[q + 5] = Colon
      /\ f[q + 6] = Quote
      /\ f[q + 7 + P] = Quote /\ f[q + 8 + P] = CloseBrace
  BY <1>0, <1>1, Zenon DEF JsonForm
<1>5. \A j \in 1 .. K : f[6 + j] = ek[j] /\ ek[j] # Newline
  BY <1>0, <1>1, Zenon DEF JsonForm
<1>6. \A j \in 1 .. P : f[q + 6 + j] = ep[j] /\ ep[j] # Newline
  BY <1>0, <1>1, Zenon DEF JsonForm
<1>7. /\ OpenBrace # Newline /\ Quote # Newline /\ 107 # Newline /\ Colon # Newline
      /\ Comma # Newline /\ 112 # Newline /\ CloseBrace # Newline
  BY DEF OpenBrace, Quote, Colon, Comma, CloseBrace, Newline
<1>14. /\ f[1] # Newline /\ f[2] # Newline /\ f[3] # Newline /\ f[4] # Newline /\ f[5] # Newline
       /\ f[6] # Newline
  BY <1>4, <1>7
<1>15. /\ f[q] # Newline /\ f[q + 1] # Newline /\ f[q + 2] # Newline /\ f[q + 3] # Newline
       /\ f[q + 4] # Newline /\ f[q + 5] # Newline /\ f[q + 6] # Newline
  BY <1>4, <1>7
<1>16. f[q + 7 + P] # Newline /\ f[q + 8 + P] # Newline
  BY <1>4, <1>7
<1>8. CASE i <= 6
  <2>1. i = 1 \/ i = 2 \/ i = 3 \/ i = 4 \/ i = 5 \/ i = 6
    BY <1>3, <1>8
  <2> QED BY <1>14, <2>1
<1>9. CASE i > 6 /\ i < q
  <2>1. i - 6 \in 1 .. K /\ 6 + (i - 6) = i
    BY <1>3, <1>9
  <2> QED BY <1>5, <2>1, Zenon
<1>10. CASE i >= q /\ i <= q + 6
  <2>1. i = q \/ i = q + 1 \/ i = q + 2 \/ i = q + 3 \/ i = q + 4 \/ i = q + 5 \/ i = q + 6
    BY <1>3, <1>10
  <2> QED BY <1>15, <2>1
<1>11. CASE i > q + 6 /\ i <= q + 6 + P
  <2>1. i - (q + 6) \in 1 .. P /\ q + 6 + (i - (q + 6)) = i
    BY <1>3, <1>11
  <2> QED BY <1>6, <2>1, Zenon
<1>12. CASE i > q + 6 + P
  <2>1. i = q + 7 + P \/ i = q + 8 + P
    BY <1>3, <1>12
  <2> QED BY <1>16, <2>1
<1>13. \/ i <= 6
       \/ i > 6 /\ i < q
       \/ i >= q /\ i <= q + 6
       \/ i > q + 6 /\ i <= q + 6 + P
       \/ i > q + 6 + P
  BY <1>3
<1> QED BY <1>8, <1>9, <1>10, <1>11, <1>12, <1>13, Zenon

\* The JSON frame of a message, whatever quotes, backslashes and control characters
\* its text has, holds no newline, so that the line it is sent as ends where the
\* frame does; decode_json_frame gives the message back.
THEOREM JsonFrameReadBack ==
    ASSUME NEW message \in Message, NEW f, f = EncodeJsonFrame(message.kind, Serialize(message))
    PROVE  /\ f \in Seq(Byte) /\ Len(f) > 0
           /\ \A i \in 1 .. Len(f) : f[i] # Newline
           /\ DecodeJsonFrame(f) = message
<1>1. PICK kind \in Seq(Byte), payload \in Seq(Byte) :
         kind = message.kind /\ payload = Serialize(message) /\ Parse(kind, payload) = message
  <2>1. message.kind \in Seq(Byte)
    BY DEF Message, Text
  <2> QED BY <2>1, TextReadBack
<1>2. PICK ek \in Seq(Byte), ep \in Seq(Byte) :
         /\ ek = EscapeJson(kind) /\ ep = EscapeJson(payload)
         /\ Quoted(ek) /\ Quoted(ep)
  BY EscapeJsonQuoted
<1>3. PICK q : q = 7 + Len(ek) /\ JsonForm(f, ek, ep, q) /\ FrameOf(f, ek, ep, q)
  BY <1>1, <1>2, JsonFrameForm DEF FrameOf
<1>10. KeysFound(f, ek, ep, q)
  BY <1>3, JsonKeys
<1>4. /\ f \in Seq(Byte) /\ q \in Nat
      /\ KeyAt(f, 107, 2) /\ \A i \in 1 .. 1 : ~KeyAt(f, 107, i)
      /\ KeyAt(f, 112, q + 2) /\ \A i \in 1 .. q + 1 : ~KeyAt(f, 112, i)
      /\ QuotedAt(f, 6, ek) /\ QuotedAt(f, q + 6, ep)
  BY <1>10 DEF KeysFound
<1>5. ExtractJsonField(f, KindKey) = kind
  <2>1. 107 \in Byte /\ 2 \in Nat /\ 2 + 4 = 6 /\ 2 - 1 = 1
    BY DEF Byte
  <2>2. QuotedAt(f, 2 + 4, EscapeJson(kind)) /\ \A i \in 1 .. 2 - 1 : ~KeyAt(f, 107, i)
    BY <1>2, <1>4, <2>1
  <2>3. ExtractJsonField(f, <<107>>) = kind
    BY <1>4, <2>1, <2>2, ExtractReads, ZenonT(40)
  <2> QED BY <2>3 DEF KindKey
<1>6. ExtractJsonField(f, PayloadKey) = payload
  <2>1. 112 \in Byte /\ q + 2 \in Nat /\ (q + 2) + 4 = q + 6 /\ (q + 2) - 1 = q + 1
    BY <1>4 DEF Byte
  <2>2. QuotedAt(f, (q + 2) + 4, EscapeJson(payload)) /\ \A i \in 1 .. (q + 2) - 1 : ~KeyAt(f, 112, i)
    BY <1>2, <1>4, <2>1
  <2>3. ExtractJsonField(f, <<112>>) = payload
    BY <1>4, <2>1, <2>2, ExtractReads, ZenonT(40)
  <2> QED BY <2>3 DEF PayloadKey
<1>7. DecodeJsonFrame(f) = message
  BY <1>1, <1>5, <1>6 DEF DecodeJsonFrame
<1>8. Len(f) > 0
  BY <1>3, <1>4 DEF JsonForm
<1>9. \A i \in 1 .. Len(f) : f[i] # Newline
  BY <1>3, FrameIsLine
<1> QED BY <1>4, <1>7, <1>8, <1>9

--------------------------------------------------------------------------------
(****************************************************************************)
(* Binary frames                                                            *)
(****************************************************************************)

\* A smaller size fits as well.
LEMMA SmallerFits ==
    ASSUME NEW n \in Nat, NEW k \in Nat, k <= n, FitsU32(n)
    PROVE  FitsU32(k)
<1>1. PICK n1 \in Nat, k1 \in Nat : n1 = n \div 256 /\ k1 = k \div 256 /\ k1 <= n1
  BY SMT
<1>2. PICK n2 \in Nat, k2 \in Nat : n2 = n1 \div 256 /\ k2 = k1 \div 256 /\ k2 <= n2
  BY <1>1, SMT
<1>3. PICK n3 \in Nat, k3 \in Nat : n3 = n2 \div 256 /\ k3 = k2 \div 256 /\ k3 <= n3
  BY <1>2, SMT
<1>4. n3 < 256
  BY <1>1, <1>2, <1>3, SMT DEF FitsU32
<1>5. k3 < 256
  BY <1>3, <1>4, SMT
<1> QED BY <1>1, <1>2, <1>3, <1>5, SMT DEF FitsU32

\* Four bytes hold every size that fits into 32 bits.
LEMMA U32Bytes ==
    ASSUME NEW n \in Nat, FitsU32(n)
    PROVE  \E a, b, c, d \in Byte :
             AppendU32(n) = <<a, b, c, d>> /\ 256 * (256 * (256 * a + b) + c) + d = n
<1>1. PICK m \in Nat, d \in 0 .. 255 : m = n \div 256 /\ d = n % 256 /\ n = 256 * m + d
  BY SMT
<1>2. PICK u \in Nat, c \in 0 .. 255 : u = m \div 256 /\ c = m % 256 /\ m = 256 * u + c
  BY SMT
<1>3. PICK a \in Nat, b \in 0 .. 255 : a = u \div 256 /\ b = u % 256 /\ u = 256 * a + b
  BY SMT
<1>4. a < 256
  BY <1>1, <1>2, <1>3, SMT DEF FitsU32
<1>5. a % 256 = a /\ a \in 0 .. 255
  BY <1>4, SMT
<1>6. AppendU32(n) = <<a, b, c, d>>
  BY <1>1, <1>2, <1>3, <1>5, SMT DEF AppendU32
<1>7. 256 * (256 * (256 * a + b) + c) + d = n
  BY <1>1, <1>2, <1>3, SMT
<1>8. a \in Byte /\ b \in Byte /\ c \in Byte /\ d \in Byte
  BY <1>5, SMT DEF Byte
<1> QED BY <1>6, <1>7, <1>8, SMT

\* A size is read where its four bytes stand.
LEMMA SizeRead ==
    ASSUME NEW f, NEW at, NEW n \in Nat, FitsU32(n), Stands(Byte, f, at, AppendU32(n))
    PROVE  ReadU32(f, at) = n
<1>1. PICK a \in Byte, b \in Byte, c \in Byte, d \in Byte :
         AppendU32(n) = <<a, b, c, d>> /\ 256 * (256 * (256 * a + b) + c) + d = n
  BY U32Bytes
<1>2. PICK h : h = <<a, b, c, d>>
  OBVIOUS
<1>5. Len(h) = 4 /\ h[1] = a /\ h[2] = b /\ h[3] = c /\ h[4] = d
  BY <1>2
<1>3. Stands(Byte, f, at, h)
  BY <1>1, <1>2, Zenon
<1>4. f[at + 1] = a /\ f[at + 2] = b /\ f[at + 3] = c /\ f[at + 4] = d
  BY <1>3, <1>5 DEF Stands
<1> QED BY <1>1, <1>4, SMT DEF ReadU32

\* A size is four bytes.
LEMMA U32Type ==
    ASSUME NEW n \in Nat, FitsU32(n)
    PROVE  AppendU32(n) \in Seq(Byte) /\ Len(AppendU32(n)) = 4
<1>1. PICK a \in Byte, b \in Byte, c \in Byte, d \in Byte : AppendU32(n) = <<a, b, c, d>>
  BY U32Bytes
<1>2. <<a, b, c, d>> \in Seq(Byte) /\ Len(<<a, b, c, d>>) = 4
  OBVIOUS
<1> QED BY <1>1, <1>2, Zenon

\* Equal bytes give equal sizes.
LEMMA ReadSame ==
    ASSUME NEW f, NEW b, NEW at, \A i \in 1 .. 4 : b[at + i] = f[at + i]
    PROVE  ReadU32(b, at) = ReadU32(f, at)
<1>1. b[at + 1] = f[at + 1] /\ b[at + 2] = f[at + 2] /\ b[at + 3] = f[at + 3] /\ b[at + 4] = f[at + 4]
  OBVIOUS
<1> QED BY <1>1, SMT DEF ReadU32

\* What of a binary frame its reader looks at.
BinaryForm(f, kind, payload) ==
    /\ kind \in Seq(Byte) /\ payload \in Seq(Byte)
    /\ f \in Seq(Byte) /\ Len(f) = 8 + Len(kind) + Len(payload) /\ FitsU32(Len(f))
    /\ ReadU32(f, 0) = Len(kind) /\ Stands(Byte, f, 4, kind)
    /\ ReadU32(f, 4 + Len(kind)) = Len(payload) /\ Stands(Byte, f, 8 + Len(kind), payload)

\* No sum its reader forms leaves the 32 bits.
LEMMA SumsFit ==
    ASSUME NEW f, NEW kind, NEW payload, BinaryForm(f, kind, payload)
    PROVE  /\ SumU32(4, Len(kind)) = 4 + Len(kind)
           /\ SumU32(4 + Len(kind), 4) = 8 + Len(kind)
           /\ SumU32(8 + Len(kind), Len(payload)) = 8 + Len(kind) + Len(payload)
<1>1. PICK K \in Nat, P \in Nat, n \in Nat :
         K = Len(kind) /\ P = Len(payload) /\ n = Len(f) /\ n = 8 + K + P /\ FitsU32(n)
  BY DEF BinaryForm
<1>2. ASSUME NEW i \in Nat, NEW j \in Nat, i + j <= n
      PROVE  SumU32(i, j) = i + j
  <2>1. i + j \in Nat /\ FitsU32(i + j)
    BY <1>1, <1>2, SmallerFits
  <2> QED BY <2>1, SMT DEF SumU32
<1>3. SumU32(4, K) = 4 + K
  BY <1>1, <1>2
<1>4. SumU32(4 + K, 4) = 8 + K
  <2>1. 4 + K \in Nat /\ (4 + K) + 4 = 8 + K /\ 8 + K <= n
    BY <1>1
  <2>2. SumU32(4 + K, 4) = (4 + K) + 4
    BY <1>2, <2>1
  <2> QED BY <2>1, <2>2
<1>5. SumU32(8 + K, P) = 8 + K + P
  BY <1>1, <1>2
<1> QED BY <1>1, <1>3, <1>4, <1>5

\* The frame the encoder makes has this form.
LEMMA BinaryFrameForm ==
    ASSUME NEW kind \in Seq(Byte), NEW payload \in Seq(Byte), FitsU32(Len(kind)), FitsU32(Len(payload)),
           FitsU32(Len(EncodeBinaryFrame(kind, payload)))
    PROVE  BinaryForm(EncodeBinaryFrame(kind, payload), kind, payload)
<1>1. PICK K \in Nat, P \in Nat : K = Len(kind) /\ P = Len(payload)
  OBVIOUS
<1>2. PICK a \in Seq(Byte), c \in Seq(Byte) :
         a = AppendU32(K) /\ c = AppendU32(P) /\ Len(a) = 4 /\ Len(c) = 4
  BY <1>1, U32Type
<1>3. PICK f : f = EncodeBinaryFrame(kind, payload)
  OBVIOUS
<1>4. f = Cat(Cat(Cat(a, kind), c), payload)
  BY <1>1, <1>2, <1>3, Zenon DEF EncodeBinaryFrame, Cat
<1>14. PICK e : e = <<>>
  OBVIOUS
<1>5. e = <<>> /\ e \in Seq(Byte) /\ Len(e) = 0
  BY <1>14
<1>6. Cat(payload, e) = payload
  BY <1>5, ConcatEmptySeq DEF Cat
<1>7. Five(Byte, f, a, kind, c, payload, e)
  <2>1. Cat(a, kind) \in Seq(Byte) /\ Cat(c, payload) \in Seq(Byte)
    BY <1>2, CatType
  <2>2. Cat(Cat(Cat(a, kind), c), payload) = Cat(Cat(a, kind), Cat(c, payload))
    BY <1>2, <2>1, Regroup
  <2>3. Cat(Cat(a, kind), Cat(c, payload)) = Cat(a, Cat(kind, Cat(c, payload)))
    BY <1>2, <2>1, Regroup
  <2>4. f = Cat(a, Cat(kind, Cat(c, Cat(payload, e))))
    BY <1>4, <1>6, <2>2, <2>3, Zenon
  <2> QED BY <1>2, <1>5, <2>4, Zenon DEF Five
<1>8. /\ Stands(Byte, f, 0, a) /\ Stands(Byte, f, Len(a), kind)
      /\ Stands(Byte, f, Len(a) + Len(kind), c)
      /\ Stands(Byte, f, Len(a) + Len(kind) + Len(c), payload)
      /\ f \in Seq(Byte) /\ Len(f) = Len(a) + Len(kind) + Len(c) + Len(payload) + Len(e)
  BY <1>7, FiveStand
<1>9. /\ Len(a) = 4 /\ Len(a) + Len(kind) = 4 + K
      /\ Len(a) + Len(kind) + Len(c) = 8 + K
      /\ Len(a) + Len(kind) + Len(c) + Len(payload) + Len(e) = 8 + K + P
  BY <1>1, <1>2, <1>5
<1>10. ReadU32(f, 0) = K
  BY <1>1, <1>2, <1>8, SizeRead
<1>11. ReadU32(f, 4 + K) = P
  <2>1. Stands(Byte, f, 4 + K, AppendU32(P))
    BY <1>2, <1>8, <1>9, Zenon
  <2> QED BY <1>1, <2>1, SizeRead
<1>12. Stands(Byte, f, 4, kind) /\ Stands(Byte, f, 8 + K, payload) /\ Len(f) = 8 + K + P
  BY <1>8, <1>9, Zenon
<1>13. BinaryForm(f, kind, payload)
  BY <1>1, <1>3, <1>8, <1>10, <1>11, <1>12, Zenon DEF BinaryForm
<1> QED BY <1>3, <1>13, Zenon

\* A reader takes the two texts out of the frame again.
LEMMA BinaryFrameRead ==
    ASSUME NEW f, NEW kind, NEW payload, BinaryForm(f, kind, payload)
    PROVE  DecodeBinaryFrame(f) = Parse(kind, payload)
<1>0. /\ kind \in Seq(Byte) /\ payload \in Seq(Byte)
      /\ f \in Seq(Byte) /\ Len(f) = 8 + Len(kind) + Len(payload)
      /\ ReadU32(f, 0) = Len(kind) /\ Stands(Byte, f, 4, kind)
      /\ ReadU32(f, 4 + Len(kind)) = Len(payload) /\ Stands(Byte, f, 8 + Len(kind), payload)
  BY DEF BinaryForm
<1>1. PICK K \in Nat, P \in Nat : K = Len(kind) /\ P = Len(payload)
  BY <1>0
<1>2. SubSeq(f, 4 + 1, 4 + K) = kind
  <2>1. 4 \in Nat /\ 4 + Len(kind) <= Len(f) /\ \A j \in 1 .. Len(kind) : f[4 + j] = kind[j]
    BY <1>0, Zenon DEF Stands
  <2>2. SubSeq(f, 4 + 1, 4 + Len(kind)) = kind
    BY <1>0, <2>1, SubSeqIs
  <2> QED BY <1>1, <2>2
<1>3. SubSeq(f, (8 + K) + 1, (8 + K) + P) = payload
  <2>1. /\ 8 + K \in Nat /\ (8 + K) + Len(payload) <= Len(f)
        /\ \A j \in 1 .. Len(payload) : f[(8 + K) + j] = payload[j]
    BY <1>0, <1>1, Zenon DEF Stands
  <2>2. SubSeq(f, (8 + K) + 1, (8 + K) + Len(payload)) = payload
    BY <1>0, <2>1, SubSeqIs
  <2> QED BY <1>1, <2>2
<1>4. 4 + 1 = 5
  OBVIOUS
<1>5. DecodeBinaryFrame(f) = Parse(SubSeq(f, 5, 4 + K), SubSeq(f, (8 + K) + 1, (8 + K) + P))
  <2>1. SumU32(4, K) = 4 + K /\ SumU32(4 + K, 4) = 8 + K
    BY <1>1, SumsFit, Zenon
  <2> QED BY <1>0, <1>1, <2>1, Zenon DEF DecodeBinaryFrame
<1> QED BY <1>2, <1>3, <1>4, <1>5, Zenon

\* A buffer with a whole frame at its front has the size of that frame.
LEMMA BinaryWhole ==
    ASSUME NEW f, NEW kind, NEW payload, BinaryForm(f, kind, payload), NEW b, Stands(Byte, b, 0, f)
    PROVE  BinaryFrameSize(b) = Len(f)
<1>0. /\ kind \in Seq(Byte) /\ payload \in Seq(Byte)
      /\ f \in Seq(Byte) /\ Len(f) = 8 + Len(kind) + Len(payload)
      /\ ReadU32(f, 0) = Len(kind) /\ ReadU32(f, 4 + Len(kind)) = Len(payload)
  BY DEF BinaryForm
<1>1. PICK K \in Nat, P \in Nat, n \in Nat :
         K = Len(kind) /\ P = Len(payload) /\ n = Len(f) /\ n = 8 + K + P
  BY <1>0
<1>2. b \in Seq(Byte) /\ n <= Len(b) /\ \A j \in 1 .. n : b[j] = f[j]
  <2>1. b \in Seq(Byte) /\ 0 + Len(f) <= Len(b) /\ \A j \in 1 .. Len(f) : b[0 + j] = f[j]
    BY DEF Stands
  <2>2. \A j \in 1 .. n : 0 + j = j
    OBVIOUS
  <2> QED BY <1>1, <2>1, <2>2
<1>3. ReadU32(b, 0) = K
  <2>1. \A i \in 1 .. 4 : b[0 + i] = f[0 + i]
    BY <1>1, <1>2
  <2> QED BY <1>0, <1>1, <2>1, ReadSame
<1>4. ReadU32(b, 4 + K) = P
  <2>1. \A i \in 1 .. 4 : (4 + K) + i \in 1 .. n
    BY <1>1
  <2>2. \A i \in 1 .. 4 : b[(4 + K) + i] = f[(4 + K) + i]
    BY <1>2, <2>1
  <2>3. ReadU32(b, 4 + K) = ReadU32(f, 4 + K)
    BY <2>2, ReadSame
  <2> QED BY <1>0, <1>1, <2>3
<1>5. PICK l \in Nat : l = Len(b) /\ n <= l
  BY <1>2
<1>6. ~(l < 8 \/ 8 + K > l \/ 8 + K + P > l)
  BY <1>1, <1>5
<1>7. SumU32(4, K) = 4 + K /\ SumU32(4 + K, 4) = 8 + K /\ SumU32(8 + K, P) = 8 + K + P
  BY <1>1, SumsFit
<1>8. BinaryFrameSize(b) = IF l < 8 \/ 8 + K > l \/ 8 + K + P > l THEN 0 ELSE 8 + K + P
  BY <1>3, <1>4, <1>5, <1>7, Zenon DEF BinaryFrameSize
<1> QED BY <1>1, <1>6, <1>8, Zenon

\* The first bytes of a frame are not taken for one.
LEMMA BinaryPart ==
    ASSUME NEW f, NEW kind, NEW payload, BinaryForm(f, kind, payload),
           NEW b \in Seq(Byte), Len(b) < Len(f), \A j \in 1 .. Len(b) : b[j] = f[j]
    PROVE  BinaryFrameSize(b) = 0
<1>0. /\ kind \in Seq(Byte) /\ payload \in Seq(Byte)
      /\ f \in Seq(Byte) /\ Len(f) = 8 + Len(kind) + Len(payload)
      /\ ReadU32(f, 0) = Len(kind) /\ ReadU32(f, 4 + Len(kind)) = Len(payload)
  BY DEF BinaryForm
<1>1. PICK K \in Nat, P \in Nat, n \in Nat, l \in Nat :
         K = Len(kind) /\ P = Len(payload) /\ n = Len(f) /\ n = 8 + K + P /\ l = Len(b)
  BY <1>0
<1>2. CASE l < 8
  BY <1>1, <1>2, Zenon DEF BinaryFrameSize
<1>4. SumU32(4, K) = 4 + K /\ SumU32(4 + K, 4) = 8 + K /\ SumU32(8 + K, P) = 8 + K + P
  BY <1>1, SumsFit
<1>3. CASE l >= 8
  <2>1. ReadU32(b, 0) = K
    <3>1. \A i \in 1 .. 4 : b[0 + i] = f[0 + i]
      BY <1>1, <1>3
    <3> QED BY <1>0, <1>1, <3>1, ReadSame
  <2>2. CASE 8 + K > l
    BY <1>1, <1>4, <2>1, <2>2, Zenon DEF BinaryFrameSize
  <2>3. CASE 8 + K <= l
    <3>1. \A i \in 1 .. 4 : (4 + K) + i \in 1 .. l
      BY <1>1, <2>3
    <3>2. \A i \in 1 .. 4 : b[(4 + K) + i] = f[(4 + K) + i]
      BY <1>1, <3>1
    <3>3. ReadU32(b, 4 + K) = P
      <4>1. ReadU32(b, 4 + K) = ReadU32(f, 4 + K)
        BY <3>2, ReadSame
      <4> QED BY <1>0, <1>1, <4>1
    <3>4. 8 + K + P > l
      BY <1>1
    <3>5. BinaryFrameSize(b) = IF l < 8 \/ 8 + K > l \/ 8 + K + P > l THEN 0 ELSE 8 + K + P
      BY <1>1, <1>4, <2>1, <3>3, Zenon DEF BinaryFrameSize
    <3> QED BY <3>4, <3>5, Zenon
  <2> QED BY <2>2, <2>3, <1>1
<1> QED BY <1>1, <1>2, <1>3

\* decode_binary_frame gives the message of a binary frame below 4 GiB back.
\* try_decode_binary_frame finds exactly this frame at the front of a buffer,
\* whatever follows it, and none while less of it has come.
THEOREM BinaryFrameReadBack ==
    ASSUME NEW message \in Message, NEW f, f = EncodeBinaryFrame(message.kind, Serialize(message)),
           FitsU32(Len(f))
    PROVE  /\ BinaryForm(f, message.kind, Serialize(message))
           /\ DecodeBinaryFrame(f) = message
           /\ \A b : Stands(Byte, b, 0, f) => BinaryFrameSize(b) = Len(f)
           /\ \A b \in Seq(Byte) : Len(b) < Len(f) /\ (\A j \in 1 .. Len(b) : b[j] = f[j])
                                    => BinaryFrameSize(b) = 0
<1>1. message.kind \in Seq(Byte)
  BY DEF Message, Text
<1>2. PICK kind \in Seq(Byte), payload \in Seq(Byte) :
         kind = message.kind /\ payload = Serialize(message) /\ Parse(kind, payload) = message
  BY <1>1, TextReadBack
<1>3. f = EncodeBinaryFrame(kind, payload)
  BY <1>2, Zenon
<1>4. FitsU32(Len(f))
  OBVIOUS
<1>5. Len(kind) <= Len(f) /\ Len(payload) <= Len(f) /\ Len(f) \in Nat
  <2>1. PICK a, c : a = AppendU32(Len(kind)) /\ c = AppendU32(Len(payload))
    OBVIOUS
  <2>2. a \in Seq(Int) /\ c \in Seq(Int)
    BY <2>1, SMT DEF AppendU32
  <2>3. kind \in Seq(Int) /\ payload \in Seq(Int)
    <3>1. Byte \subseteq Int
      BY DEF Byte
    <3> QED BY <3>1, WiderSeq
  <2>4. f = Cat(Cat(Cat(a, kind), c), payload)
    BY <1>3, <2>1, Zenon DEF EncodeBinaryFrame, Cat
  <2>5. PICK u \in Seq(Int), v \in Seq(Int) : u = Cat(a, kind) /\ v = Cat(u, c)
    BY <2>2, <2>3, CatType
  <2>6. f = Cat(v, payload) /\ f \in Seq(Int)
    BY <2>3, <2>4, <2>5, CatType
  <2>7. Len(u) = Len(a) + Len(kind) /\ Len(v) = Len(u) + Len(c) /\ Len(f) = Len(v) + Len(payload)
    BY <2>2, <2>3, <2>5, <2>6, CatLen
  <2>8. Len(a) \in Nat /\ Len(c) \in Nat /\ Len(kind) \in Nat /\ Len(payload) \in Nat
    BY <2>2
  <2> QED BY <2>7, <2>8
<1>6. FitsU32(Len(kind)) /\ FitsU32(Len(payload))
  BY <1>4, <1>5, SmallerFits
<1>7. BinaryForm(f, kind, payload)
  BY <1>3, <1>4, <1>6, BinaryFrameForm
<1>8. DecodeBinaryFrame(f) = message
  BY <1>2, <1>7, BinaryFrameRead
<1>9. \A b : Stands(Byte, b, 0, f) => BinaryFrameSize(b) = Len(f)
  BY <1>7, BinaryWhole
<1>10. ASSUME NEW b \in Seq(Byte), Len(b) < Len(f), \A j \in 1 .. Len(b) : b[j] = f[j]
       PROVE  BinaryFrameSize(b) = 0
  BY <1>7, <1>10, BinaryPart
<1> QED BY <1>2, <1>7, <1>8, <1>9, <1>10, Zenon
================================================================================
