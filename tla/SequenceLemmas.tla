--------------------------- MODULE SequenceLemmas ---------------------------
(***************************************************************************)
(* Induction over the natural numbers, with the predicate as a set, and    *)
(* what the loop of Filter keeps.                                          *)
(***************************************************************************)
EXTENDS Filter, TLAPS, WellFoundedInduction

Less == {ss \in Nat \X Nat : ss[1] < ss[2]}

\* A non-empty set of natural numbers has a least element.
LEMMA LeastNat ==
  ASSUME NEW T \in SUBSET Nat, T # {}
  PROVE  \E n \in T : \A m \in T : n <= m
<1>1. IsWellFoundedOn(Less, Nat)
  BY NatLessThanWellFounded DEF OpToRel, Less
<1>2. \E x \in T : \A y \in T : ~(<<y, x>> \in Less)
  BY <1>1, WFMin, Zenon
<1>3. ASSUME NEW x \in Nat, NEW y \in Nat, ~(<<y, x>> \in Less)
      PROVE  x <= y
  <2>1. <<y, x>> \in Nat \X Nat /\ <<y, x>>[1] = y /\ <<y, x>>[2] = x
    OBVIOUS
  <2>2. ~(y < x)
    BY <1>3, <2>1 DEF Less
  <2> QED
    BY <2>2
<1> QED
  BY <1>2, <1>3

\* Induction: a set with 0 that is closed under successor has every natural number.
LEMMA Induction ==
  ASSUME NEW S \in SUBSET Nat, 0 \in S, \A n \in S : n + 1 \in S
  PROVE  \A n \in Nat : n \in S
<1> SUFFICES ASSUME Nat \ S # {} PROVE FALSE
  OBVIOUS
<1>1. PICK n \in Nat \ S : \A m \in Nat \ S : n <= m
  BY LeastNat
<1>2. n # 0 /\ n - 1 \in Nat
  BY <1>1
<1>3. n - 1 \in S
  BY <1>1, <1>2
<1> QED
  BY <1>1, <1>2, <1>3

-----------------------------------------------------------------------------
\* One round of the loop.
Round(s, T, before, n) == IF s[n] \in T THEN Append(before, s[n]) ELSE before

\* g is the loop over the first n elements.
IsLoop(g, s, T, n) ==
  g = [i \in 0 .. n |-> IF i = 0 THEN <<>> ELSE Round(s, T, g[i - 1], i)]

\* The loop defines a function: what is kept after no round, and after one more.
LEMMA KeptRounds ==
  ASSUME NEW X, NEW s \in Seq(X), NEW T
  PROVE  /\ KeptTo(s, T)[0] = <<>>
         /\ \A n \in 0 .. Len(s) - 1 :
              KeptTo(s, T)[n + 1] = Round(s, T, KeptTo(s, T)[n], n + 1)
<1> DEFINE S == {n \in Nat : \E g : IsLoop(g, s, T, n)}
<1>1. 0 \in S
  <2> DEFINE g == [i \in 0 .. 0 |-> <<>>]
  <2>1. IsLoop(g, s, T, 0)
    BY DEF IsLoop
  <2> QED
    BY <2>1
<1>2. ASSUME NEW n \in S PROVE n + 1 \in S
  <2>1. PICK g : IsLoop(g, s, T, n)
    OBVIOUS
  <2> DEFINE h == [i \in 0 .. n + 1 |-> IF i <= n THEN g[i] ELSE Round(s, T, g[n], n + 1)]
  <2>2. \A i \in 0 .. n : h[i] = g[i]
    OBVIOUS
  <2>3. ASSUME NEW i \in 0 .. n + 1
        PROVE  h[i] = IF i = 0 THEN <<>> ELSE Round(s, T, h[i - 1], i)
    <3>1. CASE i <= n
      <4>1. g[i] = IF i = 0 THEN <<>> ELSE Round(s, T, g[i - 1], i)
        BY <2>1, <3>1 DEF IsLoop
      <4>2. i # 0 => h[i - 1] = g[i - 1]
        BY <2>2, <3>1
      <4>3. h[i] = g[i]
        BY <2>2, <3>1
      <4> HIDE DEF h
      <4> QED
        BY <4>1, <4>2, <4>3
    <3>2. CASE i = n + 1
      <4>1. h[i] = Round(s, T, g[n], n + 1)
        BY <3>2
      <4>2. h[n] = g[n] /\ i - 1 = n /\ i # 0
        BY <2>2, <3>2
      <4> HIDE DEF h
      <4> QED
        BY <3>2, <4>1, <4>2
    <3> QED
      BY <3>1, <3>2
  <2>4. IsLoop(h, s, T, n + 1)
    <3>1. h = [i \in 0 .. n + 1 |-> h[i]]
      OBVIOUS
    <3> HIDE DEF h
    <3> QED
      BY <2>3, <3>1 DEF IsLoop
  <2> QED
    BY <2>4
<1>3. Len(s) \in S
  <2> HIDE DEF S
  <2>1. S \in SUBSET Nat
    BY DEF S
  <2>2. Len(s) \in Nat
    OBVIOUS
  <2> QED
    BY <1>1, <1>2, <2>1, <2>2, Induction
<1>4. PICK g : IsLoop(g, s, T, Len(s))
  BY <1>3
<1>5. IsLoop(KeptTo(s, T), s, T, Len(s))
  BY <1>4, Zenon DEF KeptTo, IsLoop, Round
<1> HIDE DEF S
<1>6. ASSUME NEW f, IsLoop(f, s, T, Len(s))
      PROVE  \A i \in 0 .. Len(s) : f[i] = IF i = 0 THEN <<>> ELSE Round(s, T, f[i - 1], i)
  BY <1>6, Zenon DEF IsLoop
<1>7. \A i \in 0 .. Len(s) :
        KeptTo(s, T)[i] = IF i = 0 THEN <<>> ELSE Round(s, T, KeptTo(s, T)[i - 1], i)
  BY <1>5, <1>6, Zenon
<1>8. Len(s) \in Nat
  OBVIOUS
<1>9. KeptTo(s, T)[0] = <<>>
  BY <1>7, <1>8
<1>10. ASSUME NEW n \in 0 .. Len(s) - 1
       PROVE  KeptTo(s, T)[n + 1] = Round(s, T, KeptTo(s, T)[n], n + 1)
  <2>1. n + 1 \in 0 .. Len(s) /\ n + 1 # 0 /\ (n + 1) - 1 = n
    BY <1>8
  <2> QED
    BY <1>7, <2>1
<1> QED
  BY <1>9, <1>10

\* k has elements of X that are in T, and all of the first n elements of s that are.
KeptFrom(k, X, s, T, n) ==
  /\ k \in Seq(X \cap T)
  /\ \A i \in 1 .. n : s[i] \in T => \E j \in 1 .. Len(k) : k[j] = s[i]

\* What is kept is in T, from the sequence, and of the sequence nothing in T is left out.
LEMMA KeptMembers ==
  ASSUME NEW X, NEW s \in Seq(X), NEW T
  PROVE  \A n \in 0 .. Len(s) : KeptFrom(KeptTo(s, T)[n], X, s, T, n)
<1> DEFINE k(n) == KeptTo(s, T)[n]
           Has(q, x) == \E j \in 1 .. Len(q) : q[j] = x
           All(n) == k(n) \in Seq(X \cap T) /\ \A i \in 1 .. n : s[i] \in T => Has(k(n), s[i])
           S == {n \in Nat : n <= Len(s) => All(n)}
<1>1. Len(s) \in Nat /\ \A i \in 1 .. Len(s) : s[i] \in X
  OBVIOUS
<1>2. 0 \in S
  <2>1. k(0) = <<>>
    BY KeptRounds
  <2>2. <<>> \in Seq(X \cap T)
    OBVIOUS
  <2>3. \A i \in 1 .. 0 : FALSE
    OBVIOUS
  <2> HIDE DEF k, Has
  <2>4. All(0)
    BY <2>1, <2>2, <2>3
  <2> QED
    BY <2>4
<1>3. ASSUME NEW n \in S PROVE n + 1 \in S
  <2> SUFFICES ASSUME n + 1 <= Len(s) PROVE All(n + 1)
    OBVIOUS
  <2>1. n \in Nat /\ n \in 0 .. Len(s) - 1 /\ n <= Len(s) /\ n + 1 \in 1 .. Len(s)
    BY <1>1
  <2>2. All(n)
    BY <2>1
  <2>3. k(n + 1) = IF s[n + 1] \in T THEN Append(k(n), s[n + 1]) ELSE k(n)
    BY <2>1, KeptRounds DEF Round
  <2>4. s[n + 1] \in X
    BY <1>1, <2>1
  <2> HIDE DEF k
  <2>5. CASE s[n + 1] \in T
    <3>1. k(n + 1) = Append(k(n), s[n + 1]) /\ s[n + 1] \in X \cap T
      BY <2>3, <2>4, <2>5
    <3>2. ASSUME NEW q \in Seq(X \cap T), NEW x \in X \cap T
          PROVE  /\ Append(q, x) \in Seq(X \cap T)
                 /\ Has(Append(q, x), x)
                 /\ \A y : Has(q, y) => Has(Append(q, x), y)
      <4>1. Append(q, x) \in Seq(X \cap T) /\ Len(Append(q, x)) = Len(q) + 1 /\ Len(q) \in Nat
        OBVIOUS
      <4>2. Append(q, x)[Len(q) + 1] = x /\ \A j \in 1 .. Len(q) : Append(q, x)[j] = q[j]
        OBVIOUS
      <4>3. Len(q) + 1 \in 1 .. Len(Append(q, x)) /\ \A j \in 1 .. Len(q) : j \in 1 .. Len(Append(q, x))
        BY <4>1
      <4> QED
        BY <4>1, <4>2, <4>3
    <3> HIDE DEF Has
    <3>3. /\ k(n + 1) \in Seq(X \cap T) /\ Has(k(n + 1), s[n + 1])
          /\ \A y : Has(k(n), y) => Has(k(n + 1), y)
      BY <2>2, <3>1, <3>2
    <3>4. \A i \in 1 .. n + 1 : i = n + 1 \/ i \in 1 .. n
      BY <2>1
    <3> QED
      BY <2>2, <3>3, <3>4
  <2>6. CASE s[n + 1] \notin T
    <3>1. k(n + 1) = k(n)
      BY <2>3, <2>6
    <3>2. \A i \in 1 .. n + 1 : i = n + 1 \/ i \in 1 .. n
      BY <2>1
    <3> HIDE DEF Has
    <3> QED
      BY <2>2, <2>6, <3>1, <3>2
  <2> QED
    BY <2>5, <2>6
<1>4. \A n \in Nat : n \in S
  <2> HIDE DEF S
  <2>1. S \in SUBSET Nat
    BY DEF S
  <2> QED
    BY <1>2, <1>3, <2>1, Induction
<1> QED
  BY <1>1, <1>4 DEF KeptFrom

\* The same of the whole sequence.
LEMMA KeptAll ==
  ASSUME NEW X, NEW s \in Seq(X), NEW T
  PROVE  KeptFrom(Kept(s, T), X, s, T, Len(s))
<1>1. Len(s) \in 0 .. Len(s)
  OBVIOUS
<1> QED
  BY <1>1, KeptMembers DEF Kept

\* One more element is kept or not.
LEMMA KeptAppend ==
  ASSUME NEW X, NEW s \in Seq(X), NEW x \in X, NEW T
  PROVE  Kept(Append(s, x), T) = IF x \in T THEN Append(Kept(s, T), x) ELSE Kept(s, T)
<1> DEFINE a == Append(s, x)
           S == {n \in Nat : n <= Len(s) => KeptTo(a, T)[n] = KeptTo(s, T)[n]}
<1>1. /\ a \in Seq(X) /\ Len(a) = Len(s) + 1 /\ Len(s) \in Nat
      /\ a[Len(s) + 1] = x /\ \A i \in 1 .. Len(s) : a[i] = s[i]
  OBVIOUS
<1> HIDE DEF a
<1>2. 0 \in S
  BY <1>1, KeptRounds
<1>3. ASSUME NEW n \in S PROVE n + 1 \in S
  <2> SUFFICES ASSUME n + 1 <= Len(s) PROVE KeptTo(a, T)[n + 1] = KeptTo(s, T)[n + 1]
    OBVIOUS
  <2>1. n \in 0 .. Len(s) - 1 /\ n \in 0 .. Len(a) - 1 /\ n <= Len(s) /\ n + 1 \in 1 .. Len(s)
    BY <1>1
  <2>2. KeptTo(a, T)[n + 1] = Round(a, T, KeptTo(a, T)[n], n + 1)
    BY <1>1, <2>1, KeptRounds
  <2>3. KeptTo(s, T)[n + 1] = Round(s, T, KeptTo(s, T)[n], n + 1)
    BY <2>1, KeptRounds
  <2>4. KeptTo(a, T)[n] = KeptTo(s, T)[n] /\ a[n + 1] = s[n + 1]
    BY <1>1, <2>1
  <2> QED
    BY <2>2, <2>3, <2>4 DEF Round
<1>4. Len(s) \in S
  <2> HIDE DEF S
  <2>1. S \in SUBSET Nat
    BY DEF S
  <2> QED
    BY <1>1, <1>2, <1>3, <2>1, Induction
<1>5. KeptTo(a, T)[Len(s) + 1] = Round(a, T, KeptTo(a, T)[Len(s)], Len(s) + 1)
  <2>1. Len(s) \in 0 .. Len(a) - 1
    BY <1>1
  <2> QED
    BY <1>1, <2>1, KeptRounds
<1>6. KeptTo(a, T)[Len(s)] = KeptTo(s, T)[Len(s)]
  BY <1>1, <1>4
<1> QED
  BY <1>1, <1>5, <1>6 DEF Kept, Round, a

\* Keeping twice is keeping what is in both sets.
LEMMA KeptTwice ==
  ASSUME NEW X, NEW s \in Seq(X), NEW T, NEW U
  PROVE  Kept(Kept(s, T), U) = Kept(s, T \cap U)
<1> DEFINE k(n) == KeptTo(s, T)[n]
           S == {n \in Nat : n <= Len(s) => Kept(k(n), U) = KeptTo(s, T \cap U)[n]}
<1>1. Len(s) \in Nat /\ \A i \in 1 .. Len(s) : s[i] \in X
  OBVIOUS
<1>2. 0 \in S
  <2>1. k(0) = <<>> /\ KeptTo(s, T \cap U)[0] = <<>>
    BY KeptRounds
  <2>2. <<>> \in Seq(X) /\ Len(<<>>) = 0
    OBVIOUS
  <2>3. KeptTo(<<>>, U)[0] = <<>>
    BY <2>2, KeptRounds
  <2> QED
    BY <2>1, <2>2, <2>3 DEF Kept
<1>3. ASSUME NEW n \in S PROVE n + 1 \in S
  <2> SUFFICES ASSUME n + 1 <= Len(s) PROVE Kept(k(n + 1), U) = KeptTo(s, T \cap U)[n + 1]
    OBVIOUS
  <2>1. n \in 0 .. Len(s) - 1 /\ n \in 0 .. Len(s) /\ n <= Len(s) /\ n + 1 \in 1 .. Len(s)
    BY <1>1
  <2>2. k(n + 1) = Round(s, T, k(n), n + 1)
    BY <2>1, KeptRounds
  <2>3. KeptTo(s, T \cap U)[n + 1] = Round(s, T \cap U, KeptTo(s, T \cap U)[n], n + 1)
    BY <2>1, KeptRounds
  <2>4. k(n) \in Seq(X \cap T) /\ s[n + 1] \in X
    BY <1>1, <2>1, KeptMembers DEF KeptFrom
  <2>5. Kept(k(n), U) = KeptTo(s, T \cap U)[n]
    BY <2>1
  <2> HIDE DEF k
  <2>6. CASE s[n + 1] \in T
    <3>1. s[n + 1] \in X \cap T
      BY <2>4, <2>6
    <3>2. Kept(Append(k(n), s[n + 1]), U) =
            IF s[n + 1] \in U THEN Append(Kept(k(n), U), s[n + 1]) ELSE Kept(k(n), U)
      <4>1. ASSUME NEW Y, NEW q \in Seq(Y), NEW x \in Y
            PROVE  Kept(Append(q, x), U) = IF x \in U THEN Append(Kept(q, U), x) ELSE Kept(q, U)
        BY KeptAppend
      <4> QED
        BY <2>4, <3>1, <4>1, Zenon
    <3> QED
      BY <2>2, <2>3, <2>5, <2>6, <3>2, Zenon DEF Round
  <2>7. CASE s[n + 1] \notin T
    BY <2>2, <2>3, <2>5, <2>7, Zenon DEF Round
  <2> QED
    BY <2>6, <2>7
<1>4. Len(s) \in S
  <2> HIDE DEF S
  <2>1. S \in SUBSET Nat
    BY DEF S
  <2> QED
    BY <1>1, <1>2, <1>3, <2>1, Induction
<1> QED
  BY <1>1, <1>4 DEF Kept

\* A sequence over a set is one over a larger set.
LEMMA SeqGrows ==
  ASSUME NEW X, NEW Y, NEW s \in Seq(X) PROVE s \in Seq(X \cup Y)
OBVIOUS

\* If everything is in T, everything is kept.
LEMMA KeptUnchanged ==
  ASSUME NEW X, NEW s \in Seq(X), NEW T, \A i \in 1 .. Len(s) : s[i] \in T
  PROVE  Kept(s, T) = s
<1> DEFINE k(n) == KeptTo(s, T)[n]
           Same(q, n) == q \in Seq(X) /\ Len(q) = n /\ \A i \in 1 .. n : q[i] = s[i]
           S == {n \in Nat : n <= Len(s) => Same(k(n), n)}
<1>1. Len(s) \in Nat /\ \A i \in 1 .. Len(s) : s[i] \in X
  OBVIOUS
<1>2. 0 \in S
  <2>1. k(0) = <<>>
    BY KeptRounds
  <2>2. <<>> \in Seq(X) /\ Len(<<>>) = 0 /\ \A i \in 1 .. 0 : FALSE
    OBVIOUS
  <2> HIDE DEF k
  <2>3. Same(k(0), 0)
    BY <2>1, <2>2, Zenon
  <2> QED
    BY <2>3
<1>3. ASSUME NEW n \in S PROVE n + 1 \in S
  <2> SUFFICES ASSUME n + 1 <= Len(s) PROVE Same(k(n + 1), n + 1)
    OBVIOUS
  <2>1. n \in Nat /\ n \in 0 .. Len(s) - 1 /\ n <= Len(s) /\ n + 1 \in 1 .. Len(s)
    BY <1>1
  <2>2. Same(k(n), n)
    BY <2>1
  <2>3. k(n + 1) = Append(k(n), s[n + 1])
    BY <2>1, KeptRounds DEF Round
  <2>4. s[n + 1] \in X
    BY <1>1, <2>1
  <2> HIDE DEF k
  <2>5. ASSUME NEW q \in Seq(X), Len(q) = n, NEW x \in X
        PROVE  /\ Append(q, x) \in Seq(X) /\ Len(Append(q, x)) = n + 1
               /\ Append(q, x)[n + 1] = x /\ \A i \in 1 .. n : Append(q, x)[i] = q[i]
    BY <2>5
  <2>6. PICK a : a = k(n)
    OBVIOUS
  <2>7. PICK x : x = s[n + 1]
    OBVIOUS
  <2>8. a \in Seq(X) /\ Len(a) = n /\ x \in X
    BY <2>2, <2>4, <2>6, <2>7
  <2>9. /\ Append(a, x) \in Seq(X) /\ Len(Append(a, x)) = n + 1
        /\ Append(a, x)[n + 1] = x /\ \A i \in 1 .. n : Append(a, x)[i] = a[i]
    BY <2>5, <2>8
  <2>10. /\ k(n + 1) \in Seq(X) /\ Len(k(n + 1)) = n + 1
         /\ k(n + 1)[n + 1] = s[n + 1] /\ \A i \in 1 .. n : k(n + 1)[i] = k(n)[i]
    BY <2>3, <2>6, <2>7, <2>9, Zenon
  <2>11. \A i \in 1 .. n + 1 : i = n + 1 \/ i \in 1 .. n
    BY <2>1
  <2> QED
    BY <2>2, <2>10, <2>11
<1>4. Len(s) \in S
  <2> HIDE DEF S
  <2>1. S \in SUBSET Nat
    BY DEF S
  <2> QED
    BY <1>1, <1>2, <1>3, <2>1, Induction
<1>5. Same(k(Len(s)), Len(s))
  BY <1>1, <1>4
<1>6. ASSUME NEW q \in Seq(X), Len(q) = Len(s), \A i \in 1 .. Len(s) : q[i] = s[i]
      PROVE  q = s
  BY <1>6
<1> HIDE DEF k
<1> QED
  BY <1>5, <1>6 DEF Kept, k

\* The elements of k are elements of s, of the first n, in the order of s.
InOrderOf(k, s, n) ==
  /\ \A i \in 1 .. Len(k) : \E p \in 1 .. n : k[i] = s[p]
  /\ \A i, j \in 1 .. Len(k) : i < j => \E p, q \in 1 .. n : p < q /\ k[i] = s[p] /\ k[j] = s[q]

\* What is kept is in the order of the sequence, from different places.
LEMMA KeptInOrder ==
  ASSUME NEW X, NEW s \in Seq(X), NEW T
  PROVE  InOrderOf(Kept(s, T), s, Len(s))
<1> DEFINE k(n) == KeptTo(s, T)[n]
           S == {n \in Nat : n <= Len(s) => InOrderOf(k(n), s, n)}
<1>1. Len(s) \in Nat /\ \A i \in 1 .. Len(s) : s[i] \in X
  OBVIOUS
<1>2. 0 \in S
  <2>1. k(0) = <<>>
    BY KeptRounds
  <2>2. \A i \in 1 .. Len(<<>>) : FALSE
    OBVIOUS
  <2> HIDE DEF k
  <2>3. InOrderOf(k(0), s, 0)
    BY <2>1, <2>2, Zenon DEF InOrderOf
  <2> QED
    BY <2>3
<1>3. ASSUME NEW n \in S PROVE n + 1 \in S
  <2> SUFFICES ASSUME n + 1 <= Len(s) PROVE InOrderOf(k(n + 1), s, n + 1)
    OBVIOUS
  <2>1. n \in Nat /\ n \in 0 .. Len(s) - 1 /\ n \in 0 .. Len(s) /\ n <= Len(s) /\ n + 1 \in 1 .. Len(s)
    BY <1>1
  <2>2. InOrderOf(k(n), s, n)
    BY <2>1
  <2>3. k(n + 1) = Round(s, T, k(n), n + 1)
    BY <2>1, KeptRounds
  <2>4. k(n) \in Seq(X \cap T)
    BY <2>1, KeptMembers DEF KeptFrom
  <2> HIDE DEF k
  <2>5. \A p \in 1 .. n : p \in 1 .. n + 1 /\ p < n + 1
    BY <2>1
  <2>6. CASE s[n + 1] \in T
    <3>1. k(n + 1) = Append(k(n), s[n + 1]) /\ s[n + 1] \in X \cap T
      BY <1>1, <2>1, <2>3, <2>6 DEF Round
    <3>2. ASSUME NEW a \in Seq(X \cap T), NEW x \in X \cap T
          PROVE  /\ Len(a) \in Nat /\ Len(Append(a, x)) = Len(a) + 1
                 /\ Append(a, x)[Len(a) + 1] = x
                 /\ \A i \in 1 .. Len(a) : Append(a, x)[i] = a[i]
      OBVIOUS
    <3>3. PICK a, b : a = k(n) /\ b = k(n + 1)
      OBVIOUS
    <3>4. /\ Len(a) \in Nat /\ Len(b) = Len(a) + 1 /\ b[Len(a) + 1] = s[n + 1]
          /\ \A i \in 1 .. Len(a) : b[i] = a[i]
      BY <2>4, <3>1, <3>2, <3>3
    <3>5. /\ \A i \in 1 .. Len(b) : i \in 1 .. Len(a) \/ i = Len(a) + 1
          /\ \A i, j \in 1 .. Len(b) : i < j => i \in 1 .. Len(a)
      BY <3>4
    <3>6. InOrderOf(a, s, n)
      BY <2>2, <3>3
    <3>7. ASSUME NEW i \in 1 .. Len(b) PROVE \E p \in 1 .. n + 1 : b[i] = s[p]
      <4>1. CASE i \in 1 .. Len(a)
        <5>1. PICK p \in 1 .. n : a[i] = s[p]
          BY <3>6, <4>1 DEF InOrderOf
        <5> QED
          BY <2>5, <3>4, <4>1, <5>1
      <4>2. CASE i = Len(a) + 1
        BY <2>1, <3>4, <4>2
      <4> QED
        BY <3>5, <4>1, <4>2
    <3>8. ASSUME NEW i \in 1 .. Len(b), NEW j \in 1 .. Len(b), i < j
          PROVE  \E p, q \in 1 .. n + 1 : p < q /\ b[i] = s[p] /\ b[j] = s[q]
      <4>1. i \in 1 .. Len(a) /\ b[i] = a[i]
        BY <3>4, <3>5, <3>8
      <4>2. CASE j \in 1 .. Len(a)
        <5>1. PICK p \in 1 .. n, q \in 1 .. n : p < q /\ a[i] = s[p] /\ a[j] = s[q]
          BY <3>6, <3>8, <4>1, <4>2 DEF InOrderOf
        <5> QED
          BY <2>5, <3>4, <4>1, <4>2, <5>1
      <4>3. CASE j = Len(a) + 1
        <5>1. PICK p \in 1 .. n : a[i] = s[p]
          BY <3>6, <4>1 DEF InOrderOf
        <5> QED
          BY <2>1, <2>5, <3>4, <4>1, <4>3, <5>1
      <4> QED
        BY <3>5, <4>2, <4>3
    <3>9. InOrderOf(b, s, n + 1)
      BY <3>7, <3>8 DEF InOrderOf
    <3> QED
      BY <3>3, <3>9
  <2>7. CASE s[n + 1] \notin T
    <3>1. k(n + 1) = k(n)
      BY <2>3, <2>7 DEF Round
    <3> QED
      BY <2>2, <2>5, <3>1 DEF InOrderOf
  <2> QED
    BY <2>6, <2>7
<1>4. Len(s) \in S
  <2> HIDE DEF S
  <2>1. S \in SUBSET Nat
    BY DEF S
  <2> QED
    BY <1>1, <1>2, <1>3, <2>1, Induction
<1> QED
  BY <1>1, <1>4 DEF Kept

=============================================================================
