--------------------------- MODULE ScenarioProofs ---------------------------
(***************************************************************************)
(* What a generated scenario is made of, for every configuration and every *)
(* draw; the two files of the demonstration, wherever it was stopped; its  *)
(* runs, none of which raises; and what they decide, which is the same     *)
(* every time.                                                             *)
(***************************************************************************)
EXTENDS Demo, ScenarioGenerator, FiniteSetTheorems, TLAPS

----------------------------------------------------------------------------
(***************************************************************************)
(* Recursion over an interval                                              *)
(***************************************************************************)

LEMMA Least ==
    ASSUME NEW S \in SUBSET Nat, S # {}
    PROVE  \E n \in S : \A k \in S : ~(k < n)
<1>1. PICK n \in S : \A k \in S : ~(<<k, n>> \in OpToRel(<, Nat))
  BY NatLessThanWellFounded, WFMin, Zenon
<1> QED
  BY <1>1 DEF OpToRel

\* A set of naturals with 0 and the successor of every element below m holds
\* all of 0 .. m.
LEMMA Induction ==
    ASSUME NEW m \in Nat, NEW S, 0 \in S,
           \A n \in 0 .. m - 1 : n \in S => n + 1 \in S
    PROVE  0 .. m \subseteq S
<1> DEFINE T == (0 .. m) \ S
<1> SUFFICES ASSUME T # {} PROVE FALSE
  OBVIOUS
<1>1. PICK n \in T : \A k \in T : ~(k < n)
  <2>1. T \in SUBSET Nat
    OBVIOUS
  <2> HIDE DEF T
  <2> QED
    BY <2>1, Least, Zenon
<1>2. n # 0 /\ n - 1 \in 0 .. m - 1 /\ n - 1 \notin T
  BY <1>1
<1> QED
  BY <1>2

\* A step function of the index and the value so far has its sequence of values.
LEMMA Recursion ==
    ASSUME NEW S, NEW a \in S, NEW m \in Nat, NEW next \in [1 .. m -> [S -> S]]
    PROVE  \E f \in [0 .. m -> S] :
              /\ f[0] = a
              /\ \A n \in 1 .. m : f[n] = next[n][f[n - 1]]
<1> DEFINE Values(f, k) == /\ f[0] = a
                           /\ \A n \in 1 .. k : f[n] = next[n][f[n - 1]]
           R == {k \in 0 .. m : \E f \in [0 .. k -> S] : Values(f, k)}
<1>1. 0 \in R
  <2> DEFINE f == [k \in 0 .. 0 |-> a]
  <2>1. f \in [0 .. 0 -> S] /\ Values(f, 0)
    OBVIOUS
  <2> HIDE DEF f
  <2> QED
    BY <2>1
<1>2. ASSUME NEW k \in 0 .. m - 1, k \in R PROVE k + 1 \in R
  <2> PICK f \in [0 .. k -> S] : Values(f, k)
    BY <1>2
  <2> DEFINE v == next[k + 1][f[k]]
             g == [n \in 0 .. k + 1 |-> IF n = k + 1 THEN v ELSE f[n]]
  <2>1. v \in S
    <3>1. k + 1 \in 1 .. m /\ f[k] \in S
      OBVIOUS
    <3> QED
      BY <3>1
  <2>2. g \in [0 .. k + 1 -> S]
    BY <2>1
  <2>3. g[0] = a
    OBVIOUS
  <2>4. ASSUME NEW n \in 1 .. k + 1 PROVE g[n] = next[n][g[n - 1]]
    <3>1. g[n - 1] = f[n - 1]
      OBVIOUS
    <3>2. CASE n = k + 1
      <4>1. g[n] = v /\ n - 1 = k
        BY <3>2
      <4> HIDE DEF g
      <4> QED
        BY <3>1, <3>2, <4>1
    <3>3. CASE n # k + 1
      <4>1. n \in 1 .. k /\ g[n] = f[n]
        BY <3>3
      <4> HIDE DEF g
      <4> QED
        BY <3>1, <4>1
    <3> QED
      BY <3>2, <3>3
  <2> HIDE DEF g
  <2> QED
    BY <2>2, <2>3, <2>4
<1>3. 0 .. m \subseteq R
  <2> HIDE DEF R
  <2> QED
    BY <1>1, <1>2, Induction
<1> QED
  <2>1. m \in R
    BY <1>3
  <2> QED
    BY <2>1

----------------------------------------------------------------------------
(***************************************************************************)
(* Filters and concatenations of sequences                                 *)
(***************************************************************************)

LEMMA RangeOfAppend ==
    ASSUME NEW T, NEW s \in Seq(T), NEW e \in T
    PROVE  Range(Append(s, e)) = Range(s) \cup {e}
<1>1. DOMAIN Append(s, e) = 1 .. Len(s) + 1
  OBVIOUS
<1>2. \A i \in 1 .. Len(s) : Append(s, e)[i] = s[i]
  OBVIOUS
<1>3. Append(s, e)[Len(s) + 1] = e
  OBVIOUS
<1>4. 1 .. Len(s) + 1 = (1 .. Len(s)) \cup {Len(s) + 1} /\ DOMAIN s = 1 .. Len(s)
  OBVIOUS
<1> QED
  BY <1>1, <1>2, <1>3, <1>4 DEF Range

LEMMA InjectiveAppend ==
    ASSUME NEW T, NEW s \in Seq(T), NEW e \in T, IsInjective(s), e \notin Range(s)
    PROVE  IsInjective(Append(s, e))
<1> SUFFICES ASSUME NEW i \in DOMAIN Append(s, e), NEW j \in DOMAIN Append(s, e),
                    Append(s, e)[i] = Append(s, e)[j]
             PROVE  i = j
  BY DEF IsInjective
<1>1. \A k \in DOMAIN Append(s, e) :
          Append(s, e)[k] = IF k \in 1 .. Len(s) THEN s[k] ELSE e
  OBVIOUS
<1>2. \A k \in 1 .. Len(s) : s[k] # e
  BY DEF Range
<1>3. \A k \in DOMAIN Append(s, e) : k \in 1 .. Len(s) \/ k = Len(s) + 1
  OBVIOUS
<1> QED
  BY <1>1, <1>2, <1>3 DEF IsInjective

LEMMA RangeOfConcat ==
    ASSUME NEW T, NEW s \in Seq(T), NEW t \in Seq(T)
    PROVE  Range(s \o t) = Range(s) \cup Range(t)
<1>1. \A i \in 1 .. Len(s) : i \in DOMAIN (s \o t) /\ (s \o t)[i] = s[i]
  OBVIOUS
<1>2. \A i \in 1 .. Len(t) :
          Len(s) + i \in DOMAIN (s \o t) /\ (s \o t)[Len(s) + i] = t[i]
  OBVIOUS
<1>3. \A i \in DOMAIN (s \o t) :
          \/ i \in 1 .. Len(s) /\ (s \o t)[i] = s[i]
          \/ i - Len(s) \in 1 .. Len(t) /\ (s \o t)[i] = t[i - Len(s)]
  OBVIOUS
<1>4. DOMAIN s = 1 .. Len(s) /\ DOMAIN t = 1 .. Len(t)
  OBVIOUS
<1> DEFINE st == s \o t
<1> HIDE DEF st
<1>5. Range(st) \subseteq Range(s) \cup Range(t)
  BY <1>3, <1>4 DEF Range, st
<1>6. Range(s) \subseteq Range(st) /\ Range(t) \subseteq Range(st)
  BY <1>1, <1>2, <1>4 DEF Range, st
<1> QED
  BY <1>5, <1>6 DEF st

LEMMA InjectiveConcat ==
    ASSUME NEW T, NEW s \in Seq(T), NEW t \in Seq(T), IsInjective(s), IsInjective(t),
           Range(s) \cap Range(t) = {}
    PROVE  IsInjective(s \o t)
<1> SUFFICES ASSUME NEW i \in DOMAIN (s \o t), NEW j \in DOMAIN (s \o t),
                    (s \o t)[i] = (s \o t)[j]
             PROVE  i = j
  BY DEF IsInjective
<1>1. \A k \in DOMAIN (s \o t) :
          \/ k \in 1 .. Len(s) /\ (s \o t)[k] = s[k]
          \/ k - Len(s) \in 1 .. Len(t) /\ (s \o t)[k] = t[k - Len(s)]
  OBVIOUS
<1>2. \A k \in 1 .. Len(s) : \A l \in 1 .. Len(t) : s[k] # t[l]
  <2>1. \A k \in 1 .. Len(s) : s[k] \in Range(s)
    BY DEF Range
  <2>2. \A l \in 1 .. Len(t) : t[l] \in Range(t)
    BY DEF Range
  <2> QED
    BY <2>1, <2>2
<1>3. i \in Int /\ j \in Int
  OBVIOUS
<1>4. \A k, l \in 1 .. Len(s) : s[k] = s[l] => k = l
  BY DEF IsInjective
<1>5. \A k, l \in 1 .. Len(t) : t[k] = t[l] => k = l
  BY DEF IsInjective
<1>6. Len(s) \in Nat
  OBVIOUS
<1> DEFINE st == s \o t
<1>7. st[i] = st[j] /\ i \in DOMAIN st /\ j \in DOMAIN st
  OBVIOUS
<1>8. \A k \in DOMAIN st : \/ k \in 1 .. Len(s) /\ st[k] = s[k]
                           \/ k - Len(s) \in 1 .. Len(t) /\ st[k] = t[k - Len(s)]
  BY <1>1
<1> HIDE DEF st
<1>9. CASE i \in 1 .. Len(s) /\ st[i] = s[i]
  BY <1>2, <1>4, <1>7, <1>8, <1>9
<1>10. CASE i - Len(s) \in 1 .. Len(t) /\ st[i] = t[i - Len(s)]
  BY <1>2, <1>3, <1>5, <1>6, <1>7, <1>8, <1>10
<1> QED
  BY <1>7, <1>8, <1>9, <1>10

\* f holds the filtered prefixes of s.
IsSelection(f, s, W) ==
    f = [n \in 0 .. Len(s) |->
            IF n = 0 THEN <<>>
            ELSE IF s[n] \in W THEN Append(f[n - 1], s[n]) ELSE f[n - 1]]

LEMMA SelectionExists ==
    ASSUME NEW T, NEW s \in Seq(T), NEW W
    PROVE  \E f : IsSelection(f, s, W)
<1> DEFINE Extend(n, r) == IF s[n] \in W THEN Append(r, s[n]) ELSE r
           next == [n \in 1 .. Len(s) |-> [r \in Seq(T) |-> Extend(n, r)]]
<1>1. Len(s) \in Nat /\ <<>> \in Seq(T)
  OBVIOUS
<1>2. \A n \in 1 .. Len(s) : \A r \in Seq(T) : Extend(n, r) \in Seq(T)
  OBVIOUS
<1>3. next \in [1 .. Len(s) -> [Seq(T) -> Seq(T)]]
  <2> HIDE DEF Extend
  <2> QED
    BY <1>2
<1>4. \A n \in 1 .. Len(s) : \A r \in Seq(T) : next[n][r] = Extend(n, r)
  <2> HIDE DEF Extend
  <2> QED
    OBVIOUS
<1> HIDE DEF next
<1>5. \E f \in [0 .. Len(s) -> Seq(T)] :
          f[0] = <<>> /\ \A n \in 1 .. Len(s) : f[n] = next[n][f[n - 1]]
  <2> DEFINE S == Seq(T)
             a == <<>>
             m == Len(s)
  <2>1. m \in Nat /\ a \in S /\ next \in [1 .. m -> [S -> S]]
    BY <1>1, <1>3
  <2>2. \E f \in [0 .. m -> S] :
            f[0] = a /\ \A n \in 1 .. m : f[n] = next[n][f[n - 1]]
    <3> HIDE DEF S, a, m
    <3> QED
      BY <2>1, Recursion
  <2> QED
    BY <2>2
<1>6. PICK f \in [0 .. Len(s) -> Seq(T)] :
          f[0] = <<>> /\ \A n \in 1 .. Len(s) : f[n] = next[n][f[n - 1]]
  BY <1>5
<1>7. ASSUME NEW n \in 0 .. Len(s)
      PROVE  f[n] = IF n = 0 THEN <<>> ELSE Extend(n, f[n - 1])
  <2>1. n # 0 => n \in 1 .. Len(s) /\ n - 1 \in 0 .. Len(s)
    BY <1>1
  <2>2. n # 0 => f[n - 1] \in Seq(T)
    BY <2>1
  <2> HIDE DEF Extend
  <2> QED
    BY <1>4, <1>6, <2>1, <2>2
<1>8. f = [n \in 0 .. Len(s) |-> f[n]]
  OBVIOUS
<1>9. f = [n \in 0 .. Len(s) |-> IF n = 0 THEN <<>> ELSE Extend(n, f[n - 1])]
  <2> HIDE DEF Extend
  <2> QED
    BY <1>7, <1>8
<1>10. IsSelection(f, s, W)
  BY <1>9 DEF IsSelection
<1> QED
  BY <1>10

LEMMA SelectionType ==
    ASSUME NEW T, NEW s \in Seq(T), NEW W, NEW f, IsSelection(f, s, W)
    PROVE  f \in [0 .. Len(s) -> Seq(T)]
<1> DEFINE R == {n \in 0 .. Len(s) : f[n] \in Seq(T)}
<1>1. f = [n \in 0 .. Len(s) |-> f[n]]
  BY DEF IsSelection
<1>2. \A n \in 0 .. Len(s) :
          f[n] = IF n = 0 THEN <<>>
                 ELSE IF s[n] \in W THEN Append(f[n - 1], s[n]) ELSE f[n - 1]
  BY DEF IsSelection
<1>3. 0 \in R
  <2>1. Len(s) \in Nat /\ <<>> \in Seq(T)
    OBVIOUS
  <2>2. f[0] = <<>>
    BY <1>2, <2>1
  <2>3. f[0] \in Seq(T)
    BY <2>1, <2>2, Zenon
  <2>4. 0 \in 0 .. Len(s)
    BY <2>1
  <2> QED
    BY <2>3, <2>4
<1>4. ASSUME NEW n \in 0 .. Len(s) - 1, n \in R PROVE n + 1 \in R
  <2>1. n + 1 \in 0 .. Len(s) /\ n + 1 # 0 /\ n + 1 - 1 = n
    OBVIOUS
  <2>2. s[n + 1] \in T
    OBVIOUS
  <2>3. f[n + 1] = IF s[n + 1] \in W THEN Append(f[n], s[n + 1]) ELSE f[n]
    BY <1>2, <2>1
  <2>4. f[n + 1] \in Seq(T)
    BY <1>4, <2>2, <2>3
  <2> QED
    BY <2>1, <2>4
<1>5. 0 .. Len(s) \subseteq R
  <2>1. Len(s) \in Nat
    OBVIOUS
  <2> HIDE DEF R
  <2> QED
    BY <1>3, <1>4, <2>1, Induction
<1>6. \A n \in 0 .. Len(s) : f[n] \in Seq(T)
  BY <1>5
<1> HIDE DEF R
<1> QED
  BY <1>1, <1>6

\* The filter goes through the sequence once.
LEMMA SelectedSteps ==
    ASSUME NEW T, NEW s \in Seq(T), NEW W
    PROVE  \E f \in [0 .. Len(s) -> Seq(T)] :
              IsSelection(f, s, W) /\ Selected(s, W) = f[Len(s)]
<1> DEFINE f == CHOOSE g : IsSelection(g, s, W)
<1>1. IsSelection(f, s, W)
  BY SelectionExists
<1>2. Selected(s, W) = f[Len(s)]
  BY DEF Selected, IsSelection
<1> HIDE DEF f
<1> QED
  BY <1>1, <1>2, SelectionType

\* The filter keeps the elements in W, and repeats none that s does not repeat.
LEMMA SelectedFacts ==
    ASSUME NEW T, NEW s \in Seq(T), NEW W
    PROVE  /\ Selected(s, W) \in Seq(T)
           /\ Range(Selected(s, W)) = Range(s) \cap W
           /\ IsInjective(s) => IsInjective(Selected(s, W))
<1>1. PICK f \in [0 .. Len(s) -> Seq(T)] :
          IsSelection(f, s, W) /\ Selected(s, W) = f[Len(s)]
  BY SelectedSteps
<1> DEFINE First(n) == {s[i] : i \in 1 .. n}
           R == {n \in 0 .. Len(s) : /\ Range(f[n]) = First(n) \cap W
                                     /\ IsInjective(s) => IsInjective(f[n])}
<1>2. Len(s) \in Nat
  OBVIOUS
<1>3. f[0] = <<>>
  BY <1>1, <1>2 DEF IsSelection
<1>4. \A n \in 1 .. Len(s) :
          f[n] = IF s[n] \in W THEN Append(f[n - 1], s[n]) ELSE f[n - 1]
  <2>1. \A n \in 0 .. Len(s) :
            f[n] = IF n = 0 THEN <<>>
                   ELSE IF s[n] \in W THEN Append(f[n - 1], s[n]) ELSE f[n - 1]
    BY <1>1 DEF IsSelection
  <2>2. \A n \in 1 .. Len(s) : n \in 0 .. Len(s) /\ n # 0
    BY <1>2
  <2> QED
    BY <2>1, <2>2
<1>5. 0 \in R
  <2>1. Range(f[0]) = {} /\ IsInjective(f[0])
    BY <1>3 DEF Range, IsInjective
  <2>2. First(0) = {} /\ 0 \in 0 .. Len(s)
    BY <1>2
  <2> HIDE DEF First
  <2> QED
    BY <2>1, <2>2
<1>6. ASSUME NEW n \in 0 .. Len(s) - 1, n \in R PROVE n + 1 \in R
  <2>1. n + 1 \in 1 .. Len(s) /\ n + 1 \in 0 .. Len(s) /\ n + 1 - 1 = n
    BY <1>2
  <2>2. s[n + 1] \in T /\ f[n] \in Seq(T)
    BY <2>1
  <2>3. f[n + 1] = IF s[n + 1] \in W THEN Append(f[n], s[n + 1]) ELSE f[n]
    BY <1>4, <2>1
  <2>4. First(n + 1) = First(n) \cup {s[n + 1]}
    <3>1. 1 .. n + 1 = (1 .. n) \cup {n + 1}
      OBVIOUS
    <3> QED
      BY <3>1
  <2>5. Range(f[n]) = First(n) \cap W /\ (IsInjective(s) => IsInjective(f[n]))
    BY <1>6
  <2>6. IsInjective(s) => s[n + 1] \notin First(n)
    BY <1>2, <2>1 DEF IsInjective
  <2> HIDE DEF First
  <2>7. CASE s[n + 1] \in W
    <3>1. Range(f[n + 1]) = Range(f[n]) \cup {s[n + 1]}
      BY <2>2, <2>3, <2>7, RangeOfAppend
    <3>2. IsInjective(s) => IsInjective(f[n + 1])
      <4>1. IsInjective(s) => IsInjective(f[n]) /\ s[n + 1] \notin Range(f[n])
        BY <2>5, <2>6
      <4> QED
        BY <2>2, <2>3, <2>7, <4>1, InjectiveAppend
    <3> QED
      BY <2>1, <2>4, <2>5, <2>7, <3>1, <3>2
  <2>8. CASE s[n + 1] \notin W
    BY <2>1, <2>3, <2>4, <2>5, <2>8
  <2> QED
    BY <2>7, <2>8
<1>7. Len(s) \in R
  <2> HIDE DEF R
  <2>1. 0 .. Len(s) \subseteq R
    BY <1>2, <1>5, <1>6, Induction
  <2> QED
    BY <1>2, <2>1
<1>8. First(Len(s)) = Range(s)
  BY DEF Range
<1> QED
  BY <1>1, <1>2, <1>7, <1>8

\* What is in W occurs once in the filter when it occurs once in s.
LEMMA SelectedOne ==
    ASSUME NEW T, NEW s \in Seq(T), NEW W, NEW e, IsInjective(s),
           Range(s) \cap W = {e}
    PROVE  Selected(s, W) = <<e>>
<1> DEFINE own == Selected(s, W)
<1>1. own \in Seq(T) /\ Range(own) = {e} /\ IsInjective(own)
  BY SelectedFacts
<1> HIDE DEF own
<1>2. \A i \in 1 .. Len(own) : own[i] = e
  BY <1>1 DEF Range
<1>3. \A i, j \in 1 .. Len(own) : i = j
  BY <1>1, <1>2 DEF IsInjective
<1>4. PICK k \in 1 .. Len(own) : own[k] = e
  BY <1>1 DEF Range
<1>5. Len(own) = 1
  <2>1. Len(own) \in Nat /\ 1 \in 1 .. Len(own) /\ Len(own) \in 1 .. Len(own)
    BY <1>1, <1>4
  <2> QED
    BY <1>3, <2>1
<1>6. own = <<e>>
  BY <1>1, <1>2, <1>5
<1> QED
  BY <1>6 DEF own

\* f holds the concatenations of the first members of gs.
IsConcatenation(f, gs) ==
    f = [i \in 1 .. Len(gs) |-> IF i = 1 THEN gs[i] ELSE f[i - 1] \o gs[i]]

LEMMA ConcatenationExists ==
    ASSUME NEW T, NEW gs \in Seq(Seq(T))
    PROVE  \E f : IsConcatenation(f, gs)
<1> DEFINE S == Seq(T)
           a == <<>>
           m == Len(gs)
           next == [n \in 1 .. m |-> [r \in S |-> r \o gs[n]]]
<1>1. m \in Nat /\ a \in S /\ \A n \in 1 .. m : gs[n] \in S
  OBVIOUS
<1>2. \A r, t \in S : r \o t \in S
  OBVIOUS
<1>3. \A r \in S : a \o r = r
  OBVIOUS
<1> HIDE DEF S, a, m
<1>4. next \in [1 .. m -> [S -> S]]
  BY <1>1, <1>2
<1>5. \A n \in 1 .. m : \A r \in S : next[n][r] = r \o gs[n]
  OBVIOUS
<1> HIDE DEF next
<1>6. PICK f \in [0 .. m -> S] :
          f[0] = a /\ \A n \in 1 .. m : f[n] = next[n][f[n - 1]]
  <2>1. m \in Nat /\ a \in S
    BY <1>1
  <2>2. \E f \in [0 .. m -> S] :
            f[0] = a /\ \A n \in 1 .. m : f[n] = next[n][f[n - 1]]
    BY <2>1, <1>4, Recursion
  <2> QED
    BY <2>2
<1> DEFINE g == [i \in 1 .. m |-> f[i]]
<1>7. ASSUME NEW i \in 1 .. m
      PROVE  f[i] = IF i = 1 THEN gs[i] ELSE g[i - 1] \o gs[i]
  <2>1. i - 1 \in 0 .. m /\ f[i - 1] \in S
    BY <1>1
  <2>2. f[i] = f[i - 1] \o gs[i]
    BY <1>5, <1>6, <2>1
  <2>3. CASE i = 1
    BY <1>1, <1>3, <1>6, <2>2, <2>3
  <2>4. CASE i # 1
    <3>1. i - 1 \in 1 .. m
      BY <1>1, <2>4
    <3>2. g[i - 1] = f[i - 1]
      BY <3>1
    <3> HIDE DEF g
    <3> QED
      BY <2>2, <2>4, <3>2
  <2> QED
    BY <2>3, <2>4
<1>8. g = [i \in 1 .. m |-> IF i = 1 THEN gs[i] ELSE g[i - 1] \o gs[i]]
  <2> DEFINE A(i) == f[i]
             B(i) == IF i = 1 THEN gs[i] ELSE g[i - 1] \o gs[i]
  <2>1. g = [i \in 1 .. m |-> A(i)]
    OBVIOUS
  <2>2. \A i \in 1 .. m : A(i) = B(i)
    <3> HIDE DEF g
    <3> QED
      BY <1>7
  <2>3. g = [i \in 1 .. m |-> B(i)]
    <3> HIDE DEF g, A, B
    <3> QED
      BY <2>1, <2>2
  <2> HIDE DEF g
  <2> QED
    BY <2>3
<1> HIDE DEF g
<1>9. IsConcatenation(g, gs)
  BY <1>8 DEF IsConcatenation, m
<1> QED
  BY <1>9

\* The concatenation goes through its parts once.
LEMMA FlattenSteps ==
    ASSUME NEW T, NEW gs \in Seq(Seq(T))
    PROVE  \E f \in [0 .. Len(gs) -> Seq(T)] :
              /\ f[0] = <<>>
              /\ \A n \in 1 .. Len(gs) : f[n] = f[n - 1] \o gs[n]
              /\ FlattenSeq(gs) = f[Len(gs)]
<1> DEFINE S == Seq(T)
           a == <<>>
           m == Len(gs)
           c == CHOOSE g : IsConcatenation(g, gs)
           f == [n \in 0 .. m |-> IF n = 0 THEN a ELSE c[n]]
<1>1. m \in Nat /\ a \in S /\ \A n \in 1 .. m : gs[n] \in S
  OBVIOUS
<1>2. \A r, t \in S : r \o t \in S
  OBVIOUS
<1>3. \A r \in S : a \o r = r
  OBVIOUS
<1>4. IsConcatenation(c, gs)
  BY ConcatenationExists
<1>5. FlattenSeq(gs) = IF m = 0 THEN gs ELSE c[m]
  BY DEF FlattenSeq, IsConcatenation
<1>6. m = 0 => gs = a
  OBVIOUS
<1> HIDE DEF S, a, c
<1>7. \A i \in 1 .. m : c[i] = IF i = 1 THEN gs[i] ELSE c[i - 1] \o gs[i]
  BY <1>4 DEF IsConcatenation
<1> HIDE DEF m
<1>8. f[0] = a
  BY <1>1
<1>9. ASSUME NEW n \in 1 .. m PROVE f[n] = f[n - 1] \o gs[n]
  <2>1. f[n] = c[n] /\ (n # 1 => f[n - 1] = c[n - 1]) /\ (n = 1 => f[n - 1] = a)
    BY <1>1
  <2> HIDE DEF f
  <2> QED
    BY <1>1, <1>3, <1>7, <2>1
<1>10. \A n \in 0 .. m : f[n] \in S
  <2> DEFINE R == {n \in 0 .. m : f[n] \in S}
  <2>1. 0 \in R
    BY <1>1, <1>8
  <2>2. ASSUME NEW n \in 0 .. m - 1, n \in R PROVE n + 1 \in R
    <3>1. n + 1 \in 1 .. m /\ n + 1 \in 0 .. m /\ n + 1 - 1 = n
      BY <1>1
    <3> HIDE DEF f
    <3>2. PICK k \in 1 .. m : k = n + 1 /\ k - 1 = n
      BY <3>1
    <3>3. f[n] \in S /\ gs[n + 1] \in S
      BY <1>1, <2>2, <3>1
    <3>4. f[k] = f[k - 1] \o gs[k]
      BY <1>9
    <3>5. f[n + 1] \in S
      BY <1>2, <3>2, <3>3, <3>4
    <3> QED
      BY <3>1, <3>5
  <2>3. 0 .. m \subseteq R
    <3> HIDE DEF R
    <3> QED
      BY <1>1, <2>1, <2>2, Induction
  <2> HIDE DEF f
  <2> QED
    BY <2>3
<1>11. f \in [0 .. m -> S]
  <2>1. f = [n \in 0 .. m |-> f[n]]
    OBVIOUS
  <2> HIDE DEF f
  <2> QED
    BY <1>10, <2>1
<1>12. FlattenSeq(gs) = f[m]
  <2>1. m = 0 \/ m \in 1 .. m
    BY <1>1
  <2> QED
    BY <1>1, <1>5, <1>6, <2>1
<1> HIDE DEF f
<1> QED
  BY <1>8, <1>9, <1>11, <1>12 DEF S, a, m

LEMMA FlattenFacts ==
    ASSUME NEW T, NEW gs \in Seq(Seq(T))
    PROVE  /\ FlattenSeq(gs) \in Seq(T)
           /\ Range(FlattenSeq(gs)) = UNION {Range(gs[i]) : i \in 1 .. Len(gs)}
           /\ (/\ \A i \in 1 .. Len(gs) : IsInjective(gs[i])
               /\ \A i, j \in 1 .. Len(gs) :
                     i # j => Range(gs[i]) \cap Range(gs[j]) = {})
              => IsInjective(FlattenSeq(gs))
<1> DEFINE m == Len(gs)
           Parts == /\ \A i \in 1 .. m : IsInjective(gs[i])
                    /\ \A i, j \in 1 .. m :
                          i # j => Range(gs[i]) \cap Range(gs[j]) = {}
           All(n) == UNION {Range(gs[i]) : i \in 1 .. n}
<1>1. PICK f \in [0 .. m -> Seq(T)] :
          /\ f[0] = <<>>
          /\ \A n \in 1 .. m : f[n] = f[n - 1] \o gs[n]
          /\ FlattenSeq(gs) = f[m]
  BY FlattenSteps
<1> DEFINE R == {n \in 0 .. m : Range(f[n]) = All(n) /\ (Parts => IsInjective(f[n]))}
<1>2. m \in Nat /\ \A n \in 1 .. m : gs[n] \in Seq(T)
  OBVIOUS
<1>3. 0 \in R
  <2>1. Range(f[0]) = {} /\ IsInjective(f[0])
    BY <1>1 DEF Range, IsInjective
  <2>2. All(0) = {} /\ 0 \in 0 .. m
    BY <1>2
  <2> HIDE DEF All, Parts
  <2> QED
    BY <2>1, <2>2
<1>4. ASSUME NEW n \in 0 .. m - 1, n \in R PROVE n + 1 \in R
  <2> HIDE DEF m
  <2>1. n + 1 \in 1 .. m /\ n + 1 \in 0 .. m /\ n + 1 - 1 = n /\ n \in 0 .. m
    BY <1>2
  <2>2. gs[n + 1] \in Seq(T) /\ f[n] \in Seq(T) /\ f[n + 1] = f[n] \o gs[n + 1]
    <3>1. gs[n + 1] \in Seq(T) /\ f[n] \in Seq(T)
      BY <1>2, <2>1
    <3>2. PICK k \in 1 .. m : k = n + 1 /\ k - 1 = n
      BY <2>1
    <3>3. f[k] = f[k - 1] \o gs[k]
      BY <1>1
    <3> QED
      BY <3>1, <3>2, <3>3
  <2>3. All(n + 1) = All(n) \cup Range(gs[n + 1])
    <3>1. 1 .. n + 1 = (1 .. n) \cup {n + 1}
      BY <2>1
    <3> QED
      BY <3>1
  <2>4. Range(f[n + 1]) = Range(f[n]) \cup Range(gs[n + 1])
    BY <2>2, RangeOfConcat
  <2>5. Range(f[n]) = All(n) /\ (Parts => IsInjective(f[n]))
    BY <1>4
  <2>6. Parts => IsInjective(gs[n + 1]) /\ All(n) \cap Range(gs[n + 1]) = {}
    <3> SUFFICES ASSUME Parts
                 PROVE  IsInjective(gs[n + 1]) /\ All(n) \cap Range(gs[n + 1]) = {}
      OBVIOUS
    <3>1. IsInjective(gs[n + 1])
      BY <2>1
    <3>2. ASSUME NEW i \in 1 .. n PROVE Range(gs[i]) \cap Range(gs[n + 1]) = {}
      <4>1. i \in 1 .. m /\ i # n + 1
        <5> HIDE DEF Parts
        <5> QED
          BY <2>1, <1>2
      <4> QED
        BY <2>1, <4>1, Zenon
    <3> HIDE DEF Parts
    <3> QED
      BY <3>1, <3>2
  <2> HIDE DEF All, Parts
  <2>7. Parts => IsInjective(f[n + 1])
    BY <2>2, <2>5, <2>6, InjectiveConcat
  <2> QED
    BY <2>1, <2>3, <2>4, <2>5, <2>7
<1>5. m \in R
  <2> HIDE DEF R, m
  <2>1. 0 .. m \subseteq R
    BY <1>2, <1>3, <1>4, Induction
  <2> QED
    BY <1>2, <2>1
<1>6. FlattenSeq(gs) = f[m] /\ f[m] \in Seq(T)
  BY <1>1, <1>2
<1> QED
  BY <1>5, <1>6

----------------------------------------------------------------------------
(***************************************************************************)
(* What generate_scenario returns                                          *)
(***************************************************************************)

\* Two blocks of a generated scenario never get the same identifier: what the
\* separators of f"rb-{tti.index}-{j}" are for.  The run of the generator checks
\* it on the identifiers themselves; here they are put together from strings,
\* which no prover can take apart.
BlockIdsAreUnique ==
    \A c \in Configs : Valid(c) =>
        \A t, u \in 0 .. c.ttis - 1 : \A i, j \in 0 .. c.blocks - 1 :
            BlockId(t, i) = BlockId(u, j) => t = u /\ i = j

\* The records drawn so far are one for each (TTI, UE), in that order, with
\* values in the range asked for.
Drawn(records, lo, hi) ==
    /\ records \in Seq([tti : 0 .. config.ttis - 1,
                        ue : {UeId(i) : i \in 0 .. config.ues - 1},
                        value : lo .. hi])
    /\ \A k \in DOMAIN records :
          /\ records[k].tti = (k - 1) \div config.ues
          /\ records[k].ue = UeId((k - 1) % config.ues)

GeneratorInv ==
    /\ config \in Configs
    /\ genPc \in {"called", "refused", "qualities", "arrivals", "build", "returned"}
    /\ genPc \notin {"called", "refused"} =>
          /\ Valid(config)
          /\ Drawn(qualityRecords, config.cqiMin, config.cqiMax)
          /\ Drawn(arrivalRecords, config.bytesMin, config.bytesMax)
          /\ genPc = "qualities" =>
                Len(qualityRecords) < Pairs /\ Len(arrivalRecords) = 0
          /\ genPc # "qualities" => Len(qualityRecords) = Pairs
          /\ genPc = "arrivals" => Len(arrivalRecords) < Pairs
          /\ genPc \in {"build", "returned"} => Len(arrivalRecords) = Pairs
    /\ genPc = "called" => qualityRecords = <<>> /\ arrivalRecords = <<>>
    /\ genPc = "returned" =>
          /\ scenario.ttis = TtiIndices(config.ttis)
          /\ scenario.ues = [i \in 1 .. config.ues |-> UeId(i - 1)]
          /\ scenario.blocks = ResourceBlocks([t \in 0 .. config.ttis - 1 |-> config.blocks])
          /\ scenario.qualities = qualityRecords
          /\ scenario.arrivals = arrivalRecords

\* ConfigsAssumption and __post_init__ for one configuration.
LEMMA ValidConfig ==
    ASSUME config \in Configs, Valid(config)
    PROVE  /\ config.ues \in Nat \ {0} /\ config.ttis \in Nat \ {0}
           /\ config.blocks \in Nat \ {0}
           /\ config.cqiMin \in Cqi /\ config.cqiMax \in Cqi
           /\ config.bytesMin \in Nat /\ config.bytesMax \in Nat
           /\ Pairs \in Nat \ {0}
<1>1. /\ config.ues \in Int /\ config.ttis \in Int /\ config.blocks \in Int
      /\ config.bytesMin \in Int /\ config.bytesMax \in Int
  BY ConfigsAssumption
<1> QED
  BY <1>1 DEF Valid, Pairs

LEMMA ConfigUeIds ==
    ASSUME config \in Configs, Valid(config)
    PROVE  \A i, j \in 0 .. config.ues - 1 :
               UeId(i) \in UeIds /\ (UeId(i) = UeId(j) => i = j)
<1> DEFINE D == 0 .. config.ues - 1
           f == [i \in D |-> UeId(i)]
<1>1. f \in Injection(D, UeIds)
  BY UeIdsAssumption
<1>2. f \in [D -> UeIds] /\ IsInjective(f)
  BY <1>1 DEF Injection
<1>3. \A i \in D : f[i] = UeId(i)
  OBVIOUS
<1> HIDE DEF f
<1> QED
  BY <1>2, <1>3 DEF IsInjective

\* The k-th record is the one of the k-th pair, while there is a k-th pair.
LEMMA RecordFacts ==
    ASSUME config \in Configs, Valid(config), NEW k \in 0 .. Pairs - 1, NEW v
    PROVE  /\ Record(k, v) = [tti |-> k \div config.ues,
                              ue |-> UeId(k % config.ues), value |-> v]
           /\ k \div config.ues \in 0 .. config.ttis - 1
           /\ k % config.ues \in 0 .. config.ues - 1
<1> DEFINE n == config.ues
           m == config.ttis
<1>1. n \in Nat \ {0} /\ m \in Nat \ {0} /\ k \in Nat /\ k < m * n
  <2>1. n \in Nat \ {0} /\ m \in Nat \ {0}
    BY ValidConfig
  <2> QED
    BY <2>1 DEF Pairs
<1>2. Ues(config) = [i \in 1 .. n |->
          [id |-> UeId(i - 1),
           class |-> config.classes[((i - 1) % Len(config.classes)) + 1]]]
  BY DEF Ues
<1> HIDE DEF n, m
<1>3. k % n \in 0 .. n - 1
  BY <1>1
<1>4. k \div n \in 0 .. m - 1
  BY <1>1
<1>5. Ues(config)[(k % n) + 1].id = UeId(k % n)
  <2>1. PICK i \in 1 .. n : i = (k % n) + 1 /\ i - 1 = k % n
    BY <1>1, <1>3
  <2>2. Ues(config)[i].id = UeId(i - 1)
    BY <1>2
  <2> QED
    BY <2>1, <2>2
<1> QED
  BY <1>3, <1>4, <1>5 DEF Record, n, m

LEMMA DrawnAppend ==
    ASSUME config \in Configs, Valid(config), NEW records, NEW lo \in Int, NEW hi \in Int,
           Drawn(records, lo, hi), Len(records) < Pairs, NEW v \in lo .. hi
    PROVE  /\ Drawn(Append(records, Record(Len(records), v)), lo, hi)
           /\ Len(Append(records, Record(Len(records), v))) = Len(records) + 1
<1> DEFINE R == [tti : 0 .. config.ttis - 1,
                 ue : {UeId(i) : i \in 0 .. config.ues - 1}, value : lo .. hi]
           n == Len(records)
           r == Record(n, v)
           new == Append(records, r)
<1>1. records \in Seq(R)
  BY DEF Drawn
<1>2. n \in 0 .. Pairs - 1
  <2>1. n \in Nat /\ Pairs \in Nat
    BY <1>1, ValidConfig
  <2> QED
    BY <2>1
<1>3. /\ r = [tti |-> n \div config.ues, ue |-> UeId(n % config.ues), value |-> v]
      /\ n \div config.ues \in 0 .. config.ttis - 1
      /\ n % config.ues \in 0 .. config.ues - 1
  BY <1>2, RecordFacts
<1>4. r \in R
  BY <1>3
<1> HIDE DEF R, r
<1>5. new \in Seq(R) /\ Len(new) = n + 1
  BY <1>1, <1>4
<1>6. \A k \in DOMAIN records :
          /\ records[k].tti = (k - 1) \div config.ues
          /\ records[k].ue = UeId((k - 1) % config.ues)
  BY DEF Drawn
<1>7. ASSUME NEW k \in DOMAIN new
      PROVE  /\ new[k].tti = (k - 1) \div config.ues
             /\ new[k].ue = UeId((k - 1) % config.ues)
  <2>1. CASE k \in DOMAIN records
    <3>1. new[k] = records[k]
      BY <1>1, <1>4, <2>1
    <3> HIDE DEF new
    <3> QED
      BY <1>6, <2>1, <3>1
  <2>2. CASE k \notin DOMAIN records
    <3>1. k = n + 1 /\ new[k] = r /\ k - 1 = n
      BY <1>1, <1>4, <2>2
    <3> HIDE DEF new, n
    <3> QED
      BY <1>3, <3>1
  <2> QED
    BY <2>1, <2>2
<1> HIDE DEF new
<1> QED
  BY <1>5, <1>7 DEF Drawn, R, new, r

LEMMA GeneratorInvInit == GeneratorInit => GeneratorInv
BY DEF GeneratorInit, GeneratorInv

\* Nothing is drawn yet.
LEMMA DrawnNothing ==
    ASSUME NEW lo, NEW hi
    PROVE  Drawn(<<>>, lo, hi)
BY DEF Drawn

LEMMA GeneratorInvStep == GeneratorInv /\ [GeneratorNext]_generatorVars => GeneratorInv'
<1> SUFFICES ASSUME GeneratorInv, [GeneratorNext]_generatorVars
             PROVE  GeneratorInv'
  OBVIOUS
<1>1. config' = config /\ config \in Configs /\ Pairs' = Pairs
  BY DEF GeneratorInv, GeneratorNext, Refuse, Accept, DrawQuality, DrawArrival, Build,
         generatorVars, Pairs
<1>2. ASSUME Refuse \/ UNCHANGED generatorVars PROVE GeneratorInv'
  BY <1>1, <1>2 DEF Refuse, GeneratorInv, generatorVars, Drawn, Pairs
<1>3. CASE Accept
  <2>1. /\ Drawn(qualityRecords, config.cqiMin, config.cqiMax)'
        /\ Drawn(arrivalRecords, config.bytesMin, config.bytesMax)'
    <3>1. qualityRecords' = <<>> /\ arrivalRecords' = <<>>
      BY <1>3 DEF Accept, GeneratorInv
    <3> QED
      BY <3>1 DEF Drawn
  <2>2. Pairs \in Nat \ {0}
    BY <1>1, <1>3, ValidConfig DEF Accept
  <2>3. qualityRecords' = <<>> /\ arrivalRecords' = <<>> /\ Valid(config)'
        /\ genPc' = "qualities"
    BY <1>1, <1>3 DEF Accept, GeneratorInv
  <2> QED
    BY <1>1, <2>1, <2>2, <2>3 DEF GeneratorInv
<1>4. CASE DrawQuality
  <2>1. PICK cqi \in config.cqiMin .. config.cqiMax :
            qualityRecords' = Append(qualityRecords, Record(Len(qualityRecords), cqi))
    BY <1>4 DEF DrawQuality
  <2>2. /\ Valid(config) /\ Drawn(qualityRecords, config.cqiMin, config.cqiMax)
        /\ Drawn(arrivalRecords, config.bytesMin, config.bytesMax)
        /\ Len(qualityRecords) < Pairs /\ Len(arrivalRecords) = 0
    BY <1>4 DEF DrawQuality, GeneratorInv
  <2>3. config.cqiMin \in Int /\ config.cqiMax \in Int /\ Pairs \in Nat \ {0}
    <3>1. config.cqiMin \in Cqi /\ config.cqiMax \in Cqi /\ Pairs \in Nat \ {0}
      BY <1>1, <2>2, ValidConfig
    <3> QED
      BY <3>1 DEF Cqi
  <2>4. /\ Drawn(qualityRecords', config.cqiMin, config.cqiMax)
        /\ Len(qualityRecords') = Len(qualityRecords) + 1
    BY <1>1, <2>1, <2>2, <2>3, DrawnAppend
  <2>5. Len(qualityRecords) \in Nat
    BY <2>2 DEF Drawn
  <2>6. /\ Drawn(qualityRecords, config.cqiMin, config.cqiMax)'
        /\ Drawn(arrivalRecords, config.bytesMin, config.bytesMax)'
        /\ Valid(config)'
    BY <1>1, <1>4, <2>2, <2>4 DEF DrawQuality, Drawn
  <2>7. /\ genPc' = IF Len(qualityRecords') = Pairs THEN "arrivals" ELSE "qualities"
        /\ arrivalRecords' = arrivalRecords
    BY <1>4 DEF DrawQuality
  <2> QED
    BY <1>1, <2>2, <2>3, <2>4, <2>5, <2>6, <2>7 DEF GeneratorInv
<1>5. CASE DrawArrival
  <2>1. PICK bytes \in config.bytesMin .. config.bytesMax :
            arrivalRecords' = Append(arrivalRecords, Record(Len(arrivalRecords), bytes))
    BY <1>5 DEF DrawArrival
  <2>2. /\ Valid(config) /\ Drawn(qualityRecords, config.cqiMin, config.cqiMax)
        /\ Drawn(arrivalRecords, config.bytesMin, config.bytesMax)
        /\ Len(arrivalRecords) < Pairs /\ Len(qualityRecords) = Pairs
    BY <1>5 DEF DrawArrival, GeneratorInv
  <2>3. config.bytesMin \in Int /\ config.bytesMax \in Int /\ Pairs \in Nat \ {0}
    BY <1>1, <2>2, ValidConfig
  <2>4. /\ Drawn(arrivalRecords', config.bytesMin, config.bytesMax)
        /\ Len(arrivalRecords') = Len(arrivalRecords) + 1
    BY <1>1, <2>1, <2>2, <2>3, DrawnAppend
  <2>5. Len(arrivalRecords) \in Nat
    BY <2>2 DEF Drawn
  <2>6. /\ Drawn(qualityRecords, config.cqiMin, config.cqiMax)'
        /\ Drawn(arrivalRecords, config.bytesMin, config.bytesMax)'
        /\ Valid(config)'
    BY <1>1, <1>5, <2>2, <2>4 DEF DrawArrival, Drawn
  <2>7. /\ genPc' = IF Len(arrivalRecords') = Pairs THEN "build" ELSE "arrivals"
        /\ qualityRecords' = qualityRecords
    BY <1>5 DEF DrawArrival
  <2> QED
    BY <1>1, <2>2, <2>3, <2>4, <2>5, <2>6, <2>7 DEF GeneratorInv
<1>6. CASE Build
  <2>1. /\ scenario'.ttis = TtiIndices(config.ttis)
        /\ scenario'.ues = UeIdsOf(Ues(config))
        /\ scenario'.blocks =
               ResourceBlocks([t \in 0 .. config.ttis - 1 |-> config.blocks])
        /\ scenario'.qualities = qualityRecords
        /\ scenario'.arrivals = arrivalRecords
        /\ genPc' = "returned" /\ UNCHANGED <<qualityRecords, arrivalRecords>>
    BY <1>6 DEF Build
  <2>2. UeIdsOf(Ues(config)) = [i \in 1 .. config.ues |-> UeId(i - 1)]
    BY DEF UeIdsOf, Ues
  <2>3. /\ Valid(config) /\ Drawn(qualityRecords, config.cqiMin, config.cqiMax)
        /\ Drawn(arrivalRecords, config.bytesMin, config.bytesMax)
        /\ Len(arrivalRecords) = Pairs /\ Len(qualityRecords) = Pairs
    BY <1>6 DEF Build, GeneratorInv
  <2>4. /\ Drawn(qualityRecords, config.cqiMin, config.cqiMax)'
        /\ Drawn(arrivalRecords, config.bytesMin, config.bytesMax)'
        /\ Valid(config)'
    BY <1>1, <2>1, <2>3 DEF Drawn
  <2> QED
    BY <1>1, <2>1, <2>2, <2>3, <2>4 DEF GeneratorInv
<1> QED
  BY <1>2, <1>3, <1>4, <1>5, <1>6 DEF GeneratorNext

\* Pairs of a TTI and a UE, counted.
LEMMA PairNumber ==
    ASSUME NEW n \in Nat \ {0}, NEW m \in Nat, NEW t \in 0 .. m - 1, NEW i \in 0 .. n - 1
    PROVE  /\ t * n + i \in 0 .. m * n - 1
           /\ (t * n + i) \div n = t
           /\ (t * n + i) % n = i
<1>1. t * n \in Nat /\ m * n \in Nat
  OBVIOUS
<1>2. (t + 1) * n <= m * n
  <2>1. m - (t + 1) \in Nat
    OBVIOUS
  <2>2. (m - (t + 1)) * n \in Nat
    BY <2>1
  <2>3. (m - (t + 1)) * n = m * n - (t + 1) * n
    OBVIOUS
  <2> QED
    BY <2>2, <2>3
<1>3. (t + 1) * n = t * n + n
  OBVIOUS
<1>4. t * n + i \in 0 .. m * n - 1
  BY <1>1, <1>2, <1>3
<1>5. (t * n + i) \div n = t
  OBVIOUS
<1>6. (t * n + i) % n = i
  OBVIOUS
<1> QED
  BY <1>4, <1>5, <1>6

LEMMA PairOfNumber ==
    ASSUME NEW n \in Nat \ {0}, NEW k \in Nat
    PROVE  k = (k \div n) * n + (k % n)
OBVIOUS

\* All drawn, every UE has one record in every TTI, and nobody else has any.
LEMMA DrawnOnce ==
    ASSUME config \in Configs, Valid(config), NEW records, NEW lo \in Int, NEW hi \in Int,
           Drawn(records, lo, hi), Len(records) = Pairs,
           NEW t \in 0 .. config.ttis - 1
    PROVE  /\ \A i \in 0 .. config.ues - 1 :
                 \E v \in lo .. hi : ValuesOf(records, t)[UeId(i)] = <<v>>
           /\ \A u \in UeIds : (\A i \in 0 .. config.ues - 1 : u # UeId(i)) =>
                 ValuesOf(records, t)[u] = <<>>
<1> DEFINE n == config.ues
           m == config.ttis
           R == [tti : 0 .. m - 1, ue : {UeId(i) : i \in 0 .. n - 1}, value : lo .. hi]
           W(u) == {r \in Range(records) : r.tti = t /\ r.ue = u}
<1>1. n \in Nat \ {0} /\ m \in Nat \ {0} /\ Pairs = m * n
  BY ValidConfig DEF Pairs
<1>2. records \in Seq(R) /\ DOMAIN records = 1 .. Pairs
  BY DEF Drawn
<1>3. \A k \in 1 .. Pairs : /\ records[k] \in R
                            /\ records[k].tti = (k - 1) \div n
                            /\ records[k].ue = UeId((k - 1) % n)
  <2>1. \A k \in 1 .. Pairs : records[k] \in R
    <3> HIDE DEF R
    <3> QED
      BY <1>2
  <2>2. \A k \in DOMAIN records : /\ records[k].tti = (k - 1) \div n
                                  /\ records[k].ue = UeId((k - 1) % n)
    BY DEF Drawn
  <2> HIDE DEF R, n
  <2> QED
    BY <1>2, <2>1, <2>2
<1>4. \A i, j \in 0 .. n - 1 : UeId(i) \in UeIds /\ (UeId(i) = UeId(j) => i = j)
  BY ConfigUeIds
<1>5. \A u \in UeIds :
          ValuesOf(records, t)[u] =
              [i \in DOMAIN Selected(records, W(u)) |-> Selected(records, W(u))[i].value]
  BY DEF ValuesOf
<1>6. Pairs \in Nat
  BY <1>1
<1> HIDE DEF n, m, R
<1>7. ASSUME NEW k \in 1 .. Pairs, NEW l \in 1 .. Pairs,
             records[k].tti = records[l].tti, records[k].ue = records[l].ue
      PROVE  k = l
  <2>1. (k - 1) % n \in 0 .. n - 1 /\ (l - 1) % n \in 0 .. n - 1
    BY <1>1, <1>6
  <2>2. (k - 1) % n = (l - 1) % n
    BY <1>3, <1>4, <1>7, <2>1
  <2>3. (k - 1) \div n = (l - 1) \div n
    BY <1>3, <1>7
  <2>4. k - 1 \in Nat /\ l - 1 \in Nat
    BY <1>6
  <2>5. k - 1 = l - 1
    <3>1. k - 1 = ((k - 1) \div n) * n + ((k - 1) % n)
      BY <1>1, <2>4, PairOfNumber
    <3>2. l - 1 = ((l - 1) \div n) * n + ((l - 1) % n)
      BY <1>1, <2>4, PairOfNumber
    <3> QED
      BY <2>2, <2>3, <3>1, <3>2
  <2> QED
    BY <2>5
<1>8. IsInjective(records)
  BY <1>2, <1>7 DEF IsInjective
<1>9. ASSUME NEW i \in 0 .. n - 1
      PROVE  \E v \in lo .. hi : ValuesOf(records, t)[UeId(i)] = <<v>>
  <2>1. PICK k \in 1 .. Pairs : k - 1 = t * n + i
    <3>1. t * n + i \in 0 .. Pairs - 1
      BY <1>1, PairNumber DEF m
    <3> QED
      BY <1>6, <3>1
  <2>2. (k - 1) \div n = t /\ (k - 1) % n = i
    <3>1. (t * n + i) \div n = t /\ (t * n + i) % n = i
      BY <1>1, PairNumber DEF m
    <3> QED
      BY <2>1, <3>1, Zenon
  <2>3. records[k] \in R /\ records[k].tti = t /\ records[k].ue = UeId(i)
    BY <1>3, <2>2
  <2>4. W(UeId(i)) = {records[k]}
    <3>1. records[k] \in W(UeId(i))
      BY <1>2, <2>3 DEF Range
    <3>2. ASSUME NEW r \in W(UeId(i)) PROVE r = records[k]
      <4>1. PICK l \in 1 .. Pairs : r = records[l]
        BY <1>2 DEF Range
      <4>2. records[l].tti = t /\ records[l].ue = UeId(i)
        BY <4>1
      <4> QED
        BY <1>7, <2>3, <4>1, <4>2
    <3> HIDE DEF W
    <3> QED
      BY <3>1, <3>2
  <2>5. Range(records) \cap W(UeId(i)) = {records[k]}
    BY <2>4
  <2>6. Selected(records, W(UeId(i))) = <<records[k]>>
    <3> HIDE DEF W
    <3> QED
      BY <1>2, <1>8, <2>5, SelectedOne
  <2>7. ValuesOf(records, t)[UeId(i)] =
            [j \in DOMAIN <<records[k]>> |-> <<records[k]>>[j].value]
    <3> HIDE DEF W
    <3> QED
      BY <1>4, <1>5, <2>6
  <2>8. ValuesOf(records, t)[UeId(i)] = <<records[k].value>>
    BY <2>7
  <2>9. records[k].value \in lo .. hi
    BY <2>3 DEF R
  <2> QED
    BY <2>8, <2>9
<1>10. ASSUME NEW u \in UeIds, \A i \in 0 .. n - 1 : u # UeId(i)
       PROVE  ValuesOf(records, t)[u] = <<>>
  <2>1. \A r \in Range(records) : r.ue # u
    <3> SUFFICES ASSUME NEW k \in 1 .. Pairs PROVE records[k].ue # u
      BY <1>2 DEF Range
    <3>1. (k - 1) % n \in 0 .. n - 1
      BY <1>1, <1>6
    <3> QED
      BY <1>3, <1>10, <3>1
  <2>2. Range(records) \cap W(u) = {}
    BY <2>1
  <2> HIDE DEF W
  <2>3. Selected(records, W(u)) \in Seq(R) /\ Range(Selected(records, W(u))) = {}
    BY <1>2, <2>2, SelectedFacts
  <2> DEFINE own == Selected(records, W(u))
  <2>4. ValuesOf(records, t)[u] = [i \in DOMAIN own |-> own[i].value]
    BY <1>5
  <2>5. own \in Seq(R) /\ Range(own) = {}
    BY <2>3
  <2> HIDE DEF own
  <2>6. DOMAIN own = {}
    BY <2>5 DEF Range
  <2>7. DOMAIN own = 1 .. Len(own) /\ Len(own) \in Nat
    BY <2>5
  <2>8. own = <<>>
    <3>1. Len(own) = 0
      BY <2>6, <2>7
    <3> QED
      BY <2>5, <3>1
  <2> QED
    BY <2>4, <2>8
<1> QED
  BY <1>9, <1>10 DEF n

\* No block occurs twice, and its identifier alone tells which one it is.
LEMMA GeneratedBlocks ==
    ASSUME config \in Configs, Valid(config), BlockIdsAreUnique, NEW blocks,
           blocks = ResourceBlocks([t \in 0 .. config.ttis - 1 |-> config.blocks])
    PROVE  \E T : /\ blocks \in Seq(T) /\ IsInjective(blocks)
                  /\ \A r, s \in T : r.id = s.id => r = s
<1> DEFINE m == config.ttis
           b == config.blocks
           Block(t, j) == [tti |-> t, id |-> BlockId(t, j - 1)]
           T == {Block(t, j) : t \in 0 .. m - 1, j \in 1 .. b}
           counts == [t \in 0 .. m - 1 |-> b]
           items == [t \in DOMAIN counts |-> [j \in 1 .. counts[t] |-> Block(t, j)]]
           gs == [i \in 1 .. m |-> [j \in 1 .. b |-> Block(i - 1, j)]]
<1>1. m \in Nat \ {0} /\ b \in Nat \ {0}
  BY ValidConfig
<1>2. ASSUME NEW t \in 0 .. m - 1, NEW u \in 0 .. m - 1,
             NEW i \in 1 .. b, NEW j \in 1 .. b, BlockId(t, i - 1) = BlockId(u, j - 1)
      PROVE  t = u /\ i = j
  <2>1. i - 1 \in 0 .. b - 1 /\ j - 1 \in 0 .. b - 1
    BY <1>1
  <2>2. t = u /\ i - 1 = j - 1
    BY <1>2, <2>1 DEF BlockIdsAreUnique
  <2> QED
    BY <1>1, <2>2
<1> HIDE DEF m, b
<1>3. \A t, u \in 0 .. m - 1 : \A i, j \in 1 .. b :
          Block(t, i).id = Block(u, j).id => t = u /\ i = j
  BY <1>2
<1>4. \A r, s \in T : r.id = s.id => r = s
  <2> SUFFICES ASSUME NEW t \in 0 .. m - 1, NEW u \in 0 .. m - 1,
                      NEW i \in 1 .. b, NEW j \in 1 .. b,
                      Block(t, i).id = Block(u, j).id
               PROVE  Block(t, i) = Block(u, j)
    OBVIOUS
  <2> QED
    BY <1>3
<1>5. PerTti(items) = FlattenSeq(gs)
  <2>1. DOMAIN items = 0 .. m - 1 /\ DOMAIN counts = 0 .. m - 1
    OBVIOUS
  <2>2. Cardinality(0 .. m - 1) = m
    BY <1>1, FS_Interval
  <2>3. ASSUME NEW i \in 1 .. m PROVE items[i - 1] = [j \in 1 .. b |-> Block(i - 1, j)]
    <3>1. i - 1 \in 0 .. m - 1
      BY <1>1
    <3> HIDE DEF Block
    <3> QED
      BY <3>1
  <2>4. [i \in 1 .. m |-> items[i - 1]] = gs
    <3> HIDE DEF items, Block
    <3> QED
      BY <2>3
  <2> HIDE DEF items, gs
  <2> QED
    BY <2>1, <2>2, <2>4 DEF PerTti
<1>6. blocks = FlattenSeq(gs)
  BY <1>5 DEF ResourceBlocks, m, b
<1>7. \A i \in 1 .. m : gs[i] \in Seq(T)
  <2> SUFFICES ASSUME NEW i \in 1 .. m PROVE gs[i] \in Seq(T)
    OBVIOUS
  <2>1. i - 1 \in 0 .. m - 1
    BY <1>1
  <2>2. \A j \in 1 .. b : Block(i - 1, j) \in T
    BY <2>1
  <2>3. gs[i] = [j \in 1 .. b |-> Block(i - 1, j)]
    OBVIOUS
  <2> HIDE DEF gs, Block, T
  <2> QED
    BY <1>1, <2>2, <2>3
<1>8. gs \in Seq(Seq(T))
  <2>1. \A i \in 1 .. m : [j \in 1 .. b |-> Block(i - 1, j)] \in Seq(T)
    <3> HIDE DEF Block, T
    <3> QED
      BY <1>7
  <2> HIDE DEF Block, T
  <2> QED
    BY <1>1, <2>1
<1>9. Len(gs) = m
  <2> HIDE DEF Block
  <2> QED
    BY <1>1
<1>10. ASSUME NEW i \in 1 .. m PROVE IsInjective(gs[i])
  <2>1. i - 1 \in 0 .. m - 1
    BY <1>1
  <2>2. DOMAIN gs[i] = 1 .. b /\ \A j \in 1 .. b : gs[i][j] = Block(i - 1, j)
    OBVIOUS
  <2> HIDE DEF gs, Block
  <2> QED
    BY <1>3, <2>1, <2>2 DEF IsInjective
<1>11. ASSUME NEW i \in 1 .. m, NEW j \in 1 .. m, i # j
       PROVE  Range(gs[i]) \cap Range(gs[j]) = {}
  <2>1. i - 1 \in 0 .. m - 1 /\ j - 1 \in 0 .. m - 1 /\ i - 1 # j - 1
    BY <1>1, <1>11
  <2>2. \A k \in 1 .. m : /\ DOMAIN gs[k] = 1 .. b
                         /\ \A l \in 1 .. b : gs[k][l] = Block(k - 1, l)
    OBVIOUS
  <2> HIDE DEF gs, Block
  <2>3. \A x, y \in 1 .. b : Block(i - 1, x) # Block(j - 1, y)
    BY <1>3, <2>1
  <2>4. \A e \in Range(gs[i]) : \E x \in 1 .. b : e = Block(i - 1, x)
    BY <2>2 DEF Range
  <2>5. \A e \in Range(gs[j]) : \E y \in 1 .. b : e = Block(j - 1, y)
    BY <2>2 DEF Range
  <2> QED
    BY <2>3, <2>4, <2>5
<1>12. FlattenSeq(gs) \in Seq(T) /\ IsInjective(FlattenSeq(gs))
  <2> HIDE DEF gs, T
  <2> QED
    BY <1>8, <1>9, <1>10, <1>11, FlattenFacts
<1> HIDE DEF T, gs
<1> QED
  BY <1>4, <1>6, <1>12

LEMMA ReturnedIsRunnable ==
    ASSUME GeneratorInv, BlockIdsAreUnique
    PROVE  GeneratedIsRunnable
<1> SUFFICES ASSUME genPc = "returned"
             PROVE  /\ IsInjective([i \in DOMAIN scenario.blocks |-> scenario.blocks[i].id])
                    /\ IsInjective(scenario.ttis)
                    /\ \A t \in Range(scenario.ttis) :
                          LET in == InputOf(scenario, t)
                          IN /\ \A u \in Range(scenario.ues) :
                                    /\ Len(in.qualities[u]) = 1 /\ in.qualities[u][1] \in Cqi
                                    /\ Len(in.arrivals[u]) = 1 /\ in.arrivals[u][1] \in Nat
                             /\ WellFormed([ues |-> scenario.ues, blocks |-> in.blocks,
                                            qualities |-> in.qualities])
  BY DEF GeneratedIsRunnable
<1> DEFINE n == config.ues
           blocks == scenario.blocks
<1>1. /\ config \in Configs /\ Valid(config)
      /\ Drawn(scenario.qualities, config.cqiMin, config.cqiMax)
      /\ Drawn(scenario.arrivals, config.bytesMin, config.bytesMax)
      /\ Len(scenario.qualities) = Pairs /\ Len(scenario.arrivals) = Pairs
      /\ scenario.ttis = [i \in 1 .. config.ttis |-> i - 1]
      /\ scenario.ues = [i \in 1 .. n |-> UeId(i - 1)]
      /\ blocks = ResourceBlocks([t \in 0 .. config.ttis - 1 |-> config.blocks])
  BY DEF GeneratorInv, TtiIndices
<1>2. /\ n \in Nat \ {0} /\ config.ttis \in Nat \ {0}
      /\ config.cqiMin \in Cqi /\ config.cqiMax \in Cqi
      /\ config.bytesMin \in Nat /\ config.bytesMax \in Nat
  BY <1>1, ValidConfig
<1>3. \A i, j \in 0 .. n - 1 : UeId(i) \in UeIds /\ (UeId(i) = UeId(j) => i = j)
  BY <1>1, ConfigUeIds
<1>4. PICK T : /\ blocks \in Seq(T) /\ IsInjective(blocks)
               /\ \A r, s \in T : r.id = s.id => r = s
  BY <1>1, GeneratedBlocks
<1> HIDE DEF n, blocks
<1>5. ASSUME NEW own \in Seq(T), IsInjective(own)
      PROVE  IsInjective([i \in DOMAIN own |-> own[i].id])
  BY <1>4, <1>5 DEF IsInjective
<1>6. IsInjective([i \in DOMAIN scenario.blocks |-> scenario.blocks[i].id])
  BY <1>4, <1>5 DEF blocks
<1>7. IsInjective(scenario.ttis) /\ Range(scenario.ttis) = 0 .. config.ttis - 1
  <2>1. \A i, j \in 1 .. config.ttis : i - 1 = j - 1 => i = j
    BY <1>2
  <2>2. IsInjective(scenario.ttis)
    BY <1>1, <2>1 DEF IsInjective
  <2>3. \A t \in 0 .. config.ttis - 1 : t + 1 \in 1 .. config.ttis /\ (t + 1) - 1 = t
    BY <1>2
  <2>4. \A i \in 1 .. config.ttis : i - 1 \in 0 .. config.ttis - 1
    BY <1>2
  <2>5. Range(scenario.ttis) = {i - 1 : i \in 1 .. config.ttis}
    BY <1>1 DEF Range
  <2>6. {i - 1 : i \in 1 .. config.ttis} = 0 .. config.ttis - 1
    BY <2>3, <2>4
  <2> QED
    BY <2>2, <2>5, <2>6
<1>8. /\ IsInjective(scenario.ues) /\ Range(scenario.ues) \subseteq UeIds
      /\ \A u : u \in Range(scenario.ues) <=> \E i \in 0 .. n - 1 : u = UeId(i)
  <2>1. DOMAIN scenario.ues = 1 .. n /\ \A i \in 1 .. n : scenario.ues[i] = UeId(i - 1)
    BY <1>1
  <2>2. \A i \in 1 .. n : i - 1 \in 0 .. n - 1
    BY <1>2
  <2>3. \A i \in 0 .. n - 1 : \E k \in 1 .. n : k - 1 = i
    <3> SUFFICES ASSUME NEW i \in 0 .. n - 1 PROVE \E k \in 1 .. n : k - 1 = i
      OBVIOUS
    <3>1. i + 1 \in 1 .. n /\ (i + 1) - 1 = i
      BY <1>2
    <3> QED
      BY <3>1
  <2>4. \A u : u \in Range(scenario.ues) <=> \E i \in 0 .. n - 1 : u = UeId(i)
    BY <2>1, <2>2, <2>3 DEF Range
  <2>5. IsInjective(scenario.ues)
    <3> SUFFICES ASSUME NEW i \in 1 .. n, NEW j \in 1 .. n,
                        UeId(i - 1) = UeId(j - 1)
                 PROVE  i = j
      BY <2>1 DEF IsInjective
    <3>1. i - 1 = j - 1
      BY <1>3, <2>2
    <3> QED
      BY <1>2, <3>1
  <2> QED
    BY <1>3, <2>4, <2>5
<1>9. ASSUME NEW t \in Range(scenario.ttis)
      PROVE  LET in == InputOf(scenario, t)
             IN /\ \A u \in Range(scenario.ues) :
                       /\ Len(in.qualities[u]) = 1 /\ in.qualities[u][1] \in Cqi
                       /\ Len(in.arrivals[u]) = 1 /\ in.arrivals[u][1] \in Nat
                /\ WellFormed([ues |-> scenario.ues, blocks |-> in.blocks,
                               qualities |-> in.qualities])
  <2> DEFINE in == InputOf(scenario, t)
             qualities == ValuesOf(scenario.qualities, t)
             values == ValuesOf(scenario.arrivals, t)
             own == OfTti(blocks, t)
             o == [ues |-> scenario.ues, blocks |-> in.blocks, qualities |-> in.qualities]
  <2>1. /\ in.qualities = qualities /\ in.arrivals = values
        /\ in.blocks = [i \in DOMAIN own |-> own[i].id]
    BY DEF InputOf, blocks
  <2>2. t \in 0 .. config.ttis - 1
    BY <1>7, <1>9
  <2>3. /\ \A i \in 0 .. n - 1 : \E v \in config.cqiMin .. config.cqiMax :
              qualities[UeId(i)] = <<v>>
        /\ \A u \in UeIds : (\A i \in 0 .. n - 1 : u # UeId(i)) => qualities[u] = <<>>
    <3>1. config.cqiMin \in Int /\ config.cqiMax \in Int
      BY <1>2 DEF Cqi
    <3> QED
      BY <1>1, <2>2, <3>1, DrawnOnce DEF n
  <2>4. \A i \in 0 .. n - 1 : \E v \in config.bytesMin .. config.bytesMax :
            values[UeId(i)] = <<v>>
    <3>1. config.bytesMin \in Int /\ config.bytesMax \in Int
      BY <1>2
    <3> QED
      BY <1>1, <2>2, <3>1, DrawnOnce DEF n
  <2>5. /\ config.cqiMin .. config.cqiMax \subseteq Cqi
        /\ config.bytesMin .. config.bytesMax \subseteq Nat
    BY <1>2 DEF Cqi
  <2>6. IsInjective(in.blocks)
    <3>1. own \in Seq(T) /\ IsInjective(own)
      BY <1>4, SelectedFacts DEF OfTti
    <3> HIDE DEF own, in
    <3> QED
      BY <1>5, <2>1, <3>1
  <2> HIDE DEF in, qualities, values
  <2>7. ASSUME NEW u \in Range(scenario.ues)
        PROVE  /\ Len(in.qualities[u]) = 1 /\ in.qualities[u][1] \in Cqi
               /\ Len(in.arrivals[u]) = 1 /\ in.arrivals[u][1] \in Nat
    <3>1. PICK i \in 0 .. n - 1 : u = UeId(i)
      BY <1>8
    <3>2. PICK v \in config.cqiMin .. config.cqiMax : qualities[u] = <<v>>
      BY <2>3, <3>1
    <3>3. PICK w \in config.bytesMin .. config.bytesMax : values[u] = <<w>>
      BY <2>4, <3>1
    <3> QED
      BY <2>1, <2>5, <3>2, <3>3
  <2>8. ASSUME NEW u \in UeIds
        PROVE  /\ Len(in.qualities[u]) <= 1
               /\ in.qualities[u] # <<>> => u \in Range(scenario.ues)
    <3>1. CASE u \in Range(scenario.ues)
      <4>1. Len(in.qualities[u]) = 1
        BY <2>7, <3>1, Zenon
      <4> QED
        BY <3>1, <4>1
    <3>2. CASE u \notin Range(scenario.ues)
      <4>1. qualities[u] = <<>>
        BY <1>8, <2>3, <3>2
      <4> QED
        BY <2>1, <4>1
    <3> QED
      BY <3>1, <3>2
  <2>9. WellFormed(o)
    BY <1>8, <2>6, <2>8 DEF WellFormed
  <2> QED
    BY <2>7, <2>9 DEF in
<1> QED
  BY <1>6, <1>7, <1>9

\* Whatever a configuration __post_init__ accepts and whatever is drawn, run()
\* finds in the scenario of generate_scenario() what it needs in every TTI, once
\* and well formed, and no block shares its identifier with another.
THEOREM GeneratedScenariosAreRunnable ==
    BlockIdsAreUnique => (GeneratorSpec => []GeneratedIsRunnable)
<1> SUFFICES ASSUME BlockIdsAreUnique PROVE GeneratorSpec => []GeneratedIsRunnable
  OBVIOUS
<1>1. GeneratorInv => GeneratedIsRunnable
  BY ReturnedIsRunnable
<1> QED
  BY GeneratorInvInit, GeneratorInvStep, <1>1, PTL DEF GeneratorSpec

----------------------------------------------------------------------------
(***************************************************************************)
(* The sections of the report                                              *)
(***************************************************************************)

\* f is a way through the concatenation of the first m members of gs.
GoesThrough(f, gs, m) ==
    f[0] = <<>> /\ \A n \in 1 .. m : f[n] = f[n - 1] \o gs[n]

LEMMA GoesThroughLess ==
    ASSUME NEW n \in Nat, NEW m \in Nat, m <= n, NEW f, NEW gs, GoesThrough(f, gs, n)
    PROVE  GoesThrough(f, gs, m)
<1>1. \A i \in 1 .. m : i \in 1 .. n
  OBVIOUS
<1> QED
  BY <1>1, Zenon DEF GoesThrough

\* Two sequences of groups that begin alike are concatenated alike so far.
LEMMA FlattenAgrees ==
    ASSUME NEW m \in Nat, NEW f, NEW gs, NEW h, NEW hs,
           GoesThrough(f, gs, m), GoesThrough(h, hs, m), \A i \in 1 .. m : gs[i] = hs[i]
    PROVE  f[m] = h[m]
<1> DEFINE R == {n \in 0 .. m : f[n] = h[n]}
<1>1. 0 \in R
  BY DEF GoesThrough
<1>2. ASSUME NEW n \in 0 .. m - 1, n \in R PROVE n + 1 \in R
  <2>1. PICK k \in 1 .. m : k = n + 1 /\ k - 1 = n
    OBVIOUS
  <2>2. f[k] = f[k - 1] \o gs[k] /\ h[k] = h[k - 1] \o hs[k] /\ gs[k] = hs[k]
    BY DEF GoesThrough
  <2>3. f[k - 1] = h[k - 1]
    BY <1>2, <2>1
  <2>4. f[k] = h[k]
    BY <2>2, <2>3
  <2> QED
    BY <2>1, <2>4
<1>3. 0 .. m \subseteq R
  <2> HIDE DEF R
  <2> QED
    BY <1>1, <1>2, Induction
<1> QED
  BY <1>3

AppendsLast(s, t, e) == s \o Append(t, e) = Append(s \o t, e)

LEMMA ConcatOne ==
    ASSUME NEW T, NEW s \in Seq(T), NEW t \in Seq(T), NEW e \in T
    PROVE  AppendsLast(s, t, e)
BY DEF AppendsLast

LEMMA ConcatSingleton ==
    ASSUME NEW T, NEW s \in Seq(T), NEW e \in T
    PROVE  s \o <<e>> = Append(s, e)
OBVIOUS

\* An element appended to the last group, or as a group of its own, is appended
\* to the concatenation.
LastExtended(hs, gs, e) ==
    /\ Len(gs) > 0
    /\ Len(hs) = Len(gs)
    /\ \A i \in 1 .. Len(gs) - 1 : gs[i] = hs[i]
    /\ hs[Len(gs)] = Append(gs[Len(gs)], e)

LEMMA FlattenExtended ==
    ASSUME NEW T, NEW gs \in Seq(Seq(T)), NEW e \in T, NEW hs \in Seq(Seq(T)),
           LastExtended(hs, gs, e)
    PROVE  FlattenSeq(hs) = Append(FlattenSeq(gs), e)
<1> PICK k \in Nat \ {0} : Len(gs) = k
  BY DEF LastExtended
<1> /\ Len(hs) = k
    /\ \A i \in 1 .. k - 1 : gs[i] = hs[i]
    /\ hs[k] = Append(gs[k], e)
  BY Zenon DEF LastExtended
<1>1. PICK f \in [0 .. Len(gs) -> Seq(T)] :
          GoesThrough(f, gs, Len(gs)) /\ FlattenSeq(gs) = f[Len(gs)]
  BY FlattenSteps DEF GoesThrough
<1>2. PICK h \in [0 .. Len(hs) -> Seq(T)] :
          GoesThrough(h, hs, Len(hs)) /\ FlattenSeq(hs) = h[Len(hs)]
  BY FlattenSteps DEF GoesThrough
<1>3. PICK m \in Nat : m = k - 1 /\ m \in 0 .. k
  OBVIOUS
<1>4. f[m] = h[m]
  <2>1. GoesThrough(f, gs, m) /\ GoesThrough(h, hs, m)
    <3>1. GoesThrough(f, gs, k) /\ GoesThrough(h, hs, k)
      BY <1>1, <1>2, Zenon
    <3>2. k \in Nat /\ m <= k
      BY <1>3
    <3> QED
      BY <3>1, <3>2, GoesThroughLess, Zenon
  <2>2. \A i \in 1 .. m : gs[i] = hs[i]
    BY <1>3
  <2> QED
    BY <2>1, <2>2, FlattenAgrees, Zenon
<1>5. k \in 1 .. Len(gs) /\ k \in 1 .. Len(hs)
  OBVIOUS
<1>6. f[k] = f[m] \o gs[k] /\ h[k] = h[m] \o hs[k]
  BY <1>1, <1>2, <1>3, <1>5 DEF GoesThrough
<1>7. f[m] \in Seq(T) /\ gs[k] \in Seq(T)
  BY <1>3, <1>5
<1>8. h[k] = Append(f[k], e)
  <2>1. h[k] = f[m] \o Append(gs[k], e)
    BY <1>4, <1>6
  <2>2. AppendsLast(f[m], gs[k], e)
    BY <1>7, ConcatOne, Zenon
  <2> QED
    BY <1>6, <2>1, <2>2 DEF AppendsLast
<1> QED
  BY <1>1, <1>2, <1>8

LEMMA FlattenAppended ==
    ASSUME NEW T, NEW gs \in Seq(Seq(T)), NEW e \in T
    PROVE  FlattenSeq(Append(gs, <<e>>)) = Append(FlattenSeq(gs), e)
<1> DEFINE hs == Append(gs, <<e>>)
           m == Len(gs)
<1>1. /\ m \in Nat /\ hs \in Seq(Seq(T)) /\ Len(hs) = m + 1 /\ hs[m + 1] = <<e>>
      /\ \A i \in 1 .. m : gs[i] = hs[i]
  <2>1. <<e>> \in Seq(T)
    OBVIOUS
  <2> QED
    BY <2>1
<1> HIDE DEF hs
<1>2. PICK f \in [0 .. Len(gs) -> Seq(T)] :
          GoesThrough(f, gs, Len(gs)) /\ FlattenSeq(gs) = f[Len(gs)]
  BY FlattenSteps DEF GoesThrough
<1>3. PICK h \in [0 .. Len(hs) -> Seq(T)] :
          GoesThrough(h, hs, Len(hs)) /\ FlattenSeq(hs) = h[Len(hs)]
  BY <1>1, FlattenSteps DEF GoesThrough
<1>4. f[m] = h[m] /\ f[m] \in Seq(T)
  <2>1. f[m] = h[m]
    <3>1. GoesThrough(f, gs, m) /\ GoesThrough(h, hs, m)
      <4>1. GoesThrough(f, gs, m) /\ GoesThrough(h, hs, m + 1)
        BY <1>1, <1>2, <1>3, Zenon
      <4>2. m \in Nat /\ m + 1 \in Nat /\ m <= m + 1
        BY <1>1
      <4> HIDE DEF m
      <4> QED
        BY <4>1, <4>2, GoesThroughLess, Zenon
    <3>2. m \in Nat /\ \A i \in 1 .. m : gs[i] = hs[i]
      BY <1>1
    <3> HIDE DEF m
    <3> QED
      BY <3>1, <3>2, FlattenAgrees, Zenon
  <2> QED
    BY <1>1, <2>1
<1>5. h[m + 1] = h[m] \o <<e>>
  <2>1. PICK k \in 1 .. Len(hs) : k = m + 1 /\ k - 1 = m
    BY <1>1
  <2>2. h[k] = h[k - 1] \o hs[k]
    BY <1>3 DEF GoesThrough
  <2> QED
    BY <1>1, <2>1, <2>2
<1> QED
  BY <1>1, <1>2, <1>3, <1>4, <1>5, ConcatSingleton DEF hs

LEMMA FunctionIsSeq ==
    ASSUME NEW S, NEW m \in Nat, NEW f \in [1 .. m -> S]
    PROVE  f \in Seq(S) /\ Len(f) = m
OBVIOUS

LEMMA GroupedType ==
    ASSUME NEW T, NEW gs \in Seq(Seq(T)), NEW r \in T
    PROVE  Grouped(gs, r) \in Seq(Seq(T))
<1> DEFINE own == {g \in DOMAIN gs : gs[g][1].scenario = r.scenario}
           extended == [g \in DOMAIN gs |->
                           IF g \in own THEN Append(gs[g], r) ELSE gs[g]]
<1>1. Grouped(gs, r) = IF own = {} THEN Append(gs, <<r>>) ELSE extended
  BY DEF Grouped
<1>2. Append(gs, <<r>>) \in Seq(Seq(T))
  <2>1. <<r>> \in Seq(T)
    OBVIOUS
  <2> QED
    BY <2>1
<1>3. extended \in Seq(Seq(T))
  <2> HIDE DEF own
  <2>1. \A g \in 1 .. Len(gs) : gs[g] \in Seq(T) /\ Append(gs[g], r) \in Seq(T)
    OBVIOUS
  <2>2. DOMAIN gs = 1 .. Len(gs) /\ Len(gs) \in Nat
    OBVIOUS
  <2>3. extended \in [1 .. Len(gs) -> Seq(T)]
    BY <2>1, <2>2
  <2> DEFINE S == Seq(T)
             m == Len(gs)
  <2>4. extended \in [1 .. m -> S] /\ m \in Nat
    BY <2>2, <2>3
  <2>5. extended \in Seq(S)
    <3> HIDE DEF extended, S, m
    <3> QED
      BY <2>4, FunctionIsSeq, Zenon
  <2> QED
    BY <2>5
<1> HIDE DEF own, extended
<1> QED
  BY <1>1, <1>2, <1>3

\* The members of s are the first n members of d.
AreFirst(s, d, n) == Len(s) = n /\ \A i \in 1 .. n : s[i] = d[i]

\* gs are the groups of the first n members of d, which are in order.
GroupsUpTo(gs, d, n) ==
    /\ \A g \in 1 .. Len(gs) :
          /\ gs[g] # <<>>
          /\ \E i \in 1 .. n : gs[g][1].scenario = d[i].scenario
    /\ \A g, h \in 1 .. Len(gs) :
          gs[g][1].scenario = gs[h][1].scenario => g = h
    /\ n > 0 => Len(gs) > 0 /\ gs[Len(gs)][1].scenario = d[n].scenario
    /\ AreFirst(FlattenSeq(gs), d, n)

\* No scenario is come back to.
InOrder(d) ==
    \A i, j, k \in 1 .. Len(d) :
        i <= j /\ j <= k /\ d[i].scenario = d[k].scenario =>
            d[j].scenario = d[k].scenario

LEMMA FlattenType ==
    ASSUME NEW T, NEW gs \in Seq(Seq(T))
    PROVE  FlattenSeq(gs) \in Seq(T)
<1>1. PICK f \in [0 .. Len(gs) -> Seq(T)] : FlattenSeq(gs) = f[Len(gs)]
  BY FlattenSteps
<1>2. Len(gs) \in 0 .. Len(gs)
  <2>1. Len(gs) \in Nat
    OBVIOUS
  <2> QED
    BY <2>1
<1> QED
  BY <1>1, <1>2

\* One more element at the end of a sequence that agrees with d so far.
LEMMA FirstOneMore ==
    ASSUME NEW T, NEW d \in Seq(T), NEW n \in 0 .. Len(d) - 1,
           NEW s \in Seq(T), AreFirst(s, d, n)
    PROVE  AreFirst(Append(s, d[n + 1]), d, n + 1)
<1>1. d[n + 1] \in T
  OBVIOUS
<1> QED
  BY <1>1 DEF AreFirst

LEMMA GroupedFresh ==
    ASSUME NEW T, NEW d \in Seq(T), NEW n \in 0 .. Len(d) - 1,
           NEW gs \in Seq(Seq(T)), GroupsUpTo(gs, d, n),
           \A g \in 1 .. Len(gs) : gs[g][1].scenario # d[n + 1].scenario
    PROVE  GroupsUpTo(Append(gs, <<d[n + 1]>>), d, n + 1)
<1>1. d[n + 1] \in T /\ <<d[n + 1]>> \in Seq(T) /\ Len(gs) \in Nat
  OBVIOUS
<1> DEFINE hs == Append(gs, <<d[n + 1]>>)
           m == Len(gs)
<1>2. /\ Len(hs) = m + 1
      /\ hs[m + 1] = <<d[n + 1]>>
      /\ \A g \in 1 .. m : hs[g] = gs[g]
  BY <1>1
<1>3. hs[m + 1][1] = d[n + 1] /\ hs[m + 1] # <<>>
  BY <1>2
<1>4. FlattenSeq(hs) = Append(FlattenSeq(gs), d[n + 1])
  BY <1>1, FlattenAppended, Zenon
<1>5. FlattenSeq(gs) \in Seq(T)
  BY FlattenType
<1>6. AreFirst(FlattenSeq(hs), d, n + 1)
  <2>1. AreFirst(FlattenSeq(gs), d, n)
    BY DEF GroupsUpTo
  <2> HIDE DEF hs
  <2> QED
    BY <1>4, <1>5, <2>1, FirstOneMore
<1> HIDE DEF hs, m
<1>7. m \in Nat /\ m = Len(gs)
  BY <1>1 DEF m
<1>8. \A g \in 1 .. Len(hs) : g \in 1 .. m \/ g = m + 1
  BY <1>2, <1>7
<1>9. ASSUME NEW g \in 1 .. Len(hs)
      PROVE  hs[g] # <<>> /\ \E i \in 1 .. n + 1 : hs[g][1].scenario = d[i].scenario
  <2>1. CASE g = m + 1
    <3>1. n + 1 \in 1 .. n + 1 /\ hs[g][1].scenario = d[n + 1].scenario
      BY <1>3, <2>1
    <3>2. \E i \in 1 .. n + 1 : hs[g][1].scenario = d[i].scenario
      BY <3>1, Zenon
    <3> QED
      BY <1>3, <2>1, <3>2
  <2>2. CASE g \in 1 .. m
    <3>1. gs[g] # <<>> /\ \E i \in 1 .. n : gs[g][1].scenario = d[i].scenario
      BY <1>7, <2>2 DEF GroupsUpTo
    <3>2. \A i \in 1 .. n : i \in 1 .. n + 1
      OBVIOUS
    <3> QED
      BY <1>2, <2>2, <3>1, <3>2
  <2> QED
    BY <1>8, <2>1, <2>2
<1>10. ASSUME NEW g \in 1 .. Len(hs), NEW h \in 1 .. Len(hs),
              hs[g][1].scenario = hs[h][1].scenario
       PROVE  g = h
  <2>1. \A a \in 1 .. m : hs[a][1].scenario # d[n + 1].scenario
    BY <1>2, <1>7
  <2>2. \A a, b \in 1 .. m : hs[a][1].scenario = hs[b][1].scenario => a = b
    BY <1>2, <1>7 DEF GroupsUpTo
  <2> QED
    BY <1>3, <1>8, <1>10, <2>1, <2>2
<1>11. Len(hs) > 0 /\ hs[Len(hs)][1].scenario = d[n + 1].scenario
  BY <1>2, <1>3, <1>7
<1>12. GroupsUpTo(hs, d, n + 1)
  BY <1>6, <1>9, <1>10, <1>11 DEF GroupsUpTo
<1> QED
  BY <1>12 DEF hs

\* When the scenario of the next result has a group, it is the last one.
LEMMA GroupedLast ==
    ASSUME NEW T, NEW d \in Seq(T), InOrder(d), NEW n \in 0 .. Len(d) - 1,
           NEW gs \in Seq(Seq(T)), GroupsUpTo(gs, d, n),
           NEW g \in 1 .. Len(gs), gs[g][1].scenario = d[n + 1].scenario
    PROVE  g = Len(gs) /\ d[n].scenario = d[n + 1].scenario /\ n > 0
<1>1. PICK i \in 1 .. n : gs[g][1].scenario = d[i].scenario
  BY DEF GroupsUpTo
<1>2. i \in 1 .. Len(d) /\ n \in 1 .. Len(d) /\ n + 1 \in 1 .. Len(d)
      /\ i <= n /\ n <= n + 1 /\ n > 0
  OBVIOUS
<1>3. d[n].scenario = d[n + 1].scenario
  BY <1>1, <1>2 DEF InOrder
<1>4. gs[Len(gs)][1].scenario = d[n].scenario
  BY <1>2 DEF GroupsUpTo
<1>5. Len(gs) \in 1 .. Len(gs)
  OBVIOUS
<1> QED
  BY <1>2, <1>3, <1>4, <1>5 DEF GroupsUpTo

LEMMA GroupedOld ==
    ASSUME NEW T, NEW d \in Seq(T), NEW n \in 1 .. Len(d) - 1,
           NEW gs \in Seq(Seq(T)), GroupsUpTo(gs, d, n),
           NEW hs \in Seq(Seq(T)), LastExtended(hs, gs, d[n + 1]),
           d[n].scenario = d[n + 1].scenario
    PROVE  GroupsUpTo(hs, d, n + 1)
<1>a. d[n + 1] \in T
  OBVIOUS
<1>2. FlattenSeq(hs) = Append(FlattenSeq(gs), d[n + 1])
  BY <1>a, FlattenExtended, Zenon
<1> PICK k \in Nat \ {0} : Len(gs) = k
  BY DEF LastExtended
<1> /\ Len(hs) = k
    /\ \A i \in 1 .. k - 1 : gs[i] = hs[i]
    /\ hs[k] = Append(gs[k], d[n + 1])
  BY Zenon DEF LastExtended
<1>1. gs[k] \in Seq(T) /\ k \in 1 .. k
  OBVIOUS
<1>3. FlattenSeq(gs) \in Seq(T)
  BY FlattenType
<1>4. AreFirst(FlattenSeq(hs), d, n + 1)
  <2>1. AreFirst(FlattenSeq(gs), d, n)
    BY DEF GroupsUpTo
  <2>2. n \in 0 .. Len(d) - 1
    OBVIOUS
  <2>3. AreFirst(Append(FlattenSeq(gs), d[n + 1]), d, n + 1)
    BY <1>3, <2>1, <2>2, FirstOneMore, Zenon
  <2> QED
    BY <1>2, <2>3
<1>5. hs[k][1] = gs[k][1] /\ hs[k] # <<>>
  <2>1. gs[k] # <<>>
    BY <1>1 DEF GroupsUpTo
  <2> QED
    BY <1>1, <1>a, <2>1
<1>6. \A g \in 1 .. k : g \in 1 .. k - 1 \/ g = k
  OBVIOUS
<1>7. \A g \in 1 .. k : hs[g][1] = gs[g][1] /\ hs[g] # <<>>
  <2>1. \A g \in 1 .. k : gs[g] # <<>>
    BY DEF GroupsUpTo
  <2> QED
    BY <1>5, <1>6, <2>1
<1>8. \A g \in 1 .. k : \E i \in 1 .. n + 1 : hs[g][1].scenario = d[i].scenario
  <2> TAKE g \in 1 .. k
  <2>1. \E i \in 1 .. n : gs[g][1].scenario = d[i].scenario
    BY DEF GroupsUpTo
  <2>2. \A i \in 1 .. n : i \in 1 .. n + 1
    OBVIOUS
  <2> QED
    BY <1>7, <2>1, <2>2
<1>9. \A g, h \in 1 .. k : hs[g][1].scenario = hs[h][1].scenario => g = h
  BY <1>7 DEF GroupsUpTo
<1>10. hs[k][1].scenario = d[n + 1].scenario
  BY <1>1, <1>7 DEF GroupsUpTo
<1> QED
  BY <1>4, <1>7, <1>8, <1>9, <1>10 DEF GroupsUpTo

LEMMA GroupedKeeps ==
    ASSUME NEW T, NEW d \in Seq(T), InOrder(d), NEW n \in 0 .. Len(d) - 1,
           NEW gs \in Seq(Seq(T)), GroupsUpTo(gs, d, n)
    PROVE  GroupsUpTo(Grouped(gs, d[n + 1]), d, n + 1)
<1> DEFINE r == d[n + 1]
           own == {g \in DOMAIN gs : gs[g][1].scenario = r.scenario}
           hs == [g \in DOMAIN gs |-> IF g \in own THEN Append(gs[g], r) ELSE gs[g]]
<1>1. Grouped(gs, r) = IF own = {} THEN Append(gs, <<r>>) ELSE hs
  BY DEF Grouped
<1>2. DOMAIN gs = 1 .. Len(gs) /\ Len(gs) \in Nat /\ r \in T
  OBVIOUS
<1>3. CASE own = {}
  <2>1. \A g \in 1 .. Len(gs) : gs[g][1].scenario # r.scenario
    BY <1>2, <1>3
  <2>2. GroupsUpTo(Append(gs, <<r>>), d, n + 1)
    BY <2>1, GroupedFresh
  <2> QED
    BY <1>1, <1>3, <2>2
<1>4. CASE own # {}
  <2>1. PICK g \in 1 .. Len(gs) : gs[g][1].scenario = r.scenario
    BY <1>2, <1>4
  <2>2. \A a \in 1 .. Len(gs) : gs[a][1].scenario = r.scenario => a = Len(gs)
    BY GroupedLast
  <2>3. n > 0 /\ d[n].scenario = r.scenario /\ g = Len(gs)
    BY <2>1, GroupedLast
  <2>4. own = {Len(gs)}
    BY <1>2, <2>1, <2>2, <2>3
  <2>5. hs \in Seq(Seq(T))
    <3>1. Grouped(gs, r) \in Seq(Seq(T))
      BY <1>2, GroupedType
    <3> QED
      BY <1>1, <1>4, <3>1
  <2> HIDE DEF own
  <2>6. Len(hs) = Len(gs)
    <3>1. DOMAIN hs = 1 .. Len(gs)
      BY <1>2
    <3> HIDE DEF hs
    <3> QED
      BY <1>2, <2>5, <3>1
  <2>7. hs[Len(gs)] = Append(gs[Len(gs)], r)
    BY <1>2, <2>1, <2>3, <2>4
  <2>8. ASSUME NEW i \in 1 .. Len(gs) - 1 PROVE gs[i] = hs[i]
    <3>1. i \in 1 .. Len(gs) /\ i # Len(gs)
      <4> DEFINE m == Len(gs)
      <4>1. m \in Nat /\ i \in 1 .. m - 1
        BY <1>2
      <4>2. i \in 1 .. m /\ i # m
        <5> HIDE DEF m
        <5> QED
          BY <4>1
      <4> QED
        BY <4>2
    <3>2. i \in DOMAIN gs /\ i \notin own
      BY <1>2, <2>4, <3>1
    <3> QED
      BY <3>2
  <2> HIDE DEF hs
  <2>9. n \in 1 .. Len(d) - 1 /\ LastExtended(hs, gs, r)
    BY <1>2, <2>1, <2>3, <2>6, <2>7, <2>8 DEF LastExtended
  <2>10. GroupsUpTo(hs, d, n + 1)
    BY <2>3, <2>5, <2>9, GroupedOld, Zenon
  <2> QED
    BY <1>1, <1>4, <2>10
<1> QED
  BY <1>3, <1>4

IsGrouping(f, rs) ==
    f = [n \in 0 .. Len(rs) |->
            IF n = 0 THEN <<>> ELSE Grouped(f[n - 1], ResultToDict(rs[n]))]

\* The entries of results.json.
Dicts(rs) == [i \in DOMAIN rs |-> ResultToDict(rs[i])]

LEMMA DictsType ==
    ASSUME NEW R, NEW rs \in Seq(R), NEW T, T = {ResultToDict(r) : r \in R}
    PROVE  /\ Dicts(rs) \in Seq(T)
           /\ Len(Dicts(rs)) = Len(rs)
           /\ \A i \in 1 .. Len(rs) : Dicts(rs)[i] = ResultToDict(rs[i])
<1> DEFINE m == Len(rs)
           d == Dicts(rs)
<1>1. m \in Nat /\ DOMAIN rs = 1 .. m /\ \A i \in 1 .. m : rs[i] \in R
  OBVIOUS
<1>2. \A r \in R : ResultToDict(r) \in T
  OBVIOUS
<1>3. d = [i \in 1 .. m |-> ResultToDict(rs[i])]
  BY <1>1 DEF Dicts
<1>4. d \in [1 .. m -> T]
  <2> HIDE DEF d, m
  <2> QED
    BY <1>1, <1>2, <1>3
<1>5. d \in Seq(T) /\ Len(d) = m
  <2> HIDE DEF d, m
  <2> QED
    BY <1>1, <1>4, FunctionIsSeq
<1>6. \A i \in 1 .. m : d[i] = ResultToDict(rs[i])
  <2> HIDE DEF d, m
  <2> QED
    BY <1>3
<1> QED
  BY <1>5, <1>6

LEMMA GroupingExists ==
    ASSUME NEW R, NEW rs \in Seq(R)
    PROVE  \E f : IsGrouping(f, rs)
<1> DEFINE T == {ResultToDict(r) : r \in R}
           S == Seq(Seq(T))
           a == <<>>
           m == Len(rs)
           d(n) == ResultToDict(rs[n])
           next == [n \in 1 .. m |-> [gs \in S |-> Grouped(gs, d(n))]]
<1>1. m \in Nat /\ a \in S /\ \A n \in 1 .. m : d(n) \in T
  <2>1. m \in Nat /\ \A n \in 1 .. m : rs[n] \in R
    OBVIOUS
  <2>2. a \in S
    OBVIOUS
  <2> QED
    BY <2>1, <2>2
<1>2. \A gs \in S : \A r \in T : Grouped(gs, r) \in S
  <2> HIDE DEF T
  <2> QED
    BY GroupedType
<1> HIDE DEF S, T, a, m, d
<1>3. next \in [1 .. m -> [S -> S]]
  BY <1>1, <1>2
<1>4. \A n \in 1 .. m : \A gs \in S : next[n][gs] = Grouped(gs, d(n))
  OBVIOUS
<1> HIDE DEF next
<1>5. PICK f \in [0 .. m -> S] :
          f[0] = a /\ \A n \in 1 .. m : f[n] = next[n][f[n - 1]]
  <2>1. m \in Nat /\ a \in S
    BY <1>1
  <2>2. \E f \in [0 .. m -> S] :
            f[0] = a /\ \A n \in 1 .. m : f[n] = next[n][f[n - 1]]
    BY <2>1, <1>3, Recursion
  <2> QED
    BY <2>2
<1>6. ASSUME NEW n \in 0 .. m
      PROVE  f[n] = IF n = 0 THEN a ELSE Grouped(f[n - 1], d(n))
  <2>1. n # 0 => n \in 1 .. m /\ n - 1 \in 0 .. m
    BY <1>1
  <2>2. n # 0 => f[n - 1] \in S
    BY <2>1
  <2> QED
    BY <1>4, <1>5, <2>1, <2>2
<1>7. f = [n \in 0 .. m |-> f[n]]
  OBVIOUS
<1>8. f = [n \in 0 .. m |-> IF n = 0 THEN a ELSE Grouped(f[n - 1], d(n))]
  BY <1>6, <1>7
<1>9. IsGrouping(f, rs)
  BY <1>8 DEF IsGrouping, a, m, d
<1> QED
  BY <1>9

\* Whatever the results, in an order that comes back to no scenario, the
\* sections hold the entries of results.json, each once and in their order.
LEMMA SectionsHoldTheResults ==
    ASSUME NEW R, NEW rs \in Seq(R), InOrder(Dicts(rs))
    PROVE  FlattenSeq(Sections(rs)) = Dicts(rs)
<1> DEFINE T == {ResultToDict(r) : r \in R}
           f == CHOOSE g : IsGrouping(g, rs)
           m == Len(rs)
           d == Dicts(rs)
<1>1. d \in Seq(T) /\ Len(d) = m /\ m \in Nat
      /\ \A i \in 1 .. m : d[i] = ResultToDict(rs[i])
  <2>1. m \in Nat
    OBVIOUS
  <2> QED
    BY <2>1, DictsType
<1>2. IsGrouping(f, rs)
  BY GroupingExists
<1>3. Sections(rs) = f[m]
  BY DEF Sections, IsGrouping
<1> HIDE DEF f
<1>4. \A n \in 0 .. m :
          f[n] = IF n = 0 THEN <<>> ELSE Grouped(f[n - 1], ResultToDict(rs[n]))
  BY <1>2 DEF IsGrouping
<1>5. InOrder(d)
  OBVIOUS
<1> HIDE DEF m, d, T
<1> DEFINE G == {n \in 0 .. m : f[n] \in Seq(Seq(T)) /\ GroupsUpTo(f[n], d, n)}
<1>6. 0 \in G
  <2>1. f[0] = <<>> /\ 0 \in 0 .. m
    BY <1>1, <1>4
  <2>2. <<>> \in Seq(Seq(T)) /\ FlattenSeq(<<>>) = <<>>
    BY DEF FlattenSeq
  <2>3. GroupsUpTo(<<>>, d, 0)
    BY <2>2 DEF GroupsUpTo, AreFirst
  <2> QED
    BY <2>1, <2>2, <2>3
<1>7. ASSUME NEW n \in 0 .. m - 1, n \in G PROVE n + 1 \in G
  <2>1. PICK k \in 1 .. m : k = n + 1 /\ k - 1 = n /\ k \in 0 .. m /\ k # 0
    BY <1>1
  <2>2. f[k] = Grouped(f[n], d[k])
    BY <1>1, <1>4, <2>1
  <2>3. f[n] \in Seq(Seq(T)) /\ GroupsUpTo(f[n], d, n) /\ n \in 0 .. Len(d) - 1
    BY <1>1, <1>7
  <2>4. d[k] \in T
    BY <1>1
  <2>5. f[k] \in Seq(Seq(T))
    BY <2>2, <2>3, <2>4, GroupedType
  <2>6. GroupsUpTo(Grouped(f[n], d[n + 1]), d, n + 1)
    BY <1>1, <1>5, <2>3, GroupedKeeps, Zenon
  <2>7. GroupsUpTo(f[k], d, k)
    BY <2>1, <2>2, <2>6
  <2> QED
    BY <2>1, <2>5, <2>7
<1>8. m \in G
  <2> HIDE DEF G
  <2>1. 0 .. m \subseteq G
    BY <1>1, <1>6, <1>7, Induction
  <2>2. m \in 0 .. m
    BY <1>1
  <2> QED
    BY <2>1, <2>2
<1> DEFINE s == FlattenSeq(f[m])
<1>9. s \in Seq(T) /\ Len(s) = m /\ \A i \in 1 .. m : s[i] = d[i]
  <2>1. AreFirst(s, d, m) /\ f[m] \in Seq(Seq(T))
    BY <1>8 DEF GroupsUpTo
  <2>2. s \in Seq(T)
    BY <2>1, FlattenType
  <2> HIDE DEF s
  <2> QED
    BY <2>1, <2>2 DEF AreFirst
<1>10. s = d
  <2> HIDE DEF s
  <2> QED
    BY <1>1, <1>9
<1> QED
  BY <1>3, <1>10 DEF d

----------------------------------------------------------------------------
(***************************************************************************)
(* The files of the demonstration                                          *)
(***************************************************************************)
Measured == INSTANCE BenchmarkProofs WITH pc <- benchPc

\* The results are those of the first pairs, in their order.
ResultsInv ==
    /\ results \in Seq(Range(results))
    /\ Len(results) <= PairCount
    /\ \A i \in 1 .. Len(results) :
          /\ results[i].scenario = Pair(i).demo.id
          /\ results[i].samples = repetitions

\* How far the script is, and what it has written so far.
PhaseInv ==
    /\ phase \in {"decide", "benchmark", "write", "writing", "report", "reporting",
                 "done", "stopped"}
    /\ phase \in {"decide", "benchmark"} => Len(results) < PairCount
    /\ phase \in {"write", "writing", "report", "reporting"} =>
          Len(results) = PairCount
    /\ phase \in {"decide", "benchmark", "write"} => jsonFile.launch < launch
    /\ phase = "writing" => jsonFile = Torn
    /\ phase \in {"writing", "report"} => reportFile.launch < launch
    /\ phase \in {"report", "reporting"} => jsonFile = Whole(Dicts(results))

\* Whoever wrote the files, they hold whole runs.
FilesInv ==
    /\ {launch, jsonFile.launch, reportFile.launch} \subseteq Nat
    /\ jsonFile.launch <= launch
    /\ FilesComeFromWholeRuns

DemoInv == ResultsInv /\ PhaseInv /\ FilesInv /\ Measured!IInv

LEMMA PairScenario ==
    /\ PairCount = 9
    /\ \A k \in 1 .. 9 :
          Pair(k).demo.id = IF k <= 3 THEN "ue_competition"
                            ELSE IF k <= 6 THEN "cqi_difference"
                            ELSE "no_eligibility_or_resources"
<1>1. Len(BuildDemoScenarios) = 3 /\ Len(Algorithms) = 3
  BY DEF BuildDemoScenarios, Algorithms
<1>2. /\ BuildDemoScenarios[1].id = "ue_competition"
      /\ BuildDemoScenarios[2].id = "cqi_difference"
      /\ BuildDemoScenarios[3].id = "no_eligibility_or_resources"
  BY DEF BuildDemoScenarios
<1>3. \A k \in 1 .. 9 : Pair(k).demo = BuildDemoScenarios[((k - 1) \div 3) + 1]
  BY <1>1 DEF Pair
<1>4. \A k \in 1 .. 9 :
          ((k - 1) \div 3) + 1 = IF k <= 3 THEN 1 ELSE IF k <= 6 THEN 2 ELSE 3
  OBVIOUS
<1> QED
  BY <1>1, <1>2, <1>3, <1>4 DEF PairCount

\* The pairs of one scenario follow each other.
LEMMA ResultsAreInOrder ==
    ASSUME ResultsInv
    PROVE  InOrder(Dicts(results))
<1> DEFINE R == Range(results)
           d == Dicts(results)
           m == Len(results)
<1>1. m \in Nat /\ m <= 9
  BY PairScenario DEF ResultsInv
<1>2. /\ Len(d) = m
      /\ \A i \in 1 .. m : d[i] = ResultToDict(results[i])
  BY DictsType DEF ResultsInv
<1>3. \A i \in 1 .. m : d[i].scenario = Pair(i).demo.id
  <2>1. \A i \in 1 .. m : results[i].scenario = Pair(i).demo.id
    BY DEF ResultsInv
  <2>2. \A r : ResultToDict(r).scenario = r.scenario
    BY DEF ResultToDict
  <2> HIDE DEF m, d
  <2> QED
    BY <1>2, <2>1, <2>2
<1>4. \A i \in 1 .. m : d[i].scenario = IF i <= 3 THEN "ue_competition"
                                        ELSE IF i <= 6 THEN "cqi_difference"
                                        ELSE "no_eligibility_or_resources"
  BY <1>1, <1>3, PairScenario
<1> HIDE DEF d, m
<1>5. InOrder(d)
  BY <1>1, <1>2, <1>4 DEF InOrder
<1> QED
  BY <1>5 DEF d

\* The two benchmarks are one.
LEMMA BenchmarkKeeps ==
    ASSUME Measured!IInv,
           Bench!Step \/ Bench!Interfere \/ UNCHANGED benchVars
    PROVE  Measured!IInv' /\ repetitions' = repetitions
<1>1. Bench!Step => Measured!Step
  BY DEF Bench!Step, Measured!Step, Bench!RefuseRepetitions, Measured!RefuseRepetitions,
     Bench!WarmUp, Measured!WarmUp, Bench!RefuseEntry, Measured!RefuseEntry,
     Bench!Enter, Measured!Enter, Bench!TimedPass, Measured!TimedPass,
     Bench!RefuseBetween, Measured!RefuseBetween, Bench!LookAgain, Measured!LookAgain,
     Bench!StartTracing, Measured!StartTracing, Bench!TracedPass, Measured!TracedPass,
     Bench!StopTracing, Measured!StopTracing, Bench!Aggregate, Measured!Aggregate,
     Bench!RunThen, Measured!RunThen, Bench!Peak, Measured!Peak,
     Bench!Sample, Measured!Sample
<1>2. Bench!Interfere => Measured!Interfere
  BY DEF Bench!Interfere, Measured!Interfere, Bench!Ended, Measured!Ended
<1>3. UNCHANGED benchVars => UNCHANGED Measured!vars
  BY DEF benchVars, Measured!vars
<1>4. [Measured!Next]_(Measured!vars)
  BY <1>1, <1>2, <1>3 DEF Measured!Next
<1>5. Measured!IInv'
  BY <1>4, Measured!EveryStepKeeps, RepetitionsAssumption
<1>6. repetitions' = repetitions
  BY DEF benchVars, Bench!Interfere, Bench!Step, Bench!RefuseRepetitions,
     Bench!WarmUp, Bench!RefuseEntry, Bench!Enter, Bench!TimedPass,
     Bench!RefuseBetween, Bench!LookAgain, Bench!StartTracing, Bench!TracedPass,
     Bench!StopTracing, Bench!Aggregate
<1> QED
  BY <1>5, <1>6

LEMMA FreshBenchmarkKeeps ==
    ASSUME Measured!IInv, FreshBenchmark, tracing' \in BOOLEAN,
           startedHere' \in BOOLEAN, ~(tracing' /\ startedHere'),
           UNCHANGED <<repetitions, peak, interference>>
    PROVE  Measured!IInv'
<1>1. Measured!Types'
  <2>1. samples' \in Seq(Measured!Samples)
    BY DEF FreshBenchmark
  <2> QED
    BY <2>1 DEF Measured!IInv, Measured!Types, FreshBenchmark, Measured!Positions
<1>2. Measured!CountInv' /\ Measured!QuietInv' /\ Measured!OwnTracingIsStopped'
  BY DEF FreshBenchmark, Measured!CountInv, Measured!QuietInv,
     Measured!OwnTracingIsStopped, Measured!Measuring
<1>3. benchPc' = "called" /\ samples' = <<>> /\ interference' \in Nat
  BY <1>1 DEF FreshBenchmark, Measured!Types
<1>4. Measured!TimedInv'
  BY <1>3, Measured!CalledWithNoSample, RepetitionsAssumption
<1> QED
  BY <1>1, <1>2, <1>4 DEF Measured!IInv

LEMMA DemoInvInit == Init => DemoInv
<1> SUFFICES ASSUME Init PROVE DemoInv
  OBVIOUS
<1>1. results = <<>> /\ launch = 1 /\ phase = "decide"
      /\ jsonFile = Nothing /\ reportFile = Nothing
  BY DEF Init
<1>2. ResultsInv
  BY <1>1, PairScenario DEF ResultsInv
<1>3. PhaseInv
  BY <1>1, PairScenario DEF PhaseInv, Nothing
<1>4. FilesInv
  BY <1>1 DEF FilesInv, FilesComeFromWholeRuns, Nothing
<1>5. Bench!Init => Measured!Init
  BY DEF Bench!Init, Measured!Init
<1>6. Measured!IInv
  BY <1>5, Measured!InitEstablishes, RepetitionsAssumption DEF Init
<1> QED
  BY <1>2, <1>3, <1>4, <1>6 DEF DemoInv

\* What the invariant says of the script does not change with run().
LEMMA DemoInvQuiet ==
    ASSUME DemoInv, UNCHANGED <<launch, results, jsonFile, reportFile>>,
           Measured!IInv', repetitions' = repetitions,
           \/ phase' = phase
           \/ phase' = "stopped"
           \/ phase = "decide" /\ phase' = "benchmark"
    PROVE  DemoInv'
<1>1. ResultsInv'
  BY DEF DemoInv, ResultsInv
<1>2. PhaseInv'
  BY DEF DemoInv, PhaseInv, Torn, Whole
<1>3. FilesInv'
  BY DEF DemoInv, FilesInv, FilesComeFromWholeRuns
<1> QED
  BY <1>1, <1>2, <1>3 DEF DemoInv

LEMMA OpenResultsKeeps ==
    ASSUME DemoInv, OpenResults
    PROVE  DemoInv'
<1>1. /\ UNCHANGED <<launch, results, reportFile, benchVars>>
      /\ phase = "write" /\ phase' = "writing"
      /\ jsonFile' = Torn
  BY DEF OpenResults
<1>2. repetitions' = repetitions /\ Measured!IInv'
  BY <1>1, BenchmarkKeeps DEF DemoInv
<1>3. ResultsInv'
  BY <1>1, <1>2 DEF DemoInv, ResultsInv
<1>4. /\ {launch, reportFile.launch} \subseteq Nat
      /\ jsonFile'.launch = launch /\ ~jsonFile'.whole
      /\ reportFile.launch < launch
  BY <1>1 DEF DemoInv, PhaseInv, FilesInv, FilesComeFromWholeRuns, Torn
<1>5. PhaseInv'
  BY <1>1, <1>4 DEF DemoInv, PhaseInv, Torn
<1>6. FilesInv'
  BY <1>1, <1>4 DEF FilesInv, FilesComeFromWholeRuns
<1> QED
  BY <1>2, <1>3, <1>5, <1>6 DEF DemoInv

LEMMA WriteResultsKeeps ==
    ASSUME DemoInv, WriteResults
    PROVE  DemoInv'
<1>1. /\ UNCHANGED <<launch, results, reportFile, benchVars>>
      /\ phase = "writing" /\ phase' = "report"
      /\ jsonFile' = Whole(Dicts(results))
  BY DEF WriteResults, Dicts
<1>2. repetitions' = repetitions /\ Measured!IInv'
  BY <1>1, BenchmarkKeeps DEF DemoInv
<1>3. ResultsInv'
  BY <1>1, <1>2 DEF DemoInv, ResultsInv
<1>4. PhaseInv'
  BY <1>1 DEF DemoInv, PhaseInv, Whole
<1>5. /\ Len(jsonFile'.content) = PairCount
      /\ \A r \in Range(jsonFile'.content) : r.repetitions = repetitions
  <2> DEFINE d == Dicts(results)
             m == Len(results)
  <2>1. Len(d) = m /\ d \in Seq({ResultToDict(r) : r \in Range(results)})
        /\ \A i \in 1 .. m : d[i] = ResultToDict(results[i])
    BY DictsType DEF DemoInv, ResultsInv
  <2>2. \A i \in 1 .. m : results[i].samples = repetitions
    BY DEF DemoInv, ResultsInv
  <2>3. \A r : ResultToDict(r).repetitions = r.samples
    BY DEF ResultToDict
  <2>4. m = PairCount
    BY <1>1 DEF DemoInv, PhaseInv
  <2>5. jsonFile'.content = d
    BY <1>1 DEF Whole
  <2> HIDE DEF d, m
  <2>6. \A i \in 1 .. m : d[i].repetitions = repetitions
    BY <2>1, <2>2, <2>3
  <2>7. \A r \in Range(d) : \E i \in 1 .. m : r = d[i]
    BY <2>1 DEF Range
  <2> QED
    BY <2>1, <2>4, <2>5, <2>6, <2>7
<1>6. FilesInv'
  <2>1. /\ {launch, reportFile.launch} \subseteq Nat
        /\ jsonFile'.launch = launch
        /\ reportFile.launch < jsonFile'.launch
    BY <1>1 DEF DemoInv, PhaseInv, FilesInv, Whole
  <2> QED
    BY <1>1, <1>2, <1>5, <2>1 DEF FilesInv, FilesComeFromWholeRuns
<1> QED
  BY <1>2, <1>3, <1>4, <1>6 DEF DemoInv

LEMMA OpenReportKeeps ==
    ASSUME DemoInv, OpenReport
    PROVE  DemoInv'
<1>1. /\ UNCHANGED <<launch, results, jsonFile, benchVars>>
      /\ phase = "report" /\ phase' = "reporting"
      /\ reportFile' = Torn
  BY DEF OpenReport
<1>2. repetitions' = repetitions /\ Measured!IInv'
  BY <1>1, BenchmarkKeeps DEF DemoInv
<1>3. ResultsInv'
  BY <1>1, <1>2 DEF DemoInv, ResultsInv
<1>4. PhaseInv'
  BY <1>1 DEF DemoInv, PhaseInv, Whole
<1>5. /\ reportFile'.launch = launch /\ ~reportFile'.whole
      /\ jsonFile.launch = launch /\ jsonFile.whole
  BY <1>1 DEF DemoInv, PhaseInv, Torn, Whole
<1>6. FilesInv'
  BY <1>1, <1>2, <1>5 DEF DemoInv, FilesInv, FilesComeFromWholeRuns
<1> QED
  BY <1>2, <1>3, <1>4, <1>6 DEF DemoInv

LEMMA WriteReportKeeps ==
    ASSUME DemoInv, WriteReport
    PROVE  DemoInv'
<1>1. /\ UNCHANGED <<launch, results, jsonFile, benchVars>>
      /\ phase = "reporting" /\ phase' = "done"
      /\ reportFile' = Whole(Sections(results))
  BY DEF WriteReport
<1>2. repetitions' = repetitions /\ Measured!IInv'
  BY <1>1, BenchmarkKeeps DEF DemoInv
<1>3. ResultsInv'
  BY <1>1, <1>2 DEF DemoInv, ResultsInv
<1>4. PhaseInv'
  BY <1>1 DEF PhaseInv
<1>5. FlattenSeq(Sections(results)) = Dicts(results)
  BY ResultsAreInOrder, SectionsHoldTheResults DEF DemoInv, ResultsInv
<1>6. /\ reportFile'.launch = launch /\ reportFile'.whole
      /\ jsonFile.launch = launch /\ jsonFile.whole
      /\ FlattenSeq(reportFile'.content) = jsonFile.content
  BY <1>1, <1>5 DEF DemoInv, PhaseInv, Whole
<1>7. FilesInv'
  BY <1>1, <1>2, <1>6 DEF DemoInv, FilesInv, FilesComeFromWholeRuns
<1> QED
  BY <1>2, <1>3, <1>4, <1>7 DEF DemoInv

LEMMA LaunchKeeps ==
    ASSUME DemoInv, Launch
    PROVE  DemoInv'
<1>1. /\ UNCHANGED <<jsonFile, reportFile, repetitions, peak, interference>>
      /\ launch' = launch + 1
      /\ phase' = "decide" /\ results' = <<>>
      /\ FreshBenchmark /\ ~tracing' /\ tracing' \in BOOLEAN
      /\ ~startedHere' /\ startedHere' \in BOOLEAN
  BY DEF Launch
<1>2. Measured!IInv'
  BY <1>1, FreshBenchmarkKeeps DEF DemoInv
<1>3. ResultsInv'
  BY <1>1, PairScenario DEF ResultsInv
<1>4. PhaseInv'
  <2>1. jsonFile.launch \in Nat /\ launch \in Nat /\ jsonFile.launch <= launch
    BY DEF DemoInv, FilesInv
  <2> QED
    BY <1>1, <2>1, PairScenario DEF PhaseInv
<1>5. FilesInv'
  BY <1>1 DEF DemoInv, FilesInv, FilesComeFromWholeRuns
<1> QED
  BY <1>2, <1>3, <1>4, <1>5 DEF DemoInv

LEMMA AppendResultKeeps ==
    ASSUME DemoInv, AppendResult
    PROVE  DemoInv'
<1> DEFINE r == [scenario |-> Current.demo.id, algorithm |-> Current.algorithm,
                 decisions |-> decisions, samples |-> Len(samples)]
           T == Range(results) \cup {r}
           m == Len(results)
<1>1. /\ UNCHANGED <<launch, jsonFile, reportFile>>
      /\ phase = "benchmark" /\ benchPc = "returned"
      /\ results' = Append(results, r)
      /\ phase' = IF Len(results') = PairCount THEN "write" ELSE "decide"
  BY DEF AppendResult
<1>2. /\ repetitions' = repetitions
      /\ Measured!IInv'
  <2>1. CASE UNCHANGED benchVars
    BY <2>1, BenchmarkKeeps DEF DemoInv
  <2>2. CASE FreshBenchmark
             /\ UNCHANGED <<repetitions, tracing, startedHere, peak, interference>>
    <3>1. /\ tracing' \in BOOLEAN /\ startedHere' \in BOOLEAN
          /\ ~(tracing' /\ startedHere')
      BY <1>1, <2>2 DEF DemoInv, Measured!IInv, Measured!Types,
         Measured!OwnTracingIsStopped
    <3> QED
      BY <2>2, <3>1, FreshBenchmarkKeeps DEF DemoInv
  <2> QED
    BY <2>1, <2>2 DEF AppendResult
<1>3. /\ r.scenario = Pair(m + 1).demo.id
      /\ r.samples = repetitions
  BY <1>1 DEF Current, DemoInv, Measured!IInv, Measured!CountInv
<1>4. results \in Seq(T) /\ m \in Nat
  <2>1. results \in Seq(Range(results))
    BY DEF DemoInv, ResultsInv
  <2> QED
    BY <2>1
<1>5. m < PairCount
  BY <1>1 DEF DemoInv, PhaseInv
<1>6. r \in T
  OBVIOUS
<1>7. /\ results' \in Seq(T)
      /\ Len(results') = m + 1
      /\ \A i \in 1 .. m : results'[i] = results[i]
      /\ results'[m + 1] = r
  <2> HIDE DEF T, r
  <2> QED
    BY <1>1, <1>4, <1>6
<1>8. Range(results') = T
  <2>1. results \in Seq(Range(results) \cup {r})
    BY <1>4
  <2>2. Range(Append(results, r)) = Range(results) \cup {r}
    <3> HIDE DEF r
    <3> QED
      BY <2>1, RangeOfAppend
  <2> QED
    BY <1>1, <2>2
<1> HIDE DEF T, r
<1>9. ResultsInv'
  <2>1. results' \in Seq(Range(results'))
    BY <1>7, <1>8
  <2>2. Len(results') <= PairCount
    BY <1>4, <1>5, <1>7, PairScenario
  <2>3. ASSUME NEW i \in 1 .. Len(results')
        PROVE  results'[i].scenario = Pair(i).demo.id
               /\ results'[i].samples = repetitions
    <3>1. CASE i = m + 1
      BY <1>3, <1>7, <3>1
    <3>2. CASE i \in 1 .. m
      BY <1>7, <3>2 DEF DemoInv, ResultsInv
    <3> QED
      BY <1>4, <1>7, <3>1, <3>2
  <2> QED
    BY <1>2, <2>1, <2>2, <2>3 DEF ResultsInv
<1>10. PhaseInv'
  <2>1. Len(results') <= PairCount /\ Len(results') \in Nat /\ PairCount = 9
    BY <1>4, <1>7, <1>9, PairScenario DEF ResultsInv
  <2> QED
    BY <1>1, <2>1 DEF DemoInv, PhaseInv
<1>11. FilesInv'
  BY <1>1, <1>2 DEF DemoInv, FilesInv, FilesComeFromWholeRuns
<1> QED
  BY <1>2, <1>9, <1>10, <1>11 DEF DemoInv

LEMMA DemoInvStep == DemoInv /\ [Next]_vars => DemoInv'
<1> SUFFICES ASSUME DemoInv, [Next]_vars PROVE DemoInv'
  OBVIOUS
<1>1. CASE RunStep \/ Fail \/ Decide \/ Stop \/ UNCHANGED vars
  <2>1. /\ UNCHANGED <<launch, results, jsonFile, reportFile, benchVars>>
        /\ \/ phase' = phase
           \/ phase' = "stopped"
           \/ phase = "decide" /\ phase' = "benchmark"
    BY <1>1 DEF RunStep, Fail, Decide, Stop, demoVars, vars
  <2>2. Measured!IInv' /\ repetitions' = repetitions
    BY <2>1, BenchmarkKeeps DEF DemoInv
  <2> QED
    BY <2>1, <2>2, DemoInvQuiet
<1>2. CASE BenchmarkStep \/ Interfere
  <2>1. UNCHANGED demoVars /\ (Bench!Step \/ Bench!Interfere)
    BY <1>2 DEF BenchmarkStep, Interfere
  <2>2. Measured!IInv' /\ repetitions' = repetitions
    BY <2>1, BenchmarkKeeps DEF DemoInv
  <2> QED
    BY <2>1, <2>2, DemoInvQuiet DEF demoVars
<1> QED
  BY <1>1, <1>2, AppendResultKeeps, OpenResultsKeeps, WriteResultsKeeps,
     OpenReportKeeps, WriteReportKeeps, LaunchKeeps
     DEF Next, Advance

\* Wherever the script is stopped, in the middle of a write too, and however often
\* it is started again: a results.json that is not torn holds every pair with all
\* its repetitions, the report of a launch is begun after its data is whole, and a
\* report of the same launch that is not torn holds exactly its entries, in order.
THEOREM FilesHoldWholeRuns == Spec => []FilesComeFromWholeRuns
<1>1. DemoInv => FilesComeFromWholeRuns
  BY DEF DemoInv, FilesInv
<1> QED
  BY DemoInvInit, DemoInvStep, <1>1, PTL DEF Spec

----------------------------------------------------------------------------
(***************************************************************************)
(* The demo scenarios                                                      *)
(***************************************************************************)

OwnTtis(items, n) ==
    \A t \in 0 .. n - 1 : IsInjective(items[t]) /\ \A r \in Range(items[t]) : r.tti = t

\* A record list built TTI by TTI is in order and repeats nothing that no TTI
\* repeats.
LEMMA PerTtiFacts ==
    ASSUME NEW T, NEW n \in Nat, NEW items \in [0 .. n - 1 -> Seq(T)],
           OwnTtis(items, n)
    PROVE  /\ PerTti(items) \in Seq(T)
           /\ IsInjective(PerTti(items))
           /\ Range(PerTti(items)) = UNION {Range(items[t]) : t \in 0 .. n - 1}
<1> DEFINE gs == [i \in 1 .. n |-> items[i - 1]]
           S == Seq(T)
<1>1. PerTti(items) = FlattenSeq(gs)
  <2>1. DOMAIN items = 0 .. n - 1 /\ Cardinality(0 .. n - 1) = n
    BY FS_Interval
  <2> QED
    BY <2>1 DEF PerTti
<1>2. \A i \in 1 .. n : i - 1 \in 0 .. n - 1 /\ gs[i] = items[i - 1] /\ items[i - 1] \in S
  OBVIOUS
<1>3. gs \in Seq(S) /\ Len(gs) = n
  <2>1. gs \in [1 .. n -> S]
    <3> HIDE DEF S
    <3> QED
      BY <1>2
  <2> HIDE DEF gs, S
  <2> QED
    BY <2>1, FunctionIsSeq
<1> HIDE DEF gs
<1>4. \A i \in 1 .. Len(gs) : IsInjective(gs[i])
  BY <1>2, <1>3 DEF OwnTtis
<1>5. ASSUME NEW i \in 1 .. Len(gs), NEW j \in 1 .. Len(gs), i # j
      PROVE  Range(gs[i]) \cap Range(gs[j]) = {}
  <2>1. /\ \A r \in Range(gs[i]) : r.tti = i - 1
        /\ \A r \in Range(gs[j]) : r.tti = j - 1
    BY <1>2, <1>3 DEF OwnTtis
  <2>2. i - 1 # j - 1
    BY <1>3, <1>5
  <2> QED
    BY <2>1, <2>2
<1>6. /\ FlattenSeq(gs) \in Seq(T)
      /\ Range(FlattenSeq(gs)) = UNION {Range(gs[i]) : i \in 1 .. Len(gs)}
      /\ IsInjective(FlattenSeq(gs))
  <2>1. gs \in Seq(Seq(T))
    BY <1>3
  <2> QED
    BY <1>4, <1>5, <2>1, FlattenFacts
<1>7. UNION {Range(gs[i]) : i \in 1 .. n} = UNION {Range(items[t]) : t \in 0 .. n - 1}
  <2>1. \A t \in 0 .. n - 1 : t + 1 \in 1 .. n /\ gs[t + 1] = items[t]
    <3> SUFFICES ASSUME NEW t \in 0 .. n - 1
                 PROVE  t + 1 \in 1 .. n /\ gs[t + 1] = items[t]
      OBVIOUS
    <3>1. PICK i \in 1 .. n : i = t + 1 /\ i - 1 = t
      OBVIOUS
    <3> QED
      BY <1>2, <3>1
  <2> QED
    BY <1>2, <2>1
<1> QED
  BY <1>1, <1>3, <1>6, <1>7

LEMMA GetType ==
    ASSUME NEW V, 0 \in V, NEW dict, \A k \in DOMAIN dict : dict[k] \in V, NEW key
    PROVE  Get(dict, key) \in V
BY DEF Get

\* The two UEs of the demonstration.
LEMMA TwoUesFacts ==
    /\ TwoUes \in Seq(UeIds) /\ Len(TwoUes) = 2 /\ IsInjective(TwoUes)
    /\ Range(TwoUes) = {UeId(0), UeId(1)}
<1>1. UeId(0) \in UeIds /\ UeId(1) \in UeIds /\ UeId(0) # UeId(1)
  BY DemoIdsAssumption
<1> QED
  BY <1>1 DEF TwoUes, IsInjective, Range

\* Each of the two has one record in every TTI, and nobody else has any.
LEMMA RecordsOnce ==
    ASSUME NEW V, 0 \in V, NEW n \in Nat, NEW dict, \A k \in DOMAIN dict : dict[k] \in V,
           NEW t \in 0 .. n - 1, NEW u \in UeIds
    PROVE  LET own == ValuesOf(Records(n, TwoUes, dict), t)[u]
           IN IF u \in Range(TwoUes) THEN \E v \in V : own = <<v>> ELSE own = <<>>
<1> DEFINE Rec(s, k) == [tti |-> s, ue |-> TwoUes[k], value |-> Get(dict, <<s, TwoUes[k]>>)]
           T == [tti : 0 .. n - 1, ue : UeIds, value : V]
           items == [s \in 0 .. n - 1 |-> [k \in 1 .. 2 |-> Rec(s, k)]]
           records == PerTti(items)
           W == {r \in Range(records) : r.tti = t /\ r.ue = u}
<1>1. records = Records(n, TwoUes, dict)
  <2>1. DOMAIN TwoUes = 1 .. 2
    BY TwoUesFacts
  <2> QED
    BY <2>1 DEF Records
<1>2. \A s \in 0 .. n - 1 : \A k \in 1 .. 2 : Rec(s, k) \in T
  <2> SUFFICES ASSUME NEW s \in 0 .. n - 1, NEW k \in 1 .. 2 PROVE Rec(s, k) \in T
    OBVIOUS
  <2>1. TwoUes[k] \in UeIds
    <3>1. k \in 1 .. Len(TwoUes) /\ TwoUes \in Seq(UeIds)
      BY TwoUesFacts
    <3> QED
      BY ONLY <3>1
  <2>2. Get(dict, <<s, TwoUes[k]>>) \in V
    BY GetType
  <2> QED
    BY <2>1, <2>2
<1>3. \A s \in 0 .. n - 1 : items[s] = [k \in 1 .. 2 |-> Rec(s, k)]
  <2> HIDE DEF Rec
  <2> QED
    OBVIOUS
<1>4. /\ \A s, k : Rec(s, k).tti = s /\ Rec(s, k).ue = TwoUes[k]
      /\ TwoUes[1] # TwoUes[2] /\ Range(TwoUes) = {TwoUes[1], TwoUes[2]}
  BY TwoUesFacts DEF TwoUes, IsInjective
<1>5. ASSUME NEW s \in 0 .. n - 1
      PROVE  /\ items[s] \in Seq(T) /\ IsInjective(items[s])
             /\ Range(items[s]) = {Rec(s, 1), Rec(s, 2)}
  <2>1. items[s] \in [1 .. 2 -> T]
    <3> HIDE DEF Rec, T, items
    <3> QED
      BY <1>2, <1>3
  <2>2. items[s] \in Seq(T)
    <3> HIDE DEF T, items
    <3>1. 2 \in Nat
      OBVIOUS
    <3> QED
      BY <2>1, <3>1, FunctionIsSeq, Zenon
  <2>3. DOMAIN items[s] = {1, 2} /\ items[s][1] = Rec(s, 1) /\ items[s][2] = Rec(s, 2)
    <3> HIDE DEF Rec, items
    <3>1. 1 .. 2 = {1, 2}
      OBVIOUS
    <3>2. items[s] = [k \in {1, 2} |-> Rec(s, k)]
      BY <1>3, <3>1
    <3> QED
      BY <3>2
  <2>4. Rec(s, 1) # Rec(s, 2)
    <3> HIDE DEF Rec
    <3> QED
      BY <1>4
  <2> HIDE DEF items, Rec
  <2> QED
    BY <2>2, <2>3, <2>4 DEF IsInjective, Range
<1> HIDE DEF Rec
<1>6. items \in [0 .. n - 1 -> Seq(T)]
  <2> HIDE DEF T
  <2>1. items = [s \in 0 .. n - 1 |-> items[s]]
    OBVIOUS
  <2> HIDE DEF items
  <2> QED
    BY <1>5, <2>1
<1> HIDE DEF items, T
<1>7. /\ records \in Seq(T) /\ IsInjective(records)
      /\ Range(records) = UNION {{Rec(s, 1), Rec(s, 2)} : s \in 0 .. n - 1}
  <2>1. ASSUME NEW s \in 0 .. n - 1
        PROVE  IsInjective(items[s]) /\ \A r \in Range(items[s]) : r.tti = s
    <3>1. Rec(s, 1).tti = s /\ Rec(s, 2).tti = s
      BY <1>4
    <3>2. IsInjective(items[s]) /\ Range(items[s]) = {Rec(s, 1), Rec(s, 2)}
      BY <1>5
    <3> QED
      BY <3>1, <3>2
  <2>a. OwnTtis(items, n)
    BY <2>1 DEF OwnTtis
  <2>2. /\ records \in Seq(T) /\ IsInjective(records)
        /\ Range(records) = UNION {Range(items[s]) : s \in 0 .. n - 1}
    BY <1>6, <2>a, PerTtiFacts, Zenon
  <2> QED
    BY <1>5, <2>2
<1>8. \A r : r \in W <=> \E k \in {1, 2} : r = Rec(t, k) /\ TwoUes[k] = u
  BY <1>4, <1>7
<1> DEFINE own == Selected(records, W)
<1>9. ValuesOf(records, t)[u] = [i \in DOMAIN own |-> own[i].value]
  BY DEF ValuesOf
<1>10. CASE u \in Range(TwoUes)
  <2>1. PICK k \in {1, 2} : TwoUes[k] = u
    BY <1>4, <1>10
  <2>2. Range(records) \cap W = {Rec(t, k)}
    <3>1. W = {Rec(t, k)}
      BY <1>4, <1>8, <2>1
    <3> QED
      BY <3>1
  <2>3. own = <<Rec(t, k)>>
    <3> HIDE DEF W, records
    <3> QED
      BY <1>7, <2>2, SelectedOne
  <2>4. Rec(t, k).value \in V
    BY GetType DEF Rec
  <2>5. ValuesOf(records, t)[u] = [i \in DOMAIN <<Rec(t, k)>> |-> <<Rec(t, k)>>[i].value]
    <3> HIDE DEF own
    <3> QED
      BY <1>9, <2>3
  <2>6. ValuesOf(records, t)[u] = <<Rec(t, k).value>>
    BY <2>5
  <2> QED
    BY <1>1, <1>10, <2>4, <2>6
<1>11. CASE u \notin Range(TwoUes)
  <2>1. W = {}
    BY <1>4, <1>8, <1>11
  <2>2. own \in Seq(T) /\ Range(own) = {}
    <3> HIDE DEF records, W
    <3> QED
      BY <1>7, <2>1, SelectedFacts
  <2> HIDE DEF own
  <2>3. own = <<>>
    <3>1. DOMAIN own = {}
      BY <2>2, Zenon DEF Range
    <3>2. DOMAIN own = 1 .. Len(own) /\ Len(own) \in Nat
      BY <2>2
    <3>3. Len(own) = 0
      BY <3>1, <3>2
    <3> QED
      BY <2>2, <3>3
  <2> QED
    BY <1>1, <1>9, <1>11, <2>3
<1> QED
  BY <1>10, <1>11

\* A TTI of at most two blocks: what run() reads are its own, each once.
LEMMA BlocksOnce ==
    ASSUME NEW n \in 0 .. 2, NEW counts \in [0 .. n - 1 -> 0 .. 2], NEW t \in 0 .. n - 1
    PROVE  LET own == OfTti(ResourceBlocks(counts), t)
               ids == [i \in DOMAIN own |-> own[i].id]
           IN ids \in Seq(BlockIds) /\ IsInjective(ids)
<1> DEFINE Block(s, j) == [tti |-> s, id |-> BlockId(s, j - 1)]
           T == [tti : 0 .. n - 1, id : BlockIds]
           items == [s \in DOMAIN counts |-> [j \in 1 .. counts[s] |-> Block(s, j)]]
           blocks == PerTti(items)
           W == {r \in Range(blocks) : r.tti = t}
           own == Selected(blocks, W)
           ids == [i \in DOMAIN own |-> own[i].id]
<1>1. blocks = ResourceBlocks(counts)
  BY DEF ResourceBlocks
<1>2. ASSUME NEW s \in 0 .. n - 1, NEW j \in 1 .. counts[s]
      PROVE  /\ Block(s, j) \in T /\ Block(s, j).tti = s
             /\ Block(s, j).id = BlockId(s, j - 1)
  <2>1. s \in 0 .. 1 /\ counts[s] \in 0 .. 2
    OBVIOUS
  <2>2. j - 1 = 0 \/ j - 1 = 1
    BY <2>1
  <2>3. BlockId(s, 0) \in BlockIds /\ BlockId(s, 1) \in BlockIds
    BY <2>1, DemoIdsAssumption
  <2>4. BlockId(s, j - 1) \in BlockIds
    BY <2>2, <2>3
  <2> QED
    BY <2>4
<1>3. ASSUME NEW s \in 0 .. n - 1, NEW i \in 1 .. counts[s], NEW j \in 1 .. counts[s],
             BlockId(s, i - 1) = BlockId(s, j - 1)
      PROVE  i = j
  <2>1. s \in 0 .. 1 /\ counts[s] \in 0 .. 2
    OBVIOUS
  <2>2. BlockId(s, 0) # BlockId(s, 1)
    BY <2>1, DemoIdsAssumption
  <2>3. (j - 1 = 0 \/ j - 1 = 1) /\ (i - 1 = 0 \/ i - 1 = 1)
    BY <2>1
  <2>4. i - 1 = j - 1
    BY <1>3, <2>2, <2>3
  <2> QED
    BY <2>1, <2>4
<1>4. DOMAIN counts = 0 .. n - 1 /\ n \in Nat /\ \A s \in 0 .. n - 1 : counts[s] \in Nat
  OBVIOUS
<1>5. \A s \in 0 .. n - 1 : items[s] = [j \in 1 .. counts[s] |-> Block(s, j)]
  <2> HIDE DEF Block
  <2> QED
    BY <1>4
<1> HIDE DEF Block
<1>6. ASSUME NEW s \in 0 .. n - 1
      PROVE  /\ items[s] \in Seq(T) /\ IsInjective(items[s])
             /\ \A r \in Range(items[s]) : r.tti = s
  <2> DEFINE m == counts[s]
             f == items[s]
  <2>1. m \in Nat
    BY <1>4
  <2>2. f = [j \in 1 .. m |-> Block(s, j)]
    BY <1>5
  <2>3. f \in [1 .. m -> T]
    <3> HIDE DEF f, T
    <3> QED
      BY <1>2, <2>2
  <2>4. f \in Seq(T)
    <3> HIDE DEF f, m, T
    <3> QED
      BY <2>1, <2>3, FunctionIsSeq, Zenon
  <2>5. DOMAIN f = 1 .. m /\ \A j \in 1 .. m : f[j] = Block(s, j)
    <3> HIDE DEF f
    <3> QED
      BY <2>2
  <2>6. IsInjective(f)
    <3> SUFFICES ASSUME NEW i \in 1 .. m, NEW j \in 1 .. m, f[i] = f[j]
                 PROVE  i = j
      <4> HIDE DEF f, m
      <4> QED
        BY <2>5 DEF IsInjective
    <3>1. Block(s, i).id = Block(s, j).id
      BY <2>5
    <3>2. BlockId(s, i - 1) = BlockId(s, j - 1)
      BY <1>2, <3>1
    <3> QED
      BY <1>3, <3>2
  <2>7. \A r \in Range(f) : r.tti = s
    <3> SUFFICES ASSUME NEW j \in 1 .. m PROVE f[j].tti = s
      <4> HIDE DEF f, m
      <4> QED
        BY <2>5 DEF Range
    <3> QED
      BY <1>2, <2>5
  <2> HIDE DEF f
  <2> QED
    BY <2>4, <2>6, <2>7 DEF f
<1>7. items \in [0 .. n - 1 -> Seq(T)]
  <2> HIDE DEF T
  <2>1. items = [s \in 0 .. n - 1 |-> items[s]]
    BY <1>4
  <2> HIDE DEF items
  <2> QED
    BY <1>6, <2>1
<1> HIDE DEF items
<1>8. blocks \in Seq(T) /\ IsInjective(blocks)
      /\ Range(blocks) = UNION {Range(items[s]) : s \in 0 .. n - 1}
  <2>1. OwnTtis(items, n)
    BY <1>6 DEF OwnTtis
  <2> HIDE DEF T
  <2> QED
    BY <1>4, <1>7, <2>1, PerTtiFacts, Zenon
<1>9. own \in Seq(T) /\ IsInjective(own) /\ Range(own) = Range(blocks) \cap W
  <2> HIDE DEF T, blocks, W
  <2> QED
    BY <1>8, SelectedFacts
<1>10. \A r \in Range(own) : r \in Range(items[t])
  <2> SUFFICES ASSUME NEW r \in Range(own) PROVE r \in Range(items[t])
    OBVIOUS
  <2>1. r \in Range(blocks) /\ r.tti = t
    BY <1>9
  <2>2. PICK s \in 0 .. n - 1 : r \in Range(items[s])
    BY <1>8, <2>1
  <2>3. r.tti = s
    BY <1>6, <2>2
  <2> QED
    BY <2>1, <2>2, <2>3
<1>11. \A r \in Range(items[t]) : \E j \in 1 .. counts[t] : r = Block(t, j)
  <2> DEFINE m == counts[t]
  <2>1. items[t] = [j \in 1 .. m |-> Block(t, j)]
    BY <1>5
  <2> HIDE DEF m
  <2>2. \A r \in Range(items[t]) : \E j \in 1 .. m : r = Block(t, j)
    BY <2>1 DEF Range
  <2> QED
    BY <2>2 DEF m
<1> HIDE DEF own, blocks, W
<1>12. \A i \in DOMAIN own : \E j \in 1 .. counts[t] : own[i] = Block(t, j)
  <2>1. \A i \in DOMAIN own : own[i] \in Range(own)
    BY DEF Range
  <2> QED
    BY <1>10, <1>11, <2>1
<1>13. IsInjective(ids)
  <2> SUFFICES ASSUME NEW i \in DOMAIN own, NEW j \in DOMAIN own, own[i].id = own[j].id
               PROVE  i = j
    BY DEF IsInjective
  <2>1. PICK a \in 1 .. counts[t] : own[i] = Block(t, a)
    BY <1>12
  <2>2. PICK b \in 1 .. counts[t] : own[j] = Block(t, b)
    BY <1>12
  <2>3. a = b
    BY <1>2, <1>3, <2>1, <2>2
  <2>4. own[i] = own[j]
    BY <2>1, <2>2, <2>3
  <2> QED
    BY <1>9, <2>4 DEF IsInjective
<1>14. ids \in Seq(BlockIds)
  <2>1. ASSUME NEW i \in DOMAIN own PROVE own[i].id \in BlockIds
    <3>1. PICK j \in 1 .. counts[t] : own[i] = Block(t, j)
      BY <1>12
    <3>2. Block(t, j) \in T
      BY <1>2
    <3> QED
      BY <3>1, <3>2
  <2>2. DOMAIN own = 1 .. Len(own) /\ Len(own) \in Nat
    BY <1>9
  <2>3. ids \in [1 .. Len(own) -> BlockIds]
    BY <2>1, <2>2
  <2> HIDE DEF ids
  <2> QED
    BY <2>2, <2>3, FunctionIsSeq
<1>15. OfTti(ResourceBlocks(counts), t) = own
  BY <1>1 DEF OfTti, own, W
<1> QED
  BY <1>13, <1>14, <1>15

\* run() finds in a scenario s what it needs in every TTI, once and well formed.
Runnable(s) ==
    /\ s.ttis \in Seq(Nat) /\ IsInjective(s.ttis)
    /\ s.ues = TwoUes
    /\ \A t \in Range(s.ttis) :
          LET in == InputOf(s, t)
          IN /\ in \in TtiInput
             /\ IsInjective(in.blocks)
             /\ \A u \in UeIds : /\ Len(in.qualities[u]) <= 1
                                 /\ in.qualities[u] # <<>> => u \in Range(TwoUes)

ValuesIn(dict, V) == \A k \in DOMAIN dict : dict[k] \in V

\* One record or none of each UE.
LEMMA ValuesType ==
    ASSUME NEW V, 0 \in V, NEW n \in Nat, NEW dict, ValuesIn(dict, V),
           NEW t \in 0 .. n - 1
    PROVE  LET values == ValuesOf(Records(n, TwoUes, dict), t)
           IN /\ values \in [UeIds -> Seq(V)]
              /\ \A u \in UeIds : /\ Len(values[u]) <= 1
                                  /\ values[u] # <<>> => u \in Range(TwoUes)
<1> DEFINE values == ValuesOf(Records(n, TwoUes, dict), t)
<1>1. values = [u \in UeIds |-> values[u]]
  BY DEF ValuesOf
<1>2. ASSUME NEW u \in UeIds
      PROVE  IF u \in Range(TwoUes) THEN \E v \in V : values[u] = <<v>>
             ELSE values[u] = <<>>
  BY RecordsOnce DEF ValuesIn
<1> HIDE DEF values
<1>3. ASSUME NEW u \in UeIds
      PROVE  /\ values[u] \in Seq(V) /\ Len(values[u]) <= 1
             /\ values[u] # <<>> => u \in Range(TwoUes)
  <2>1. CASE u \in Range(TwoUes)
    <3>1. PICK v \in V : values[u] = <<v>>
      BY <1>2, <2>1
    <3> QED
      BY <2>1, <3>1
  <2>2. CASE u \notin Range(TwoUes)
    <3>1. values[u] = <<>>
      BY <1>2, <2>2
    <3> QED
      BY <3>1
  <2> QED
    BY <2>1, <2>2
<1>4. values \in [UeIds -> Seq(V)]
  BY <1>1, <1>3
<1> QED
  BY <1>3, <1>4 DEF values

LEMMA BuiltIsRunnable ==
    ASSUME NEW n \in 1 .. 2, NEW blocks, ValuesIn(blocks, 0 .. 2),
           NEW cqis, ValuesIn(cqis, Cqi), NEW bytes, ValuesIn(bytes, Nat)
    PROVE  Runnable(BuildScenario(TwoUes, n, blocks, cqis, bytes))
<1> DEFINE s == BuildScenario(TwoUes, n, blocks, cqis, bytes)
           counts == [t \in 0 .. n - 1 |-> Get(blocks, t)]
<1>1. /\ s.ttis = [i \in 1 .. n |-> i - 1]
      /\ s.ues = TwoUes
      /\ s.blocks = ResourceBlocks(counts)
      /\ s.qualities = Records(n, TwoUes, cqis)
      /\ s.arrivals = Records(n, TwoUes, bytes)
  BY DEF BuildScenario, TtiIndices
<1> HIDE DEF s
<1>2. s.ttis \in Seq(Nat) /\ IsInjective(s.ttis) /\ Range(s.ttis) \subseteq 0 .. n - 1
  <2>1. \A i \in 1 .. n : i - 1 \in Nat /\ i - 1 \in 0 .. n - 1
    OBVIOUS
  <2>2. s.ttis \in [1 .. n -> Nat]
    BY <1>1, <2>1
  <2>3. n \in Nat
    OBVIOUS
  <2>4. s.ttis \in Seq(Nat)
    BY <2>2, <2>3, FunctionIsSeq, Zenon
  <2>5. IsInjective(s.ttis)
    BY <1>1 DEF IsInjective
  <2>6. Range(s.ttis) \subseteq 0 .. n - 1
    BY <1>1, <2>1 DEF Range
  <2> QED
    BY <2>4, <2>5, <2>6
<1>3. counts \in [0 .. n - 1 -> 0 .. 2]
  <2>1. \A t \in 0 .. n - 1 : Get(blocks, t) \in 0 .. 2
    BY DEF ValuesIn, Get
  <2> QED
    BY <2>1
<1> HIDE DEF counts
<1>4. ASSUME NEW t \in 0 .. n - 1
      PROVE  LET in == InputOf(s, t)
             IN /\ in \in TtiInput
                /\ IsInjective(in.blocks)
                /\ \A u \in UeIds : /\ Len(in.qualities[u]) <= 1
                                    /\ in.qualities[u] # <<>> => u \in Range(TwoUes)
  <2> DEFINE own == OfTti(s.blocks, t)
             ids == [i \in DOMAIN own |-> own[i].id]
             qualities == ValuesOf(s.qualities, t)
             values == ValuesOf(s.arrivals, t)
  <2>1. InputOf(s, t) = [blocks |-> ids, qualities |-> qualities, arrivals |-> values]
    BY DEF InputOf
  <2>2. ids \in Seq(BlockIds) /\ IsInjective(ids)
    <3>1. n \in 0 .. 2
      OBVIOUS
    <3>2. LET mine == OfTti(ResourceBlocks(counts), t)
              of == [i \in DOMAIN mine |-> mine[i].id]
          IN of \in Seq(BlockIds) /\ IsInjective(of)
      BY ONLY <1>3, <3>1, BlocksOnce, t \in 0 .. n - 1
    <3>3. s.blocks = ResourceBlocks(counts)
      BY <1>1 DEF counts
    <3> QED
      BY <3>2, <3>3
  <2>3. /\ qualities \in [UeIds -> Seq(Cqi)]
        /\ \A u \in UeIds : /\ Len(qualities[u]) <= 1
                            /\ qualities[u] # <<>> => u \in Range(TwoUes)
    <3>1. 0 \in Cqi /\ n \in Nat
      BY DEF Cqi
    <3> QED
      BY <1>1, <3>1, ValuesType
  <2>4. values \in [UeIds -> Seq(Nat)]
    <3>1. 0 \in Nat /\ n \in Nat
      OBVIOUS
    <3> QED
      BY <1>1, <3>1, ValuesType
  <2> HIDE DEF ids, qualities, values
  <2> QED
    BY <2>1, <2>2, <2>3, <2>4 DEF TtiInput
<1>5. Runnable(s)
  BY <1>1, <1>2, <1>4 DEF Runnable
<1> QED
  BY <1>5 DEF s

LEMMA DemoIsRunnable ==
    \A d \in Range(BuildDemoScenarios) : Runnable(d.scenario)
<1> USE DEF ValuesIn
<1>1. Runnable(UeCompetition)
  <2> DEFINE blocks == [t \in 0 .. 1 |-> 2]
             cqis == Everywhere(2, 10)
             bytes == [p \in DOMAIN Everywhere(2, 0) |-> IF p[1] = 0 THEN 100 ELSE 50]
  <2>1. ValuesIn(blocks, 0 .. 2) /\ ValuesIn(cqis, Cqi) /\ ValuesIn(bytes, Nat)
    BY DEF Everywhere, Cqi
  <2> HIDE DEF blocks, cqis, bytes, ValuesIn
  <2>2. Runnable(BuildScenario(TwoUes, 2, blocks, cqis, bytes))
    BY <2>1, BuiltIsRunnable
  <2> QED
    BY <2>2 DEF UeCompetition, blocks, cqis, bytes
<1>2. Runnable(CqiDifference)
  <2> DEFINE blocks == [t \in 0 .. 0 |-> 1]
             cqis == [p \in DOMAIN Everywhere(1, 0) |-> IF p[2] = UeId(0) THEN 3 ELSE 12]
             bytes == Everywhere(1, 100)
  <2>1. ValuesIn(blocks, 0 .. 2) /\ ValuesIn(cqis, Cqi) /\ ValuesIn(bytes, Nat)
    BY DEF Everywhere, Cqi
  <2> HIDE DEF blocks, cqis, bytes, ValuesIn
  <2>2. Runnable(BuildScenario(TwoUes, 1, blocks, cqis, bytes))
    BY <2>1, BuiltIsRunnable
  <2> QED
    BY <2>2 DEF CqiDifference, blocks, cqis, bytes
<1>3. Runnable(NoEligibilityOrResources)
  <2> DEFINE blocks == [t \in 0 .. 1 |-> IF t = 0 THEN 1 ELSE 0]
             cqis == Everywhere(2, 10)
             bytes == [p \in DOMAIN Everywhere(2, 0) |-> IF p[1] = 0 THEN 0 ELSE 100]
  <2>1. ValuesIn(blocks, 0 .. 2) /\ ValuesIn(cqis, Cqi) /\ ValuesIn(bytes, Nat)
    BY DEF Everywhere, Cqi
  <2> HIDE DEF blocks, cqis, bytes, ValuesIn
  <2>2. Runnable(BuildScenario(TwoUes, 2, blocks, cqis, bytes))
    BY <2>1, BuiltIsRunnable
  <2> QED
    BY <2>2 DEF NoEligibilityOrResources, blocks, cqis, bytes
<1>4. \A d \in Range(BuildDemoScenarios) :
          d.scenario \in {UeCompetition, CqiDifference, NoEligibilityOrResources}
  BY DEF BuildDemoScenarios, Range
<1> QED
  BY <1>1, <1>2, <1>3, <1>4

----------------------------------------------------------------------------
(***************************************************************************)
(* The runs of the demonstration                                           *)
(*                                                                         *)
(* What is proved of run() with each algorithm is proved of any arguments  *)
(* and records, so it holds of those of the demo scenarios: while run() is *)
(* executed for a pair the invariant of its algorithm holds, and every     *)
(* call starts with it, whatever the calls before left in the locals.      *)
(***************************************************************************)

Rotated == INSTANCE SchedulerProofs WITH
    RunInputs <- AllArguments, TtiInputs <- AllInputs, StepResults <- {},
    InitialState <- NoUe, verdict <- "none", unreplayed <- {}, replayTti <- {},
    position <- 0, occupancy <- 0, violations <- {}, shown <- {}

Weighed == INSTANCE SchedulerProofs WITH
    RunInputs <- AllArguments, TtiInputs <- AllInputs, StepResults <- {},
    InitialState <- [u \in {} |-> 0], verdict <- "none", unreplayed <- {},
    replayTti <- {}, position <- 0, occupancy <- 0, violations <- {}, shown <- {}

\* What the demo gives to run() has the types of its arguments and records.
LEMMA DemoInputs ==
    /\ AllArguments \subseteq [delay : Int, ttis : Seq(Nat), ues : Seq(UeIds)]
    /\ AllInputs \subseteq TtiInput
<1>1. TwoUes \in Seq(UeIds)
  BY TwoUesFacts
<1>2. ASSUME NEW d \in Range(BuildDemoScenarios)
      PROVE  /\ ArgumentsOf(d.scenario) \in [delay : Int, ttis : Seq(Nat), ues : Seq(UeIds)]
             /\ \A t \in Range(d.scenario.ttis) : InputOf(d.scenario, t) \in TtiInput
  <2>1. Runnable(d.scenario)
    BY DemoIsRunnable
  <2> QED
    BY <1>1, <2>1 DEF Runnable, ArgumentsOf
<1>3. \A a \in AllArguments : a \in [delay : Int, ttis : Seq(Nat), ues : Seq(UeIds)]
  BY <1>2 DEF AllArguments
<1>4. ASSUME NEW in \in AllInputs PROVE in \in TtiInput
  <2>1. PICK d \in Range(BuildDemoScenarios) :
                in \in {InputOf(d.scenario, t) : t \in Range(d.scenario.ttis)}
    BY DEF AllInputs
  <2> QED
    BY <1>2, <2>1
<1> QED
  BY <1>3, <1>4

\* The assumptions of the modules about run() hold of the demo.
RotatedAssumptions ==
    /\ AllArguments \subseteq [delay : Int, ttis : Seq(Nat), ues : Seq(UeIds)]
    /\ AllInputs \subseteq Rotated!TtiInput
    /\ \A r \in {} : r.decisions \in Rotated!Decisions
    /\ NoUe \notin UeIds
    /\ MaxScore \in Nat

LEMMA RotatedAssumptionsHold == RotatedAssumptions
<1>1. AllInputs \subseteq Rotated!TtiInput
  BY DemoInputs, Zenon DEF TtiInput, Cqi, Rotated!TtiInput, Rotated!Cqi
<1>2. \A r \in {} : r.decisions \in Rotated!Decisions
  OBVIOUS
<1> QED
  BY <1>1, <1>2, DemoInputs, NoUeAssumption, MaxScoreAssumption, Zenon
  DEF RotatedAssumptions

WeighedAssumptions ==
    /\ AllArguments \subseteq [delay : Int, ttis : Seq(Nat), ues : Seq(UeIds)]
    /\ AllInputs \subseteq Weighed!TtiInput
    /\ \A r \in {} : r.decisions \in Weighed!Decisions
    /\ NoUe \notin UeIds
    /\ MaxScore \in Nat

LEMMA WeighedAssumptionsHold == WeighedAssumptions
<1>1. AllInputs \subseteq Weighed!TtiInput
  BY DemoInputs, Zenon DEF TtiInput, Cqi, Weighed!TtiInput, Weighed!Cqi
<1>2. \A r \in {} : r.decisions \in Weighed!Decisions
  OBVIOUS
<1> QED
  BY <1>1, <1>2, DemoInputs, NoUeAssumption, MaxScoreAssumption, Zenon
  DEF WeighedAssumptions

LEMMA RotatedStep ==
    ASSUME Rotated!AssignedInv,
           [Rotated!RoundRobinNext]_(Rotated!roundRobinVars)
    PROVE  Rotated!AssignedInv'
BY RotatedAssumptionsHold, Rotated!AssignedStep, Zenon DEF RotatedAssumptions

LEMMA RotatedGoesOn ==
    ASSUME Rotated!AssignedInv, Rotated!RoundRobinNext, Rotated!AcceptsArguments,
           Rotated!OpensWell, pc # "raised"
    PROVE  pc' # "raised" /\ input' = input
BY RotatedAssumptionsHold, Rotated!RotationGoesOn, Zenon DEF RotatedAssumptions

LEMMA RotatedOpens ==
    ASSUME Rotated!RoundRobinNext, pc = "between", pc' \in {"allocate", "raised"}
    PROVE  observable'.tti \in pending
BY RotatedAssumptionsHold, Rotated!RotationOpensPending, Zenon DEF RotatedAssumptions

LEMMA GreedyScans ==
    ASSUME Rotated!MaxCqiNext
    PROVE  Rotated!ScanStep
BY RotatedAssumptionsHold, Rotated!MaxCqiStepScans, Zenon DEF RotatedAssumptions

LEMMA WeighedScans ==
    ASSUME Weighed!FairNext
    PROVE  Weighed!ScanStep
BY WeighedAssumptionsHold, Weighed!FairStepScans, Zenon DEF WeighedAssumptions

LEMMA GreedyStep ==
    ASSUME Rotated!ScanInv, Rotated!ScanStep
    PROVE  Rotated!ScanInv'
BY RotatedAssumptionsHold, Rotated!ScanInvStep, Zenon DEF RotatedAssumptions

LEMMA GreedyGoesOn ==
    ASSUME Rotated!ScanInv, Rotated!ScanStep, Rotated!AcceptsArguments,
           Rotated!OpensWell, pc # "raised"
    PROVE  pc' # "raised" /\ input' = input
BY RotatedAssumptionsHold, Rotated!ScanGoesOn, Zenon DEF RotatedAssumptions

LEMMA GreedyOpens ==
    ASSUME Rotated!ScanStep, pc = "between", pc' \in {"allocate", "raised"}
    PROVE  observable'.tti \in pending
BY RotatedAssumptionsHold, Rotated!ScanOpensPending, Zenon DEF RotatedAssumptions

LEMMA WeighedStep ==
    ASSUME Weighed!ScanInv, Weighed!ScanStep
    PROVE  Weighed!ScanInv'
BY WeighedAssumptionsHold, Weighed!ScanInvStep, Zenon DEF WeighedAssumptions

LEMMA WeighedGoesOn ==
    ASSUME Weighed!ScanInv, Weighed!ScanStep, Weighed!AcceptsArguments,
           Weighed!OpensWell, pc # "raised"
    PROVE  pc' # "raised" /\ input' = input
BY WeighedAssumptionsHold, Weighed!ScanGoesOn, Zenon DEF WeighedAssumptions

LEMMA WeighedOpens ==
    ASSUME Weighed!ScanStep, pc = "between", pc' \in {"allocate", "raised"}
    PROVE  observable'.tti \in pending
BY WeighedAssumptionsHold, Weighed!ScanOpensPending, Zenon DEF WeighedAssumptions

\* What is the same module twice takes the same steps.
LEMMA RotationLoop == Rotation!LoopStep => Rotated!LoopStep
BY DEF Rotation!LoopStep, Rotated!LoopStep, Rotation!RefuseArguments,
   Rotated!RefuseArguments, Rotation!AcceptsArguments, Rotated!AcceptsArguments,
   Rotation!Raise, Rotated!Raise, Rotation!Start, Rotated!Start, Rotation!NoBytes,
   Rotated!NoBytes, Rotation!OpenTti, Rotated!OpenTti, Rotation!IsNextTti,
   Rotated!IsNextTti, Rotation!WithArrivals, Rotated!WithArrivals,
   Rotation!ArrivalsByUe, Rotated!ArrivalsByUe, Rotation!Observe, Rotated!Observe,
   Rotation!WellFormed, Rotated!WellFormed, Rotation!RefuseStep,
   Rotated!RefuseStep, Rotation!ValidDecisions, Rotated!ValidDecisions,
   Rotation!ValidDecision, Rotated!ValidDecision, Rotation!NoBlockTwice,
   Rotated!NoBlockTwice, Rotation!CommitTti, Rotated!CommitTti, Rotation!Drained,
   Rotated!Drained, Rotation!ServedBy, Rotated!ServedBy, Rotation!Return,
   Rotated!Return, Rotation!Range, Rotated!Range, Rotation!IsInjective,
   Rotated!IsInjective

LEMMA GreedyLoop == Greedy!LoopStep => Rotated!LoopStep
BY DEF Greedy!LoopStep, Rotated!LoopStep, Greedy!RefuseArguments,
   Rotated!RefuseArguments, Greedy!AcceptsArguments, Rotated!AcceptsArguments,
   Greedy!Raise, Rotated!Raise, Greedy!Start, Rotated!Start, Greedy!NoBytes,
   Rotated!NoBytes, Greedy!OpenTti, Rotated!OpenTti, Greedy!IsNextTti,
   Rotated!IsNextTti, Greedy!WithArrivals, Rotated!WithArrivals,
   Greedy!ArrivalsByUe, Rotated!ArrivalsByUe, Greedy!Observe, Rotated!Observe,
   Greedy!WellFormed, Rotated!WellFormed, Greedy!RefuseStep, Rotated!RefuseStep,
   Greedy!ValidDecisions, Rotated!ValidDecisions, Greedy!ValidDecision,
   Rotated!ValidDecision, Greedy!NoBlockTwice, Rotated!NoBlockTwice,
   Greedy!CommitTti, Rotated!CommitTti, Greedy!Drained, Rotated!Drained,
   Greedy!ServedBy, Rotated!ServedBy, Greedy!Return, Rotated!Return, Greedy!Range,
   Rotated!Range, Greedy!IsInjective, Rotated!IsInjective

LEMMA FairLoop == Fair!LoopStep => Weighed!LoopStep
BY DEF Fair!LoopStep, Weighed!LoopStep, Fair!RefuseArguments,
   Weighed!RefuseArguments, Fair!AcceptsArguments, Weighed!AcceptsArguments,
   Fair!Raise, Weighed!Raise, Fair!Start, Weighed!Start, Fair!NoBytes,
   Weighed!NoBytes, Fair!OpenTti, Weighed!OpenTti, Fair!IsNextTti,
   Weighed!IsNextTti, Fair!WithArrivals, Weighed!WithArrivals, Fair!ArrivalsByUe,
   Weighed!ArrivalsByUe, Fair!Observe, Weighed!Observe, Fair!WellFormed,
   Weighed!WellFormed, Fair!RefuseStep, Weighed!RefuseStep, Fair!ValidDecisions,
   Weighed!ValidDecisions, Fair!ValidDecision, Weighed!ValidDecision,
   Fair!NoBlockTwice, Weighed!NoBlockTwice, Fair!CommitTti, Weighed!CommitTti,
   Fair!Drained, Weighed!Drained, Fair!ServedBy, Weighed!ServedBy, Fair!Return,
   Weighed!Return, Fair!Range, Weighed!Range, Fair!IsInjective,
   Weighed!IsInjective

LEMMA RotationSteps == Rotation!RoundRobinNext => Rotated!RoundRobinNext
BY RotationLoop DEF Rotation!loopVars, Rotated!loopVars, Rotation!rrVars,
                Rotated!rrVars, Rotation!RoundRobinNext, Rotated!RoundRobinNext,
                Rotation!AllocateNothing, Rotated!AllocateNothing,
                Rotation!NothingToServe, Rotated!NothingToServe,
                Rotation!Eligible, Rotated!Eligible, Rotation!Ues, Rotated!Ues,
                Rotation!Backlogged, Rotated!Backlogged, Rotation!AllocateReturns,
                Rotated!AllocateReturns, Rotation!StartAssigning,
                Rotated!StartAssigning, Rotation!SearchStart, Rotated!SearchStart,
                Rotation!After, Rotated!After, Rotation!PositionOf,
                Rotated!PositionOf, Rotation!NoBlocks, Rotated!NoBlocks,
                Rotation!AssignBlock, Rotated!AssignBlock,
                Rotation!IsNextEligible, Rotated!IsNextEligible, Rotation!Ahead,
                Rotated!Ahead, Rotation!Overtaken, Rotated!Overtaken,
                Rotation!NonePassed, Rotated!NonePassed, Rotation!FinishAssigning,
                Rotated!FinishAssigning, Rotation!RoundRobinDecisions,
                Rotated!RoundRobinDecisions, Rotation!Range, Rotated!Range

LEMMA GreedySteps == Greedy!MaxCqiNext => Rotated!MaxCqiNext
BY GreedyLoop DEF Greedy!MaxCqiNext, Rotated!MaxCqiNext, Greedy!StartCqiScan,
              Rotated!StartCqiScan, Greedy!Leads, Rotated!Leads,
              Greedy!CompareCqi, Rotated!CompareCqi, Greedy!FinishCqiScan,
              Rotated!FinishCqiScan, Greedy!loopVars, Rotated!loopVars,
              Greedy!scanVars, Rotated!scanVars, Greedy!StartScan,
              Rotated!StartScan, Greedy!Scanning, Rotated!Scanning,
              Greedy!ScannedUe, Rotated!ScannedUe, Greedy!LookAtUe,
              Rotated!LookAtUe, Greedy!Deciding, Rotated!Deciding,
              Greedy!WinnerTakesAll, Rotated!WinnerTakesAll, Greedy!FinishScan,
              Rotated!FinishScan, Greedy!Contends, Rotated!Contends,
              Greedy!Backlogged, Rotated!Backlogged, Greedy!CqiOf, Rotated!CqiOf,
              Greedy!AllocateReturns, Rotated!AllocateReturns, Greedy!Range,
              Rotated!Range

LEMMA FairSteps == Fair!FairNext => Weighed!FairNext
BY FairLoop DEF Fair!FairNext, Weighed!FairNext, Fair!StartFairScan,
            Weighed!StartFairScan, Fair!CompareScores, Weighed!CompareScores,
            Fair!Average, Weighed!Average, Fair!ScoreIsInfinite,
            Weighed!ScoreIsInfinite, Fair!Outscores, Weighed!Outscores,
            Fair!Ties, Weighed!Ties, Fair!MayLead, Weighed!MayLead, Fair!MayTrail,
            Weighed!MayTrail, Fair!NewAverages, Weighed!NewAverages,
            Fair!Achieved, Weighed!Achieved, Fair!Power, Weighed!Power,
            Fair!FinishFairScan, Weighed!FinishFairScan, Fair!loopVars,
            Weighed!loopVars, Fair!scanVars, Weighed!scanVars, Fair!StartScan,
            Weighed!StartScan, Fair!Scanning, Weighed!Scanning, Fair!ScannedUe,
            Weighed!ScannedUe, Fair!LookAtUe, Weighed!LookAtUe, Fair!Deciding,
            Weighed!Deciding, Fair!WinnerTakesAll, Weighed!WinnerTakesAll,
            Fair!FinishScan, Weighed!FinishScan, Fair!Contends, Weighed!Contends,
            Fair!Backlogged, Weighed!Backlogged, Fair!CqiOf, Weighed!CqiOf,
            Fair!AllocateReturns, Weighed!AllocateReturns, Fair!Range,
            Weighed!Range

----------------------------------------------------------------------------
\* The locals of run() and of the algorithms keep their types from call to call.
RunTypes ==
    /\ Rotated!LoopTypeOK
    /\ lastAssigned \in UeIds \cup {NoUe}
    /\ assignments \in [UeIds -> Seq(BlockIds)]
    /\ served \in Seq(UeIds)
    /\ passed \in [UeIds -> [UeIds -> Nat]]
    /\ scanned \in Nat
    /\ winner \in UeIds \cup {NoUe}

\* While run() is executed for a pair, it holds the arguments of the pair and
\* the invariant of its algorithm.
PairInv(pair) ==
    /\ input = ArgumentsOf(pair.demo.scenario)
    /\ pair.algorithm = "RoundRobin" => Rotated!AssignedInv
    /\ pair.algorithm = "MaxCQI" => Rotated!ScanInv
    /\ pair.algorithm = "ProportionalFair" => Weighed!ScanInv

RunInv ==
    /\ pc # "raised"
    /\ RunTypes
    /\ phase \in {"decide", "benchmark"} => PairInv(Current)

\* The benchmark is not refused on account of what the script itself did.
BenchInv ==
    /\ benchPc # "stop_raising"
    /\ benchPc = "raised" => repetitions < 1 \/ (tracing /\ ~startedHere)

CleanInv == DemoInv /\ RunInv /\ BenchInv

\* The pair of a number is a demo scenario and a reference implementation.
LEMMA PairFacts ==
    ASSUME NEW k \in 1 .. 9
    PROVE  /\ Pair(k).demo \in Range(BuildDemoScenarios)
           /\ Pair(k).algorithm \in {"RoundRobin", "ProportionalFair", "MaxCQI"}
           /\ ArgumentsOf(Pair(k).demo.scenario) \in AllArguments
<1>1. /\ Len(BuildDemoScenarios) = 3 /\ DOMAIN BuildDemoScenarios = {1, 2, 3}
      /\ Len(Algorithms) = 3 /\ DOMAIN Algorithms = {1, 2, 3}
  BY DEF BuildDemoScenarios, Algorithms
<1>2. ((k - 1) \div 3) + 1 \in {1, 2, 3} /\ ((k - 1) % 3) + 1 \in {1, 2, 3}
  OBVIOUS
<1>3. /\ Pair(k).demo = BuildDemoScenarios[((k - 1) \div 3) + 1]
      /\ Pair(k).algorithm = Algorithms[((k - 1) % 3) + 1]
  BY <1>1 DEF Pair
<1>4. Pair(k).demo \in Range(BuildDemoScenarios)
  BY <1>1, <1>2, <1>3 DEF Range
<1>5. \A i \in {1, 2, 3} : Algorithms[i] \in {"RoundRobin", "ProportionalFair", "MaxCQI"}
  BY DEF Algorithms
<1> QED
  BY <1>2, <1>3, <1>4, <1>5 DEF AllArguments

\* A call of run() for a pair finds nothing of the calls before.
LEMMA CallKeeps ==
    ASSUME RunTypes, NEW k \in 1 .. 9, Call(Pair(k))
    PROVE  /\ pc' = "called"
           /\ RunTypes'
           /\ PairInv(Pair(k))'
<1> DEFINE a == ArgumentsOf(Pair(k).demo.scenario)
<1>1. /\ a \in AllArguments /\ a.ttis = Pair(k).demo.scenario.ttis
  BY PairFacts DEF ArgumentsOf
<1>2. /\ input' = a /\ pc' = "called" /\ pending' = Range(a.ttis)
      /\ calls' = <<>> /\ arrivalLog' = [t \in {} |-> <<>>]
      /\ blockIndex' = 0 /\ scanning' = FALSE
      /\ UNCHANGED <<occupancyBytes, observable, arrivals, step, schedulerState,
                     allDecisions, pointer, lastAssigned, assignments, served,
                     passed, scanned, winner>>
  BY <1>1 DEF Call
<1> HIDE DEF a
<1>3. /\ DOMAIN arrivalLog' = {}
      /\ arrivalLog' \in [{} -> [UeIds -> Nat]]
      /\ calls' \in Seq(Nat)
  BY <1>2
<1>4. Rotated!LoopTypeOK'
  BY <1>1, <1>2, <1>3 DEF RunTypes, Rotated!LoopTypeOK, Range, Rotated!Range,
     Rotated!Observable, Rotated!Decisions, Rotated!Decision
<1>5. RunTypes'
  BY <1>2, <1>4 DEF RunTypes
<1>6. Weighed!LoopTypeOK'
  BY <1>4 DEF Rotated!LoopTypeOK, Weighed!LoopTypeOK, Rotated!Range, Weighed!Range,
     Rotated!Observable, Weighed!Observable, Rotated!Decisions, Weighed!Decisions,
     Rotated!Decision, Weighed!Decision, Rotated!Cqi, Weighed!Cqi
<1>7. Rotated!AssignedInv'
  BY <1>2, <1>4, <1>5 DEF RunTypes, Rotated!AssignedInv, Rotated!RoundRobinTypeOK,
     Rotated!NeverRefused, Rotated!WorkConserving
<1>8. Rotated!ScanInv' /\ Weighed!ScanInv'
  BY <1>2, <1>4, <1>5, <1>6 DEF RunTypes, Rotated!ScanInv, Rotated!ScanTypeOK,
     Weighed!ScanInv, Weighed!ScanTypeOK
<1> QED
  BY <1>2, <1>5, <1>7, <1>8 DEF PairInv, a

\* The records the demo holds for a TTI make an ObservableState.
LEMMA DemoIsWellFormed ==
    ASSUME NEW s, Runnable(s), input = ArgumentsOf(s), NEW t \in Range(s.ttis)
    PROVE  /\ Rotated!WellFormed(Rotation!Observe(t, InputOf(s, t)))
           /\ Weighed!WellFormed(Rotation!Observe(t, InputOf(s, t)))
<1> DEFINE in == InputOf(s, t)
           o == Rotation!Observe(t, in)
<1>1. /\ o.ues = TwoUes /\ o.blocks = in.blocks /\ o.qualities = in.qualities
  BY DEF Rotation!Observe, ArgumentsOf, Runnable
<1>2. /\ IsInjective(TwoUes)
      /\ IsInjective(in.blocks)
      /\ \A u \in UeIds : /\ Len(in.qualities[u]) <= 1
                          /\ in.qualities[u] # <<>> => u \in Range(TwoUes)
  BY TwoUesFacts DEF Runnable
<1> HIDE DEF in, o
<1>3. Rotated!WellFormed(o)
  BY <1>1, <1>2 DEF Rotated!WellFormed, Rotated!IsInjective, Rotated!Range, IsInjective,
     Range
<1>4. Weighed!WellFormed(o)
  BY <1>1, <1>2 DEF Weighed!WellFormed, Weighed!IsInjective, Weighed!Range, IsInjective,
     Range
<1> QED
  BY <1>3, <1>4 DEF o, in

LEMMA DemoAccepts ==
    ASSUME NEW s, Runnable(s), input = ArgumentsOf(s)
    PROVE  Rotated!AcceptsArguments /\ Weighed!AcceptsArguments
BY DEF Runnable, ArgumentsOf, Rotated!AcceptsArguments, Weighed!AcceptsArguments,
   Rotated!IsInjective, Weighed!IsInjective, IsInjective

\* Every TTI of the pair is opened well, whichever algorithm is running.
LEMMA DemoOpensWell ==
    ASSUME OpensItsOwnRecords, NEW s, Runnable(s), s = Current.demo.scenario,
           input = ArgumentsOf(s), Rotated!LoopTypeOK,
           pc = "between" /\ pc' \in {"allocate", "raised"} => observable'.tti \in pending
    PROVE  Rotated!OpensWell /\ Weighed!OpensWell
<1> SUFFICES ASSUME pc = "between", pc' \in {"allocate", "raised"}
             PROVE  Rotated!WellFormed(observable') /\ Weighed!WellFormed(observable')
  BY DEF Rotated!OpensWell, Weighed!OpensWell, Rotated!WellFormed, Weighed!WellFormed
<1> DEFINE t == observable'.tti
<1>1. t \in Range(s.ttis)
  BY DEF Rotated!LoopTypeOK, Rotated!Range, Range, ArgumentsOf
<1>2. observable' = Rotation!Observe(t, InputOf(s, t))
  BY DEF OpensItsOwnRecords
<1> QED
  BY <1>1, <1>2, DemoIsWellFormed

\* While run() is executed for a pair no step of it raises.
LEMMA RunStepKeeps ==
    ASSUME DemoInv, RunInv, RunStep
    PROVE  RunInv'
<1> DEFINE pair == Current
           s == Current.demo.scenario
<1>1. /\ UNCHANGED <<phase, results>> /\ pc \notin {"returned", "raised"}
      /\ phase \in {"decide", "benchmark"}
      /\ OpensItsOwnRecords
      /\ RunTypes /\ PairInv(Current) /\ Current' = Current
      /\ Rotated!LoopTypeOK
  BY DEF RunStep, RunEnded, Executing, RunInv, RunTypes, demoVars, Current
<1>2. Len(results) + 1 \in 1 .. 9
  BY <1>1, PairScenario DEF DemoInv, PhaseInv, ResultsInv
<1>3. /\ Runnable(s)
      /\ Current.algorithm \in {"RoundRobin", "ProportionalFair", "MaxCQI"}
      /\ input = ArgumentsOf(s)
  BY <1>1, <1>2, PairFacts, DemoIsRunnable DEF Current, PairInv
<1>4. Rotated!AcceptsArguments /\ Weighed!AcceptsArguments
  BY <1>3, DemoAccepts
<1>5. CASE Current.algorithm = "RoundRobin"
  <2>1. Rotation!RoundRobinNext /\ UNCHANGED scanVars
    BY <1>5 DEF RunStep
  <2>2. Rotated!RoundRobinNext /\ Rotated!AssignedInv
    BY <1>1, <1>5, <2>1, RotationSteps DEF PairInv
  <2>3. Rotated!AssignedInv'
    BY <2>2, RotatedStep
  <2>4. pc = "between" /\ pc' \in {"allocate", "raised"} => observable'.tti \in pending
    BY <2>2, RotatedOpens
  <2>5. Rotated!OpensWell
    BY <1>1, <1>3, <2>4, DemoOpensWell
  <2>6. pc' # "raised" /\ input' = input
    BY <1>1, <1>4, <2>2, <2>5, RotatedGoesOn
  <2>7. RunTypes'
    BY <1>1, <2>1, <2>3 DEF RunTypes, scanVars, Rotated!AssignedInv, Rotated!RoundRobinTypeOK
  <2> QED
    BY <1>1, <1>3, <1>5, <2>3, <2>6, <2>7 DEF RunInv, PairInv
<1>6. CASE Current.algorithm = "MaxCQI"
  <2>1. Greedy!MaxCqiNext /\ UNCHANGED rrVars
    BY <1>6 DEF RunStep
  <2>2. Rotated!ScanStep /\ Rotated!ScanInv
    BY <1>1, <1>6, <2>1, GreedySteps, GreedyScans DEF PairInv
  <2>3. Rotated!ScanInv'
    BY <2>2, GreedyStep
  <2>4. pc = "between" /\ pc' \in {"allocate", "raised"} => observable'.tti \in pending
    BY <2>2, GreedyOpens
  <2>5. Rotated!OpensWell
    BY <1>1, <1>3, <2>4, DemoOpensWell
  <2>6. pc' # "raised" /\ input' = input
    BY <1>1, <1>4, <2>2, <2>5, GreedyGoesOn
  <2>7. RunTypes'
    BY <1>1, <2>1, <2>3 DEF RunTypes, rrVars, Rotated!ScanInv, Rotated!ScanTypeOK
  <2> QED
    BY <1>1, <1>3, <1>6, <2>3, <2>6, <2>7 DEF RunInv, PairInv
<1>7. CASE Current.algorithm = "ProportionalFair"
  <2>1. Fair!FairNext /\ UNCHANGED rrVars
    BY <1>7 DEF RunStep
  <2>2. Weighed!ScanStep /\ Weighed!ScanInv
    BY <1>1, <1>7, <2>1, FairSteps, WeighedScans DEF PairInv
  <2>3. Weighed!ScanInv'
    BY <2>2, WeighedStep
  <2>4. pc = "between" /\ pc' \in {"allocate", "raised"} => observable'.tti \in pending
    BY <2>2, WeighedOpens
  <2>5. Weighed!OpensWell
    BY <1>1, <1>3, <2>4, DemoOpensWell
  <2>6. pc' # "raised" /\ input' = input
    BY <1>1, <1>4, <2>2, <2>5, WeighedGoesOn
  <2>7. Weighed!LoopTypeOK' /\ scanned' \in Nat /\ winner' \in UeIds \cup {NoUe}
    BY <2>3 DEF Weighed!ScanInv, Weighed!ScanTypeOK
  <2>8. Rotated!LoopTypeOK'
    BY <2>7 DEF Rotated!LoopTypeOK, Weighed!LoopTypeOK, Rotated!Range, Weighed!Range,
       Rotated!Observable, Weighed!Observable, Rotated!Decisions, Weighed!Decisions,
       Rotated!Decision, Weighed!Decision, Rotated!Cqi, Weighed!Cqi
  <2>9. RunTypes'
    BY <1>1, <2>1, <2>7, <2>8 DEF RunTypes, rrVars
  <2> QED
    BY <1>1, <1>3, <1>7, <2>3, <2>6, <2>9 DEF RunInv, PairInv
<1> QED
  BY <1>3, <1>5, <1>6, <1>7

\* A step of benchmark_run, whose own run() has not raised, ends in an exception
\* only for the reasons that are not the script's.
LEMMA BenchmarkStepIsClean ==
    ASSUME DemoInv, RunInv, BenchInv, BenchmarkStep
    PROVE  BenchInv'
<1>1. Measured!IInv /\ pc # "raised" /\ phase = "benchmark"
  BY DEF DemoInv, RunInv, BenchmarkStep
<1>2. CASE Executing
  <2>1. benchPc' \notin {"raised", "stop_raising"}
    BY <1>1, <1>2 DEF BenchmarkStep
  <2> QED
    BY <2>1 DEF BenchInv
<1>3. CASE ~Executing
  <2>1. Bench!Step
    BY <1>3 DEF BenchmarkStep
  <2>2. /\ Len(samples) \in Nat /\ repetitions \in Int
        /\ benchPc \in {"time", "trace"} => Len(samples) < repetitions
        /\ tracing /\ startedHere => benchPc \in {"trace", "stop", "stop_raising"}
    BY <1>1 DEF Measured!IInv, Measured!Types, Measured!CountInv, Measured!Measuring,
       Measured!OwnTracingIsStopped
  <2>3. ~Bench!WarmUp /\ ~Bench!TimedPass /\ ~Bench!TracedPass
    BY <1>1, <1>3, <2>2 DEF Executing, Bench!WarmUp, Bench!TimedPass, Bench!TracedPass
  <2>4. CASE Bench!RefuseRepetitions \/ Bench!RefuseEntry \/ Bench!RefuseBetween
    BY <2>2, <2>4 DEF BenchInv, Bench!RefuseRepetitions, Bench!RefuseEntry,
       Bench!RefuseBetween
  <2>5. CASE Bench!Enter \/ Bench!LookAgain \/ Bench!StartTracing \/ Bench!StopTracing
             \/ Bench!Aggregate
    BY <2>5 DEF BenchInv, Bench!Enter, Bench!LookAgain, Bench!StartTracing,
       Bench!StopTracing, Bench!Aggregate
  <2> QED
    BY <2>1, <2>3, <2>4, <2>5 DEF Bench!Step
<1> QED
  BY <1>2, <1>3

LEMMA CleanInvInit == Init => CleanInv
<1> SUFFICES ASSUME Init PROVE CleanInv
  OBVIOUS
<1>1. DemoInv
  BY DemoInvInit
<1>2. /\ input = ArgumentsOf(Pair(1).demo.scenario)
      /\ Rotation!RoundRobinInit
      /\ scanning = FALSE /\ scanned = 0 /\ winner = NoUe
      /\ Bench!Init /\ Current = Pair(1)
  BY DEF Init, Current
<1>3. 1 \in 1 .. 9 /\ input \in AllArguments
  BY <1>2, PairFacts
<1>4. /\ pc = "called" /\ pending = Rotation!Range(input.ttis)
      /\ occupancyBytes = Rotation!NoBytes /\ observable = Rotation!NoObservable
      /\ arrivals = Rotation!NoBytes /\ step = Rotation!NoStep
      /\ schedulerState = NoUe
      /\ allDecisions = <<>> /\ calls = <<>>
      /\ arrivalLog = [t \in {} |-> Rotation!NoBytes]
      /\ blockIndex = 0 /\ lastAssigned = NoUe
      /\ assignments = Rotation!NoBlocks /\ served = <<>>
      /\ passed = Rotation!NonePassed
  BY <1>2 DEF Rotation!RoundRobinInit, Rotation!LoopInit
<1>5. Rotated!LoopTypeOK
  <2>1. Rotation!NoBytes \in [UeIds -> Nat]
    BY DEF Rotation!NoBytes
  <2>2. Rotation!NoObservable \in Rotated!Observable
    BY DEF Rotation!NoObservable, Rotated!Observable
  <2>3. Rotation!NoStep.decisions = <<>> /\ <<>> \in Rotated!Decisions
    BY DEF Rotation!NoStep, Rotated!Decisions
  <2>4. /\ DOMAIN arrivalLog \subseteq Rotated!Range(input.ttis)
        /\ arrivalLog \in [DOMAIN arrivalLog -> [UeIds -> Nat]]
    BY <1>4
  <2>5. pending = Rotated!Range(input.ttis)
    BY <1>4 DEF Rotation!Range, Rotated!Range
  <2> QED
    BY <1>3, <1>4, <2>1, <2>2, <2>3, <2>4, <2>5 DEF Rotated!LoopTypeOK
<1>6. Weighed!LoopTypeOK
  BY <1>5 DEF Rotated!LoopTypeOK, Weighed!LoopTypeOK, Rotated!Range, Weighed!Range,
     Rotated!Observable, Weighed!Observable, Rotated!Decisions, Weighed!Decisions,
     Rotated!Decision, Weighed!Decision, Rotated!Cqi, Weighed!Cqi
<1>7. RunTypes
  <2>1. /\ Rotation!NoBlocks \in [UeIds -> Seq(BlockIds)]
        /\ Rotation!NonePassed \in [UeIds -> [UeIds -> Nat]]
    BY DEF Rotation!NoBlocks, Rotation!NonePassed
  <2> QED
    BY <1>2, <1>4, <1>5, <2>1 DEF RunTypes
<1>8. Rotated!AssignedInv
  BY <1>4, <1>7 DEF RunTypes, Rotated!AssignedInv, Rotated!RoundRobinTypeOK,
     Rotated!NeverRefused, Rotated!WorkConserving
<1>9. Rotated!ScanInv /\ Weighed!ScanInv
  BY <1>2, <1>4, <1>6, <1>7 DEF RunTypes, Rotated!ScanInv, Rotated!ScanTypeOK,
     Weighed!ScanInv, Weighed!ScanTypeOK
<1>10. RunInv
  BY <1>2, <1>4, <1>7, <1>8, <1>9 DEF RunInv, PairInv
<1>11. BenchInv
  BY <1>2 DEF BenchInv, Bench!Init
<1> QED
  BY <1>1, <1>10, <1>11 DEF CleanInv

\* What the invariant says of run() does not change with the script.
LEMMA RunInvQuiet ==
    ASSUME RunInv, UNCHANGED runVars,
           phase' \in {"decide", "benchmark"} => phase' = phase /\ results' = results
    PROVE  RunInv'
<1>1. /\ pc' = pc /\ RunTypes'
  BY DEF RunInv, runVars, loopVars, rrVars, scanVars, RunTypes, Rotated!LoopTypeOK
<1>2. ASSUME phase' \in {"decide", "benchmark"}
      PROVE  PairInv(Current)'
  <2>1. Current' = Current /\ PairInv(Current)
    BY <1>2 DEF RunInv, Current
  <2>2. UNCHANGED Rotated!roundRobinVars
    BY DEF runVars, loopVars, rrVars, Rotated!roundRobinVars, Rotated!rrVars,
       Rotated!loopVars
  <2>3. Rotated!AssignedInv => Rotated!AssignedInv'
    BY <2>2, RotatedStep
  <2>4. Rotated!ScanStep /\ Weighed!ScanStep
    BY DEF runVars, loopVars, scanVars, Rotated!ScanStep, Weighed!ScanStep,
       Rotated!loopVars, Weighed!loopVars, Rotated!scanVars, Weighed!scanVars
  <2>5. /\ Rotated!ScanInv => Rotated!ScanInv'
        /\ Weighed!ScanInv => Weighed!ScanInv'
    BY <2>4, GreedyStep, WeighedStep
  <2>6. input' = input
    BY DEF runVars, loopVars
  <2> QED
    BY <2>1, <2>3, <2>5, <2>6 DEF PairInv
<1> QED
  BY <1>1, <1>2 DEF RunInv

\* A new call, for the pair the script is at.
LEMMA RunInvCalled ==
    ASSUME RunInv, NEW k \in 1 .. 9, Call(Pair(k)), Current' = Pair(k)
    PROVE  RunInv'
<1>1. pc' = "called" /\ RunTypes' /\ PairInv(Pair(k))'
  BY CallKeeps DEF RunInv
<1>2. PairInv(Current)'
  <2>1. /\ input' = ArgumentsOf(Pair(k).demo.scenario)
        /\ Pair(k).algorithm = "RoundRobin" => Rotated!AssignedInv'
        /\ Pair(k).algorithm = "MaxCQI" => Rotated!ScanInv'
        /\ Pair(k).algorithm = "ProportionalFair" => Weighed!ScanInv'
    BY <1>1 DEF PairInv
  <2> QED
    BY <2>1 DEF PairInv
<1> QED
  BY <1>1, <1>2 DEF RunInv

LEMMA CleanInvStep == CleanInv /\ [Next]_vars => CleanInv'
<1> SUFFICES ASSUME CleanInv, [Next]_vars PROVE CleanInv'
  OBVIOUS
<1>0. DemoInv /\ RunInv /\ BenchInv /\ DemoInv'
  BY DemoInvStep DEF CleanInv
<1>1. CASE RunStep
  <2>1. RunInv'
    BY <1>0, <1>1, RunStepKeeps
  <2>2. BenchInv'
    BY <1>0, <1>1 DEF RunStep, benchVars, BenchInv
  <2> QED
    BY <1>0, <2>1, <2>2 DEF CleanInv
<1>2. CASE \/ Fail \/ Stop \/ OpenResults \/ WriteResults \/ OpenReport \/ WriteReport
           \/ UNCHANGED vars
  <2>1. /\ UNCHANGED <<runVars, benchVars>>
        /\ phase' \in {"decide", "benchmark"} => phase' = phase /\ results' = results
    BY <1>2 DEF Fail, Stop, OpenResults, WriteResults, OpenReport, WriteReport, vars,
       demoVars
  <2>2. BenchInv'
    BY <1>0, <2>1 DEF benchVars, BenchInv
  <2> QED
    BY <1>0, <2>1, <2>2, RunInvQuiet DEF CleanInv
<1>3. CASE Interfere
  <2>1. UNCHANGED <<phase, results, runVars>> /\ Bench!Interfere
    BY <1>3 DEF Interfere, demoVars
  <2>2. BenchInv'
    BY <1>0, <2>1 DEF Bench!Interfere, Bench!Ended, BenchInv
  <2> QED
    BY <1>0, <2>1, <2>2, RunInvQuiet DEF CleanInv
\* Which pair the script is at.
<1>4. phase \in {"decide", "benchmark"} =>
        Len(results) + 1 \in 1 .. 9 /\ Current = Pair(Len(results) + 1)
  BY <1>0, PairScenario DEF DemoInv, PhaseInv, ResultsInv, Current
<1>5. CASE Decide
  <2>1. Call(Current) /\ phase = "decide" /\ UNCHANGED <<results, benchVars>>
    BY <1>5 DEF Decide
  <2>2. Current' = Current
    BY <2>1 DEF Current
  <2>3. BenchInv'
    BY <1>0, <2>1 DEF benchVars, BenchInv
  <2> QED
    BY <1>0, <1>4, <2>1, <2>2, <2>3, RunInvCalled DEF CleanInv
<1>6. CASE BenchmarkStep
  <2>1. /\ phase = "benchmark" /\ UNCHANGED <<phase, results>>
        /\ Call(Current) \/ UNCHANGED runVars
    BY <1>6 DEF BenchmarkStep, demoVars
  <2>2. Current' = Current
    BY <2>1 DEF Current
  <2>3. RunInv'
    BY <1>0, <1>4, <2>1, <2>2, RunInvCalled, RunInvQuiet
  <2> QED
    BY <1>0, <1>6, <2>3, BenchmarkStepIsClean DEF CleanInv
<1>7. CASE AppendResult
  <2>1. CASE Len(results') = PairCount
    <3>1. UNCHANGED <<runVars, benchVars>> /\ phase' = "write"
      BY <1>7, <2>1 DEF AppendResult
    <3> QED
      BY <1>0, <3>1, RunInvQuiet DEF CleanInv, benchVars, BenchInv
  <2>2. CASE Len(results') # PairCount
    <3>1. /\ phase' = "decide" /\ Call(Pair(Len(results') + 1)) /\ FreshBenchmark
      BY <1>7, <2>2 DEF AppendResult
    <3>2. Len(results') + 1 \in 1 .. 9
      BY <1>0, <3>1, PairScenario DEF DemoInv, PhaseInv, ResultsInv
    <3>3. Current' = Pair(Len(results') + 1)
      BY DEF Current, Pair
    <3>4. RunInv'
      BY <1>0, <3>1, <3>2, <3>3, RunInvCalled
    <3> QED
      BY <1>0, <3>1, <3>4 DEF CleanInv, FreshBenchmark, BenchInv
  <2> QED
    BY <2>1, <2>2
<1>8. CASE Launch
  <2>1. results' = <<>> /\ Call(Pair(1)) /\ FreshBenchmark
    BY <1>8 DEF Launch
  <2>2. Current' = Pair(1) /\ 1 \in 1 .. 9
    BY <2>1 DEF Current, Pair
  <2>3. RunInv'
    BY <1>0, <2>1, <2>2, RunInvCalled
  <2> QED
    BY <1>0, <2>1, <2>3 DEF CleanInv, FreshBenchmark, BenchInv
<1> QED
  BY <1>1, <1>2, <1>3, <1>5, <1>6, <1>7, <1>8 DEF Next, Advance

\* No run over a demo scenario ever raises, for any of the three algorithms and
\* wherever in the sequence of runs it comes, and no benchmark is refused for
\* the tracing of the one before it.
THEOREM DemoIsUndisturbed == Spec => []UndisturbedIsNotRefused
<1>1. CleanInv => UndisturbedIsNotRefused
  BY DEF CleanInv, RunInv, BenchInv, UndisturbedIsNotRefused
<1> QED
  BY CleanInvInit, CleanInvStep, <1>1, PTL DEF Spec

----------------------------------------------------------------------------
(***************************************************************************)
(* A run decides the same every time                                       *)
(*                                                                         *)
(* How far a run is, without what it has left behind or not yet set: a     *)
(* name of the place, what run() carries from TTI to TTI, the TTI's        *)
(* ObservableState, and the algorithm's locals or its result.  Each such   *)
(* place has one place that follows, so the runs of a pair go through the  *)
(* same places, and there is one at which they return.                     *)
(***************************************************************************)

Carried == [due |-> pending, bytes |-> occupancyBytes, state |-> schedulerState,
            made |-> allDecisions, n |-> Len(calls)]

Inside(alg) == IF alg = "RoundRobin" THEN blockIndex > 0 ELSE scanning

Locals(alg) ==
    CASE alg = "RoundRobin" ->
           [next |-> blockIndex, pointer |-> pointer, last |-> lastAssigned,
            given |-> assignments, served |-> served]
      [] alg = "ProportionalFair" -> [seen |-> scanned, best |-> winner]
      [] alg = "MaxCQI" -> [seen |-> scanned, best |-> winner, cqi |-> bestCqi]

Place(alg) ==
    CASE pc = "called"   -> <<"called">>
      [] pc = "between"  -> <<"between", Carried>>
      [] pc = "allocate" -> IF Inside(alg)
                            THEN <<"inside", Carried, observable, Locals(alg)>>
                            ELSE <<"allocate", Carried, observable>>
      [] pc = "commit"   -> <<"commit", Carried, observable, step>>
      [] pc = "returned" -> <<"returned", allDecisions>>
      [] pc = "raised"   -> <<"raised">>

----------------------------------------------------------------------------
\* run() itself, over what it carries and the ObservableState of the TTI.
Outset(alg, s) ==
    [due   |-> Range(s.ttis), bytes |-> [u \in UeIds |-> 0],
     state |-> IF alg = "ProportionalFair" THEN [u \in {} |-> 0] ELSE NoUe,
     made  |-> <<>>, n |-> 0]

FirstOf(S) == CHOOSE t \in S : \A x \in S : t <= x

Swollen(s, bytes, t) ==
    [u \in UeIds |-> IF u \in Range(s.ues)
                     THEN bytes[u] + Rotation!ArrivalsByUe(InputOf(s, t))[u]
                     ELSE bytes[u]]

Shown(s, bytes, t) ==
    [tti |-> t, ues |-> s.ues, blocks |-> InputOf(s, t).blocks,
     qualities |-> InputOf(s, t).qualities, buffers |-> Swollen(s, bytes, t)]

Opening(s, c) ==
    LET t == FirstOf(c.due)
    IN <<"allocate", [c EXCEPT !.bytes = Swollen(s, c.bytes, t)], Shown(s, c.bytes, t)>>

Settled(c, o, r) ==
    [due   |-> c.due \ {o.tti},
     bytes |-> [u \in UeIds |-> IF u \in ServedBy(r.decisions) THEN 0 ELSE c.bytes[u]],
     state |-> r.state, made |-> c.made \o r.decisions, n |-> c.n]

Allocated(c, o, ds, new) ==
    <<"commit", [c EXCEPT !.n = @ + 1], o, [decisions |-> ds, state |-> new]>>

----------------------------------------------------------------------------
\* RoundRobin.allocate(), from its arguments and from its locals.
Waiting(o) == {i \in DOMAIN o.ues : o.ues[i] \in Backlogged(o)}

Walk(o, i, j) == IF j >= i THEN j - i ELSE j - i + Len(o.ues)

NextOf(o, i) ==
    CHOOSE j \in Waiting(o) : \A k \in Waiting(o) : Walk(o, i, j) <= Walk(o, i, k)

Beyond(o, i) == IF i = Len(o.ues) THEN 1 ELSE i + 1

RotationBegins(o, last) ==
    [next |-> 1,
     pointer |-> IF last \in Range(o.ues)
                 THEN Beyond(o, CHOOSE i \in DOMAIN o.ues : o.ues[i] = last) ELSE 1,
     last |-> last, given |-> [u \in UeIds |-> <<>>], served |-> <<>>]

RotationGoesOn(o, x) ==
    LET i == NextOf(o, x.pointer)
        u == o.ues[i]
    IN [next |-> x.next + 1, pointer |-> Beyond(o, i), last |-> u,
        given |-> [x.given EXCEPT ![u] = Append(@, o.blocks[x.next])],
        served |-> IF u \in Range(x.served) THEN x.served ELSE Append(x.served, u)]

RotationFollows(p) ==
    LET c == p[2]
        o == p[3]
        x == p[4]
    IN IF p[1] = "allocate"
       THEN IF o.blocks = <<>> \/ Waiting(o) = {}
            THEN Allocated(c, o, <<>>, c.state)
            ELSE <<"inside", c, o, RotationBegins(o, c.state)>>
       ELSE IF x.next <= Len(o.blocks)
            THEN <<"inside", c, o, RotationGoesOn(o, x)>>
            ELSE Allocated(c, o,
                     [k \in DOMAIN x.served |->
                         [tti |-> o.tti, ue |-> x.served[k],
                          blocks |-> x.given[x.served[k]]]],
                     x.last)

----------------------------------------------------------------------------
\* MaxCQI.allocate() and ProportionalFair.allocate(), when no two scores tie.
Competes(o, u) == u \in Backlogged(o) /\ CqiOf(o, u) > 0

ScanGoesOn(o, x) == o.blocks # <<>> /\ x.seen < Len(o.ues)

AllTo(o, u) == IF u = NoUe THEN <<>> ELSE <<[tti |-> o.tti, ue |-> u, blocks |-> o.blocks]>>

GreedyFollows(p) ==
    LET c == p[2]
        o == p[3]
        x == p[4]
        u == o.ues[x.seen + 1]
    IN IF p[1] = "allocate" THEN <<"inside", c, o, [seen |-> 0, best |-> NoUe, cqi |-> 0]>>
       ELSE IF ~ScanGoesOn(o, x) THEN Allocated(c, o, AllTo(o, x.best), c.state)
       ELSE <<"inside", c, o,
              IF Competes(o, u) /\ CqiOf(o, u) > x.cqi
              THEN [seen |-> x.seen + 1, best |-> u, cqi |-> CqiOf(o, u)]
              ELSE [seen |-> x.seen + 1, best |-> x.best, cqi |-> x.cqi]>>

AverageOf(state, u) == IF u \in DOMAIN state THEN state[u] ELSE 0

Endless(o, c, u) ==
    \/ AverageOf(c.state, u) = 0
    \/ CqiOf(o, u) * Fair!Power(10, c.n) > MaxScore * AverageOf(c.state, u)

Beats(o, c, u, v) ==
    /\ ~Endless(o, c, v)
    /\ \/ Endless(o, c, u)
       \/ CqiOf(o, u) * AverageOf(c.state, v) > CqiOf(o, v) * AverageOf(c.state, u)

NewState(c, o, w) ==
    [u \in Range(o.ues) |->
        9 * AverageOf(c.state, u)
          + (IF u = w THEN CqiOf(o, u) ELSE 0) * Fair!Power(10, c.n)]

FairFollows(p) ==
    LET c == p[2]
        o == p[3]
        x == p[4]
        u == o.ues[x.seen + 1]
    IN IF p[1] = "allocate" THEN <<"inside", c, o, [seen |-> 0, best |-> NoUe]>>
       ELSE IF ~ScanGoesOn(o, x)
            THEN Allocated(c, o, AllTo(o, x.best), NewState(c, o, x.best))
       ELSE <<"inside", c, o,
              [seen |-> x.seen + 1,
               best |-> IF Competes(o, u) /\ (x.best = NoUe \/ Beats(o, c, u, x.best))
                        THEN u ELSE x.best]>>

AllocateFollows(alg, p) ==
    CASE alg = "RoundRobin" -> RotationFollows(p)
      [] alg = "ProportionalFair" -> FairFollows(p)
      [] alg = "MaxCQI" -> GreedyFollows(p)

\* The place that follows a place in a run of an algorithm over a scenario.
Follows(alg, s, p) ==
    CASE p[1] = "called" -> <<"between", Outset(alg, s)>>
      [] p[1] = "between" -> IF p[2].due = {} THEN <<"returned", p[2].made>>
                             ELSE Opening(s, p[2])
      [] p[1] \in {"allocate", "inside"} ->
             AllocateFollows(alg, p)
      [] p[1] = "commit" -> <<"between", Settled(p[2], p[3], p[4])>>
      [] p[1] \in {"returned", "raised"} -> p

\* At most one UE has a score that is finite.
OneAverage(state) ==
    \A u, v \in UeIds : AverageOf(state, u) # 0 /\ AverageOf(state, v) # 0 => u = v

\* The calls are those of the first TTIs, so at a call of allocate() at most one
\* UE was ever served.
Pace(s) ==
    /\ pc = "called" => pending = Range(s.ttis) /\ calls = <<>>
    /\ pc \in {"allocate", "commit"} =>
          /\ observable.ues = s.ues
          /\ observable.tti \in pending
          /\ \A t \in pending : observable.tti <= t

TieFree ==
    LET left  == IF pc = "commit" THEN pending \ {observable.tti} ELSE pending
        state == IF pc = "commit" THEN step.state ELSE schedulerState
    IN pc \in {"between", "allocate", "commit"} =>
          /\ left \subseteq 0 .. 1
          /\ Len(calls) = 0 => state = [u \in {} |-> 0]
          /\ Len(calls) = 1 => left \subseteq {1} /\ OneAverage(state)
          /\ Len(calls) > 1 => left = {}
          /\ scanning /\ winner # NoUe =>
                \E i \in 1 .. scanned : winner = observable.ues[i]

----------------------------------------------------------------------------
\* The places a run goes through, from its call on.
IsCourse(alg, s, g, k) ==
    /\ g[0] = <<"called">>
    /\ \A i \in 1 .. k : g[i] = Follows(alg, s, g[i - 1])

OnCourse(alg, s, p) == \E k \in Nat : \E g : IsCourse(alg, s, g, k) /\ g[k] = p

LEMMA CourseStarts == \A alg, s : OnCourse(alg, s, <<"called">>)
<1> SUFFICES ASSUME NEW alg, NEW s PROVE OnCourse(alg, s, <<"called">>)
  OBVIOUS
<1> DEFINE g == [i \in 0 .. 0 |-> <<"called">>]
<1>1. g[0] = <<"called">> /\ 0 \in Nat /\ 1 .. 0 = {}
  OBVIOUS
<1> HIDE DEF g
<1>2. IsCourse(alg, s, g, 0)
  BY <1>1 DEF IsCourse
<1> QED
  BY <1>1, <1>2 DEF OnCourse

LEMMA CourseGoesOn ==
    ASSUME NEW alg, NEW s, NEW p, OnCourse(alg, s, p)
    PROVE  OnCourse(alg, s, Follows(alg, s, p))
<1>1. PICK k \in Nat : \E g : IsCourse(alg, s, g, k) /\ g[k] = p
  BY DEF OnCourse
<1>2. PICK g : IsCourse(alg, s, g, k) /\ g[k] = p
  BY <1>1
<1> DEFINE q == Follows(alg, s, p)
           h == [i \in 0 .. k + 1 |-> IF i = k + 1 THEN q ELSE g[i]]
<1> HIDE DEF q
<1>3. h[k + 1] = q /\ \A i \in 0 .. k : h[i] = g[i]
  OBVIOUS
<1> HIDE DEF h
<1>4. ASSUME NEW i \in 1 .. k + 1 PROVE h[i] = Follows(alg, s, h[i - 1])
  <2>1. CASE i = k + 1
    <3>1. i - 1 = k /\ h[k] = p /\ h[i] = q
      BY <1>2, <1>3, <2>1
    <3> QED
      BY <3>1 DEF q
  <2>2. CASE i # k + 1
    <3>1. i \in 1 .. k /\ h[i] = g[i] /\ h[i - 1] = g[i - 1]
      BY <1>3, <2>2
    <3> QED
      BY <1>2, <3>1 DEF IsCourse
  <2> QED
    BY <2>1, <2>2
<1>5. IsCourse(alg, s, h, k + 1)
  BY <1>2, <1>3, <1>4 DEF IsCourse
<1> QED
  BY <1>3, <1>5 DEF OnCourse, q

\* A course stays where it returns.
LEMMA CoursesAgree ==
    ASSUME NEW alg, NEW s, NEW g, NEW h, NEW j \in Nat, NEW k \in Nat, j <= k,
           IsCourse(alg, s, g, j), IsCourse(alg, s, h, k), g[j][1] = "returned"
    PROVE  h[k] = g[j]
<1> DEFINE A == {i \in 0 .. j : h[i] = g[i]}
<1>1. 0 \in A
  BY DEF IsCourse
<1>2. ASSUME NEW i \in 0 .. j - 1, i \in A PROVE i + 1 \in A
  <2>1. i + 1 \in 1 .. j /\ i + 1 \in 1 .. k /\ (i + 1) - 1 = i
    OBVIOUS
  <2>2. g[i + 1] = Follows(alg, s, g[i]) /\ h[i + 1] = Follows(alg, s, h[i])
    BY <2>1 DEF IsCourse
  <2> QED
    BY <1>2, <2>1, <2>2
<1>3. 0 .. j \subseteq A
  <2> HIDE DEF A
  <2> QED
    BY <1>1, <1>2, Induction
<1>4. h[j] = g[j]
  BY <1>3
<1> DEFINE B == {i \in 0 .. k - j : h[j + i] = g[j]}
<1>5. 0 \in B
  BY <1>4
<1>6. ASSUME NEW i \in 0 .. (k - j) - 1, i \in B PROVE i + 1 \in B
  <2>1. (j + i) + 1 \in 1 .. k /\ ((j + i) + 1) - 1 = j + i
    OBVIOUS
  <2>2. h[(j + i) + 1] = Follows(alg, s, g[j])
    BY <1>6, <2>1 DEF IsCourse
  <2>3. Follows(alg, s, g[j]) = g[j]
    BY DEF Follows
  <2> QED
    BY <2>1, <2>2, <2>3
<1>7. 0 .. k - j \subseteq B
  <2>1. k - j \in Nat
    OBVIOUS
  <2> HIDE DEF B
  <2> QED
    BY <1>5, <1>6, <2>1, Induction
<1> QED
  BY <1>7

LEMMA OneReturn ==
    ASSUME NEW alg, NEW s, NEW p, NEW q, OnCourse(alg, s, p), OnCourse(alg, s, q),
           p[1] = "returned", q[1] = "returned"
    PROVE  p = q
<1>1. PICK j \in Nat : \E g : IsCourse(alg, s, g, j) /\ g[j] = p
  BY DEF OnCourse
<1>2. PICK g : IsCourse(alg, s, g, j) /\ g[j] = p
  BY <1>1
<1>3. PICK k \in Nat : \E h : IsCourse(alg, s, h, k) /\ h[k] = q
  BY DEF OnCourse
<1>4. PICK h : IsCourse(alg, s, h, k) /\ h[k] = q
  BY <1>3
<1>5. j <= k \/ k <= j
  OBVIOUS
<1> QED
  BY <1>2, <1>4, <1>5, CoursesAgree

\* What Follows says of each kind of place.
LEMMA AfterCalled ==
    \A alg, s : Follows(alg, s, <<"called">>) = <<"between", Outset(alg, s)>>
BY DEF Follows

LEMMA AfterBetween ==
    \A alg, s, c : Follows(alg, s, <<"between", c>>) =
                      IF c.due = {} THEN <<"returned", c.made>> ELSE Opening(s, c)
BY DEF Follows

LEMMA AfterAllocate ==
    \A alg, s, c, o : Follows(alg, s, <<"allocate", c, o>>) =
                         AllocateFollows(alg, <<"allocate", c, o>>)
BY DEF Follows

LEMMA AfterInside ==
    \A alg, s, c, o, x : Follows(alg, s, <<"inside", c, o, x>>) =
                            AllocateFollows(alg, <<"inside", c, o, x>>)
BY DEF Follows

LEMMA AfterCommit ==
    \A alg, s, c, o, x : Follows(alg, s, <<"commit", c, o, x>>) =
                            <<"between", Settled(c, o, x)>>
BY DEF Follows

LEMMA FirstIs ==
    ASSUME NEW S \in SUBSET Nat, NEW t \in S, \A x \in S : t <= x
    PROVE  FirstOf(S) = t
<1>1. \A u \in S : (\A x \in S : u <= x) => u = t
  OBVIOUS
<1> QED
  BY <1>1 DEF FirstOf

\* What run() itself does when nothing is raised.
LoopMoves(alg, s) ==
    \/ /\ pc = "called" /\ pc' = "between"
       /\ schedulerState' = Outset(alg, s).state
       /\ occupancyBytes' = Outset(alg, s).bytes
       /\ allDecisions' = <<>>
       /\ UNCHANGED <<pending, calls, observable, step>>
    \/ /\ pc = "between" /\ pc' = "allocate"
       /\ observable'.tti \in pending
       /\ \A t \in pending : observable'.tti <= t
       /\ observable' = Shown(s, occupancyBytes, observable'.tti)
       /\ occupancyBytes' = Swollen(s, occupancyBytes, observable'.tti)
       /\ UNCHANGED <<pending, schedulerState, allDecisions, calls, step>>
    \/ /\ pc = "commit" /\ pc' = "between"
       /\ occupancyBytes' = [u \in UeIds |-> IF u \in ServedBy(step.decisions) THEN 0
                                             ELSE occupancyBytes[u]]
       /\ schedulerState' = step.state
       /\ allDecisions' = allDecisions \o step.decisions
       /\ pending' = pending \ {observable.tti}
       /\ UNCHANGED <<observable, calls, step>>
    \/ /\ pc = "between" /\ pc' = "returned"
       /\ pending = {}
       /\ UNCHANGED <<pending, occupancyBytes, schedulerState, allDecisions, calls,
                      observable, step>>

\* The records run() applies are those the ObservableState shows.
LEMMA ShownIsOpened ==
    ASSUME OpensItsOwnRecords, pc = "between", pc' = "allocate",
           NEW s, s = Current.demo.scenario, input = ArgumentsOf(s)
    PROVE  /\ observable' = Shown(s, occupancyBytes, observable'.tti)
           /\ observable'.buffers = Swollen(s, occupancyBytes, observable'.tti)
<1>1. observable' = Rotation!Observe(observable'.tti, InputOf(s, observable'.tti))
  BY DEF OpensItsOwnRecords
<1>2. input.ues = s.ues
  BY DEF ArgumentsOf
<1>3. ASSUME NEW t
      PROVE  Rotation!Observe(t, InputOf(s, t)) = Shown(s, occupancyBytes, t)
  BY <1>2 DEF Rotation!Observe, Rotation!WithArrivals, Shown, Swollen, Range, Rotation!Range
<1>4. \A t : Shown(s, occupancyBytes, t).buffers = Swollen(s, occupancyBytes, t)
  BY DEF Shown
<1> QED
  BY <1>1, <1>3, <1>4

LEMMA RotatedMoves ==
    ASSUME Rotated!LoopStep, OpensItsOwnRecords, pc' # "raised",
           NEW s, s = Current.demo.scenario, input = ArgumentsOf(s),
           NEW alg \in {"RoundRobin", "MaxCQI"}
    PROVE  LoopMoves(alg, s)
<1>1. CASE Rotated!RefuseArguments \/ Rotated!RefuseStep
  BY <1>1 DEF Rotated!RefuseArguments, Rotated!RefuseStep, Rotated!Raise
<1>2. CASE Rotated!Start
  <2>1. Outset(alg, s).state = NoUe /\ Outset(alg, s).bytes = Rotated!NoBytes
    BY DEF Outset, Rotated!NoBytes
  <2> QED
    BY <1>2, <2>1 DEF Rotated!Start, LoopMoves
<1>3. CASE Rotated!OpenTti
  <2>1. PICK t \in pending, in \in AllInputs :
            /\ Rotated!IsNextTti(t)
            /\ occupancyBytes' = Rotated!WithArrivals(in)
            /\ observable' = Rotated!Observe(t, in)
    BY <1>3 DEF Rotated!OpenTti
  <2>2. observable'.tti = t /\ observable'.buffers = occupancyBytes'
    BY <2>1 DEF Rotated!Observe
  <2>3. /\ pc = "between" /\ pc' = "allocate"
        /\ UNCHANGED <<pending, schedulerState, allDecisions, calls, step>>
    BY <1>3 DEF Rotated!OpenTti
  <2> QED
    BY <2>1, <2>2, <2>3, ShownIsOpened DEF Rotated!IsNextTti, LoopMoves
<1>4. CASE Rotated!CommitTti
  <2>1. Rotated!Drained(step.decisions) =
            [u \in UeIds |-> IF u \in ServedBy(step.decisions) THEN 0 ELSE occupancyBytes[u]]
    BY DEF Rotated!Drained, Rotated!ServedBy, ServedBy, Range, Rotated!Range
  <2> QED
    BY <1>4, <2>1 DEF Rotated!CommitTti, LoopMoves
<1>5. CASE Rotated!Return
  BY <1>5 DEF Rotated!Return, LoopMoves
<1> QED
  BY <1>1, <1>2, <1>3, <1>4, <1>5 DEF Rotated!LoopStep

LEMMA WeighedMoves ==
    ASSUME Weighed!LoopStep, OpensItsOwnRecords, pc' # "raised",
           NEW s, s = Current.demo.scenario, input = ArgumentsOf(s)
    PROVE  LoopMoves("ProportionalFair", s)
<1>1. CASE Weighed!RefuseArguments \/ Weighed!RefuseStep
  BY <1>1 DEF Weighed!RefuseArguments, Weighed!RefuseStep, Weighed!Raise
<1>2. CASE Weighed!Start
  <2>1. /\ Outset("ProportionalFair", s).state = [u \in {} |-> 0]
        /\ Outset("ProportionalFair", s).bytes = Weighed!NoBytes
    BY DEF Outset, Weighed!NoBytes
  <2> QED
    BY <1>2, <2>1 DEF Weighed!Start, LoopMoves
<1>3. CASE Weighed!OpenTti
  <2>1. PICK t \in pending, in \in AllInputs :
            /\ Weighed!IsNextTti(t)
            /\ occupancyBytes' = Weighed!WithArrivals(in)
            /\ observable' = Weighed!Observe(t, in)
    BY <1>3 DEF Weighed!OpenTti
  <2>2. observable'.tti = t /\ observable'.buffers = occupancyBytes'
    BY <2>1 DEF Weighed!Observe
  <2>3. /\ pc = "between" /\ pc' = "allocate"
        /\ UNCHANGED <<pending, schedulerState, allDecisions, calls, step>>
    BY <1>3 DEF Weighed!OpenTti
  <2> QED
    BY <2>1, <2>2, <2>3, ShownIsOpened DEF Weighed!IsNextTti, LoopMoves
<1>4. CASE Weighed!CommitTti
  <2>1. Weighed!Drained(step.decisions) =
            [u \in UeIds |-> IF u \in ServedBy(step.decisions) THEN 0 ELSE occupancyBytes[u]]
    BY DEF Weighed!Drained, Weighed!ServedBy, ServedBy, Range, Weighed!Range
  <2> QED
    BY <1>4, <2>1 DEF Weighed!CommitTti, LoopMoves
<1>5. CASE Weighed!Return
  BY <1>5 DEF Weighed!Return, LoopMoves
<1> QED
  BY <1>1, <1>2, <1>3, <1>4, <1>5 DEF Weighed!LoopStep

\* Which place it is.
LEMMA PlaceFacts ==
    ASSUME NEW alg
    PROVE  /\ pc = "called" => Place(alg) = <<"called">>
           /\ pc = "between" => Place(alg) = <<"between", Carried>>
           /\ pc = "allocate" /\ ~Inside(alg) => Place(alg) = <<"allocate", Carried, observable>>
           /\ pc = "allocate" /\ Inside(alg) =>
                 Place(alg) = <<"inside", Carried, observable, Locals(alg)>>
           /\ pc = "commit" => Place(alg) = <<"commit", Carried, observable, step>>
           /\ pc = "returned" => Place(alg) = <<"returned", allDecisions>>
BY DEF Place

LEMMA NextPlaceFacts ==
    ASSUME NEW alg
    PROVE  /\ pc' = "called" => Place(alg)' = <<"called">>
           /\ pc' = "between" => Place(alg)' = <<"between", Carried'>>
           /\ pc' = "allocate" /\ ~Inside(alg)' =>
                 Place(alg)' = <<"allocate", Carried', observable'>>
           /\ pc' = "allocate" /\ Inside(alg)' =>
                 Place(alg)' = <<"inside", Carried', observable', Locals(alg)'>>
           /\ pc' = "commit" => Place(alg)' = <<"commit", Carried', observable', step'>>
           /\ pc' = "returned" => Place(alg)' = <<"returned", allDecisions'>>
BY DEF Place

\* A step of run() itself goes to the place that follows.
LEMMA LoopFollows ==
    ASSUME NEW alg, NEW s, LoopMoves(alg, s), Pace(s), pending \in SUBSET Nat,
           ~Inside(alg), ~Inside(alg)'
    PROVE  Place(alg)' = Follows(alg, s, Place(alg)) /\ Pace(s)'
<1>1. CASE pc = "called"
  <2>1. /\ pc' = "between" /\ pending' = Range(s.ttis) /\ calls' = <<>>
        /\ schedulerState' = Outset(alg, s).state
        /\ occupancyBytes' = Outset(alg, s).bytes
        /\ allDecisions' = <<>>
    BY <1>1 DEF LoopMoves, Pace
  <2>2. Carried' = Outset(alg, s)
    BY <2>1 DEF Carried, Outset
  <2>3. Place(alg) = <<"called">> /\ Place(alg)' = <<"between", Carried'>>
    BY <1>1, <2>1, PlaceFacts, NextPlaceFacts
  <2>4. Pace(s)'
    BY <2>1 DEF Pace
  <2> QED
    BY <2>2, <2>3, <2>4, AfterCalled
<1>2. CASE pc = "between" /\ pc' = "allocate"
  <2> DEFINE t == observable'.tti
  <2>1. /\ t \in pending /\ \A x \in pending : t <= x
        /\ observable' = Shown(s, occupancyBytes, t)
        /\ occupancyBytes' = Swollen(s, occupancyBytes, t)
        /\ UNCHANGED <<pending, schedulerState, allDecisions, calls, step>>
    BY <1>2 DEF LoopMoves
  <2> HIDE DEF t
  <2>2. FirstOf(pending) = t /\ pending # {}
    BY <2>1, FirstIs
  <2>3. Place(alg) = <<"between", Carried>> /\ Place(alg)' = <<"allocate", Carried', observable'>>
    BY <1>2, PlaceFacts, NextPlaceFacts
  <2>4. Carried' = [Carried EXCEPT !.bytes = Swollen(s, occupancyBytes, t)]
    BY <2>1 DEF Carried
  <2>5. Carried.due = pending /\ Carried.bytes = occupancyBytes
    BY DEF Carried
  <2>6. Opening(s, Carried) = <<"allocate", Carried', observable'>>
    BY <2>1, <2>2, <2>4, <2>5 DEF Opening
  <2>7. Follows(alg, s, <<"between", Carried>>) = Opening(s, Carried)
    <3>1. Follows(alg, s, <<"between", Carried>>) =
              IF Carried.due = {} THEN <<"returned", Carried.made>> ELSE Opening(s, Carried)
      BY AfterBetween, Zenon
    <3> QED
      BY <2>2, <2>5, <3>1
  <2>8. Pace(s)'
    <3>1. observable'.ues = s.ues
      BY <2>1 DEF Shown
    <3> QED
      BY <1>2, <2>1, <3>1 DEF Pace, t
  <2> QED
    BY <2>3, <2>6, <2>7, <2>8
<1>3. CASE pc = "commit"
  <2>1. /\ pc' = "between"
        /\ occupancyBytes' = [u \in UeIds |-> IF u \in ServedBy(step.decisions) THEN 0
                                              ELSE occupancyBytes[u]]
        /\ schedulerState' = step.state
        /\ allDecisions' = allDecisions \o step.decisions
        /\ pending' = pending \ {observable.tti}
        /\ calls' = calls
    BY <1>3 DEF LoopMoves
  <2>2. Carried' = Settled(Carried, observable, step)
    BY <2>1 DEF Carried, Settled
  <2>3. /\ Place(alg) = <<"commit", Carried, observable, step>>
        /\ Place(alg)' = <<"between", Carried'>>
    BY <1>3, <2>1, PlaceFacts, NextPlaceFacts
  <2>4. Pace(s)'
    BY <2>1 DEF Pace
  <2>5. Follows(alg, s, <<"commit", Carried, observable, step>>) =
            <<"between", Settled(Carried, observable, step)>>
    BY ONLY AfterCommit
  <2> QED
    BY <2>2, <2>3, <2>4, <2>5
<1>4. CASE pc = "between" /\ pc' # "allocate"
  <2>1. pc' = "returned" /\ pending = {} /\ allDecisions' = allDecisions
    BY <1>4 DEF LoopMoves
  <2>2. Place(alg) = <<"between", Carried>> /\ Place(alg)' = <<"returned", allDecisions>>
    BY <1>4, <2>1, PlaceFacts, NextPlaceFacts
  <2>3. Carried.due = {} /\ Carried.made = allDecisions
    BY <2>1 DEF Carried
  <2>4. Pace(s)'
    BY <2>1 DEF Pace
  <2> QED
    BY <2>2, <2>3, <2>4, AfterBetween
<1> QED
  BY <1>1, <1>2, <1>3, <1>4 DEF LoopMoves

\* A return of allocate() hands over what follows.
LEMMA AllocationFollows ==
    ASSUME NEW alg, NEW s, Pace(s), calls \in Seq(Nat), observable.tti \in Nat,
           pc = "allocate", pc' = "commit", NEW ds, NEW new,
           step' = [decisions |-> ds, state |-> new],
           calls' = Append(calls, observable.tti),
           UNCHANGED <<pending, occupancyBytes, observable, schedulerState, allDecisions>>
    PROVE  /\ Place(alg)' = Allocated(Carried, observable, ds, new)
           /\ Pace(s)'
<1>1. Len(calls') = Len(calls) + 1
  OBVIOUS
<1>2. Carried' = [Carried EXCEPT !.n = @ + 1]
  BY <1>1 DEF Carried
<1>3. Place(alg)' = <<"commit", Carried', observable, step'>>
  BY NextPlaceFacts
<1>4. Pace(s)'
  BY DEF Pace
<1> QED
  BY <1>2, <1>3, <1>4 DEF Allocated

----------------------------------------------------------------------------
\* RoundRobin.
LEMMA RotationFromArguments ==
    \A c, o : AllocateFollows("RoundRobin", <<"allocate", c, o>>) =
                IF o.blocks = <<>> \/ Waiting(o) = {}
                THEN Allocated(c, o, <<>>, c.state)
                ELSE <<"inside", c, o, RotationBegins(o, c.state)>>
BY DEF AllocateFollows, RotationFollows

RotationResult(o, x) ==
    [k \in DOMAIN x.served |->
        [tti |-> o.tti, ue |-> x.served[k], blocks |-> x.given[x.served[k]]]]

LEMMA RotationFromLocals ==
    \A c, o, x : AllocateFollows("RoundRobin", <<"inside", c, o, x>>) =
                   IF x.next <= Len(o.blocks)
                   THEN <<"inside", c, o, RotationGoesOn(o, x)>>
                   ELSE Allocated(c, o, RotationResult(o, x), x.last)
BY DEF AllocateFollows, RotationFollows, RotationResult

LEMMA NextOfIs ==
    ASSUME NEW o, o.ues \in Seq(UeIds), NEW i \in DOMAIN o.ues, NEW j \in Waiting(o),
           \A k \in Waiting(o) : Walk(o, i, j) <= Walk(o, i, k)
    PROVE  NextOf(o, i) = j
<1> DEFINE m == Len(o.ues)
<1>1. m \in Nat /\ DOMAIN o.ues = 1 .. m /\ Waiting(o) \subseteq 1 .. m
  BY DEF Waiting
<1> HIDE DEF m
<1>2. ASSUME NEW a \in 1 .. m, NEW b \in 1 .. m, Walk(o, i, a) <= Walk(o, i, b),
             Walk(o, i, b) <= Walk(o, i, a)
      PROVE  a = b
  BY <1>1, <1>2 DEF Walk, m
<1>3. \A a \in Waiting(o) : (\A k \in Waiting(o) : Walk(o, i, a) <= Walk(o, i, k)) => a = j
  BY <1>1, <1>2
<1> QED
  BY <1>3 DEF NextOf

\* The model's operators are those of the places.
LEMMA RotatedIs ==
    /\ Rotated!Eligible = Waiting(observable)
    /\ \A i : Rotated!After(i) = Beyond(observable, i)
    /\ \A i, j : Rotated!Ahead(i, j) = Walk(observable, i, j)
    /\ \A last : Rotated!SearchStart(last) = RotationBegins(observable, last).pointer
<1>1. Rotated!Eligible = Waiting(observable)
  BY DEF Rotated!Eligible, Rotated!Ues, Waiting, Rotated!Backlogged, Backlogged, Range,
     Rotated!Range
<1>2. \A i : Rotated!After(i) = Beyond(observable, i)
  BY DEF Rotated!After, Rotated!Ues, Beyond
<1>3. \A i, j : Rotated!Ahead(i, j) = Walk(observable, i, j)
  BY DEF Rotated!Ahead, Rotated!Ues, Walk
<1>4. \A last : Rotated!SearchStart(last) = RotationBegins(observable, last).pointer
  BY <1>2 DEF Rotated!SearchStart, Rotated!PositionOf, Rotated!Ues, RotationBegins, Range,
     Rotated!Range
<1> QED
  BY <1>1, <1>2, <1>3, <1>4

LEMMA RotationAllocates ==
    ASSUME Rotated!AssignedInv, Rotated!RoundRobinNext, pc = "allocate",
           NEW s, Pace(s)
    PROVE  Place("RoundRobin")' = Follows("RoundRobin", s, Place("RoundRobin")) /\ Pace(s)'
<1> DEFINE c == Carried
           o == observable
           x == Locals("RoundRobin")
<1>1. /\ blockIndex \in Nat /\ o.ues \in Seq(UeIds) /\ o.blocks \in Seq(BlockIds)
      /\ o.tti \in Nat /\ calls \in Seq(Nat)
      /\ blockIndex > 0 => pointer \in DOMAIN o.ues
  BY DEF Rotated!AssignedInv, Rotated!RoundRobinTypeOK, Rotated!LoopTypeOK,
     Rotated!Observable, Rotated!Ues
<1>2. /\ x.next = blockIndex /\ x.pointer = pointer /\ x.last = lastAssigned
      /\ x.given = assignments /\ x.served = served
  BY DEF Locals
<1>3. /\ ~(blockIndex > 0) => Place("RoundRobin") = <<"allocate", c, o>>
      /\ blockIndex > 0 => Place("RoundRobin") = <<"inside", c, o, x>>
  BY PlaceFacts DEF Inside
<1>4. /\ pc' = "allocate" /\ blockIndex' > 0 =>
            Place("RoundRobin")' = <<"inside", c', o', x'>>
  BY NextPlaceFacts DEF Inside
<1>5. Follows("RoundRobin", s, <<"allocate", c, o>>) =
        IF o.blocks = <<>> \/ Waiting(o) = {}
        THEN Allocated(c, o, <<>>, c.state)
        ELSE <<"inside", c, o, RotationBegins(o, c.state)>>
  BY AfterAllocate, RotationFromArguments
<1>6. Follows("RoundRobin", s, <<"inside", c, o, x>>) =
        IF x.next <= Len(o.blocks)
        THEN <<"inside", c, o, RotationGoesOn(o, x)>>
        ELSE Allocated(c, o, RotationResult(o, x), x.last)
  BY AfterInside, RotationFromLocals
<1>7. c.state = schedulerState
  BY DEF Carried
<1>8. UNCHANGED Rotated!loopVars => c' = c /\ o' = o /\ pc' = pc /\ Pace(s)'
  BY DEF Rotated!loopVars, Carried, Pace
<1>9. x' = [next |-> blockIndex', pointer |-> pointer', last |-> lastAssigned',
            given |-> assignments', served |-> served']
  BY DEF Locals
<1> HIDE DEF c, x
<1>10. CASE Rotated!AllocateNothing
  <2>1. /\ ~(blockIndex > 0) /\ (o.blocks = <<>> \/ Waiting(o) = {})
        /\ Rotated!AllocateReturns(<<>>, schedulerState)
    BY <1>1, <1>10, RotatedIs DEF Rotated!AllocateNothing, Rotated!NothingToServe
  <2>2. /\ Place("RoundRobin")' = Allocated(Carried, observable, <<>>, schedulerState)
        /\ Pace(s)'
    BY <1>1, <2>1, AllocationFollows DEF Rotated!AllocateReturns
  <2> QED
    BY <1>3, <1>5, <1>7, <2>1, <2>2 DEF c
<1>11. CASE Rotated!StartAssigning
  <2>1. /\ ~(blockIndex > 0) /\ ~(o.blocks = <<>> \/ Waiting(o) = {})
        /\ blockIndex' = 1 /\ pointer' = Rotated!SearchStart(schedulerState)
        /\ lastAssigned' = schedulerState /\ assignments' = Rotated!NoBlocks
        /\ served' = <<>> /\ UNCHANGED Rotated!loopVars
    BY <1>1, <1>11, RotatedIs DEF Rotated!StartAssigning, Rotated!NothingToServe
  <2>2. x' = RotationBegins(o, c.state)
    <3>1. pointer' = RotationBegins(o, schedulerState).pointer
      BY <2>1, RotatedIs
    <3>2. RotationBegins(o, schedulerState) =
            [next |-> 1, pointer |-> RotationBegins(o, schedulerState).pointer,
             last |-> schedulerState, given |-> Rotated!NoBlocks, served |-> <<>>]
      BY DEF RotationBegins, Rotated!NoBlocks
    <3> QED
      BY <1>7, <1>9, <2>1, <3>1, <3>2
  <2> QED
    BY <1>3, <1>4, <1>5, <1>8, <2>1, <2>2
<1>12. CASE Rotated!AssignBlock
  <2>1. /\ blockIndex \in DOMAIN o.blocks /\ blockIndex' = blockIndex + 1
        /\ UNCHANGED Rotated!loopVars
    BY <1>12 DEF Rotated!AssignBlock
  <2>2. PICK i \in Rotated!Eligible :
          /\ Rotated!IsNextEligible(pointer, i)
          /\ assignments' = [assignments EXCEPT
                                ![Rotated!Ues[i]] = Append(@, observable.blocks[blockIndex])]
          /\ served' = IF Rotated!Ues[i] \in Rotated!Range(served) THEN served
                       ELSE Append(served, Rotated!Ues[i])
          /\ lastAssigned' = Rotated!Ues[i]
          /\ pointer' = Rotated!After(i)
    BY <1>12 DEF Rotated!AssignBlock
  <2>3. blockIndex > 0 /\ blockIndex <= Len(o.blocks) /\ blockIndex' > 0
    BY <1>1, <2>1
  <2>4. NextOf(o, x.pointer) = i
    BY <1>1, <1>2, <2>2, <2>3, NextOfIs, RotatedIs DEF Rotated!IsNextEligible
  <2>5. /\ Rotated!Ues[i] = o.ues[i] /\ Rotated!Range(served) = Range(served)
        /\ pointer' = Beyond(o, i)
    BY <2>2, RotatedIs DEF Rotated!Ues, Rotated!Range, Range
  <2>6. x' = RotationGoesOn(o, x)
    BY <1>2, <1>9, <2>1, <2>2, <2>4, <2>5 DEF RotationGoesOn
  <2> QED
    BY <1>2, <1>3, <1>4, <1>6, <1>8, <2>1, <2>3, <2>6
<1>13. CASE Rotated!FinishAssigning
  <2>1. /\ blockIndex > Len(o.blocks)
        /\ Rotated!AllocateReturns(Rotated!RoundRobinDecisions, lastAssigned)
    BY <1>13 DEF Rotated!FinishAssigning
  <2>2. blockIndex > 0 /\ ~(blockIndex <= Len(o.blocks))
    BY <1>1, <2>1
  <2>3. /\ Place("RoundRobin")' =
              Allocated(Carried, observable, Rotated!RoundRobinDecisions, lastAssigned)
        /\ Pace(s)'
    BY <1>1, <2>1, AllocationFollows DEF Rotated!AllocateReturns
  <2>4. Rotated!RoundRobinDecisions = RotationResult(o, x)
    BY <1>2 DEF Rotated!RoundRobinDecisions, RotationResult
  <2> QED
    BY <1>2, <1>3, <1>6, <2>2, <2>3, <2>4 DEF c
<1>14. ~Rotated!LoopStep
  BY DEF Rotated!LoopStep, Rotated!RefuseArguments, Rotated!Start, Rotated!OpenTti,
     Rotated!RefuseStep, Rotated!CommitTti, Rotated!Return
<1> QED
  BY <1>10, <1>11, <1>12, <1>13, <1>14 DEF Rotated!RoundRobinNext

----------------------------------------------------------------------------
\* MaxCQI.
LEMMA GreedyFromArguments ==
    \A c, o : AllocateFollows("MaxCQI", <<"allocate", c, o>>) =
                <<"inside", c, o, [seen |-> 0, best |-> NoUe, cqi |-> 0]>>
BY DEF AllocateFollows, GreedyFollows

\* The locals after the comparison of a UE.
Compared(o, x, u) ==
    IF Competes(o, u) /\ CqiOf(o, u) > x.cqi
    THEN [seen |-> x.seen + 1, best |-> u, cqi |-> CqiOf(o, u)]
    ELSE [seen |-> x.seen + 1, best |-> x.best, cqi |-> x.cqi]

LEMMA GreedyFromLocals ==
    \A c, o, x : AllocateFollows("MaxCQI", <<"inside", c, o, x>>) =
                   IF ~ScanGoesOn(o, x) THEN Allocated(c, o, AllTo(o, x.best), c.state)
                   ELSE <<"inside", c, o, Compared(o, x, o.ues[x.seen + 1])>>
BY DEF AllocateFollows, GreedyFollows, Compared

LEMMA RotatedScans ==
    /\ \A u : Rotated!Contends(u) <=> Competes(observable, u)
    /\ \A u : Rotated!CqiOf(observable, u) = CqiOf(observable, u)
    /\ Rotated!WinnerTakesAll = AllTo(observable, winner)
    /\ \A x : x.seen = scanned =>
          (Rotated!Scanning <=> scanning /\ ScanGoesOn(observable, x))
<1>1. \A u : Rotated!CqiOf(observable, u) = CqiOf(observable, u)
  BY DEF Rotated!CqiOf, CqiOf
<1>2. Rotated!Backlogged(observable) = Backlogged(observable)
  BY DEF Rotated!Backlogged, Backlogged, Range, Rotated!Range
<1>3. \A u : Rotated!Contends(u) <=> Competes(observable, u)
  BY <1>1, <1>2 DEF Rotated!Contends, Competes
<1>4. Rotated!WinnerTakesAll = AllTo(observable, winner)
  BY DEF Rotated!WinnerTakesAll, AllTo
<1>5. \A x : x.seen = scanned =>
          (Rotated!Scanning <=> scanning /\ ScanGoesOn(observable, x))
  BY DEF Rotated!Scanning, ScanGoesOn
<1> QED
  BY <1>1, <1>3, <1>4, <1>5

LEMMA GreedyAllocates ==
    ASSUME Rotated!ScanInv, Rotated!MaxCqiNext, pc = "allocate", NEW s, Pace(s)
    PROVE  Place("MaxCQI")' = Follows("MaxCQI", s, Place("MaxCQI")) /\ Pace(s)'
<1> DEFINE c == Carried
           o == observable
           x == Locals("MaxCQI")
<1>1. o.tti \in Nat /\ calls \in Seq(Nat) /\ scanning \in BOOLEAN
  BY DEF Rotated!ScanInv, Rotated!ScanTypeOK, Rotated!LoopTypeOK, Rotated!Observable
<1>2. x.seen = scanned /\ x.best = winner /\ x.cqi = bestCqi
  BY DEF Locals
<1>3. /\ ~scanning => Place("MaxCQI") = <<"allocate", c, o>>
      /\ scanning => Place("MaxCQI") = <<"inside", c, o, x>>
  BY PlaceFacts DEF Inside
<1>4. pc' = "allocate" /\ scanning' => Place("MaxCQI")' = <<"inside", c', o', x'>>
  BY NextPlaceFacts DEF Inside
<1>5. Follows("MaxCQI", s, <<"allocate", c, o>>) =
        <<"inside", c, o, [seen |-> 0, best |-> NoUe, cqi |-> 0]>>
  BY AfterAllocate, GreedyFromArguments
<1>6. Follows("MaxCQI", s, <<"inside", c, o, x>>) =
        IF ~ScanGoesOn(o, x) THEN Allocated(c, o, AllTo(o, x.best), c.state)
        ELSE <<"inside", c, o, Compared(o, x, o.ues[x.seen + 1])>>
  BY AfterInside, GreedyFromLocals
<1>7. c.state = schedulerState
  BY DEF Carried
<1>8. UNCHANGED Rotated!loopVars => c' = c /\ o' = o /\ pc' = pc /\ Pace(s)'
  BY DEF Rotated!loopVars, Carried, Pace
<1>9. x' = [seen |-> scanned', best |-> winner', cqi |-> bestCqi']
  BY DEF Locals
<1> HIDE DEF c, x
<1>10. CASE Rotated!StartCqiScan
  <2>1. /\ ~scanning /\ scanning' /\ scanned' = 0 /\ winner' = NoUe /\ bestCqi' = 0
        /\ UNCHANGED Rotated!loopVars
    BY <1>10 DEF Rotated!StartCqiScan, Rotated!StartScan
  <2> QED
    BY <1>3, <1>4, <1>5, <1>8, <1>9, <2>1
<1>11. CASE Rotated!CompareCqi
  <2> DEFINE u == o.ues[x.seen + 1]
  <2>1. /\ Rotated!Scanning /\ scanned' = scanned + 1
        /\ UNCHANGED Rotated!loopVars /\ scanning' = scanning
        /\ IF Rotated!Leads(Rotated!ScannedUe)
           THEN bestCqi' = Rotated!CqiOf(observable, Rotated!ScannedUe)
                /\ winner' = Rotated!ScannedUe
           ELSE UNCHANGED <<bestCqi, winner>>
    BY <1>11 DEF Rotated!CompareCqi, Rotated!LookAtUe
  <2>2. Rotated!ScannedUe = u
    BY <1>2 DEF Rotated!ScannedUe
  <2>3. Rotated!Leads(u) <=> Competes(o, u) /\ CqiOf(o, u) > x.cqi
    BY <1>2, RotatedScans DEF Rotated!Leads
  <2>4. Rotated!CqiOf(o, u) = CqiOf(o, u)
    BY RotatedScans
  <2>5. scanning /\ ScanGoesOn(o, x)
    BY <1>2, <2>1, RotatedScans
  <2> HIDE DEF u
  <2>6. x' = Compared(o, x, u)
    BY <1>2, <1>9, <2>1, <2>2, <2>3, <2>4 DEF Compared
  <2> QED
    BY <1>3, <1>4, <1>6, <1>8, <2>1, <2>5, <2>6 DEF u
<1>12. CASE Rotated!FinishCqiScan
  <2>1. /\ scanning /\ ~Rotated!Scanning
        /\ Rotated!AllocateReturns(Rotated!WinnerTakesAll, schedulerState)
    BY <1>12 DEF Rotated!FinishCqiScan, Rotated!FinishScan, Rotated!Deciding
  <2>2. /\ Place("MaxCQI")' = Allocated(Carried, observable, Rotated!WinnerTakesAll, schedulerState)
        /\ Pace(s)'
    BY <1>1, <2>1, AllocationFollows DEF Rotated!AllocateReturns
  <2>3. ~ScanGoesOn(o, x) /\ Rotated!WinnerTakesAll = AllTo(o, x.best)
    BY <1>2, <2>1, RotatedScans
  <2> QED
    BY <1>3, <1>6, <1>7, <2>1, <2>2, <2>3 DEF c
<1>13. ~Rotated!LoopStep
  BY DEF Rotated!LoopStep, Rotated!RefuseArguments, Rotated!Start, Rotated!OpenTti,
     Rotated!RefuseStep, Rotated!CommitTti, Rotated!Return
<1> QED
  BY <1>10, <1>11, <1>12, <1>13 DEF Rotated!MaxCqiNext

----------------------------------------------------------------------------
\* ProportionalFair.
LEMMA FairFromArguments ==
    \A c, o : AllocateFollows("ProportionalFair", <<"allocate", c, o>>) =
                <<"inside", c, o, [seen |-> 0, best |-> NoUe]>>
BY DEF AllocateFollows, FairFollows

\* The locals after the comparison of a UE.
Scored(c, o, x, u) ==
    [seen |-> x.seen + 1,
     best |-> IF Competes(o, u) /\ (x.best = NoUe \/ Beats(o, c, u, x.best))
              THEN u ELSE x.best]

LEMMA FairFromLocals ==
    \A c, o, x : AllocateFollows("ProportionalFair", <<"inside", c, o, x>>) =
                   IF ~ScanGoesOn(o, x)
                   THEN Allocated(c, o, AllTo(o, x.best), NewState(c, o, x.best))
                   ELSE <<"inside", c, o, Scored(c, o, x, o.ues[x.seen + 1])>>
BY DEF AllocateFollows, FairFollows, Scored

LEMMA WeighedScores ==
    /\ \A u : Weighed!Contends(u) <=> Competes(observable, u)
    /\ \A u : Weighed!CqiOf(observable, u) = CqiOf(observable, u)
    /\ Weighed!WinnerTakesAll = AllTo(observable, winner)
    /\ \A x : x.seen = scanned =>
          (Weighed!Scanning <=> scanning /\ ScanGoesOn(observable, x))
    /\ \A u : Weighed!Average(u) = AverageOf(schedulerState, u)
    /\ \A u : Weighed!ScoreIsInfinite(u) <=> Endless(observable, Carried, u)
    /\ \A u, v : Weighed!Outscores(u, v) <=> Beats(observable, Carried, u, v)
    /\ Weighed!NewAverages = NewState(Carried, observable, winner)
<1>1. \A u : Weighed!CqiOf(observable, u) = CqiOf(observable, u)
  BY DEF Weighed!CqiOf, CqiOf
<1>2. Weighed!Backlogged(observable) = Backlogged(observable)
  BY DEF Weighed!Backlogged, Backlogged, Range, Weighed!Range
<1>3. \A u : Weighed!Contends(u) <=> Competes(observable, u)
  BY <1>1, <1>2 DEF Weighed!Contends, Competes
<1>4. Weighed!WinnerTakesAll = AllTo(observable, winner)
  BY DEF Weighed!WinnerTakesAll, AllTo
<1>5. \A x : x.seen = scanned =>
          (Weighed!Scanning <=> scanning /\ ScanGoesOn(observable, x))
  BY DEF Weighed!Scanning, ScanGoesOn
<1>6. \A u : Weighed!Average(u) = AverageOf(schedulerState, u)
  BY DEF Weighed!Average, AverageOf
<1>8. \A n : Weighed!Power(10, n) = Fair!Power(10, n)
  BY DEF Weighed!Power, Fair!Power
<1>9. \A u : Weighed!Achieved(u) = IF u = winner THEN CqiOf(observable, u) ELSE 0
  BY <1>1 DEF Weighed!Achieved
<1>10. Carried.state = schedulerState /\ Carried.n = Len(calls)
  BY DEF Carried
<1>7. \A u : Weighed!ScoreIsInfinite(u) <=> Endless(observable, Carried, u)
  BY <1>1, <1>6, <1>8, <1>10 DEF Weighed!ScoreIsInfinite, Endless
<1>13. \A u, v : Weighed!Outscores(u, v) <=> Beats(observable, Carried, u, v)
  BY <1>1, <1>6, <1>7, <1>10 DEF Weighed!Outscores, Beats
<1>11. Weighed!Range(observable.ues) = Range(observable.ues)
  BY DEF Weighed!Range, Range
<1>12. Weighed!NewAverages = NewState(Carried, observable, winner)
  BY <1>6, <1>8, <1>9, <1>10, <1>11 DEF Weighed!NewAverages, NewState
<1> QED
  BY <1>1, <1>3, <1>4, <1>5, <1>6, <1>7, <1>12, <1>13

LEMMA PowerIsOne == Fair!Power(10, 0) = 1
<1>1. Weighed!Power(10, 0) = 1
  BY WeighedAssumptionsHold, Weighed!PowerFacts, 10 \in Nat DEF WeighedAssumptions
<1>2. Fair!Power(10, 0) = Weighed!Power(10, 0)
  BY DEF Fair!Power, Weighed!Power
<1> QED
  BY <1>1, <1>2

\* A first call leaves one score finite at most.
LEMMA FirstStateHasOneAverage ==
    ASSUME NEW c, NEW o, NEW w, c.state = [u \in {} |-> 0], c.n = 0,
           \A u \in Range(o.ues) : CqiOf(o, u) \in Int
    PROVE  OneAverage(NewState(c, o, w))
<1> DEFINE new == NewState(c, o, w)
<1>1. \A u : AverageOf(c.state, u) = 0
  BY DEF AverageOf
<1>2. ASSUME NEW u \in Range(o.ues), u # w PROVE new[u] = 0
  <2>1. new[u] = 9 * AverageOf(c.state, u) + 0 * Fair!Power(10, c.n)
    BY <1>2 DEF NewState
  <2> QED
    BY <1>1, <2>1, PowerIsOne
<1>3. DOMAIN new = Range(o.ues)
  BY DEF NewState
<1> HIDE DEF new
<1>4. ASSUME NEW u, AverageOf(new, u) # 0 PROVE u = w
  BY <1>2, <1>3, <1>4 DEF AverageOf
<1> QED
  BY <1>4 DEF OneAverage, new

\* No two scores tie: at most one is finite.
LEMMA NothingTies ==
    ASSUME NEW s, s.ues = TwoUes, Weighed!ScanInv, TieFree, Pace(s), pc = "allocate",
           Weighed!Scanning, winner # NoUe
    PROVE  ~Weighed!Ties(Weighed!ScannedUe, winner)
<1> DEFINE u == Weighed!ScannedUe
<1>1. /\ scanned \in Nat /\ scanning /\ observable.ues = TwoUes
      /\ scanned + 1 <= Len(TwoUes) /\ u = TwoUes[scanned + 1]
  BY DEF Weighed!ScanInv, Weighed!ScanTypeOK, Pace, Weighed!Scanning, Weighed!ScannedUe
<1>2. PICK i \in 1 .. scanned : winner = TwoUes[i]
  BY <1>1 DEF TieFree
<1>3. Len(TwoUes) = 2 /\ TwoUes \in Seq(UeIds) /\ IsInjective(TwoUes)
  BY TwoUesFacts DEF TwoUes
<1>4. i \in 1 .. 2 /\ scanned + 1 \in 1 .. 2 /\ i # scanned + 1
  BY <1>1, <1>2, <1>3
<1>5. u \in UeIds /\ winner \in UeIds /\ u # winner
  BY <1>1, <1>2, <1>3, <1>4 DEF IsInjective
<1> HIDE DEF u
<1>6. SUFFICES ASSUME AverageOf(schedulerState, u) # 0, AverageOf(schedulerState, winner) # 0
               PROVE  FALSE
  BY WeighedScores DEF Weighed!Ties, Weighed!ScoreIsInfinite, u
<1>7. Len(calls) \in Nat /\ pending # {} /\ (Len(calls) > 1 => pending = {})
  BY DEF TieFree, Pace, Weighed!ScanInv, Weighed!ScanTypeOK, Weighed!LoopTypeOK
<1>8. Len(calls) = 0 => schedulerState = [v \in {} |-> 0]
  BY DEF TieFree
<1>9. Len(calls) # 0
  BY <1>6, <1>8 DEF AverageOf
<1>10. Len(calls) # 1
  BY <1>5, <1>6 DEF OneAverage, TieFree
<1> DEFINE n == Len(calls)
<1>11. n \in Nat /\ n # 0 /\ n # 1 /\ pending # {} /\ (n > 1 => pending = {})
  BY <1>7, <1>9, <1>10
<1> HIDE DEF n
<1> QED
  BY ONLY <1>11

LEMMA AfterTheFirst ==
    ASSUME NEW P \in SUBSET (0 .. 1), NEW x \in P, \A t \in P : x <= t
    PROVE  P \ {x} \subseteq {1} /\ P \ {x} \subseteq 0 .. 1
<1>1. ASSUME NEW t \in P, t # x PROVE t = 1
  BY <1>1
<1> QED
  BY <1>1

\* What allocate() hands over is of the first call, or there is no TTI left.
LEMMA AllocationKeepsTieFree ==
    ASSUME NEW s, Pace(s), TieFree, Weighed!ScanInv, scanning' = FALSE,
           pc = "allocate", pc' = "commit",
           step'.state = NewState(Carried, observable, winner),
           calls' = Append(calls, observable.tti),
           UNCHANGED <<pending, observable>>
    PROVE  TieFree'
<1> DEFINE left == pending \ {observable.tti}
<1>1. /\ pending \subseteq 0 .. 1 /\ observable.tti \in pending
      /\ \A t \in pending : observable.tti <= t
      /\ Len(calls) = 1 => pending \subseteq {1}
      /\ Len(calls) > 1 => pending = {}
  BY DEF TieFree, Pace
<1>2. calls \in Seq(Nat) /\ observable.tti \in Nat
  <2>1. calls \in Seq(Nat)
    BY DEF Weighed!ScanInv, Weighed!ScanTypeOK, Weighed!LoopTypeOK
  <2>2. observable.tti \in 0 .. 1
    BY ONLY <1>1
  <2> QED
    BY ONLY <2>1, <2>2
<1>3. Len(calls) \in Nat /\ Len(calls') = Len(calls) + 1
  BY <1>2
<1>4. left \subseteq {1} /\ left \subseteq 0 .. 1
  <2>1. pending \in SUBSET (0 .. 1) /\ observable.tti \in pending
        /\ \A x \in pending : observable.tti <= x
    BY <1>1
  <2> QED
    BY <2>1, AfterTheFirst
<1>5. Len(calls') > 1 => left = {}
  <2> SUFFICES ASSUME Len(calls') > 1 PROVE left = {}
    OBVIOUS
  <2> DEFINE n == Len(calls)
  <2>0. n \in Nat /\ n + 1 > 1 /\ pending # {} /\ (n > 1 => pending = {})
    BY <1>1, <1>3
  <2> HIDE DEF n
  <2>1. n = 1
    BY ONLY <2>0
  <2>2. observable.tti = 1 /\ pending \subseteq {1}
    BY <1>1, <2>1 DEF n
  <2> QED
    BY <2>2
<1>6. ASSUME Len(calls') = 1 PROVE OneAverage(step'.state)
  <2>1. Carried.state = [v \in {} |-> 0] /\ Carried.n = 0
    <3>1. Len(calls) = 0
      BY <1>3, <1>6
    <3> QED
      BY <3>1 DEF Carried, TieFree
  <2>2. \A u \in Range(observable.ues) : CqiOf(observable, u) \in Int
    <3>1. /\ observable.qualities \in [UeIds -> Seq(Weighed!Cqi)]
          /\ observable.ues \in Seq(UeIds)
      BY DEF Weighed!ScanInv, Weighed!ScanTypeOK, Weighed!LoopTypeOK, Weighed!Observable
    <3>2. SUFFICES ASSUME NEW u \in UeIds PROVE CqiOf(observable, u) \in Int
      BY <3>1 DEF Range
    <3>3. observable.qualities[u] \in Seq(Weighed!Cqi)
      BY <3>1
    <3>4. observable.qualities[u] # <<>> => observable.qualities[u][1] \in Weighed!Cqi
      BY <3>3
    <3> QED
      BY <3>4 DEF CqiOf, Weighed!Cqi
  <2> QED
    BY <2>1, <2>2, FirstStateHasOneAverage
<1> HIDE DEF left
<1>7. Len(calls') # 0
  BY <1>3
<1> QED
  BY <1>4, <1>5, <1>6, <1>7 DEF TieFree, left

LEMMA FairAllocates ==
    ASSUME Weighed!ScanInv, Weighed!FairNext, pc = "allocate", NEW s, s.ues = TwoUes,
           Pace(s), TieFree
    PROVE  /\ Place("ProportionalFair")' =
                 Follows("ProportionalFair", s, Place("ProportionalFair"))
           /\ Pace(s)' /\ TieFree'
<1> DEFINE alg == "ProportionalFair"
           c == Carried
           o == observable
           x == Locals(alg)
<1>1. /\ o.tti \in Nat /\ calls \in Seq(Nat) /\ scanning \in BOOLEAN /\ scanned \in Nat
  BY DEF Weighed!ScanInv, Weighed!ScanTypeOK, Weighed!LoopTypeOK, Weighed!Observable
<1>2. x.seen = scanned /\ x.best = winner
  BY DEF Locals
<1>3. /\ ~scanning => Place(alg) = <<"allocate", c, o>>
      /\ scanning => Place(alg) = <<"inside", c, o, x>>
  BY PlaceFacts DEF Inside
<1>4. pc' = "allocate" /\ scanning' => Place(alg)' = <<"inside", c', o', x'>>
  BY NextPlaceFacts DEF Inside
<1>5. Follows(alg, s, <<"allocate", c, o>>) = <<"inside", c, o, [seen |-> 0, best |-> NoUe]>>
  BY AfterAllocate, FairFromArguments
<1>6. Follows(alg, s, <<"inside", c, o, x>>) =
        IF ~ScanGoesOn(o, x)
        THEN Allocated(c, o, AllTo(o, x.best), NewState(c, o, x.best))
        ELSE <<"inside", c, o, Scored(c, o, x, o.ues[x.seen + 1])>>
  BY AfterInside, FairFromLocals
<1>8. UNCHANGED Weighed!loopVars => c' = c /\ o' = o /\ pc' = pc /\ Pace(s)'
  BY DEF Weighed!loopVars, Carried, Pace
<1>9. x' = [seen |-> scanned', best |-> winner']
  BY DEF Locals
<1> HIDE DEF c, x, alg
<1>10. CASE Weighed!StartFairScan
  <2>1. /\ ~scanning /\ scanning' /\ scanned' = 0 /\ winner' = NoUe
        /\ UNCHANGED Weighed!loopVars
    BY <1>10 DEF Weighed!StartFairScan, Weighed!StartScan
  <2>2. TieFree'
    BY <2>1 DEF TieFree, Weighed!loopVars
  <2> QED
    BY <1>3, <1>4, <1>5, <1>8, <1>9, <2>1, <2>2 DEF alg
<1>11. CASE Weighed!CompareScores
  <2> DEFINE u == o.ues[x.seen + 1]
  <2>1. /\ Weighed!Scanning /\ scanned' = scanned + 1
        /\ UNCHANGED Weighed!loopVars /\ scanning' = scanning
        /\ \/ Weighed!MayLead(Weighed!ScannedUe) /\ winner' = Weighed!ScannedUe
           \/ Weighed!MayTrail(Weighed!ScannedUe) /\ UNCHANGED winner
    BY <1>11 DEF Weighed!CompareScores, Weighed!LookAtUe
  <2>2. Weighed!ScannedUe = u
    BY <1>2 DEF Weighed!ScannedUe
  <2>3. scanning /\ ScanGoesOn(o, x)
    BY <1>2, <2>1, WeighedScores
  <2>4. /\ u = o.ues[scanned + 1]
    BY <1>2
  <2> HIDE DEF u
  <2>5. winner # NoUe => ~Weighed!Ties(u, winner)
    BY <2>1, <2>2, NothingTies
  <2>6. /\ Weighed!MayLead(u) <=>
              Competes(o, u) /\ (winner = NoUe \/ Beats(o, c, u, winner))
        /\ Weighed!MayTrail(u) <=>
              ~(Competes(o, u) /\ (winner = NoUe \/ Beats(o, c, u, winner)))
    BY <2>5, WeighedScores DEF Weighed!MayLead, Weighed!MayTrail, c
  <2>7. winner' = IF Competes(o, u) /\ (winner = NoUe \/ Beats(o, c, u, winner))
                  THEN u ELSE winner
    BY <2>1, <2>2, <2>6
  <2>8. x' = Scored(c, o, x, u)
    BY <1>2, <1>9, <2>1, <2>7 DEF Scored
  <2>9. TieFree'
    <3>1. winner' = o.ues[scanned + 1] \/ winner' = winner
      BY <2>4, <2>7
    <3>2. ASSUME winner' # NoUe
          PROVE  \E i \in 1 .. scanned' : winner' = o.ues[i]
      <4>1. CASE winner' = o.ues[scanned + 1]
        BY <1>1, <2>1, <4>1
      <4>2. CASE winner' = winner
        <5>1. PICK i \in 1 .. scanned : winner = o.ues[i]
          BY <2>3, <3>2, <4>2 DEF TieFree
        <5> QED
          BY <1>1, <2>1, <4>2, <5>1
      <4> QED
        BY <3>1, <4>1, <4>2
    <3> QED
      BY <2>1, <3>2 DEF TieFree, Weighed!loopVars
  <2> QED
    BY <1>3, <1>4, <1>6, <1>8, <2>1, <2>3, <2>8, <2>9 DEF u, alg
<1>12. CASE Weighed!FinishFairScan
  <2>1. /\ scanning /\ ~Weighed!Scanning /\ scanning' = FALSE
        /\ Weighed!AllocateReturns(Weighed!WinnerTakesAll, Weighed!NewAverages)
    BY <1>12 DEF Weighed!FinishFairScan, Weighed!FinishScan, Weighed!Deciding
  <2>2. /\ Place(alg)' = Allocated(Carried, observable, Weighed!WinnerTakesAll,
                                   Weighed!NewAverages)
        /\ Pace(s)'
    BY <1>1, <2>1, AllocationFollows DEF Weighed!AllocateReturns
  <2>3. /\ ~ScanGoesOn(o, x) /\ Weighed!WinnerTakesAll = AllTo(o, x.best)
        /\ Weighed!NewAverages = NewState(c, o, x.best)
    BY <1>2, <2>1, WeighedScores DEF c
  <2>4. TieFree'
    <3>1. step'.state = NewState(Carried, observable, winner)
      BY <2>1, WeighedScores DEF Weighed!AllocateReturns
    <3> QED
      BY <2>1, <3>1, AllocationKeepsTieFree DEF Weighed!AllocateReturns
  <2> QED
    BY <1>3, <1>6, <2>1, <2>2, <2>3, <2>4 DEF c, alg
<1>13. ~Weighed!LoopStep
  BY DEF Weighed!LoopStep, Weighed!RefuseArguments, Weighed!Start, Weighed!OpenTti,
     Weighed!RefuseStep, Weighed!CommitTti, Weighed!Return
<1> QED
  BY <1>10, <1>11, <1>12, <1>13 DEF Weighed!FairNext, alg

----------------------------------------------------------------------------
\* run() itself keeps the pace that rules out a tie.
LEMMA LoopKeepsTieFree ==
    ASSUME NEW s, LoopMoves("ProportionalFair", s), Pace(s), TieFree,
           Range(s.ttis) \subseteq 0 .. 1, scanning' = FALSE
    PROVE  TieFree'
<1>1. CASE pc = "called"
  <2>1. /\ pc' = "between" /\ pending' = Range(s.ttis) /\ calls' = <<>>
        /\ schedulerState' = Outset("ProportionalFair", s).state
    BY <1>1 DEF LoopMoves, Pace
  <2>2. schedulerState' = [u \in {} |-> 0]
    BY <2>1 DEF Outset
  <2>3. Len(calls') = 0
    BY <2>1
  <2> QED
    BY <2>1, <2>2, <2>3 DEF TieFree
<1>2. CASE pc = "between"
  <2>1. /\ pc' \in {"allocate", "returned"}
        /\ UNCHANGED <<pending, schedulerState, calls>>
    BY <1>2 DEF LoopMoves
  <2> QED
    BY <1>2, <2>1 DEF TieFree
<1>3. CASE pc = "commit"
  <2>1. /\ pc' = "between" /\ schedulerState' = step.state
        /\ pending' = pending \ {observable.tti} /\ calls' = calls
    BY <1>3 DEF LoopMoves
  <2> QED
    BY <1>3, <2>1 DEF TieFree
<1> QED
  BY <1>1, <1>2, <1>3 DEF LoopMoves

LEMMA DemoTtis ==
    \A d \in Range(BuildDemoScenarios) : Range(d.scenario.ttis) \subseteq 0 .. 1
<1>1. \A d \in Range(BuildDemoScenarios) :
          d.scenario \in {UeCompetition, CqiDifference, NoEligibilityOrResources}
  BY DEF BuildDemoScenarios, Range
<1>2. /\ UeCompetition.ttis = TtiIndices(2) /\ CqiDifference.ttis = TtiIndices(1)
      /\ NoEligibilityOrResources.ttis = TtiIndices(2)
  BY DEF UeCompetition, CqiDifference, NoEligibilityOrResources, BuildScenario
<1>3. Range(TtiIndices(1)) \subseteq 0 .. 1 /\ Range(TtiIndices(2)) \subseteq 0 .. 1
  BY DEF TtiIndices, Range
<1> QED
  BY <1>1, <1>2, <1>3

\* Where the run of a pair is.
PairCourse(pair) ==
    /\ Pace(pair.demo.scenario)
    /\ OnCourse(pair.algorithm, pair.demo.scenario, Place(pair.algorithm))
    /\ pair.algorithm = "ProportionalFair" => TieFree

\* A step of run() for a pair goes on along the course of the pair.
LEMMA RunStepFollows ==
    ASSUME DemoInv, RunInv, RunInv', RunStep, NEW pair, pair = Current, PairCourse(pair)
    PROVE  PairCourse(pair)'
<1> DEFINE alg == pair.algorithm
           s == pair.demo.scenario
<1>1. /\ UNCHANGED <<phase, results>> /\ phase \in {"decide", "benchmark"}
      /\ pc' # "raised" /\ OpensItsOwnRecords
      /\ PairInv(Current) /\ Rotated!LoopTypeOK
  BY DEF RunStep, Executing, RunInv, RunTypes, demoVars
<1>2. Len(results) + 1 \in 1 .. 9
  BY <1>1, PairScenario DEF DemoInv, PhaseInv, ResultsInv
<1>3. /\ pair.demo \in Range(BuildDemoScenarios)
      /\ alg \in {"RoundRobin", "ProportionalFair", "MaxCQI"}
  BY <1>2, PairFacts DEF Current
<1>4. /\ s.ues = TwoUes /\ s = Current.demo.scenario /\ input = ArgumentsOf(s)
      /\ Range(s.ttis) \subseteq 0 .. 1
  BY <1>1, <1>3, DemoIsRunnable, DemoTtis DEF PairInv, Runnable
<1>5. pending \in SUBSET Nat
  <2>1. pending \subseteq Range(s.ttis)
    BY <1>1, <1>4 DEF Rotated!LoopTypeOK, Rotated!Range, Range, ArgumentsOf
  <2> QED
    BY <1>4, <2>1
<1>6. Pace(s) /\ OnCourse(alg, s, Place(alg)) /\ (alg = "ProportionalFair" => TieFree)
  BY DEF PairCourse
<1>7. SUFFICES /\ Place(alg)' = Follows(alg, s, Place(alg))
               /\ Pace(s)'
               /\ alg = "ProportionalFair" => TieFree'
  <2>1. OnCourse(alg, s, Follows(alg, s, Place(alg)))
    BY <1>6, CourseGoesOn, Zenon
  <2>2. ASSUME Place(alg)' = Follows(alg, s, Place(alg)), Pace(s)',
               alg = "ProportionalFair" => TieFree'
        PROVE  PairCourse(pair)'
    BY <2>1, <2>2 DEF PairCourse
  <2> QED
    BY <2>2
<1> HIDE DEF s
<1>8. CASE alg = "RoundRobin"
  <2>1. Rotation!RoundRobinNext /\ Rotated!AssignedInv
    BY <1>1, <1>8 DEF RunStep, PairInv
  <2>2. Rotated!RoundRobinNext
    BY <2>1, RotationSteps
  <2>3. CASE Rotated!LoopStep /\ UNCHANGED Rotated!rrVars
    <3>1. pc # "allocate"
      BY <2>3 DEF Rotated!LoopStep, Rotated!RefuseArguments, Rotated!Start,
         Rotated!OpenTti, Rotated!RefuseStep, Rotated!CommitTti, Rotated!Return
    <3>2. ~(blockIndex > 0) /\ blockIndex' = blockIndex
      BY <2>1, <2>3, <3>1 DEF Rotated!AssignedInv, Rotated!RoundRobinTypeOK, Rotated!rrVars
    <3>3. ~Inside(alg) /\ ~Inside(alg)'
      BY <1>8, <3>2 DEF Inside
    <3>4. LoopMoves(alg, s)
      BY <1>1, <1>4, <1>8, <2>3, RotatedMoves
    <3> QED
      BY <1>5, <1>6, <1>8, <3>3, <3>4, LoopFollows
  <2>4. CASE pc = "allocate"
    BY <1>6, <1>8, <2>1, <2>2, <2>4, RotationAllocates
  <2>5. (Rotated!LoopStep /\ UNCHANGED Rotated!rrVars) \/ pc = "allocate"
    BY <2>1, <2>2 DEF Rotated!RoundRobinNext, Rotated!AllocateNothing,
       Rotated!StartAssigning, Rotated!AssignBlock, Rotated!FinishAssigning,
       Rotated!AllocateReturns, Rotated!AssignedInv, Rotated!RoundRobinTypeOK,
       Rotated!LoopTypeOK, Rotated!Observable
  <2> QED
    BY <2>3, <2>4, <2>5
<1>9. CASE alg = "MaxCQI"
  <2>1. Greedy!MaxCqiNext /\ Rotated!ScanInv
    BY <1>1, <1>9 DEF RunStep, PairInv
  <2>2. Rotated!MaxCqiNext
    BY <2>1, GreedySteps
  <2>3. CASE Rotated!LoopStep /\ UNCHANGED <<Rotated!scanVars, bestCqi>>
    <3>1. pc # "allocate"
      BY <2>3 DEF Rotated!LoopStep, Rotated!RefuseArguments, Rotated!Start,
         Rotated!OpenTti, Rotated!RefuseStep, Rotated!CommitTti, Rotated!Return
    <3>2. ~scanning /\ scanning' = scanning
      BY <2>1, <2>3, <3>1 DEF Rotated!ScanInv, Rotated!ScanTypeOK, Rotated!scanVars
    <3>3. ~Inside(alg) /\ ~Inside(alg)'
      BY <1>9, <3>2 DEF Inside
    <3>4. LoopMoves(alg, s)
      BY <1>1, <1>4, <1>9, <2>3, RotatedMoves
    <3> QED
      BY <1>5, <1>6, <1>9, <3>3, <3>4, LoopFollows
  <2>4. CASE pc = "allocate"
    BY <1>6, <1>9, <2>1, <2>2, <2>4, GreedyAllocates
  <2>5. (Rotated!LoopStep /\ UNCHANGED <<Rotated!scanVars, bestCqi>>) \/ pc = "allocate"
    BY <2>1, <2>2 DEF Rotated!MaxCqiNext, Rotated!StartCqiScan, Rotated!StartScan,
       Rotated!CompareCqi, Rotated!LookAtUe, Rotated!Scanning, Rotated!FinishCqiScan,
       Rotated!FinishScan, Rotated!AllocateReturns, Rotated!ScanInv, Rotated!ScanTypeOK
  <2> QED
    BY <2>3, <2>4, <2>5
<1>10. CASE alg = "ProportionalFair"
  <2>1. Fair!FairNext /\ Weighed!ScanInv /\ TieFree
    BY <1>1, <1>6, <1>10 DEF RunStep, PairInv
  <2>2. Weighed!FairNext
    BY <2>1, FairSteps
  <2>3. CASE Weighed!LoopStep /\ UNCHANGED <<Weighed!scanVars, serviceLog>>
    <3>1. pc # "allocate"
      BY <2>3 DEF Weighed!LoopStep, Weighed!RefuseArguments, Weighed!Start,
         Weighed!OpenTti, Weighed!RefuseStep, Weighed!CommitTti, Weighed!Return
    <3>2. scanning = FALSE /\ scanning' = FALSE
      BY <2>1, <2>3, <3>1 DEF Weighed!ScanInv, Weighed!ScanTypeOK, Weighed!scanVars
    <3>3. ~Inside(alg) /\ ~Inside(alg)'
      BY <1>10, <3>2 DEF Inside
    <3>4. LoopMoves(alg, s)
      BY <1>1, <1>4, <1>10, <2>3, WeighedMoves
    <3>5. TieFree'
      BY <1>4, <1>6, <1>10, <2>1, <3>2, <3>4, LoopKeepsTieFree
    <3> QED
      BY <1>5, <1>6, <1>10, <3>3, <3>4, <3>5, LoopFollows
  <2>4. CASE pc = "allocate"
    BY <1>4, <1>6, <1>10, <2>1, <2>2, <2>4, FairAllocates
  <2>5. (Weighed!LoopStep /\ UNCHANGED <<Weighed!scanVars, serviceLog>>) \/ pc = "allocate"
    BY <2>1, <2>2 DEF Weighed!FairNext, Weighed!StartFairScan, Weighed!StartScan,
       Weighed!CompareScores, Weighed!LookAtUe, Weighed!Scanning, Weighed!FinishFairScan,
       Weighed!FinishScan, Weighed!AllocateReturns, Weighed!ScanInv, Weighed!ScanTypeOK
  <2> QED
    BY <2>3, <2>4, <2>5
<1> QED
  BY <1>3, <1>8, <1>9, <1>10

----------------------------------------------------------------------------
\* The run of the current pair is on the pair's course, and the decisions that
\* will be recorded are those at its end.
CourseInv ==
    /\ phase \in {"decide", "benchmark"} => PairCourse(Current)
    /\ phase = "benchmark" =>
          OnCourse(Current.algorithm, Current.demo.scenario, <<"returned", decisions>>)

MeasuredInv == CleanInv /\ CourseInv

\* A call of run() is at the start of its course, whatever the locals hold.
LEMMA CallIsOnCourse ==
    ASSUME NEW pair, pc' = "called", pending' = Range(pair.demo.scenario.ttis), calls' = <<>>
    PROVE  PairCourse(pair)'
<1>1. Place(pair.algorithm)' = <<"called">>
  BY NextPlaceFacts
<1>2. OnCourse(pair.algorithm, pair.demo.scenario, <<"called">>)
  BY CourseStarts, Zenon
<1>3. Pace(pair.demo.scenario)'
  BY DEF Pace
<1>4. TieFree'
  BY DEF TieFree
<1> QED
  BY <1>1, <1>2, <1>3, <1>4 DEF PairCourse

\* Steps of the benchmark, the switch and the files move no run along.
LEMMA QuietIsOnCourse ==
    ASSUME NEW pair, PairCourse(pair), UNCHANGED runVars
    PROVE  PairCourse(pair)'
<1> DEFINE alg == pair.algorithm
<1>1. /\ UNCHANGED <<pc, pending, occupancyBytes, observable, step, schedulerState,
                     allDecisions, calls>>
      /\ UNCHANGED <<blockIndex, pointer, lastAssigned, assignments, served>>
      /\ UNCHANGED <<scanning, scanned, winner, bestCqi>>
  BY DEF runVars, loopVars, rrVars, scanVars
<1>2. Place(alg)' = Place(alg)
  BY <1>1 DEF Place, Carried, Inside, Locals
<1>3. Pace(pair.demo.scenario)' /\ (alg = "ProportionalFair" => TieFree')
  BY <1>1 DEF PairCourse, Pace, TieFree
<1> QED
  BY <1>2, <1>3 DEF PairCourse

\* The strengthening holds at the first call and over every step of the demo.
LEMMA MeasuredInvInit == Init => MeasuredInv
<1> SUFFICES ASSUME Init PROVE MeasuredInv
  OBVIOUS
<1>1. /\ phase = "decide" /\ results = <<>> /\ pc = "called" /\ calls = <<>>
      /\ input = ArgumentsOf(Pair(1).demo.scenario)
      /\ pending = Rotation!Range(input.ttis)
  BY DEF Init, Rotation!RoundRobinInit, Rotation!LoopInit
<1>2. Current = Pair(1)
  BY <1>1 DEF Current
<1>3. pending = Range(Pair(1).demo.scenario.ttis)
  BY <1>1 DEF ArgumentsOf, Range, Rotation!Range
<1>4. PairCourse(Pair(1))
  <2>1. OnCourse(Pair(1).algorithm, Pair(1).demo.scenario, <<"called">>)
    BY CourseStarts, Zenon
  <2>2. Place(Pair(1).algorithm) = <<"called">>
    BY <1>1, PlaceFacts
  <2>3. Pace(Pair(1).demo.scenario) /\ TieFree
    BY <1>1, <1>3 DEF Pace, TieFree
  <2> QED
    BY <2>1, <2>2, <2>3 DEF PairCourse
<1> QED
  BY <1>1, <1>2, <1>4, CleanInvInit DEF MeasuredInv, CourseInv

LEMMA MeasuredInvStep == MeasuredInv /\ [Next]_vars => MeasuredInv'
<1> SUFFICES ASSUME MeasuredInv, [Next]_vars PROVE MeasuredInv'
  OBVIOUS
<1>0. CleanInv /\ CourseInv /\ CleanInv' /\ DemoInv /\ RunInv /\ RunInv'
  BY CleanInvStep DEF MeasuredInv, CleanInv
<1> SUFFICES CourseInv'
  BY <1>0 DEF MeasuredInv
<1>1. CASE RunStep
  <2>1. /\ UNCHANGED <<phase, results, decisions>> /\ phase \in {"decide", "benchmark"}
    BY <1>1 DEF RunStep, Executing, demoVars
  <2>2. Current' = Current
    BY <2>1 DEF Current
  <2>3. \A pair : pair = Current => PairCourse(pair)'
    BY <1>0, <1>1, <2>1, RunStepFollows DEF CourseInv
  <2>4. PairCourse(Current)'
    BY <2>2, <2>3 DEF PairCourse
  <2> QED
    BY <1>0, <2>1, <2>2, <2>4 DEF CourseInv
\* Nothing of run() changes, or it is called again for the same pair.
<1>2. ASSUME UNCHANGED <<phase, results, decisions>>,
             UNCHANGED runVars \/ Call(Current)
      PROVE  CourseInv'
  <2>1. Current' = Current
    BY <1>2 DEF Current
  <2>2. ASSUME phase \in {"decide", "benchmark"}, NEW pair, pair = Current
        PROVE  PairCourse(pair)'
    <3>1. CASE UNCHANGED runVars
      BY <1>0, <2>2, <3>1, QuietIsOnCourse DEF CourseInv
    <3>2. CASE Call(Current)
      BY <2>2, <3>2, CallIsOnCourse DEF Call
    <3> QED
      BY <1>2, <3>1, <3>2
  <2>3. phase \in {"decide", "benchmark"} => PairCourse(Current)'
    BY <2>1, <2>2 DEF PairCourse
  <2> QED
    BY <1>0, <1>2, <2>1, <2>3 DEF CourseInv
<1>3. CASE BenchmarkStep \/ Interfere \/ UNCHANGED vars
  <2>1. UNCHANGED <<phase, results, decisions>> /\ (UNCHANGED runVars \/ Call(Current))
    BY <1>3 DEF BenchmarkStep, Interfere, demoVars, vars
  <2> QED
    BY <1>2, <2>1
<1>4. CASE Fail \/ Stop \/ OpenResults \/ WriteResults \/ OpenReport \/ WriteReport
  <2>1. phase' \notin {"decide", "benchmark"}
    BY <1>4 DEF Fail, Stop, OpenResults, WriteResults, OpenReport, WriteReport
  <2> QED
    BY <2>1 DEF CourseInv
<1>5. CASE Decide
  <2>1. /\ phase = "decide" /\ pc = "returned" /\ decisions' = allDecisions
        /\ results' = results /\ Call(Current)
    BY <1>5 DEF Decide
  <2>2. Current' = Current
    BY <2>1 DEF Current
  <2>3. \A pair : pair = Current => PairCourse(pair)'
    BY <2>1, CallIsOnCourse DEF Call
  <2>4. PairCourse(Current)'
    BY <2>2, <2>3 DEF PairCourse
  <2>5. Place(Current.algorithm) = <<"returned", decisions'>>
    BY <2>1, PlaceFacts
  <2>6. OnCourse(Current.algorithm, Current.demo.scenario, <<"returned", decisions'>>)
    BY <1>0, <2>1, <2>5 DEF CourseInv, PairCourse
  <2> QED
    BY <2>2, <2>4, <2>6 DEF CourseInv
\* Another pair, or the first one again.
<1>6. ASSUME NEW pair, Current' = pair, Call(pair), phase' = "decide"
      PROVE  CourseInv'
  <2>1. PairCourse(pair)'
    BY <1>6, CallIsOnCourse DEF Call
  <2>2. PairCourse(Current)'
    BY <1>6, <2>1 DEF PairCourse
  <2> QED
    BY <1>6, <2>2 DEF CourseInv
<1>7. CASE AppendResult
  <2>1. CASE Len(results') = PairCount
    BY <1>7, <2>1 DEF AppendResult, CourseInv
  <2>2. CASE Len(results') # PairCount
    <3>1. phase' = "decide" /\ Call(Current')
      BY <1>7, <2>2 DEF AppendResult, Current
    <3> QED
      BY <1>6, <3>1
  <2> QED
    BY <2>1, <2>2
<1>8. CASE Launch
  <2>1. results' = <<>> /\ Call(Pair(1)) /\ phase' = "decide"
    BY <1>8 DEF Launch
  <2>2. Current' = Pair(1)
    BY <2>1 DEF Current
  <2> QED
    BY <1>6, <2>1, <2>2
<1> QED
  BY <1>1, <1>3, <1>4, <1>5, <1>7, <1>8 DEF Next, Advance

\* Every run() the benchmark of a pair makes decides exactly as the run whose
\* decisions are recorded, whatever runs of whatever algorithm came before it,
\* were refused or were cut short.
THEOREM MeasuredRunsDecideTheSame == Spec => []MeasuredRunsAgree
<1>1. MeasuredInv => MeasuredRunsAgree
  <2> SUFFICES ASSUME MeasuredInv, Executing, pc = "returned"
               PROVE  allDecisions = decisions
    BY DEF MeasuredRunsAgree
  <2>1. PICK alg : alg = Current.algorithm
    OBVIOUS
  <2>2. PICK s : s = Current.demo.scenario
    OBVIOUS
  <2>3. Place(alg) = <<"returned", allDecisions>>
    BY PlaceFacts
  <2>4. /\ OnCourse(alg, s, <<"returned", allDecisions>>)
        /\ OnCourse(alg, s, <<"returned", decisions>>)
    BY <2>1, <2>2, <2>3 DEF MeasuredInv, CourseInv, PairCourse, Executing
  <2>5. <<"returned", allDecisions>> = <<"returned", decisions>>
    BY <2>4, OneReturn
  <2> QED
    BY <2>5
<1> QED
  BY MeasuredInvInit, MeasuredInvStep, <1>1, PTL DEF Spec
=============================================================================
