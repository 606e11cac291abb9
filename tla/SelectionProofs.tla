-------------------------- MODULE SelectionProofs --------------------------
(***************************************************************************)
(* Facts about numbers and sequences that the proofs of several components *)
(* rest on.  Induction is by the smallest counterexample: the library's    *)
(* induction theorems take an operator, its minimum principle a set.       *)
(***************************************************************************)
EXTENDS Selection, FiniteSetTheorems, SequenceTheorems, TLAPS

\* A set of natural numbers that is not empty has a smallest element.
LEMMA Smallest ==
  ASSUME NEW T \in SUBSET Nat, T # {}
  PROVE  \E n \in T : \A m \in T : n <= m
<1>1. PICK n \in T : \A m \in T : <<m, n>> \notin OpToRel(<, Nat)
  BY NatLessThanWellFounded, WFMin, Zenon
<1>2. ASSUME NEW m \in T, m < n PROVE FALSE
  <2>1. <<m, n>> \in OpToRel(<, Nat)
    BY <1>2, SMT DEF OpToRel
  <2>. QED  BY <1>1, <2>1
<1>. QED  BY <1>2

\* What holds of 0, and of each number up to a limit if of the one before, holds
\* of all of them.
LEMMA UpTo ==
  ASSUME NEW P, NEW N \in Nat, 0 \in P,
         \A n \in 1 .. N : n - 1 \in P => n \in P
  PROVE  \A n \in 0 .. N : n \in P
<1>. DEFINE T == { n \in 0 .. N : n \notin P }
<1>1. SUFFICES ASSUME T # {} PROVE FALSE
  OBVIOUS
<1>2. T \in SUBSET Nat
  OBVIOUS
<1>3. PICK n \in T : \A m \in T : n <= m
  BY <1>1, <1>2, Smallest
<1>4. n \in 1 .. N /\ n \notin P
  OBVIOUS
<1>5. n - 1 \in 0 .. N /\ ~(n <= n - 1)
  BY <1>4
<1>6. n - 1 \notin T
  BY <1>3, <1>5
<1>. QED  BY <1>4, <1>5, <1>6

\* A quotient and a remainder are known by what they are.
LEMMA Division ==
  ASSUME NEW q \in Nat, NEW n \in Nat \ {0}, NEW r \in 0 .. n - 1
  PROVE  (q * n + r) \div n = q /\ (q * n + r) % n = r
  OBVIOUS

\* Every number has them.
LEMMA Divided ==
  ASSUME NEW k \in Nat, NEW n \in Nat \ {0}
  PROVE  /\ k \div n \in Nat /\ k % n \in 0 .. n - 1
         /\ k = (k \div n) * n + (k % n)
  OBVIOUS

----------------------------------------------------------------------------
\* Selected

\* f is the selection from the first n elements, step by step.
Selects(f, s, set, n) ==
  \A i \in 0 .. n :
    f[i] = IF i = 0 THEN << >>
           ELSE IF s[i] \in set THEN Append(f[i - 1], s[i]) ELSE f[i - 1]

\* There is a selection, of sequences of elements of the set.
LEMMA SelectionExists ==
  ASSUME NEW S, NEW s \in Seq(S), NEW set
  PROVE  \E f \in [0 .. Len(s) -> Seq(S \cap set)] : Selects(f, s, set, Len(s))
<1>. DEFINE P == { n \in 0 .. Len(s) :
                     \E f \in [0 .. n -> Seq(S \cap set)] : Selects(f, s, set, n) }
<1>1. 0 \in P
  <2>. DEFINE f == [i \in 0 .. 0 |-> << >>]
  <2>1. << >> \in Seq(S \cap set)
    OBVIOUS
  <2>2. f \in [0 .. 0 -> Seq(S \cap set)] /\ Selects(f, s, set, 0)
    BY <2>1 DEF Selects
  <2>. HIDE DEF f
  <2>. QED  BY <2>2, SMT
<1>2. ASSUME NEW n \in 1 .. Len(s), n - 1 \in P
      PROVE  n \in P
  <2>1. PICK g \in [0 .. n - 1 -> Seq(S \cap set)] : Selects(g, s, set, n - 1)
    BY <1>2
  <2>. DEFINE last == IF s[n] \in set THEN Append(g[n - 1], s[n]) ELSE g[n - 1]
              f == [i \in 0 .. n |-> IF i = n THEN last ELSE g[i]]
  <2>2. last \in Seq(S \cap set)
    <3>1. g[n - 1] \in Seq(S \cap set) /\ s[n] \in S
      OBVIOUS
    <3>. QED  BY <3>1
  <2>. HIDE DEF last
  <2>3. f \in [0 .. n -> Seq(S \cap set)]
    BY <2>2
  <2>4. ASSUME NEW i \in 0 .. n
        PROVE  f[i] = IF i = 0 THEN << >>
                      ELSE IF s[i] \in set THEN Append(f[i - 1], s[i]) ELSE f[i - 1]
    <3>1. CASE i = n
      <4>1. f[i] = last /\ f[i - 1] = g[i - 1] /\ i # 0
        BY <3>1
      <4>. QED  BY <3>1, <4>1 DEF last
    <3>2. CASE i # n
      <4>1. i \in 0 .. n - 1 /\ f[i] = g[i]
        BY <3>2
      <4>2. i # 0 => f[i - 1] = g[i - 1]
        BY <3>2
      <4>. QED  BY <2>1, <4>1, <4>2 DEF Selects
    <3>. QED  BY <3>1, <3>2
  <2>5. Selects(f, s, set, n)
    BY <2>4 DEF Selects
  <2>. HIDE DEF f
  <2>. QED  BY <2>3, <2>5, SMT
<1>3. Len(s) \in P
  <2>1. Len(s) \in Nat
    OBVIOUS
  <2>. HIDE DEF P
  <2>2. \A n \in 0 .. Len(s) : n \in P
    BY <1>1, <1>2, <2>1, UpTo
  <2>. QED  BY <2>1, <2>2
<1>. QED  BY <1>3

\* There is only one.
LEMMA SelectionUnique ==
  ASSUME NEW s, NEW set, NEW n \in Nat, NEW f, NEW g,
         Selects(f, s, set, n), Selects(g, s, set, n)
  PROVE  \A i \in 0 .. n : f[i] = g[i]
<1>. DEFINE P == { i \in 0 .. n : f[i] = g[i] }
<1>1. 0 \in P
  BY DEF Selects
<1>2. ASSUME NEW i \in 1 .. n, i - 1 \in P
      PROVE  i \in P
  BY <1>2 DEF Selects
<1>. HIDE DEF P
<1>3. \A i \in 0 .. n : i \in P
  BY <1>1, <1>2, UpTo
<1>. QED  BY <1>3 DEF P

\* What is selected is the last value of any selection.
LEMMA SelectedIs ==
  ASSUME NEW S, NEW s \in Seq(S), NEW set, NEW f, Selects(f, s, set, Len(s))
  PROVE  Selected(s, set) = f[Len(s)]
<1>1. Len(s) \in Nat
  OBVIOUS
<1>. DEFINE g == [i \in 0 .. Len(s) |-> f[i]]
            first == CHOOSE first :
              first = [n \in 0 .. Len(s) |->
                         IF n = 0 THEN << >>
                         ELSE IF s[n] \in set THEN Append(first[n - 1], s[n])
                                              ELSE first[n - 1]]
<1>2. Selects(g, s, set, Len(s))
  BY <1>1 DEF Selects
<1>3. g = [n \in 0 .. Len(s) |->
             IF n = 0 THEN << >>
             ELSE IF s[n] \in set THEN Append(g[n - 1], s[n]) ELSE g[n - 1]]
  BY <1>1, <1>2 DEF Selects
<1>4. first = [n \in 0 .. Len(s) |->
                 IF n = 0 THEN << >>
                 ELSE IF s[n] \in set THEN Append(first[n - 1], s[n]) ELSE first[n - 1]]
  <2>. HIDE DEF g
  <2>. QED  BY <1>3, Zenon
<1>5. Selected(s, set) = first[Len(s)]
  BY DEF Selected
<1>. HIDE DEF first
<1>6. Selects(first, s, set, Len(s))
  BY <1>4 DEF Selects
<1>. QED  BY <1>1, <1>5, <1>6, SelectionUnique

\* The elements that are selected are elements, and in the set.
LEMMA SelectedType ==
  ASSUME NEW S, NEW s \in Seq(S), NEW set
  PROVE  Selected(s, set) \in Seq(S \cap set)
<1>1. PICK f \in [0 .. Len(s) -> Seq(S \cap set)] : Selects(f, s, set, Len(s))
  BY SelectionExists
<1>2. Selected(s, set) = f[Len(s)]
  BY <1>1, SelectedIs
<1>. QED  BY <1>2

\* Nothing is selected of nothing.
LEMMA SelectedEmpty ==
  ASSUME NEW set
  PROVE  Selected(<< >>, set) = << >>
<1>1. << >> \in Seq({}) /\ Len(<< >>) = 0
  OBVIOUS
<1>2. Selected(<< >>, set) \in Seq({} \cap set)
  BY <1>1, SelectedType
<1>3. {} \cap set = {}
  OBVIOUS
<1>4. PICK f : Selects(f, << >>, set, 0)
  BY <1>1, SelectionExists
<1>5. f[0] = << >>
  BY <1>4 DEF Selects
<1>. QED  BY <1>1, <1>4, <1>5, SelectedIs

\* The last element of a sequence is the last to be selected, if it is.
LEMMA SelectedAppend ==
  ASSUME NEW S, NEW s \in Seq(S), NEW e \in S, NEW set
  PROVE  Selected(Append(s, e), set) =
           IF e \in set THEN Append(Selected(s, set), e) ELSE Selected(s, set)
<1>. DEFINE t == Append(s, e)
<1>1. /\ Len(s) \in Nat /\ t \in Seq(S) /\ Len(t) = Len(s) + 1
      /\ t[Len(s) + 1] = e
      /\ \A i \in 1 .. Len(s) : t[i] = s[i]
  OBVIOUS
<1>. HIDE DEF t
<1>2. PICK f : Selects(f, t, set, Len(t))
  BY <1>1, SelectionExists
<1>3. Selects(f, s, set, Len(s))
  BY <1>1, <1>2 DEF Selects
<1>4. Selected(s, set) = f[Len(s)]
  BY <1>3, SelectedIs
<1>5. Selected(t, set) = f[Len(s) + 1]
  BY <1>1, <1>2, SelectedIs
<1>6. f[Len(s) + 1] = IF e \in set THEN Append(f[Len(s)], e) ELSE f[Len(s)]
  <2>1. Len(s) + 1 \in 0 .. Len(t) /\ Len(s) + 1 # 0 /\ (Len(s) + 1) - 1 = Len(s)
    BY <1>1
  <2>. QED  BY <1>1, <1>2, <2>1 DEF Selects
<1>. QED  BY <1>4, <1>5, <1>6 DEF t

\* A set that agrees on the elements of the sequence selects the same.
LEMMA SelectedSame ==
  ASSUME NEW S, NEW s \in Seq(S), NEW set, NEW other,
         \A i \in 1 .. Len(s) : s[i] \in set <=> s[i] \in other
  PROVE  Selected(s, set) = Selected(s, other)
<1>1. PICK f : Selects(f, s, set, Len(s))
  BY SelectionExists
<1>2. Selects(f, s, other, Len(s))
  BY <1>1 DEF Selects
<1>. QED  BY <1>1, <1>2, SelectedIs
=============================================================================
