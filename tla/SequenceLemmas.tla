--------------------------- MODULE SequenceLemmas ----------------------------
(***************************************************************************)
(* Facts about recursive functions, about FlattenSeq and about selections  *)
(* that the proofs keep needing.  The induction theorems of the library    *)
(* take a predicate as a parameter; here a set stands for it, and a        *)
(* function for the step of a recursion, so that the facts can be cited.   *)
(***************************************************************************)
EXTENDS Integers, Selections, SequenceTheorems, FiniteSetTheorems, WellFoundedInduction, TLAPS

(* Induction over the natural numbers, of a set instead of a predicate.      *)
LEMMA Induction ==
  ASSUME NEW S, 0 \in S, \A n \in Nat : n \in S => n + 1 \in S
  PROVE  Nat \subseteq S
<1> SUFFICES ASSUME Nat \ S # {} PROVE FALSE
  OBVIOUS
<1> DEFINE R == OpToRel(<, Nat)
<1>1. R = {ss \in Nat \X Nat : ss[1] < ss[2]}
  BY DEF OpToRel
<1>2. IsWellFoundedOn(R, Nat)
  BY NatLessThanWellFounded
<1> HIDE DEF R
<1>3. \E x \in Nat \ S : \A y \in Nat \ S : ~(<<y, x>> \in R)
  BY <1>2, WFMin
<1>4. PICK x \in Nat \ S : \A y \in Nat \ S : ~(<<y, x>> \in R)
  BY <1>3
<1>5. x # 0 /\ x - 1 \in Nat
  BY <1>4
<1>6. x - 1 \in Nat \ S
  BY <1>5
<1>7. <<x - 1, x>> \in R
  BY <1>1, <1>5
<1> QED BY <1>4, <1>6, <1>7

(* The same up to a bound.                                                    *)
LEMMA InductionUpTo ==
  ASSUME NEW n \in Nat, NEW S, 0 \in S, \A i \in 1 .. n : i - 1 \in S => i \in S
  PROVE  0 .. n \subseteq S
<1> DEFINE T == {i \in Nat : i <= n => i \in S}
<1>1. 0 \in T
  OBVIOUS
<1>2. ASSUME NEW i \in Nat, i \in T PROVE i + 1 \in T
  <2>1. CASE i + 1 <= n
    <3>1. i + 1 \in 1 .. n /\ (i + 1) - 1 = i /\ i \in S
      BY <1>2, <2>1
    <3> QED BY <3>1
  <2>2. CASE ~(i + 1 <= n)
    BY <2>2
  <2> QED BY <2>1, <2>2
<1> HIDE DEF T
<1>3. Nat \subseteq T
  BY <1>1, <1>2, Induction
<1> QED BY <1>3 DEF T

(* A recursion that stays in a set defines a function.                       *)
StaysIn(V, n, step) == \A i \in 1 .. n : \A v \in V : step[i][v] \in V
Recurs(f, V, n, b, step) ==
  /\ f \in [0 .. n -> V]
  /\ f[0] = b
  /\ \A i \in 1 .. n : f[i] = step[i][f[i - 1]]

LEMMA Recursion ==
  ASSUME NEW n \in Nat, NEW V, NEW b \in V, NEW step, StaysIn(V, n, step)
  PROVE  \E f : Recurs(f, V, n, b, step)
<1> USE DEF StaysIn
<1> DEFINE Good(k, f) == f[0] = b /\ \A i \in 1 .. k : f[i] = step[i][f[i - 1]]
           S == {k \in 0 .. n : \E f \in [0 .. k -> V] : Good(k, f)}
<1>1. 0 \in S
  <2> DEFINE f == [i \in 0 .. 0 |-> b]
  <2>1. f \in [0 .. 0 -> V] /\ f[0] = b
    OBVIOUS
  <2> HIDE DEF f
  <2>2. \E g \in [0 .. 0 -> V] : Good(0, g)
    <3>1. Good(0, f)
      BY <2>1
    <3> QED BY <2>1, <3>1
  <2> QED BY <2>2
<1>2. ASSUME NEW i \in 1 .. n, i - 1 \in S PROVE i \in S
  <2>1. PICK f \in [0 .. i - 1 -> V] : Good(i - 1, f)
    BY <1>2
  <2> DEFINE g == [j \in 0 .. i |-> IF j = i THEN step[i][f[i - 1]] ELSE f[j]]
  <2>2. f[i - 1] \in V
    BY <2>1
  <2>3. step[i][f[i - 1]] \in V
    BY <2>2
  <2>4. g \in [0 .. i -> V]
    BY <2>3, <2>1
  <2>5. g[0] = b
    BY <2>1
  <2>6. ASSUME NEW j \in 1 .. i PROVE g[j] = step[j][g[j - 1]]
    <3>1. CASE j = i
      <4>1. g[j] = step[i][f[i - 1]] /\ g[j - 1] = f[i - 1]
        BY <3>1
      <4> QED BY <4>1, <3>1
    <3>2. CASE j # i
      <4>1. j \in 1 .. i - 1 /\ g[j] = f[j] /\ g[j - 1] = f[j - 1]
        BY <3>2
      <4> QED BY <4>1, <2>1
    <3> QED BY <3>1, <3>2
  <2> HIDE DEF g
  <2> QED BY <2>4, <2>5, <2>6
<1> HIDE DEF S
<1>3. 0 .. n \subseteq S
  BY <1>1, <1>2, InductionUpTo
<1>4. n \in S
  BY <1>3
<1> QED BY <1>4 DEF S, Recurs

(* The same for one that begins with the first of a sequence of values.      *)
Composes(V, op) == \A v \in V : \A w \in V : op[v][w] \in V
Folds(f, V, n, s, op) ==
  /\ f \in [1 .. n -> V]
  /\ f[1] = s[1]
  /\ \A i \in 2 .. n : f[i] = op[f[i - 1]][s[i]]

LEMMA Folding ==
  ASSUME NEW n \in Nat, n > 0, NEW V, NEW s, \A i \in 1 .. n : s[i] \in V,
         NEW op, Composes(V, op)
  PROVE  \E f : Folds(f, V, n, s, op)
<1> USE DEF Composes
<1> DEFINE m == n - 1
           step == [i \in 1 .. m |-> [v \in V |-> op[v][s[i + 1]]]]
<1>1. \A i \in 1 .. m : \A v \in V : step[i][v] = op[v][s[i + 1]]
  OBVIOUS
<1>2. StaysIn(V, m, step)
  <2>1. \A i \in 1 .. m : s[i + 1] \in V
    OBVIOUS
  <2> HIDE DEF step
  <2> QED BY <2>1, <1>1 DEF StaysIn
<1>3. m \in Nat /\ s[1] \in V
  OBVIOUS
<1> HIDE DEF step, m
<1>a. PICK g : Recurs(g, V, m, s[1], step)
  BY <1>2, <1>3, Recursion
<1>4. /\ g \in [0 .. m -> V]
      /\ g[0] = s[1] /\ \A i \in 1 .. m : g[i] = step[i][g[i - 1]]
  BY <1>a DEF Recurs
<1>5. \A i \in 1 .. m : g[i] = op[g[i - 1]][s[i + 1]]
  <2> TAKE i \in 1 .. m
  <2>1. g[i - 1] \in V
    BY <1>3, <1>4
  <2> QED BY <2>1, <1>1, <1>4
<1> DEFINE f == [i \in 1 .. n |-> g[i - 1]]
<1>6. f \in [1 .. n -> V] /\ f[1] = s[1]
  BY <1>4 DEF m
<1>7. \A i \in 2 .. n : f[i] = op[f[i - 1]][s[i]]
  <2> TAKE i \in 2 .. n
  <2>1. i - 1 \in 1 .. m /\ (i - 1) + 1 = i
    BY DEF m
  <2>2. g[i - 1] = op[g[i - 1 - 1]][s[(i - 1) + 1]]
    BY <1>5, <2>1
  <2>3. f[i] = g[i - 1] /\ f[i - 1] = g[i - 1 - 1]
    OBVIOUS
  <2> QED BY <2>1, <2>2, <2>3
<1> HIDE DEF f
<1> QED BY <1>6, <1>7 DEF Folds

-----------------------------------------------------------------------------
(* FlattenSeq as the recursion it is.                                        *)
Cat(a, b) == a \o b

LEMMA FlattenRecursion ==
  ASSUME NEW S, NEW s \in Seq(Seq(S)), s # <<>>
  PROVE  \E f \in [1 .. Len(s) -> Seq(S)] :
           /\ f[1] = s[1]
           /\ \A i \in 2 .. Len(s) : f[i] = Cat(f[i - 1], s[i])
           /\ FlattenSeq(s) = f[Len(s)]
<1> DEFINE V == Seq(S)
           cat == [a \in V |-> [b \in V |-> Cat(a, b)]]
<1>1. \A a \in V : \A b \in V : cat[a][b] = Cat(a, b)
  OBVIOUS
<1>2. Composes(V, cat)
  <2>1. \A a \in V : \A b \in V : Cat(a, b) \in V
    BY DEF Cat
  <2> HIDE DEF cat
  <2> QED BY <2>1, <1>1 DEF Composes
<1>3. Len(s) \in Nat /\ Len(s) > 0 /\ \A i \in 1 .. Len(s) : s[i] \in V
  OBVIOUS
<1> HIDE DEF V, cat
<1>4. PICK n \in Nat : n = Len(s)
  BY <1>3
<1> n > 0 /\ \A i \in 1 .. n : s[i] \in V
  BY <1>3, <1>4
<1>a. PICK f : Folds(f, V, n, s, cat)
  BY <1>2, Folding
<1>5. /\ f \in [1 .. n -> V]
      /\ f[1] = s[1] /\ \A i \in 2 .. n : f[i] = cat[f[i - 1]][s[i]]
  BY <1>a DEF Folds
<1>6. \A i \in 2 .. n : f[i] = Cat(f[i - 1], s[i])
  <2> TAKE i \in 2 .. n
  <2>1. f[i - 1] \in V /\ s[i] \in V
    BY <1>5
  <2> QED BY <2>1, <1>1, <1>5
<1> DEFINE E(g) == [i \in 1 .. n |-> IF i = 1 THEN s[i] ELSE Cat(g[i - 1], s[i])]
           flatten == CHOOSE g : g = E(g)
<1>7. f = E(f)
  <2>1. \A i \in 1 .. n : f[i] = E(f)[i]
    BY <1>5, <1>6
  <2>2. DOMAIN E(f) = 1 .. n /\ E(f) = [i \in 1 .. n |-> E(f)[i]]
    OBVIOUS
  <2>3. f = [i \in 1 .. n |-> f[i]]
    BY <1>5
  <2> HIDE DEF E
  <2> QED BY <2>1, <2>2, <2>3
<1>8. flatten = E(flatten)
  <2> HIDE DEF E
  <2> QED BY <1>7
<1>9. FlattenSeq(s) = flatten[n]
  BY <1>3, <1>4 DEF FlattenSeq, Cat
<1> HIDE DEF flatten
<1>10. flatten[1] = s[1]
  <2>1. E(flatten)[1] = s[1]
    OBVIOUS
  <2> HIDE DEF E
  <2> QED BY <1>8, <2>1
<1>11. \A i \in 2 .. n : flatten[i] = Cat(flatten[i - 1], s[i])
  <2> TAKE i \in 2 .. n
  <2>1. E(flatten)[i] = Cat(flatten[i - 1], s[i])
    OBVIOUS
  <2> HIDE DEF E
  <2> QED BY <1>8, <2>1
<1>12. \A i \in 1 .. n : flatten[i] = f[i]
  <2> DEFINE T == {i \in 0 .. n : i = 0 \/ flatten[i] = f[i]}
  <2>1. 0 \in T
    OBVIOUS
  <2>2. ASSUME NEW i \in 1 .. n, i - 1 \in T PROVE i \in T
    <3>1. CASE i = 1
      BY <3>1, <1>10, <1>5
    <3>2. CASE i # 1
      <4>1. i \in 2 .. n /\ flatten[i - 1] = f[i - 1]
        BY <3>2, <2>2
      <4> QED BY <4>1, <1>11, <1>6
    <3> QED BY <3>1, <3>2
  <2> HIDE DEF T
  <2>3. 0 .. n \subseteq T
    BY <2>1, <2>2, InductionUpTo
  <2> QED BY <2>3 DEF T
<1>13. FlattenSeq(s) = f[n]
  BY <1>9, <1>12
<1> HIDE DEF E
<1> QED BY <1>13, <1>4, <1>5, <1>6 DEF V

(* What has been flattened after each of the sequences, from none on.         *)
Flattens(g, S, s) ==
  /\ g \in [0 .. Len(s) -> Seq(S)]
  /\ g[0] = <<>>
  /\ \A i \in 1 .. Len(s) : g[i] = Cat(g[i - 1], s[i])

LEMMA CatTypes ==
  ASSUME NEW S, NEW a \in Seq(S), NEW b \in Seq(S)
  PROVE  /\ Cat(a, b) \in Seq(S)
         /\ Cat(a, <<>>) = a /\ Cat(<<>>, a) = a
BY ConcatEmptySeq DEF Cat

LEMMA FlattenExists ==
  ASSUME NEW S, NEW s \in Seq(Seq(S))
  PROVE  \E g : Flattens(g, S, s) /\ FlattenSeq(s) = g[Len(s)]
<1>1. CASE s = <<>>
  <2> DEFINE g == [i \in 0 .. 0 |-> <<>>]
  <2>1. g \in [0 .. 0 -> Seq(S)] /\ g[0] = <<>>
    OBVIOUS
  <2>2. FlattenSeq(s) = <<>> /\ Len(s) = 0
    BY <1>1 DEF FlattenSeq
  <2> HIDE DEF g
  <2>3. Flattens(g, S, s)
    BY <2>1, <2>2 DEF Flattens
  <2> QED BY <2>1, <2>2, <2>3
<1>2. CASE s # <<>>
  <2>1. PICK f \in [1 .. Len(s) -> Seq(S)] :
           /\ f[1] = s[1]
           /\ \A i \in 2 .. Len(s) : f[i] = Cat(f[i - 1], s[i])
           /\ FlattenSeq(s) = f[Len(s)]
    BY <1>2, FlattenRecursion
  <2> DEFINE n == Len(s)
             g == [i \in 0 .. n |-> IF i = 0 THEN <<>> ELSE f[i]]
  <2>2. n \in Nat /\ n > 0 /\ s[1] \in Seq(S)
    BY <1>2
  <2> HIDE DEF n
  <2>3. g \in [0 .. n -> Seq(S)]
    <3>1. \A i \in 1 .. n : f[i] \in Seq(S)
      BY <2>1 DEF n
    <3>2. <<>> \in Seq(S)
      OBVIOUS
    <3> DEFINE V == Seq(S)
    <3> HIDE DEF V
    <3>3. \A i \in 0 .. n : (IF i = 0 THEN <<>> ELSE f[i]) \in V
      BY <3>1, <3>2 DEF V
    <3>4. g \in [0 .. n -> V]
      BY <3>3
    <3> QED BY <3>4 DEF V
  <2>4. ASSUME NEW i \in 1 .. n PROVE g[i] = Cat(g[i - 1], s[i])
    <3>1. CASE i = 1
      <4>1. g[i] = s[1] /\ g[i - 1] = <<>>
        BY <2>1, <2>2, <3>1
      <4>2. Cat(<<>>, s[1]) = s[1]
        BY <2>2, CatTypes
      <4> QED BY <4>1, <4>2, <3>1
    <3>2. CASE i # 1
      <4>1. i \in 2 .. n /\ g[i] = f[i] /\ g[i - 1] = f[i - 1]
        BY <2>2, <3>2
      <4>2. f[i] = Cat(f[i - 1], s[i])
        BY <4>1, <2>1 DEF n
      <4> QED BY <4>1, <4>2
    <3> QED BY <3>1, <3>2
  <2>5. g[0] = <<>> /\ g[n] = f[n]
    BY <2>2
  <2> HIDE DEF g
  <2>6. Flattens(g, S, s)
    BY <2>3, <2>4, <2>5 DEF Flattens, n
  <2> QED BY <2>1, <2>5, <2>6 DEF n
<1> QED BY <1>1, <1>2

LEMMA FlattenUnique ==
  ASSUME NEW S, NEW s \in Seq(Seq(S)), NEW g, Flattens(g, S, s)
  PROVE  FlattenSeq(s) = g[Len(s)]
<1>1. PICK f : Flattens(f, S, s) /\ FlattenSeq(s) = f[Len(s)]
  BY FlattenExists
<1>2. PICK n \in Nat : n = Len(s)
  OBVIOUS
<1> DEFINE T == {i \in 0 .. n : f[i] = g[i]}
<1>3. 0 \in T
  BY <1>1 DEF Flattens
<1>4. ASSUME NEW i \in 1 .. n, i - 1 \in T PROVE i \in T
  <2>1. f[i - 1] = g[i - 1]
    BY <1>4
  <2>2. f[i] = Cat(f[i - 1], s[i]) /\ g[i] = Cat(g[i - 1], s[i])
    BY <1>1, <1>2 DEF Flattens
  <2> QED BY <2>1, <2>2
<1> HIDE DEF T
<1>5. 0 .. n \subseteq T
  BY <1>3, <1>4, InductionUpTo
<1>6. n \in T
  BY <1>5
<1> QED BY <1>6, <1>1, <1>2 DEF T

LEMMA FlattenType ==
  ASSUME NEW S, NEW s \in Seq(Seq(S))
  PROVE  FlattenSeq(s) \in Seq(S)
<1>1. PICK f : Flattens(f, S, s) /\ FlattenSeq(s) = f[Len(s)]
  BY FlattenExists
<1>2. Len(s) \in 0 .. Len(s)
  OBVIOUS
<1> QED BY <1>1, <1>2 DEF Flattens

LEMMA FlattenEmpty == FlattenSeq(<<>>) = <<>>
BY DEF FlattenSeq

LEMMA FlattenConcat ==
  ASSUME NEW S, NEW s \in Seq(Seq(S)), NEW t \in Seq(Seq(S))
  PROVE  FlattenSeq(s \o t) = FlattenSeq(s) \o FlattenSeq(t)
<1>1. PICK f : Flattens(f, S, s) /\ FlattenSeq(s) = f[Len(s)]
  BY FlattenExists
<1>2. PICK g : Flattens(g, S, t) /\ FlattenSeq(t) = g[Len(t)]
  BY FlattenExists
<1>3. PICK m \in Nat, n \in Nat : m = Len(s) /\ n = Len(t)
  OBVIOUS
<1>4. PICK st : st = s \o t
  OBVIOUS
<1>a. st \in Seq(Seq(S)) /\ Len(st) = m + n
  BY <1>3, <1>4
<1>5. (\A i \in 1 .. m : st[i] = s[i]) /\ \A j \in 1 .. n : st[m + j] = t[j]
  <2>1. \A i \in 1 .. m + n : st[i] = IF i <= m THEN s[i] ELSE t[i - m]
    BY <1>3, <1>4
  <2>2. \A j \in 1 .. n : m + j \in 1 .. m + n /\ ~(m + j <= m) /\ (m + j) - m = j
    OBVIOUS
  <2>3. \A j \in 1 .. n : st[m + j] = t[j]
    BY <2>1, <2>2
  <2> QED BY <2>1, <2>3
<1> DEFINE V == Seq(S)
           h == [i \in 0 .. m + n |-> IF i <= m THEN f[i] ELSE Cat(f[m], g[i - m])]
<1>6. /\ f \in [0 .. m -> V] /\ f[0] = <<>> /\ \A i \in 1 .. m : f[i] = Cat(f[i - 1], s[i])
      /\ g \in [0 .. n -> V] /\ g[0] = <<>> /\ \A i \in 1 .. n : g[i] = Cat(g[i - 1], t[i])
  BY <1>1, <1>2, <1>3 DEF Flattens
<1>7. \A i \in 1 .. n : t[i] \in V
  BY <1>3
<1>8. \A a \in V, b \in V : Cat(a, b) \in V /\ Cat(a, <<>>) = a
  BY CatTypes
<1>9. \A a \in V, b \in V, c \in V : Cat(Cat(a, b), c) = Cat(a, Cat(b, c))
  <2> TAKE a \in V, b \in V, c \in V
  <2>1. (a \o b) \o c = a \o (b \o c)
    BY ConcatAssociative, SMTT(20)
  <2> QED BY <2>1 DEF Cat
<1> HIDE DEF V
<1>b. (\A i \in 0 .. m : h[i] = f[i]) /\ \A j \in 1 .. n : h[m + j] = Cat(f[m], g[j])
  <2>1. \A j \in 1 .. n : m + j \in 0 .. m + n /\ ~(m + j <= m) /\ (m + j) - m = j
    OBVIOUS
  <2>2. \A j \in 1 .. n : h[m + j] = Cat(f[m], g[j])
    BY <2>1
  <2> QED BY <2>2
<1>c. DOMAIN h = 0 .. m + n /\ h = [i \in 0 .. m + n |-> h[i]]
  OBVIOUS
<1>d. \A i \in 0 .. m + n : i \in 0 .. m \/ \E j \in 1 .. n : i = m + j
  <2> TAKE i \in 0 .. m + n
  <2>1. CASE ~(i \in 0 .. m)
    <3>1. i - m \in 1 .. n /\ i = m + (i - m)
      BY <2>1
    <3> QED BY <3>1
  <2> QED BY <2>1
<1> HIDE DEF h
<1>10. h \in [0 .. m + n -> V]
  <2>1. (\A i \in 0 .. m : f[i] \in V) /\ \A j \in 1 .. n : Cat(f[m], g[j]) \in V
    <3>1. f[m] \in V /\ \A j \in 1 .. n : g[j] \in V
      BY <1>6
    <3> QED BY <3>1, <1>6, <1>8
  <2>2. \A i \in 0 .. m + n : h[i] \in V
    BY <2>1, <1>b, <1>d
  <2> QED BY <2>2, <1>c
<1>11. h[0] = <<>> /\ h[m + n] = Cat(f[m], g[n])
  <2>1. CASE n = 0
    <3>1. Cat(f[m], g[n]) = f[m]
      BY <2>1, <1>6, <1>8
    <3> QED BY <2>1, <3>1, <1>6, <1>b
  <2>2. CASE n # 0
    BY <2>2, <1>6, <1>b
  <2> QED BY <2>1, <2>2
<1>12. ASSUME NEW i \in 1 .. m + n PROVE h[i] = Cat(h[i - 1], st[i])
  <2>1. CASE i <= m
    <3>1. h[i] = f[i] /\ h[i - 1] = f[i - 1] /\ st[i] = s[i] /\ i \in 1 .. m
      BY <2>1, <1>5, <1>b
    <3> QED BY <3>1, <1>6
  <2>2. CASE i > m
    <3>1. PICK j \in 1 .. n : i = m + j
      BY <2>2, <1>d
    <3>2. h[i] = Cat(f[m], g[j]) /\ st[i] = t[j]
      BY <3>1, <1>5, <1>b
    <3>3. g[j] = Cat(g[j - 1], t[j]) /\ g[j - 1] \in V /\ f[m] \in V /\ t[j] \in V
      BY <1>6, <1>7
    <3>4. Cat(f[m], Cat(g[j - 1], t[j])) = Cat(Cat(f[m], g[j - 1]), t[j])
      BY <3>3, <1>9
    <3>5. h[i - 1] = Cat(f[m], g[j - 1])
      <4>1. CASE j = 1
        <5>1. i - 1 = m /\ j - 1 = 0
          BY <4>1, <3>1
        <5>2. h[m] = f[m]
          BY <1>b
        <5>3. Cat(f[m], <<>>) = f[m]
          BY <1>8, <3>3
        <5> QED BY <5>1, <5>2, <5>3, <1>6
      <4>2. CASE j # 1
        <5>1. j - 1 \in 1 .. n /\ i - 1 = m + (j - 1)
          BY <4>2, <3>1
        <5> QED BY <5>1, <1>b
      <4> QED BY <4>1, <4>2
    <3> QED BY <3>2, <3>3, <3>4, <3>5
  <2> QED BY <2>1, <2>2
<1>13. Flattens(h, S, st)
  BY <1>a, <1>10, <1>11, <1>12 DEF Flattens, V
<1>14. FlattenSeq(st) = h[m + n]
  BY <1>a, <1>13, FlattenUnique
<1> QED BY <1>14, <1>11, <1>1, <1>2, <1>3, <1>4 DEF Cat

LEMMA FlattenSingle ==
  ASSUME NEW S, NEW a \in Seq(S)
  PROVE  FlattenSeq(<<a>>) = a
<1>1. <<a>> \in Seq(Seq(S)) /\ Len(<<a>>) = 1 /\ <<a>>[1] = a /\ <<a>> # <<>>
  OBVIOUS
<1>2. PICK f \in [1 .. Len(<<a>>) -> Seq(S)] :
        f[1] = <<a>>[1] /\ FlattenSeq(<<a>>) = f[Len(<<a>>)]
  BY <1>1, FlattenRecursion
<1> QED BY <1>1, <1>2

LEMMA FlattenAppend ==
  ASSUME NEW S, NEW s \in Seq(Seq(S)), NEW a \in Seq(S)
  PROVE  FlattenSeq(Append(s, a)) = FlattenSeq(s) \o a
<1>1. Append(s, a) = s \o <<a>> /\ <<a>> \in Seq(Seq(S))
  BY AppendIsConcat
<1>2. FlattenSeq(s \o <<a>>) = FlattenSeq(s) \o FlattenSeq(<<a>>)
  BY <1>1, FlattenConcat
<1>3. FlattenSeq(<<a>>) = a
  BY FlattenSingle
<1> QED BY <1>1, <1>2, <1>3

-----------------------------------------------------------------------------
(* Induction over sequences, of a set instead of a predicate.                *)
LEMMA SeqInduction ==
  ASSUME NEW S, NEW P, <<>> \in P,
         \A s \in Seq(S) : \A e \in S : s \in P => Append(s, e) \in P
  PROVE  Seq(S) \subseteq P
<1> DEFINE T == {n \in Nat : \A s \in Seq(S) : Len(s) = n => s \in P}
<1>1. 0 \in T
  BY EmptySeq
<1>2. ASSUME NEW n \in Nat, n \in T PROVE n + 1 \in T
  <2> SUFFICES ASSUME NEW s \in Seq(S), Len(s) = n + 1 PROVE s \in P
    OBVIOUS
  <2>1. s # <<>>
    OBVIOUS
  <2>2. PICK r \in Seq(S), e \in S : s = Append(r, e)
    BY <2>1, SequenceEmptyOrAppend
  <2>3. Len(r) = n
    BY <2>2
  <2>4. r \in P
    BY <2>3, <1>2
  <2> QED BY <2>2, <2>4
<1> HIDE DEF T
<1>3. Nat \subseteq T
  BY <1>1, <1>2, Induction
<1> QED BY <1>3 DEF T

LEMMA FunctionIsSeq ==
  ASSUME NEW S, NEW n \in Nat, NEW f \in [1 .. n -> S]
  PROVE  f \in Seq(S) /\ Len(f) = n /\ DOMAIN f = 1 .. n
BY SeqDef

(* What Within flattens.                                                      *)
Chosen(s, X) == [i \in DOMAIN s |-> IF s[i] \in X THEN <<s[i]>> ELSE <<>>]

LEMMA ChosenType ==
  ASSUME NEW S, NEW s \in Seq(S), NEW X
  PROVE  Chosen(s, X) \in Seq(Seq(S)) /\ Len(Chosen(s, X)) = Len(s)
<1>1. PICK n \in Nat : n = Len(s) /\ DOMAIN s = 1 .. n
  OBVIOUS
<1>2. \A i \in 1 .. n : (IF s[i] \in X THEN <<s[i]>> ELSE <<>>) \in Seq(S)
  BY <1>1
<1> DEFINE V == Seq(S)
<1> HIDE DEF V
<1>3. Chosen(s, X) \in [1 .. n -> V]
  BY <1>1, <1>2 DEF Chosen, V
<1> QED BY <1>1, <1>3, FunctionIsSeq DEF V

LEMMA ConcatFacts ==
  ASSUME NEW S, NEW s \in Seq(S), NEW t \in Seq(S)
  PROVE  /\ s \o t \in Seq(S)
         /\ Len(s \o t) = Len(s) + Len(t)
         /\ \A i \in 1 .. Len(s) : (s \o t)[i] = s[i]
         /\ \A i \in 1 .. Len(t) : (s \o t)[Len(s) + i] = t[i]
<1> DEFINE st == s \o t
<1>1. /\ st \in Seq(S)
      /\ Len(st) = Len(s) + Len(t)
      /\ \A i \in 1 .. Len(s) + Len(t) : st[i] = IF i <= Len(s) THEN s[i] ELSE t[i - Len(s)]
  BY ConcatProperties
<1>2. Len(s) \in Nat /\ Len(t) \in Nat
  OBVIOUS
<1> HIDE DEF st
<1>3. \A i \in 1 .. Len(t) : /\ Len(s) + i \in 1 .. Len(s) + Len(t)
                             /\ ~(Len(s) + i <= Len(s)) /\ (Len(s) + i) - Len(s) = i
  BY <1>2
<1>4. \A i \in 1 .. Len(t) : st[Len(s) + i] = t[i]
  BY <1>1, <1>3
<1>5. \A i \in 1 .. Len(s) : st[i] = s[i]
  BY <1>1, <1>2
<1> QED BY <1>1, <1>4, <1>5 DEF st

(* Two sequences of a sum of lengths are equal if both their parts are.      *)
LEMMA EqualByParts ==
  ASSUME NEW S, NEW a \in Seq(S), NEW b \in Seq(S), NEW m \in Nat, NEW n \in Nat,
         Len(a) = m + n, Len(b) = m + n,
         \A i \in 1 .. m : a[i] = b[i], \A i \in 1 .. n : a[m + i] = b[m + i]
  PROVE  a = b
<1>1. \A i \in 1 .. m + n : a[i] = b[i]
  <2> TAKE i \in 1 .. m + n
  <2>1. CASE i > m
    <3>1. i - m \in 1 .. n /\ m + (i - m) = i
      BY <2>1
    <3> QED BY <3>1
  <2>2. CASE ~(i > m)
    BY <2>2
  <2> QED BY <2>1, <2>2
<1> QED BY <1>1, SeqEqual

LEMMA WithinConcat ==
  ASSUME NEW S, NEW s \in Seq(S), NEW t \in Seq(S), NEW X
  PROVE  Within(s \o t, X) = Within(s, X) \o Within(t, X)
<1> DEFINE st == s \o t
           cs == Chosen(s, X)
           ct == Chosen(t, X)
           cst == Chosen(st, X)
           c == cs \o ct
           m == Len(s)
           n == Len(t)
<1>1. /\ st \in Seq(S) /\ Len(st) = m + n
      /\ \A i \in 1 .. m : st[i] = s[i]
      /\ \A i \in 1 .. n : st[m + i] = t[i]
  BY ConcatFacts
<1>2. m \in Nat /\ n \in Nat /\ DOMAIN s = 1 .. m /\ DOMAIN t = 1 .. n
  OBVIOUS
<1>3. Within(s, X) = FlattenSeq(cs) /\ Within(t, X) = FlattenSeq(ct) /\ Within(st, X) = FlattenSeq(cst)
  BY DEF Within, Chosen
<1> HIDE DEF st
<1>4. cs \in Seq(Seq(S)) /\ ct \in Seq(Seq(S)) /\ Len(cs) = m /\ Len(ct) = n
  BY ChosenType
<1>5. cst \in Seq(Seq(S)) /\ Len(cst) = m + n
  BY <1>1, ChosenType
<1>a. DOMAIN st = 1 .. m + n
  BY <1>1
<1>6. (\A i \in 1 .. m : cst[i] = cs[i]) /\ \A i \in 1 .. n : cst[m + i] = ct[i]
  <2> HIDE DEF m, n
  <2>1. \A i \in 1 .. m : i \in DOMAIN s /\ i \in DOMAIN st
    BY <1>2, <1>a
  <2>2. \A i \in 1 .. n : i \in DOMAIN t /\ m + i \in DOMAIN st
    BY <1>2, <1>a
  <2>3. \A i \in DOMAIN s : cs[i] = IF s[i] \in X THEN <<s[i]>> ELSE <<>>
    BY DEF Chosen
  <2>4. \A i \in DOMAIN t : ct[i] = IF t[i] \in X THEN <<t[i]>> ELSE <<>>
    BY DEF Chosen
  <2>5. \A i \in DOMAIN st : cst[i] = IF st[i] \in X THEN <<st[i]>> ELSE <<>>
    BY DEF Chosen
  <2> HIDE DEF cs, ct, cst
  <2>6. \A i \in 1 .. m : cst[i] = cs[i]
    BY <1>1, <2>1, <2>3, <2>5
  <2>7. \A i \in 1 .. n : cst[m + i] = ct[i]
    BY <1>1, <2>2, <2>4, <2>5
  <2> QED BY <2>6, <2>7
<1> HIDE DEF cs, ct, cst, m, n
<1>7. /\ c \in Seq(Seq(S)) /\ Len(c) = m + n
      /\ \A i \in 1 .. m : c[i] = cs[i]
      /\ \A i \in 1 .. n : c[m + i] = ct[i]
  <2>1. /\ c \in Seq(Seq(S)) /\ Len(c) = Len(cs) + Len(ct)
        /\ \A i \in 1 .. Len(cs) : c[i] = cs[i]
        /\ \A i \in 1 .. Len(ct) : c[Len(cs) + i] = ct[i]
    <3> DEFINE V == Seq(S)
    <3>1. cs \in Seq(V) /\ ct \in Seq(V)
      BY <1>4
    <3> HIDE DEF V
    <3>2. /\ cs \o ct \in Seq(V) /\ Len(cs \o ct) = Len(cs) + Len(ct)
          /\ \A i \in 1 .. Len(cs) : (cs \o ct)[i] = cs[i]
          /\ \A i \in 1 .. Len(ct) : (cs \o ct)[Len(cs) + i] = ct[i]
      BY <3>1, ConcatFacts
    <3> QED BY <3>2 DEF V
  <2> HIDE DEF c
  <2> QED BY <2>1, <1>4
<1>8. FlattenSeq(c) = FlattenSeq(cs) \o FlattenSeq(ct)
  BY <1>4, FlattenConcat
<1> HIDE DEF c
<1>9. cst = c
  <2>1. (\A i \in 1 .. m : cst[i] = c[i]) /\ \A i \in 1 .. n : cst[m + i] = c[m + i]
    BY <1>6, <1>7
  <2> QED BY <2>1, <1>2, <1>5, <1>7, EqualByParts
<1> QED BY <1>3, <1>8, <1>9 DEF st

LEMMA WithinSingle ==
  ASSUME NEW e, NEW X
  PROVE  Within(<<e>>, X) = IF e \in X THEN <<e>> ELSE <<>>
<1> DEFINE a == IF e \in X THEN <<e>> ELSE <<>>
<1>1. [i \in DOMAIN <<e>> |-> IF <<e>>[i] \in X THEN <<<<e>>[i]>> ELSE <<>>] = <<a>>
  OBVIOUS
<1>2. a \in Seq({e})
  <2>1. <<e>> \in Seq({e}) /\ <<>> \in Seq({e})
    OBVIOUS
  <2> QED BY <2>1
<1> HIDE DEF a
<1>3. FlattenSeq(<<a>>) = a
  BY <1>2, FlattenSingle
<1> QED BY <1>1, <1>3 DEF Within, a

LEMMA WithinEmpty == \A X : Within(<<>>, X) = <<>>
<1> SUFFICES ASSUME NEW X PROVE Within(<<>>, X) = <<>>
  OBVIOUS
<1>1. [i \in DOMAIN <<>> |-> IF <<>>[i] \in X THEN <<<<>>[i]>> ELSE <<>>] = <<>>
  OBVIOUS
<1> QED BY <1>1, FlattenEmpty DEF Within

LEMMA WithinAppend ==
  ASSUME NEW S, NEW s \in Seq(S), NEW e \in S, NEW X, Within(s, X) \in Seq(S)
  PROVE  Within(Append(s, e), X) = IF e \in X THEN Append(Within(s, X), e) ELSE Within(s, X)
<1>1. Append(s, e) = s \o <<e>> /\ <<e>> \in Seq(S)
  BY AppendIsConcat
<1> DEFINE u == <<e>>
<1> HIDE DEF u
<1>a. u \in Seq(S)
  BY <1>1 DEF u
<1>2. Within(s \o u, X) = Within(s, X) \o Within(u, X)
  BY <1>a, WithinConcat
<1>3. PICK w \in Seq(S) : w = Within(s, X)
  OBVIOUS
<1>4. w \o <<e>> = Append(w, e) /\ w \o <<>> = w
  BY AppendIsConcat, ConcatEmptySeq
<1>5. Within(u, X) = IF e \in X THEN <<e>> ELSE <<>>
  BY WithinSingle DEF u
<1> QED BY <1>1, <1>2, <1>3, <1>4, <1>5 DEF u

LEMMA WithinType ==
  ASSUME NEW S, NEW s \in Seq(S), NEW X
  PROVE  Within(s, X) \in Seq(S)
<1> DEFINE P == {r \in Seq(S) : Within(r, X) \in Seq(S)}
<1>1. <<>> \in P
  <2>1. Within(<<>>, X) = <<>> /\ <<>> \in Seq(S)
    BY WithinEmpty
  <2> QED BY <2>1
<1>2. ASSUME NEW r \in Seq(S), NEW e \in S, r \in P PROVE Append(r, e) \in P
  <2>1. Within(r, X) \in Seq(S)
    BY <1>2
  <2>2. PICK w \in Seq(S) : w = Within(r, X)
    BY <2>1
  <2>3. Within(Append(r, e), X) = IF e \in X THEN Append(w, e) ELSE w
    BY <2>1, <2>2, WithinAppend
  <2>4. Append(w, e) \in Seq(S) /\ Append(r, e) \in Seq(S)
    OBVIOUS
  <2> QED BY <2>3, <2>4
<1> HIDE DEF P
<1>3. Seq(S) \subseteq P
  BY <1>1, <1>2, SeqInduction
<1> QED BY <1>3 DEF P

(* Which elements of a set are selected besides those of the sequence.        *)
LEMMA WithinLocal ==
  ASSUME NEW S, NEW s \in Seq(S), NEW X, NEW Y, \A i \in DOMAIN s : s[i] \in X <=> s[i] \in Y
  PROVE  Within(s, X) = Within(s, Y)
BY DEF Within

LEMMA WithinElements ==
  ASSUME NEW S, NEW s \in Seq(S), NEW X
  PROVE  ToSet(Within(s, X)) = ToSet(s) \cap X
<1> DEFINE P == {r \in Seq(S) : ToSet(Within(r, X)) = ToSet(r) \cap X}
<1>1. \A r \in Seq(S), e \in S : ToSet(Append(r, e)) = ToSet(r) \cup {e}
  <2> TAKE r \in Seq(S), e \in S
  <2>1. DOMAIN Append(r, e) = 1 .. Len(r) + 1 /\ DOMAIN r = 1 .. Len(r) /\ Len(r) \in Nat
    OBVIOUS
  <2>2. \A i \in 1 .. Len(r) : Append(r, e)[i] = r[i]
    OBVIOUS
  <2>3. Append(r, e)[Len(r) + 1] = e
    OBVIOUS
  <2>4. \A i \in 1 .. Len(r) + 1 : i \in 1 .. Len(r) \/ i = Len(r) + 1
    OBVIOUS
  <2> QED BY <2>1, <2>2, <2>3, <2>4 DEF ToSet
<1>2. <<>> \in P
  <2>1. ToSet(<<>>) = {}
    BY DEF ToSet
  <2> QED BY <2>1, WithinEmpty
<1>3. ASSUME NEW r \in Seq(S), NEW e \in S, r \in P PROVE Append(r, e) \in P
  <2>1. Within(r, X) \in Seq(S)
    BY WithinType
  <2>2. PICK w \in Seq(S) : w = Within(r, X)
    BY <2>1
  <2>3. Within(Append(r, e), X) = IF e \in X THEN Append(w, e) ELSE w
    BY <2>1, <2>2, WithinAppend
  <2>4. ToSet(w) = ToSet(r) \cap X
    BY <1>3, <2>2
  <2>5. ToSet(Append(w, e)) = ToSet(w) \cup {e} /\ ToSet(Append(r, e)) = ToSet(r) \cup {e}
    BY <1>1
  <2>6. ToSet(Within(Append(r, e), X)) = ToSet(Append(r, e)) \cap X
    BY <2>3, <2>4, <2>5
  <2> QED BY <2>6
<1> HIDE DEF P
<1>4. Seq(S) \subseteq P
  BY <1>2, <1>3, SeqInduction
<1> QED BY <1>4 DEF P

LEMMA WithinNone ==
  ASSUME NEW S, NEW s \in Seq(S), NEW X, \A i \in DOMAIN s : s[i] \notin X
  PROVE  Within(s, X) = <<>>
<1>1. ToSet(Within(s, X)) = {} /\ Within(s, X) \in Seq(S)
  <2>1. ToSet(s) \cap X = {}
    BY DEF ToSet
  <2> QED BY <2>1, WithinElements, WithinType
<1>2. PICK w \in Seq(S) : w = Within(s, X)
  BY <1>1
<1>3. DOMAIN w = {}
  BY <1>1, <1>2 DEF ToSet
<1> QED BY <1>2, <1>3

LEMMA WithoutConcat ==
  ASSUME NEW S, NEW s \in Seq(S), NEW t \in Seq(S), NEW X
  PROVE  Without(s \o t, X) = Without(s, X) \o Without(t, X)
<1> DEFINE Y == ToSet(s \o t) \ X
<1>1. Within(s \o t, Y) = Within(s, Y) \o Within(t, Y)
  BY WithinConcat
<1>2. PICK st \in Seq(S) : st = s \o t
  <2>1. s \o t \in Seq(S)
    OBVIOUS
  <2> QED BY <2>1
<1>3. /\ Len(st) = Len(s) + Len(t) /\ DOMAIN st = 1 .. Len(st)
      /\ \A i \in DOMAIN s : i \in DOMAIN st /\ st[i] = s[i]
      /\ \A i \in DOMAIN t : Len(s) + i \in DOMAIN st /\ st[Len(s) + i] = t[i]
  BY <1>2
<1>4. \A i \in DOMAIN s : s[i] \in Y <=> s[i] \in ToSet(s) \ X
  BY <1>2, <1>3 DEF ToSet
<1>5. \A i \in DOMAIN t : t[i] \in Y <=> t[i] \in ToSet(t) \ X
  BY <1>2, <1>3 DEF ToSet
<1> HIDE DEF Y
<1>6. Within(s, Y) = Within(s, ToSet(s) \ X) /\ Within(t, Y) = Within(t, ToSet(t) \ X)
  BY <1>4, <1>5, WithinLocal
<1> QED BY <1>1, <1>6 DEF Without, Y

LEMMA WithoutFacts ==
  ASSUME NEW S, NEW s \in Seq(S), NEW X
  PROVE  /\ Without(s, X) \in Seq(S)
         /\ ToSet(Without(s, X)) = ToSet(s) \ X
         /\ (\A i \in DOMAIN s : s[i] \in X) => Without(s, X) = <<>>
<1>1. Without(s, X) \in Seq(S)
  BY WithinType DEF Without
<1>2. ToSet(Without(s, X)) = ToSet(s) \ X
  <2>1. ToSet(Within(s, ToSet(s) \ X)) = ToSet(s) \cap (ToSet(s) \ X)
    BY WithinElements
  <2> QED BY <2>1 DEF Without
<1>3. ASSUME \A i \in DOMAIN s : s[i] \in X PROVE Without(s, X) = <<>>
  <2>1. \A i \in DOMAIN s : s[i] \notin ToSet(s) \ X
    BY <1>3
  <2> QED BY <2>1, WithinNone DEF Without
<1> QED BY <1>1, <1>2, <1>3

-----------------------------------------------------------------------------
(* A finite set as a sequence.                                               *)
Lists(o, n, S) ==
  /\ o \in [1 .. n -> S]
  /\ \A i \in 1 .. n, j \in 1 .. n : o[i] = o[j] => i = j
  /\ \A e \in S : \E i \in 1 .. n : o[i] = e

LEMMA SetToSeqLists ==
  ASSUME NEW S, IsFiniteSet(S)
  PROVE  \E n \in Nat : Lists(SetToSeq(S), n, S)
<1> DEFINE n == Cardinality(S)
           o == SetToSeq(S)
<1>1. n \in Nat /\ ExistsBijection(1 .. n, S)
  BY FS_CardinalityType
<1>2. PICK f : f \in Bijection(1 .. n, S)
  BY <1>1 DEF ExistsBijection
<1>3. f \in [1 .. n -> S] /\ IsInjective(f)
  BY <1>2 DEF Bijection, Injection
<1>4. o \in [1 .. n -> S] /\ IsInjective(o)
  BY <1>3 DEF SetToSeq
<1>5. IsFiniteSet(1 .. n) /\ Cardinality(1 .. n) = n
  BY <1>1, FS_Interval
<1> HIDE DEF o
<1>6. o \in Injection(1 .. n, S)
  BY <1>4 DEF Injection
<1>7. o \in Surjection(1 .. n, S)
  BY <1>5, <1>6, FS_Injection
<1>8. Lists(o, n, S)
  BY <1>4, <1>7 DEF Lists, Surjection, IsInjective
<1> QED BY <1>1, <1>8 DEF o


-----------------------------------------------------------------------------
(* The least of a set of numbers.                                            *)
LEMMA MinOfNats ==
  ASSUME NEW S \in SUBSET Nat, S # {}
  PROVE  Min(S) \in S /\ \A x \in S : Min(S) <= x
<1> DEFINE T == {n \in Nat : (\E k \in 0 .. n : k \in S) => \E x \in S : \A y \in S : x <= y}
<1>1. 0 \in T
  OBVIOUS
<1>2. ASSUME NEW n \in Nat, n \in T PROVE n + 1 \in T
  <2>1. CASE \E k \in 0 .. n : k \in S
    BY <1>2, <2>1
  <2>2. CASE ~\E k \in 0 .. n : k \in S
    <3>1. \A k \in 0 .. n + 1 : k \in 0 .. n \/ k = n + 1
      OBVIOUS
    <3>2. n + 1 \in S => \A y \in S : n + 1 <= y
      <4>1. \A y \in S : y \in Nat /\ y \notin 0 .. n
        BY <2>2
      <4> QED BY <4>1
    <3> QED BY <2>2, <3>1, <3>2
  <2> QED BY <2>1, <2>2
<1> HIDE DEF T
<1>3. Nat \subseteq T
  BY <1>1, <1>2, Induction
<1>4. PICK n \in Nat : n \in S
  OBVIOUS
<1>5. n \in T /\ n \in 0 .. n
  BY <1>3, <1>4
<1>6. \E x \in S : \A y \in S : x <= y
  BY <1>4, <1>5 DEF T
<1> QED BY <1>6 DEF Min

(* A short sequence between two elements, put behind another.                 *)
LEMMA PutBetween ==
  ASSUME NEW S, NEW s \in Seq(S), NEW t \in Seq(S), NEW a \in S, NEW b \in S
  PROVE  s \o (<<a>> \o t \o <<b>>) = Append(Append(s, a) \o t, b)
<1>1. <<a>> \in Seq(S) /\ <<b>> \in Seq(S) /\ <<a>> \o t \in Seq(S)
      /\ Append(s, a) \in Seq(S) /\ Append(s, a) \o t \in Seq(S)
  <2>1. <<a>> \in Seq(S) /\ <<b>> \in Seq(S) /\ Append(s, a) \in Seq(S)
    OBVIOUS
  <2> QED BY <2>1, ConcatProperties
<1>2. Append(s, a) = s \o <<a>>
  BY AppendIsConcat
<1>3. Append(Append(s, a) \o t, b) = Append(s, a) \o t \o <<b>>
  BY <1>1, AppendIsConcat
<1>4. s \o (<<a>> \o t) = s \o <<a>> \o t
  BY <1>1, ConcatAssociative
<1>5. s \o (<<a>> \o t \o <<b>>) = s \o (<<a>> \o t) \o <<b>>
  BY <1>1, ConcatAssociative
<1> QED BY <1>2, <1>3, <1>4, <1>5

LEMMA PutBehind ==
  ASSUME NEW S, NEW s \in Seq(S), NEW x \in S, NEW y \in S
  PROVE  s \o <<>> = s /\ s \o <<x>> = Append(s, x) /\ s \o <<x, y>> = Append(Append(s, x), y)
<1>1. s \o <<>> = s
  BY ConcatEmptySeq
<1>2. s \o <<x>> = Append(s, x)
  BY AppendIsConcat
<1>3. s \o <<x, y>> = Append(Append(s, x), y)
  OBVIOUS
<1> QED BY <1>1, <1>2, <1>3

(* A selection that takes everything, or leaves nothing out.                   *)
LEMMA WithinAll ==
  ASSUME NEW T, NEW s \in Seq(T), NEW X, T \subseteq X
  PROVE  Within(s, X) = s
<1> DEFINE P == {t \in Seq(T) : Within(t, X) = t}
<1>1. <<>> \in P
  <2>1. <<>> \in Seq(T)
    OBVIOUS
  <2> QED BY <2>1, WithinEmpty
<1>2. \A t \in Seq(T) : \A e \in T : t \in P => Append(t, e) \in P
  <2> SUFFICES ASSUME NEW t \in Seq(T), NEW e \in T, t \in P PROVE Append(t, e) \in P
    OBVIOUS
  <2>1. Within(t, X) = t /\ e \in X
    OBVIOUS
  <2>2. Within(Append(t, e), X) = Append(t, e)
    BY <2>1, WithinAppend
  <2> QED BY <2>2
<1> HIDE DEF P
<1>3. Seq(T) \subseteq P
  BY <1>1, <1>2, SeqInduction
<1> QED BY <1>3 DEF P

LEMMA WithoutAll ==
  ASSUME NEW T, NEW s \in Seq(T), NEW X, T \cap X = {}
  PROVE  Without(s, X) = s
<1>1. \A i \in DOMAIN s : s[i] \in T /\ s[i] \in ToSet(s)
  BY DEF ToSet
<1>2. \A i \in DOMAIN s : s[i] \in ToSet(s) \ X <=> s[i] \in T
  BY <1>1
<1>3. Within(s, ToSet(s) \ X) = Within(s, T)
  BY <1>2, WithinLocal
<1>4. Within(s, T) = s
  BY WithinAll
<1> QED BY <1>3, <1>4 DEF Without

LEMMA PairAppended ==
  ASSUME NEW S, NEW a \in S, NEW b \in S
  PROVE  Append(<<a>>, b) = <<a, b>>
<1>1. <<a>> \in Seq(S) /\ <<a, b>> \in Seq(S) /\ Append(<<a>>, b) \in Seq(S)
  OBVIOUS
<1>2. Len(Append(<<a>>, b)) = 2 /\ Len(<<a, b>>) = 2
  BY <1>1
<1>3. \A i \in 1 .. 2 : Append(<<a>>, b)[i] = <<a, b>>[i]
  BY <1>1, <1>2
<1> QED BY <1>1, <1>2, <1>3, SeqEqual

-----------------------------------------------------------------------------
(* Sequences that are joined, narrowed and widened.                          *)
LEMMA Nothing ==
  ASSUME NEW S, NEW s \in Seq(S)
  PROVE  s \o <<>> = s /\ <<>> \o s = s /\ <<>> \in Seq(S)
OBVIOUS

LEMMA Associate ==
  ASSUME NEW S, NEW a \in Seq(S), NEW b \in Seq(S), NEW c \in Seq(S)
  PROVE  (a \o b) \o c = a \o (b \o c) /\ a \o b \in Seq(S)
<1>1. a \o b \in Seq(S)
  OBVIOUS
<1>2. (a \o b) \o c = a \o (b \o c)
  BY ConcatAssociative
<1> QED BY <1>1, <1>2

LEMMA ConcatType ==
  ASSUME NEW S, NEW a \in Seq(S), NEW b \in Seq(S)
  PROVE  a \o b \in Seq(S)
OBVIOUS

LEMMA SeqOfElements ==
  ASSUME NEW S, NEW s \in Seq(S), NEW X, ToSet(s) \subseteq X
  PROVE  s \in Seq(X)
<1>1. PICK n \in Nat : n = Len(s) /\ DOMAIN s = 1 .. n
  OBVIOUS
<1>2. \A i \in 1 .. n : s[i] \in X
  BY <1>1 DEF ToSet
<1>3. s \in [1 .. n -> X]
  <2>1. s = [i \in 1 .. n |-> s[i]]
    BY <1>1
  <2> QED BY <1>2, <2>1
<1> QED BY <1>3, FunctionIsSeq

LEMMA Wider ==
  ASSUME NEW S, NEW T, NEW s \in Seq(S \cap T)
  PROVE  s \in Seq(S)
<1>1. PICK n \in Nat : n = Len(s) /\ s \in [1 .. n -> S \cap T]
  OBVIOUS
<1>2. s \in [1 .. n -> S]
  BY <1>1
<1> QED BY <1>2, FunctionIsSeq

LEMMA WiderSeq ==
  ASSUME NEW S, NEW T, S \subseteq T, NEW s \in Seq(S)
  PROVE  s \in Seq(T)
OBVIOUS

\* Leaving out elements before or after the flattening is the same.
LEMMA WithoutFlatten ==
  ASSUME NEW S, NEW s \in Seq(Seq(S)), NEW X
  PROVE  FlattenSeq([k \in DOMAIN s |-> Without(s[k], X)]) = Without(FlattenSeq(s), X)
<1> DEFINE V == Seq(S)
<1> DEFINE Thin(r) == [k \in DOMAIN r |-> Without(r[k], X)]
<1> DEFINE P == {r \in Seq(V) : Thin(r) \in Seq(V) /\ FlattenSeq(Thin(r)) = Without(FlattenSeq(r), X)}
<1>1. <<>> \in P
  <2>1. Thin(<<>>) = <<>> /\ <<>> \in Seq(V)
    OBVIOUS
  <2>2. Without(<<>>, X) = <<>>
    BY WithinEmpty DEF Without
  <2> QED BY <2>1, <2>2, FlattenEmpty
<1>2. ASSUME NEW r \in Seq(V), NEW a \in V, r \in P PROVE Append(r, a) \in P
  <2>1. PICK t : t = Append(r, a)
    OBVIOUS
  <2>2. t \in Seq(V) /\ Len(t) = Len(r) + 1 /\ Len(r) \in Nat /\ DOMAIN r = 1 .. Len(r)
        /\ DOMAIN t = 1 .. Len(r) + 1 /\ t[Len(r) + 1] = a /\ \A k \in 1 .. Len(r) : t[k] = r[k]
    <3> HIDE DEF V
    <3> QED BY <2>1
  <2>3. PICK b \in V : b = Without(a, X)
    BY WithoutFacts
  <2>4. PICK u \in Seq(V) : u = Thin(r)
    BY <1>2
  <2>5. Len(u) = Len(r) /\ \A k \in 1 .. Len(r) : u[k] = Without(r[k], X)
    <3> HIDE DEF V
    <3> QED BY <2>2, <2>4
  <2>6. Thin(t) = Append(u, b)
    <3>1. \A k \in 1 .. Len(r) : Without(t[k], X) = u[k] /\ Append(u, b)[k] = u[k]
      <4> HIDE DEF V
      <4> QED BY <2>2, <2>4, <2>5
    <3>2. Append(u, b)[Len(r) + 1] = b /\ Without(t[Len(r) + 1], X) = b
      <4> HIDE DEF V
      <4> QED BY <2>2, <2>3, <2>4, <2>5
    <3>3. Append(u, b) \in Seq(V) /\ DOMAIN Append(u, b) = 1 .. Len(r) + 1
      <4> HIDE DEF V
      <4> QED BY <2>4, <2>5
    <3>4. \A k \in 1 .. Len(r) + 1 : Without(t[k], X) = Append(u, b)[k]
      <4>1. \A k \in 1 .. Len(r) + 1 : k \in 1 .. Len(r) \/ k = Len(r) + 1
        BY <2>2
      <4> QED BY <3>1, <3>2, <4>1
    <3>5. Append(u, b) = [k \in 1 .. Len(r) + 1 |-> Append(u, b)[k]]
      <4> HIDE DEF V
      <4>1. PICK w : w = Append(u, b)
        OBVIOUS
      <4>2. w \in Seq(V) /\ DOMAIN w = 1 .. Len(r) + 1
        BY <3>3, <4>1
      <4>3. w = [k \in DOMAIN w |-> w[k]]
        BY <4>2
      <4> QED BY <4>1, <4>2, <4>3
    <3> QED BY <2>2, <3>4, <3>5
  <2>7. FlattenSeq(Append(u, b)) = FlattenSeq(u) \o b
    BY <2>4, <2>3, FlattenAppend
  <2>8. FlattenSeq(t) = FlattenSeq(r) \o a /\ FlattenSeq(r) \in V
    BY <2>1, FlattenAppend, FlattenType
  <2>9. Without(FlattenSeq(r) \o a, X) = Without(FlattenSeq(r), X) \o Without(a, X)
    <3>1. PICK c \in Seq(S), d \in Seq(S) : c = FlattenSeq(r) /\ d = a
      BY <2>8
    <3>2. Without(c \o d, X) = Without(c, X) \o Without(d, X)
      BY WithoutConcat, SMTT(30)
    <3> QED BY <3>1, <3>2
  <2>10. Append(u, b) \in Seq(V)
    <3> HIDE DEF V
    <3> QED BY <2>4
  <2>11. FlattenSeq(u) = Without(FlattenSeq(r), X)
    BY <1>2, <2>4
  <2>12. FlattenSeq(Thin(t)) = Without(FlattenSeq(t), X)
    <3> HIDE DEF Thin, V
    <3> QED BY <2>3, <2>6, <2>7, <2>8, <2>9, <2>11
  <2>13. Thin(t) \in Seq(V)
    <3> HIDE DEF Thin, V
    <3> QED BY <2>6, <2>10
  <2>14. t \in P
    <3> HIDE DEF Thin, V
    <3> QED BY <2>2, <2>12, <2>13
  <2> HIDE DEF P
  <2> QED BY <2>1, <2>14
<1>3. s \in Seq(V)
  OBVIOUS
<1>4. Seq(V) \subseteq P
  <2> HIDE DEF P, V
  <2> QED BY <1>1, <1>2, SeqInduction
<1>5. s \in P
  <2> HIDE DEF P, V
  <2> QED BY <1>3, <1>4
<1> QED BY <1>5

-----------------------------------------------------------------------------
(* The elements of a sequence, each where it comes first.                    *)
LEMMA ToSetAppend ==
  ASSUME NEW S, NEW s \in Seq(S), NEW e \in S
  PROVE  ToSet(Append(s, e)) = ToSet(s) \cup {e}
<1>1. DOMAIN Append(s, e) = 1 .. Len(s) + 1 /\ DOMAIN s = 1 .. Len(s) /\ Len(s) \in Nat
  OBVIOUS
<1>2. \A i \in 1 .. Len(s) : Append(s, e)[i] = s[i]
  OBVIOUS
<1>3. Append(s, e)[Len(s) + 1] = e
  OBVIOUS
<1>4. \A i \in 1 .. Len(s) + 1 : i \in 1 .. Len(s) \/ i = Len(s) + 1
  OBVIOUS
<1> QED BY <1>1, <1>2, <1>3, <1>4 DEF ToSet

FirstOnes(s) == [i \in DOMAIN s |-> IF \E j \in 1 .. i - 1 : s[j] = s[i] THEN <<>> ELSE <<s[i]>>]

LEMMA FirstType ==
  ASSUME NEW S, NEW s \in Seq(S)
  PROVE  FirstOnes(s) \in Seq(Seq(S)) /\ Len(FirstOnes(s)) = Len(s)
<1>1. PICK n \in Nat : n = Len(s) /\ DOMAIN s = 1 .. n
  OBVIOUS
<1>2. \A i \in 1 .. n : (IF \E j \in 1 .. i - 1 : s[j] = s[i] THEN <<>> ELSE <<s[i]>>) \in Seq(S)
  <2> TAKE i \in 1 .. n
  <2>1. <<>> \in Seq(S) /\ <<s[i]>> \in Seq(S)
    BY <1>1
  <2> QED BY <2>1
<1> DEFINE V == Seq(S)
<1> HIDE DEF V
<1>3. FirstOnes(s) \in [1 .. n -> V]
  BY <1>1, <1>2 DEF FirstOnes, V
<1> QED BY <1>1, <1>3, FunctionIsSeq DEF V

LEMMA FirstsAppend ==
  ASSUME NEW S, NEW s \in Seq(S), NEW e \in S
  PROVE  Firsts(Append(s, e)) = Firsts(s) \o (IF e \in ToSet(s) THEN <<>> ELSE <<e>>)
<1> DEFINE a == IF e \in ToSet(s) THEN <<>> ELSE <<e>>
<1>1. a \in Seq(S)
  <2>1. <<>> \in Seq(S) /\ <<e>> \in Seq(S)
    OBVIOUS
  <2> QED BY <2>1
<1>2. PICK t \in Seq(S) : t = Append(s, e)
  <2>1. Append(s, e) \in Seq(S)
    OBVIOUS
  <2> QED BY <2>1
<1>3. /\ Len(t) = Len(s) + 1 /\ Len(s) \in Nat /\ DOMAIN s = 1 .. Len(s) /\ DOMAIN t = 1 .. Len(s) + 1
      /\ t[Len(s) + 1] = e
      /\ \A i \in 1 .. Len(s) : t[i] = s[i]
  BY <1>2
<1>4. FirstOnes(s) \in Seq(Seq(S)) /\ FirstOnes(t) \in Seq(Seq(S)) /\ Len(FirstOnes(s)) = Len(s) /\ Len(FirstOnes(t)) = Len(t)
  BY FirstType
<1>5. \A i \in 1 .. Len(s) : FirstOnes(t)[i] = FirstOnes(s)[i]
  <2> TAKE i \in 1 .. Len(s)
  <2>1. \A j \in 1 .. i - 1 : t[j] = s[j]
    BY <1>3
  <2>2. t[i] = s[i] /\ i \in DOMAIN s /\ i \in DOMAIN t
    BY <1>3
  <2> QED BY <2>1, <2>2 DEF FirstOnes
<1>6. FirstOnes(t)[Len(s) + 1] = a
  <2>1. (\E j \in 1 .. (Len(s) + 1) - 1 : t[j] = e) <=> e \in ToSet(s)
    <3>1. (Len(s) + 1) - 1 = Len(s)
      BY <1>3
    <3> QED BY <3>1, <1>3 DEF ToSet
  <2>2. Len(s) + 1 \in DOMAIN t
    BY <1>3
  <2> QED BY <2>1, <2>2, <1>3 DEF FirstOnes
<1> HIDE DEF a
<1>7. FirstOnes(t) = Append(FirstOnes(s), a)
  <2> DEFINE V == Seq(S)
  <2>0. PICK f \in Seq(V), g \in Seq(V) : f = FirstOnes(t) /\ g = FirstOnes(s)
    BY <1>4
  <2> HIDE DEF V
  <2>a. a \in V
    BY <1>1 DEF V
  <2>1. Len(f) = Len(g) + 1
    BY <2>0, <1>3, <1>4
  <2>2. \A i \in 1 .. Len(g) : f[i] = g[i]
    BY <2>0, <1>4, <1>5
  <2>3. f[Len(g) + 1] = a
    BY <2>0, <1>4, <1>6
  <2>4. \A i \in 1 .. Len(g) + 1 : i \in 1 .. Len(g) \/ i = Len(g) + 1
    OBVIOUS
  <2>5. f = Append(g, a)
    BY <2>a, <2>1, <2>2, <2>3, <2>4
  <2> QED BY <2>0, <2>5
<1>8. FlattenSeq(Append(FirstOnes(s), a)) = FlattenSeq(FirstOnes(s)) \o a
  BY <1>1, <1>4, FlattenAppend
<1> QED BY <1>2, <1>7, <1>8 DEF Firsts, FirstOnes, a

Differ(s) == \A i, j \in DOMAIN s : i # j => s[i] # s[j]

LEMMA FirstsFacts ==
  ASSUME NEW S, NEW s \in Seq(S)
  PROVE  /\ Firsts(s) \in Seq(S)
         /\ ToSet(Firsts(s)) = ToSet(s)
         /\ Differ(Firsts(s))
<1> DEFINE P == {r \in Seq(S) : Firsts(r) \in Seq(S) /\ ToSet(Firsts(r)) = ToSet(r) /\ Differ(Firsts(r))}
<1>1. <<>> \in P
  <2>1. [i \in DOMAIN <<>> |-> IF \E j \in 1 .. i - 1 : <<>>[j] = <<>>[i] THEN <<>> ELSE <<<<>>[i]>>] = <<>>
    OBVIOUS
  <2>2. Firsts(<<>>) = <<>>
    BY <2>1, FlattenEmpty DEF Firsts
  <2>3. <<>> \in Seq(S) /\ DOMAIN <<>> = {}
    OBVIOUS
  <2> QED BY <2>2, <2>3 DEF Differ
<1>2. ASSUME NEW r \in Seq(S), NEW e \in S, r \in P PROVE Append(r, e) \in P
  <2>1. PICK w \in Seq(S) : w = Firsts(r) /\ ToSet(w) = ToSet(r) /\ Differ(w)
    BY <1>2
  <2>2. CASE e \in ToSet(r)
    <3>1. Firsts(Append(r, e)) = w
      <4>1. w \o <<>> = w
        OBVIOUS
      <4> QED BY <2>1, <2>2, <4>1, FirstsAppend
    <3>2. ToSet(Append(r, e)) = ToSet(r)
      <4>1. ToSet(Append(r, e)) = ToSet(r) \cup {e}
        BY ToSetAppend
      <4> QED BY <4>1, <2>2
    <3>3. Append(r, e) \in Seq(S)
      OBVIOUS
    <3> QED BY <2>1, <3>1, <3>2, <3>3
  <2>3. CASE e \notin ToSet(r)
    <3>1. Firsts(Append(r, e)) = Append(w, e)
      <4>1. w \o <<e>> = Append(w, e)
        BY AppendIsConcat
      <4> QED BY <2>1, <2>3, <4>1, FirstsAppend
    <3>2. ToSet(Append(r, e)) = ToSet(r) \cup {e} /\ ToSet(Append(w, e)) = ToSet(w) \cup {e}
      BY ToSetAppend
    <3>3. Differ(Append(w, e))
      <4> SUFFICES ASSUME NEW i \in DOMAIN Append(w, e), NEW j \in DOMAIN Append(w, e), i # j
                   PROVE  Append(w, e)[i] # Append(w, e)[j]
        BY DEF Differ
      <4>1. \A k \in DOMAIN Append(w, e) : k \in DOMAIN w \/ k = Len(w) + 1
        OBVIOUS
      <4>2. \A k \in DOMAIN w : Append(w, e)[k] = w[k] /\ w[k] # e /\ k # Len(w) + 1
        <5> TAKE k \in DOMAIN w
        <5>1. w[k] \in ToSet(w)
          BY DEF ToSet
        <5>2. w[k] # e
          BY <5>1, <2>1, <2>3
        <5> QED BY <5>2
      <4>3. Append(w, e)[Len(w) + 1] = e
        OBVIOUS
      <4>4. \A k, l \in DOMAIN w : k # l => w[k] # w[l]
        BY <2>1 DEF Differ
      <4> QED BY <4>1, <4>2, <4>3, <4>4
    <3>4. Append(w, e) \in Seq(S) /\ Append(r, e) \in Seq(S)
      OBVIOUS
    <3> QED BY <2>1, <3>1, <3>2, <3>3, <3>4
  <2> QED BY <2>2, <2>3
<1> HIDE DEF P
<1>3. Seq(S) \subseteq P
  BY <1>1, <1>2, SeqInduction
<1> QED BY <1>3 DEF P
=============================================================================
