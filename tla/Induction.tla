----------------------------- MODULE Induction ------------------------------
(***************************************************************************)
(* Induction over the naturals, for a property that is given as a set, and *)
(* the existence of functions that are defined by recursion; both from the *)
(* well-foundedness of the naturals.  (The library states them with an     *)
(* operator as parameter.)  From them, what FlattenSeq computes for every  *)
(* sequence of sequences.                                                  *)
(***************************************************************************)
EXTENDS Integers, SequencesExt, SequenceTheorems, WellFoundedInduction, TLAPS

\* A set of naturals that is not empty has a least element.
LEMMA Least ==
  ASSUME NEW S, S \subseteq Nat, S # {}
  PROVE  \E x \in S : \A y \in S : x <= y
<1> DEFINE Lt == {ss \in Nat \X Nat : ss[1] < ss[2]}
<1>1. OpToRel(<, Nat) = Lt
  BY DEF OpToRel
<1>2. IsWellFoundedOn(Lt, Nat)
  BY <1>1, NatLessThanWellFounded
<1> HIDE DEF Lt
<1>3. PICK x \in S : \A y \in S : ~(<<y, x>> \in Lt)
  BY <1>2, WFMin
<1>4. ASSUME NEW y \in S
      PROVE  x <= y
  <2>1. x \in Nat /\ y \in Nat /\ <<y, x>> \in Nat \X Nat
    OBVIOUS
  <2>2. ~(<<y, x>>[1] < <<y, x>>[2])
    BY <1>3, <2>1 DEF Lt
  <2> QED
    BY <2>1, <2>2
<1> QED
  BY <1>4

\* Induction, for a property that is given as a set.
LEMMA NatInduct ==
  ASSUME NEW S, 0 \in S, \A n \in Nat : n \in S => n + 1 \in S
  PROVE  Nat \subseteq S
<1> SUFFICES ASSUME Nat \ S # {}
             PROVE  FALSE
  OBVIOUS
<1>1. PICK x \in Nat \ S : \A y \in Nat \ S : x <= y
  BY Least
<1>2. x # 0 /\ x - 1 \in Nat /\ ~(x <= x - 1) /\ (x - 1) + 1 = x
  BY <1>1
<1>3. x - 1 \in S
  BY <1>1, <1>2
<1> QED
  BY <1>1, <1>2, <1>3

\* The values f takes from a on when F[k] maps one value to the k-th next.
Steps(V) == [Nat -> [V -> V]]
Iterates(f, V, a, F, n) ==
  f \in [0 .. n -> V] /\ f[0] = a /\ \A k \in 1 .. n : f[k] = F[k][f[k - 1]]

\* A function that is defined by recursion on 0 .. n exists.
LEMMA Recursion ==
  ASSUME NEW V, NEW a \in V, NEW F \in Steps(V), NEW n \in Nat
  PROVE  \E f : Iterates(f, V, a, F, n)
<1> DEFINE P(m) == \E f \in [0 .. m -> V] : f[0] = a /\ \A k \in 1 .. m : f[k] = F[k][f[k - 1]]
           S == {m \in Nat : P(m)}
<1>1. 0 \in S
  <2> DEFINE f == [k \in 0 .. 0 |-> a]
  <2>1. f \in [0 .. 0 -> V] /\ f[0] = a /\ \A k \in 1 .. 0 : f[k] = F[k][f[k - 1]]
    OBVIOUS
  <2>2. P(0)
    BY <2>1
  <2> QED
    BY <2>2
<1>2. ASSUME NEW m \in Nat, m \in S PROVE m + 1 \in S
  <2>1. PICK f \in [0 .. m -> V] : f[0] = a /\ \A k \in 1 .. m : f[k] = F[k][f[k - 1]]
    BY <1>2
  <2> DEFINE new == F[m + 1][f[m]]
             g == [k \in 0 .. m + 1 |-> IF k = m + 1 THEN new ELSE f[k]]
  <2>2. new \in V
    <3>1. F[m + 1] \in [V -> V] /\ f[m] \in V
      BY DEF Steps
    <3> QED
      BY <3>1
  <2>3. g \in [0 .. m + 1 -> V] /\ g[0] = a /\ g[m + 1] = new /\ \A k \in 0 .. m : g[k] = f[k]
    <3>1. \A k \in 0 .. m + 1 : k # m + 1 => k \in 0 .. m
      OBVIOUS
    <3>2. 0 \in 0 .. m + 1 /\ 0 # m + 1 /\ m + 1 \in 0 .. m + 1
          /\ \A k \in 0 .. m : k \in 0 .. m + 1 /\ k # m + 1
      OBVIOUS
    <3> HIDE DEF new
    <3> QED
      BY <2>1, <2>2, <3>1, <3>2
  <2> HIDE DEF g
  <2>4. ASSUME NEW k \in 1 .. m + 1 PROVE g[k] = F[k][g[k - 1]]
    <3>1. CASE k = m + 1
      <4>1. k - 1 = m /\ m \in 0 .. m
        BY <3>1
      <4> QED
        BY <2>3, <3>1, <4>1
    <3>2. CASE k # m + 1
      <4>1. k \in 1 .. m /\ k \in 0 .. m /\ k - 1 \in 0 .. m
        BY <3>2
      <4> QED
        BY <2>1, <2>3, <4>1
    <3> QED
      BY <3>1, <3>2
  <2>5. P(m + 1)
    BY <2>3, <2>4
  <2> QED
    BY <2>5
<1> HIDE DEF P
<1>3. \A m \in Nat : m \in S => m + 1 \in S
  BY <1>2
<1>4. n \in S
  <2> HIDE DEF S
  <2> QED
    BY <1>1, <1>3, NatInduct
<1> QED
  BY <1>4 DEF P, Iterates

\* A finite function is a sequence.
LEMMA FunctionSeq ==
  ASSUME NEW S, NEW n \in Nat, NEW f \in [1 .. n -> S]
  PROVE  f \in Seq(S) /\ Len(f) = n
<1>1. f \in Seq(S)
  BY SeqDef
<1> QED
  BY <1>1, LenProperties

-----------------------------------------------------------------------------
(* Joining sequences.                                                      *)

\* f joins the sequences of ss one after the other.
Flat(f, ss, U) == /\ f \in [1 .. Len(ss) -> Seq(U)] /\ f[1] = ss[1]
                  /\ \A i \in 2 .. Len(ss) : f[i] = f[i - 1] \o ss[i]

\* FlattenSeq joins.
LEMMA FlattenIsFlat ==
  ASSUME NEW U, NEW ss \in Seq(Seq(U)), Len(ss) # 0
  PROVE  \E f : Flat(f, ss, U) /\ FlattenSeq(ss) = f[Len(ss)]
<1> DEFINE n == Len(ss)
           V == Seq(U)
           H(k, v) == IF k \in 1 .. n THEN v \o ss[k] ELSE v
           F == [k \in Nat |-> [v \in V |-> H(k, v)]]
           G(g) == [i \in 1 .. Len(ss) |-> IF i = 1 THEN ss[i] ELSE g[i - 1] \o ss[i]]
<1>1. n \in Nat \ {0} /\ <<>> \in V /\ \A k \in 1 .. n : ss[k] \in V
  OBVIOUS
<1>2. \A v \in V : \A k \in 1 .. n : v \o ss[k] \in V
  BY <1>1, ConcatProperties
<1>3. F \in Steps(V) /\ \A k \in 1 .. n : \A v \in V : F[k][v] = v \o ss[k]
  <2>1. \A k \in Nat : \A v \in V : H(k, v) \in V
    BY <1>2
  <2>2. \A k \in 1 .. n : k \in Nat /\ \A v \in V : H(k, v) = v \o ss[k]
    BY <1>1
  <2> HIDE DEF V, n, H
  <2>3. F \in Steps(V) /\ \A k \in Nat : \A v \in V : F[k][v] = H(k, v)
    BY <2>1 DEF Steps
  <2> QED
    BY <2>2, <2>3
<1> HIDE DEF F, V, n
<1>4. PICK h : Iterates(h, V, <<>>, F, n)
  BY <1>1, <1>3, Recursion, Zenon
<1>5. /\ h \in [0 .. n -> V] /\ h[0] = <<>>
      /\ \A k \in 1 .. n : h[k] = h[k - 1] \o ss[k]
  <2>1. h \in [0 .. n -> V] /\ h[0] = <<>> /\ \A k \in 1 .. n : h[k] = F[k][h[k - 1]]
    BY <1>4 DEF Iterates
  <2>2. \A k \in 1 .. n : h[k - 1] \in V
    BY <1>1, <2>1
  <2> QED
    BY <1>3, <2>1, <2>2, Zenon
<1> DEFINE f == [i \in 1 .. n |-> h[i]]
<1>6. f \in [1 .. n -> V] /\ \A i \in 1 .. n : f[i] = h[i]
  BY <1>5
<1>7. h[1] = ss[1]
  <2>1. 1 \in 1 .. n /\ 1 - 1 = 0
    BY <1>1
  <2>2. h[1] = <<>> \o ss[1] /\ ss[1] \in V
    BY <1>1, <1>5, <2>1
  <2> QED
    BY <2>2, ConcatEmptySeq DEF V
<1> HIDE DEF f
<1>8. Flat(f, ss, U)
  <2>1. ASSUME NEW i \in 2 .. n PROVE f[i] = f[i - 1] \o ss[i]
    <3>1. i \in 1 .. n /\ i - 1 \in 1 .. n
      BY <1>1
    <3> QED
      BY <1>5, <1>6, <3>1
  <2>2. 1 \in 1 .. n
    BY <1>1
  <2> QED
    BY <1>6, <1>7, <2>1, <2>2 DEF Flat, V, n
<1>9. f = G(f)
  <2>1. \A i \in 1 .. Len(ss) : f[i] = IF i = 1 THEN ss[i] ELSE f[i - 1] \o ss[i]
    <3> TAKE i \in 1 .. Len(ss)
    <3>1. i = 1 \/ i \in 2 .. Len(ss)
      BY <1>1 DEF n
    <3> QED
      BY <1>8, <3>1 DEF Flat
  <2> QED
    BY <1>6, <2>1 DEF n
<1> DEFINE c == CHOOSE g : g = G(g)
<1>10. c = G(c)
  <2> HIDE DEF G
  <2> QED
    BY <1>9
<1>11. FlattenSeq(ss) = c[Len(ss)]
  BY DEF FlattenSeq
<1> HIDE DEF c
<1>12. Flat(c, ss, U)
  <2>1. c = [i \in 1 .. n |-> IF i = 1 THEN ss[i] ELSE c[i - 1] \o ss[i]]
    BY <1>10 DEF n
  <2>2. \A i \in 1 .. n : c[i] = IF i = 1 THEN ss[i] ELSE c[i - 1] \o ss[i]
    BY <2>1
  <2> DEFINE P == {i \in Nat : i + 1 \in 1 .. n => c[i + 1] = f[i + 1]}
  <2>3. 0 \in P
    BY <1>1, <1>8, <2>2 DEF Flat
  <2>4. ASSUME NEW i \in Nat, i \in P PROVE i + 1 \in P
    <3> SUFFICES ASSUME (i + 1) + 1 \in 1 .. n PROVE c[(i + 1) + 1] = f[(i + 1) + 1]
      OBVIOUS
    <3>1. /\ i + 1 \in 1 .. n /\ (i + 1) + 1 # 1 /\ ((i + 1) + 1) - 1 = i + 1
          /\ (i + 1) + 1 \in 2 .. n
      BY <1>1
    <3>2. c[i + 1] = f[i + 1]
      BY <2>4, <3>1
    <3>3. c[(i + 1) + 1] = c[i + 1] \o ss[(i + 1) + 1]
      BY <2>2, <3>1
    <3>4. f[(i + 1) + 1] = f[i + 1] \o ss[(i + 1) + 1]
      BY <1>8, <3>1 DEF Flat, n
    <3> QED
      BY <3>2, <3>3, <3>4
  <2>5. Nat \subseteq P
    <3> HIDE DEF P
    <3> QED
      BY <2>3, <2>4, NatInduct
  <2>6. ASSUME NEW i \in 1 .. n PROVE c[i] = f[i]
    <3>1. i - 1 \in Nat /\ (i - 1) + 1 = i
      BY <1>1
    <3>2. i - 1 \in P
      BY <2>5, <3>1
    <3> QED
      BY <3>1, <3>2
  <2>7. c = f
    <3>1. c = [i \in 1 .. n |-> c[i]]
      BY <2>1, <2>2
    <3>2. f = [i \in 1 .. n |-> f[i]]
      BY <1>6
    <3> HIDE DEF P
    <3> QED
      BY <2>6, <3>1, <3>2
  <2> QED
    BY <1>8, <2>7
<1> QED
  BY <1>11, <1>12

\* Two joins agree as far as the sequences do.
LEMMA FlatAgree ==
  ASSUME NEW U, NEW ss \in Seq(Seq(U)), NEW tt \in Seq(Seq(U)), NEW f, NEW g,
         Flat(f, ss, U), Flat(g, tt, U), Len(ss) <= Len(tt),
         NEW k \in 1 .. Len(ss), \A i \in 1 .. Len(ss) : ss[i] = tt[i]
  PROVE  f[k] = g[k]
<1> DEFINE P == {i \in Nat : i + 1 \in 1 .. Len(ss) => f[i + 1] = g[i + 1]}
<1>0. Len(ss) \in Nat /\ Len(tt) \in Nat
  OBVIOUS
<1>1. 0 \in P
  BY DEF Flat
<1>2. ASSUME NEW i \in Nat, i \in P PROVE i + 1 \in P
  <2> SUFFICES ASSUME (i + 1) + 1 \in 1 .. Len(ss) PROVE f[(i + 1) + 1] = g[(i + 1) + 1]
    OBVIOUS
  <2>1. /\ i + 1 \in 1 .. Len(ss) /\ ((i + 1) + 1) - 1 = i + 1
        /\ (i + 1) + 1 \in 2 .. Len(ss) /\ (i + 1) + 1 \in 2 .. Len(tt)
    BY <1>0
  <2>2. f[i + 1] = g[i + 1]
    BY <1>2, <2>1
  <2>3. f[(i + 1) + 1] = f[i + 1] \o ss[(i + 1) + 1] /\ g[(i + 1) + 1] = g[i + 1] \o tt[(i + 1) + 1]
    BY <2>1 DEF Flat
  <2> QED
    BY <2>2, <2>3
<1>3. Nat \subseteq P
  <2> HIDE DEF P
  <2> QED
    BY <1>1, <1>2, NatInduct
<1>4. k - 1 \in Nat /\ (k - 1) + 1 = k
  BY <1>0
<1>5. k - 1 \in P
  BY <1>3, <1>4
<1> QED
  BY <1>4, <1>5

LEMMA FlattenType ==
  ASSUME NEW U, NEW ss \in Seq(Seq(U))
  PROVE  FlattenSeq(ss) \in Seq(U) /\ (ss = <<>> => FlattenSeq(ss) = <<>>)
<1>1. CASE Len(ss) = 0
  <2>1. ss = <<>>
    BY <1>1, EmptySeq
  <2> QED
    BY <1>1, <2>1 DEF FlattenSeq
<1>2. CASE Len(ss) # 0
  <2>1. PICK f : Flat(f, ss, U) /\ FlattenSeq(ss) = f[Len(ss)]
    BY <1>2, FlattenIsFlat
  <2>2. Len(ss) \in 1 .. Len(ss) /\ ss # <<>>
    BY <1>2
  <2> QED
    BY <2>1, <2>2 DEF Flat
<1> QED
  BY <1>1, <1>2

\* Concatenation under a name of its own, so that the provers use only the
\* facts that follow.
Cat(s, t) == s \o t

LEMMA CatAssoc ==
  \A U : \A a, b, c \in Seq(U) : Cat(Cat(a, b), c) = Cat(a, Cat(b, c))
<1> TAKE U
<1> TAKE a, b, c \in Seq(U)
<1>1. (a \o b) \o c = a \o (b \o c)
  OBVIOUS
<1> QED
  BY <1>1 DEF Cat

\* The same, of one triple.
LEMMA JoinAssoc ==
  ASSUME NEW U, NEW a \in Seq(U), NEW b \in Seq(U), NEW c \in Seq(U)
  PROVE  (a \o b) \o c = a \o (b \o c)
BY CatAssoc DEF Cat

LEMMA CatType ==
  \A U : \A s, t \in Seq(U) : Cat(s, t) \in Seq(U) /\ Len(Cat(s, t)) = Len(s) + Len(t)
BY ConcatProperties DEF Cat

\* The two parts of a join.
LEMMA CatBack == \A U : \A s, t \in Seq(U) : SubSeq(Cat(s, t), Len(s) + 1, Len(Cat(s, t))) = t
BY DEF Cat

LEMMA CatFront == \A U : \A s, t \in Seq(U) : SubSeq(Cat(s, t), 1, Len(s)) = s
BY DEF Cat

\* One more sequence at the end.
LEMMA FlattenAppend ==
  ASSUME NEW U, NEW ss \in Seq(Seq(U)), NEW c \in Seq(U)
  PROVE  FlattenSeq(Append(ss, c)) = FlattenSeq(ss) \o c
<1> DEFINE tt == Append(ss, c)
           n == Len(ss)
<1>1. /\ tt \in Seq(Seq(U)) /\ Len(tt) = n + 1 /\ tt[n + 1] = c /\ n \in Nat
      /\ \A i \in 1 .. n : tt[i] = ss[i]
  OBVIOUS
<1> HIDE DEF tt
<1>2. PICK g : Flat(g, tt, U) /\ FlattenSeq(tt) = g[n + 1]
  <2>1. Len(tt) # 0
    BY <1>1
  <2>2. \E g : Flat(g, tt, U) /\ FlattenSeq(tt) = g[Len(tt)]
    BY <1>1, <2>1, FlattenIsFlat, Zenon
  <2> QED
    BY <1>1, <2>2, Zenon
<1>3. CASE n = 0
  <2>1. ss = <<>>
    BY <1>3, EmptySeq
  <2>2. FlattenSeq(ss) = <<>>
    BY <2>1, FlattenType
  <2>3. g[n + 1] = c
    BY <1>1, <1>2, <1>3 DEF Flat
  <2> QED
    BY <1>2, <2>2, <2>3, ConcatEmptySeq DEF tt
<1>4. CASE n # 0
  <2>1. PICK f : Flat(f, ss, U) /\ FlattenSeq(ss) = f[n]
    BY <1>4, FlattenIsFlat
  <2>2. n \in 1 .. n /\ n <= Len(ss) /\ n <= Len(tt) /\ n + 1 \in 2 .. Len(tt) /\ (n + 1) - 1 = n
    BY <1>1, <1>4
  <2> HIDE DEF n
  <2>3. f[n] = g[n]
    <3>1. tt \in Seq(Seq(U)) /\ Flat(f, ss, U) /\ Flat(g, tt, U) /\ Len(ss) <= Len(tt)
      BY <1>1, <1>2, <2>1 DEF n
    <3>2. n \in 1 .. Len(ss) /\ \A i \in 1 .. Len(ss) : ss[i] = tt[i]
      BY <1>1, <2>2 DEF n
    <3> QED
      BY <3>1, <3>2, FlatAgree
  <2>4. g[n + 1] = g[n] \o c
    BY <1>1, <1>2, <2>2 DEF Flat
  <2> QED
    BY <1>2, <2>1, <2>3, <2>4 DEF tt
<1> QED
  BY <1>3, <1>4

\* The first sequence and the others.
LEMMA FlattenTail ==
  ASSUME NEW U, NEW ss \in Seq(Seq(U)), ss # <<>>
  PROVE  FlattenSeq(ss) = ss[1] \o FlattenSeq(Tail(ss))
<1> DEFINE tt == Tail(ss)
           n == Len(ss)
<1>1. /\ tt \in Seq(Seq(U)) /\ Len(tt) = n - 1 /\ n \in Nat \ {0} /\ ss[1] \in Seq(U)
      /\ \A i \in 1 .. n - 1 : tt[i] = ss[i + 1]
  BY EmptySeq, HeadTailProperties
<1>2. PICK f : Flat(f, ss, U) /\ FlattenSeq(ss) = f[n]
  BY <1>1, FlattenIsFlat
<1> HIDE DEF tt
<1>3. CASE n = 1
  <2>1. tt = <<>>
    BY <1>1, <1>3, EmptySeq
  <2>2. FlattenSeq(tt) = <<>>
    BY <1>1, <2>1, FlattenType, Zenon
  <2>3. f[n] = ss[1]
    BY <1>2, <1>3 DEF Flat
  <2> QED
    BY <1>1, <1>2, <2>2, <2>3, ConcatEmptySeq DEF tt
<1>4. CASE n # 1
  <2>1. PICK g : Flat(g, tt, U) /\ FlattenSeq(tt) = g[n - 1]
    <3>1. Len(tt) # 0
      BY <1>1, <1>4
    <3>2. \E g : Flat(g, tt, U) /\ FlattenSeq(tt) = g[Len(tt)]
      BY <1>1, <3>1, FlattenIsFlat, Zenon
    <3> QED
      BY <1>1, <3>2, Zenon
  <2> DEFINE Q(i) == i + 1 \in 1 .. n - 1 => f[(i + 1) + 1] = ss[1] \o g[i + 1]
             P == {i \in Nat : Q(i)}
  <2>2. 0 \in P
    <3>1. 2 \in 2 .. Len(ss) /\ 2 - 1 = 1 /\ 1 \in 1 .. n - 1 /\ 1 + 1 = 2
      BY <1>1, <1>4
    <3>2. f[2] = f[1] \o ss[2] /\ f[1] = ss[1]
      BY <1>2, <3>1 DEF Flat
    <3>3. g[1] = ss[2]
      BY <1>1, <2>1, <3>1 DEF Flat
    <3> QED
      <4>1. f[(0 + 1) + 1] = ss[1] \o g[0 + 1]
        <5> HIDE DEF n
        <5>1. (0 + 1) + 1 = 2 /\ 0 + 1 = 1
          OBVIOUS
        <5> QED
          BY <3>2, <3>3, <5>1, Zenon
      <4> QED
        BY <4>1, Zenon
  <2>3. ASSUME NEW i \in Nat, i \in P PROVE i + 1 \in P
    <3>0. i + 1 \in Nat /\ Q(i)
      <4>1. Q(i)
        BY <2>3, Zenon
      <4> HIDE DEF Q
      <4> QED
        BY <4>1
    <3> SUFFICES ASSUME (i + 1) + 1 \in 1 .. n - 1
                 PROVE  f[((i + 1) + 1) + 1] = ss[1] \o g[(i + 1) + 1]
      BY <3>0, Zenon
    <3> DEFINE j == i + 1
    <3>1. /\ j \in 1 .. n - 1 /\ j + 1 \in 2 .. Len(tt) /\ j + 1 \in 1 .. n - 1 /\ (j + 1) - 1 = j
          /\ (j + 1) + 1 \in 2 .. Len(ss) /\ ((j + 1) + 1) - 1 = j + 1 /\ j \in 1 .. Len(tt)
      BY <1>1
    <3>2. f[j + 1] = ss[1] \o g[j]
      BY <3>0, <3>1, Zenon
    <3> HIDE DEF j, P, n
    <3>3. g[j + 1] = g[j] \o tt[j + 1] /\ g[j] \in Seq(U)
      BY <2>1, <3>1 DEF Flat
    <3>4. f[(j + 1) + 1] = f[j + 1] \o ss[(j + 1) + 1] /\ tt[j + 1] = ss[(j + 1) + 1]
      BY <1>1, <1>2, <3>1 DEF Flat
    <3>5. tt[j + 1] \in Seq(U)
      <4>1. j + 1 \in 1 .. Len(tt)
        BY <1>1, <3>1
      <4> QED
        BY <1>1, <4>1
    <3>6. f[(j + 1) + 1] = ss[1] \o g[j + 1]
      <4>1. f[(j + 1) + 1] = f[j + 1] \o tt[j + 1]
        BY <3>4, Zenon
      <4> QED
        <5>1. ss[1] \in Seq(U) /\ g[j] \in Seq(U) /\ tt[j + 1] \in Seq(U)
          BY <1>1, <3>3, <3>5
        <5>2. f[j + 1] \o tt[j + 1] = ss[1] \o g[j + 1]
          <6>1. f[j + 1] = Cat(ss[1], g[j]) /\ g[j + 1] = Cat(g[j], tt[j + 1])
            BY <3>2, <3>3, Zenon DEF Cat
          <6>2. Cat(f[j + 1], tt[j + 1]) = Cat(ss[1], g[j + 1])
            <7>1. Cat(Cat(ss[1], g[j]), tt[j + 1]) = Cat(ss[1], Cat(g[j], tt[j + 1]))
              BY <5>1, CatAssoc
            <7> QED
              BY <6>1, <7>1, Zenon
          <6> QED
            BY <6>2, Zenon DEF Cat
        <5> QED
          BY <4>1, <5>2, Zenon
    <3> QED
      BY <3>6 DEF j
  <2>4. Nat \subseteq P
    <3> HIDE DEF P
    <3> QED
      BY <2>2, <2>3, NatInduct
  <2>5. n - 2 \in Nat /\ (n - 2) + 1 = n - 1 /\ ((n - 2) + 1) + 1 = n /\ n - 1 \in 1 .. n - 1
    BY <1>1, <1>4
  <2>6. n - 2 \in P
    BY <2>4, <2>5
  <2>7. f[n] = ss[1] \o g[n - 1]
    <3> HIDE DEF n
    <3> QED
      BY <2>5, <2>6
  <2> QED
    BY <1>2, <2>1, <2>7 DEF tt
<1> QED
  BY <1>3, <1>4
=============================================================================
