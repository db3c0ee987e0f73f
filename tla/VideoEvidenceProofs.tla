------------------------- MODULE VideoEvidenceProofs -------------------------
(***************************************************************************)
(* What the analysis of a video or photo promises, for videos of any       *)
(* length, any predictions and any request; and before that the facts      *)
(* about numbers, recursive functions and flattened sequences on which the *)
(* proofs of both pipelines rest.                                          *)
(*                                                                         *)
(* Induction is stated with sets, since the provers cannot instantiate a   *)
(* theorem that takes an operator: a set of numbers that holds 0 and with  *)
(* each number the next holds them all.                                    *)
(***************************************************************************)
EXTENDS VideoEvidence, WellFoundedInduction, FiniteSetTheorems, TLAPS

-----------------------------------------------------------------------------
(***************************************************************************)
(* Numbers.                                                                *)
(***************************************************************************)
LEMMA HasLeast ==
    ASSUME NEW S \in SUBSET Nat, S # {}
    PROVE  \E n \in S : \A m \in S : n <= m
<1> DEFINE Less == OpToRel(<, Nat)
<1>1. \A x, y \in Nat : x < y => <<x, y>> \in Less
  BY DEF OpToRel
<1>2. IsWellFoundedOn(Less, Nat)
  BY NatLessThanWellFounded
<1> HIDE DEF Less
<1>3. PICK n \in S : \A m \in S : <<m, n>> \notin Less
  BY <1>2, WFMin
<1>4. \A m \in S : ~(m < n)
  BY <1>1, <1>3
<1> QED BY <1>4

LEMMA AllNumbers ==
    ASSUME NEW S, 0 \in S, \A n \in Nat : n \in S => n + 1 \in S
    PROVE  Nat \subseteq S
<1> SUFFICES ASSUME NEW k \in Nat, k \notin S PROVE FALSE
  OBVIOUS
<1> DEFINE T == {n \in Nat : n \notin S}
<1>1. PICK n \in T : \A m \in T : n <= m
  BY HasLeast
<1>2. n # 0 /\ n - 1 \in Nat /\ n - 1 \notin T
  BY <1>1
<1> QED BY <1>2

LEMMA Division ==
    ASSUME NEW a \in Nat, NEW d \in Nat \ {0}
    PROVE  a \div d \in Nat /\ a % d \in 0 .. d - 1 /\ a = d * (a \div d) + (a % d)
<1>1. a \div d \in Nat
  OBVIOUS
<1>2. a % d \in 0 .. d - 1
  OBVIOUS
<1>3. a = d * (a \div d) + (a % d)
  OBVIOUS
<1> QED BY <1>1, <1>2, <1>3

LEMMA MultiplesAreApart ==
    ASSUME NEW a \in Nat, NEW b \in Nat, NEW d \in Nat \ {0}, a % d = 0, b % d = 0, a < b
    PROVE  a + d <= b
<1> DEFINE p == a \div d
           q == b \div d
<1>1. p \in Nat /\ q \in Nat /\ a = d * p /\ b = d * q
  BY Division
<1> HIDE DEF p, q
<1>2. p < q
  <2> SUFFICES ASSUME q <= p PROVE FALSE
    BY <1>1
  <2>1. d * q <= d * p
    BY <1>1
  <2> QED BY <1>1, <2>1
<1>3. d * (p + 1) <= d * q
  BY <1>1, <1>2
<1> QED BY <1>1, <1>3

LEMMA ProductsCompare ==
    ASSUME NEW a \in Int, NEW b \in Int, NEW c \in Nat, a <= b
    PROVE  c * a <= c * b
OBVIOUS

LEMMA NextMultiple ==
    ASSUME NEW a \in Nat, NEW d \in Nat \ {0}, a % d = 0
    PROVE  (a + d) % d = 0
<1> DEFINE p == a \div d
           q == (a + d) \div d
           rest == (a + d) % d
<1>1. p \in Nat /\ a = d * p
  BY Division
<1>2. q \in Nat /\ rest \in 0 .. d - 1 /\ a + d = d * q + rest
  <2>1. a + d \in Nat
    OBVIOUS
  <2> QED BY <2>1, Division
<1> HIDE DEF p, q, rest
<1>3. rest = d * (p + 1 - q)
  BY <1>1, <1>2
<1>4. CASE p + 1 - q <= 0
  <2>1. d * (p + 1 - q) <= d * 0
    BY <1>1, <1>2, <1>4, ProductsCompare
  <2> QED BY <1>2, <1>3, <2>1 DEF rest
<1>5. CASE 1 <= p + 1 - q
  <2>1. d * 1 <= d * (p + 1 - q)
    BY <1>1, <1>2, <1>5, ProductsCompare
  <2> QED BY <1>2, <1>3, <2>1
<1> QED BY <1>1, <1>2, <1>4, <1>5

(***************************************************************************)
(* A function that is defined by a step from each number to the next.      *)
(***************************************************************************)
IsStep(G, n, S) == \A i \in 1 .. n : \A x \in S : G[<<i, x>>] \in S

Follows(f, G, a, n) == f[0] = a /\ \A i \in 1 .. n : f[i] = G[<<i, f[i - 1]>>]

LEMMA Recursion ==
    ASSUME NEW S, NEW a \in S, NEW n \in Nat, NEW G, IsStep(G, n, S)
    PROVE  \E f \in [0 .. n -> S] : Follows(f, G, a, n)
<1> USE DEF IsStep, Follows
<1> DEFINE Has(k) == \E f \in [0 .. k -> S] : Follows(f, G, a, k)
           T == {k \in Nat : k <= n => Has(k)}
<1>1. 0 \in T
  <2> DEFINE f == [i \in 0 .. 0 |-> a]
  <2>1. f \in [0 .. 0 -> S] /\ f[0] = a /\ 1 .. 0 = {}
    OBVIOUS
  <2> QED BY <2>1
<1>2. ASSUME NEW k \in Nat, k \in T PROVE k + 1 \in T
  <2> SUFFICES ASSUME k + 1 <= n PROVE Has(k + 1)
    OBVIOUS
  <2>1. PICK f \in [0 .. k -> S] : Follows(f, G, a, k)
    BY <1>2
  <2> DEFINE g == [i \in 0 .. k + 1 |-> IF i = k + 1 THEN G[<<i, f[k]>>] ELSE f[i]]
  <2>2. g \in [0 .. k + 1 -> S] /\ g[0] = a
    BY <2>1
  <2>3. ASSUME NEW i \in 1 .. k + 1 PROVE g[i] = G[<<i, g[i - 1]>>]
    BY <2>1
  <2> QED BY <2>2, <2>3
<1> HIDE DEF T
<1>3. n \in T
  BY <1>1, <1>2, AllNumbers
<1> QED BY <1>3 DEF T

(***************************************************************************)
(* Flattened sequences: piece by piece, and where the pieces have at most  *)
(* one element, the elements of the pieces that have one, in order.        *)
(***************************************************************************)
LEMMA FlattenByPieces ==
    ASSUME NEW S, NEW pieces \in Seq(Seq(S))
    PROVE  \E f \in [0 .. Len(pieces) -> Seq(S)] :
              /\ f[0] = <<>>
              /\ \A i \in 1 .. Len(pieces) : f[i] = f[i - 1] \o pieces[i]
              /\ FlattenSeq(pieces) = f[Len(pieces)]
<1> DEFINE n == Len(pieces)
           G == [p \in (1 .. n) \X Seq(S) |-> p[2] \o pieces[p[1]]]
           Is(g) == g = [i \in 1 .. n |-> IF i = 1 THEN pieces[i] ELSE g[i - 1] \o pieces[i]]
           J == CHOOSE g : Is(g)
<1>1. n \in Nat /\ <<>> \in Seq(S) /\ \A i \in 1 .. n : pieces[i] \in Seq(S)
  OBVIOUS
<1>2. \A i \in 1 .. n : \A x \in Seq(S) : G[<<i, x>>] = x \o pieces[i] /\ G[<<i, x>>] \in Seq(S)
  <2>1. \A i \in 1 .. n : \A x \in Seq(S) : G[<<i, x>>] = x \o pieces[i]
    OBVIOUS
  <2>2. \A i \in 1 .. n : \A x \in Seq(S) : x \o pieces[i] \in Seq(S)
    BY <1>1
  <2> QED BY <2>1, <2>2
<1>0. n = Len(pieces)
  OBVIOUS
<1> HIDE DEF G, n
<1>3. PICK f \in [0 .. n -> Seq(S)] : Follows(f, G, <<>>, n)
  <2>1. IsStep(G, n, Seq(S))
    BY <1>2 DEF IsStep
  <2> QED BY <1>1, <2>1, Recursion
<1>4. f[0] = <<>> /\ \A i \in 1 .. n : f[i - 1] \in Seq(S) /\ f[i] = f[i - 1] \o pieces[i]
  <2>1. \A i \in 1 .. n : i - 1 \in 0 .. n
    BY <1>1
  <2> QED BY <1>2, <1>3, <2>1 DEF Follows
<1>5. 1 \in 1 .. n => f[1] = pieces[1]
  <2> SUFFICES ASSUME 1 \in 1 .. n PROVE f[1] = pieces[1]
    OBVIOUS
  <2>1. f[1] = f[0] \o pieces[1] /\ f[0] = <<>>
    <3>1. f[1] = f[1 - 1] \o pieces[1]
      BY <1>4
    <3>2. 1 - 1 = 0
      OBVIOUS
    <3> QED BY <1>4, <3>1, <3>2
  <2>2. pieces[1] \in Seq(S)
    BY <1>1
  <2>3. <<>> \o pieces[1] = pieces[1]
    BY <2>2
  <2> QED BY <2>1, <2>3
<1>10. Is([i \in 1 .. n |-> f[i]])
  <2>1. ASSUME NEW i \in 1 .. n, i = 1 PROVE f[i] = pieces[i]
    BY <1>5, <2>1
  <2>2. ASSUME NEW i \in 1 .. n, i # 1 PROVE i - 1 \in 1 .. n /\ f[i] = f[i - 1] \o pieces[i]
    <3>1. i - 1 \in 1 .. n
      BY <1>1, <2>2
    <3> QED BY <1>4, <3>1
  <2> QED BY <2>1, <2>2
<1>6. Is(J)
  <2> HIDE DEF Is
  <2> QED BY <1>10, Zenon
<1> HIDE DEF J
<1>7. \A i \in 1 .. n : J[i] = IF i = 1 THEN pieces[i] ELSE J[i - 1] \o pieces[i]
  BY <1>1, <1>6
<1> DEFINE T == {k \in Nat : k \in 1 .. n => J[k] = f[k]}
<1>8. Nat \subseteq T
  <2>1. 0 \in T
    OBVIOUS
  <2>2. ASSUME NEW k \in Nat, k \in T PROVE k + 1 \in T
    <3>1. CASE k + 1 \notin 1 .. n
      BY <3>1
    <3>2. CASE k = 0 /\ 1 \in 1 .. n
      <4>1. J[1] = pieces[1]
        BY <1>7, <3>2
      <4> QED BY <1>5, <3>2, <4>1
    <3>3. CASE k # 0 /\ k + 1 \in 1 .. n
      <4>1. k \in 1 .. n /\ J[k] = f[k]
        BY <1>1, <2>2, <3>3
      <4>2. k + 1 # 1 /\ (k + 1) - 1 = k
        BY <3>3
      <4>3. J[k + 1] = J[k] \o pieces[k + 1]
        BY <1>7, <3>3, <4>2
      <4>4. f[k + 1] = f[k] \o pieces[k + 1]
        BY <1>4, <3>3, <4>2
      <4>5. J[k + 1] = f[k + 1]
        BY <4>1, <4>3, <4>4
      <4> QED BY <4>5
    <3> QED BY <3>1, <3>2, <3>3
  <2> HIDE DEF T
  <2> QED BY <2>1, <2>2, AllNumbers
<1>9. FlattenSeq(pieces) = f[n]
  <2>1. CASE n = 0
    <3>1. Len(pieces) = 0 /\ pieces \in Seq(Seq(S))
      BY <1>0, <2>1
    <3>2. pieces = <<>>
      BY <3>1
    <3> QED BY <1>4, <2>1, <3>1, <3>2 DEF FlattenSeq
  <2>2. CASE n # 0
    <3>1. FlattenSeq(pieces) = J[n]
      BY <2>2 DEF FlattenSeq, J, n
    <3>2. n \in T /\ n \in 1 .. n
      BY <1>1, <1>8, <2>2
    <3> QED BY <3>1, <3>2
  <2> QED BY <2>1, <2>2
<1> QED BY <1>3, <1>4, <1>9 DEF n

LEMMA FlattenIsTyped ==
    ASSUME NEW S, NEW pieces \in Seq(Seq(S))
    PROVE  FlattenSeq(pieces) \in Seq(S)
<1>1. PICK f \in [0 .. Len(pieces) -> Seq(S)] : FlattenSeq(pieces) = f[Len(pieces)]
  BY FlattenByPieces
<1> QED BY <1>1

LEMMA SequenceWidens ==
    ASSUME NEW S, NEW T, S \subseteq T, NEW s \in Seq(S)
    PROVE  s \in Seq(T)
OBVIOUS

LEMMA OneMoreElement ==
    ASSUME NEW S, NEW s \in Seq(S), NEW e \in S
    PROVE  /\ s \o <<e>> \in Seq(S) /\ Len(s \o <<e>>) = Len(s) + 1
           /\ \A i \in 1 .. Len(s) + 1 : (s \o <<e>>)[i] = IF i = Len(s) + 1 THEN e ELSE s[i]
OBVIOUS

Picks(pieces, n, C, x) ==
    Len(pieces) = n /\ \A i \in 1 .. n : pieces[i] = IF i \in C THEN <<x[i]>> ELSE <<>>

Lists(g, C, x) ==
    \E at \in [1 .. Len(g) -> C] :
        /\ \A i, j \in 1 .. Len(g) : i < j => at[i] < at[j]
        /\ \A i \in 1 .. Len(g) : g[i] = x[at[i]]
        /\ \A c \in C : \E i \in 1 .. Len(g) : at[i] = c

LEMMA FlattenPicks ==
    ASSUME NEW S, NEW n \in Nat, NEW C \in SUBSET (1 .. n), NEW x \in [C -> S],
           NEW pieces \in Seq(Seq(S)), Picks(pieces, n, C, x)
    PROVE  FlattenSeq(pieces) \in Seq(S) /\ Lists(FlattenSeq(pieces), C, x)
<1> DEFINE Passed(k) == {c \in C : c <= k}
<1>0. \A c \in C : c \in Nat /\ ~(c <= 0) /\ c <= n
  OBVIOUS
<1>1. Passed(0) = {} /\ Passed(n) = C
  BY <1>0
<1>2. \A k \in Nat : Passed(k + 1) = IF k + 1 \in C THEN Passed(k) \cup {k + 1} ELSE Passed(k)
  BY <1>0
<1>3. \A k \in Nat : \A c \in Passed(k) : c \in Nat /\ c < k + 1
  BY <1>0
<1> HIDE DEF Passed
<1>4. PICK f \in [0 .. n -> Seq(S)] :
          /\ f[0] = <<>>
          /\ \A i \in 1 .. n : f[i] = f[i - 1] \o pieces[i]
          /\ FlattenSeq(pieces) = f[n]
  <2>1. Len(pieces) = n
    BY DEF Picks
  <2> QED BY <2>1, FlattenByPieces
<1>5. Lists(f[0], Passed(0), x)
  <2>1. f[0] = <<>> /\ Len(<<>>) = 0 /\ 1 .. 0 = {}
    BY <1>4
  <2>2. [i \in {} |-> 0] \in [{} -> Passed(0)]
    OBVIOUS
  <2> QED BY <1>1, <2>1, <2>2 DEF Lists
<1>6. ASSUME NEW k \in Nat, k + 1 <= n, Lists(f[k], Passed(k), x) PROVE Lists(f[k + 1], Passed(k + 1), x)
  <2>1. /\ f[k] \in Seq(S) /\ k + 1 \in 1 .. n /\ f[k + 1] = f[k] \o pieces[k + 1]
        /\ Len(f[k]) \in Nat
    <3>1. k \in 0 .. n /\ k + 1 \in 1 .. n /\ (k + 1) - 1 = k
      BY <1>6
    <3>2. f[k + 1] = f[k] \o pieces[k + 1]
      BY <1>4, <3>1
    <3> QED BY <3>1, <3>2
  <2>2. PICK at \in [1 .. Len(f[k]) -> Passed(k)] :
           /\ \A i, j \in 1 .. Len(f[k]) : i < j => at[i] < at[j]
           /\ \A i \in 1 .. Len(f[k]) : f[k][i] = x[at[i]]
           /\ \A c \in Passed(k) : \E i \in 1 .. Len(f[k]) : at[i] = c
    BY <1>6 DEF Lists
  <2>3. CASE k + 1 \notin C
    <3>1. f[k + 1] = f[k]
      <4>1. pieces[k + 1] = <<>>
        BY <2>1, <2>3 DEF Picks
      <4> QED BY <2>1, <4>1
    <3>2. Passed(k + 1) = Passed(k)
      BY <1>2, <2>3
    <3> QED BY <1>6, <3>1, <3>2
  <2>4. CASE k + 1 \in C
    <3> DEFINE l == Len(f[k])
               next == [i \in 1 .. l + 1 |-> IF i = l + 1 THEN k + 1 ELSE at[i]]
    <3>1. l \in Nat /\ Passed(k + 1) = Passed(k) \cup {k + 1}
      BY <1>2, <2>1, <2>4
    <3>2. /\ f[k + 1] \in Seq(S) /\ Len(f[k + 1]) = l + 1
          /\ \A i \in 1 .. l + 1 : f[k + 1][i] = IF i = l + 1 THEN x[k + 1] ELSE f[k][i]
      <4>1. pieces[k + 1] = <<x[k + 1]>> /\ x[k + 1] \in S
        BY <2>1, <2>4 DEF Picks
      <4>2. f[k + 1] = f[k] \o <<x[k + 1]>>
        BY <2>1, <4>1
      <4>3. /\ f[k] \o <<x[k + 1]>> \in Seq(S) /\ Len(f[k] \o <<x[k + 1]>>) = l + 1
            /\ \A i \in 1 .. l + 1 : (f[k] \o <<x[k + 1]>>)[i] = IF i = l + 1 THEN x[k + 1] ELSE f[k][i]
        <5> DEFINE g == f[k]
                   e == x[k + 1]
        <5>1. g \in Seq(S) /\ e \in S
          BY <2>1, <4>1
        <5> HIDE DEF g, e
        <5>2. /\ g \o <<e>> \in Seq(S) /\ Len(g \o <<e>>) = Len(g) + 1
              /\ \A i \in 1 .. Len(g) + 1 : (g \o <<e>>)[i] = IF i = Len(g) + 1 THEN e ELSE g[i]
          BY <5>1, OneMoreElement
        <5> QED BY <5>2 DEF g, e
      <4> QED BY <4>2, <4>3
    <3>3. /\ \A i \in 1 .. l : at[i] \in Passed(k) /\ f[k][i] = x[at[i]]
          /\ \A i, j \in 1 .. l : i < j => at[i] < at[j]
          /\ \A c \in Passed(k) : \E i \in 1 .. l : at[i] = c
      BY <2>2
    <3> HIDE DEF l
    <3>4. next \in [1 .. l + 1 -> Passed(k + 1)]
      BY <3>1, <3>3
    <3>5. ASSUME NEW i \in 1 .. l + 1, NEW j \in 1 .. l + 1, i < j PROVE next[i] < next[j]
      <4>1. i \in 1 .. l /\ next[i] = at[i] /\ at[i] \in Passed(k)
        BY <3>1, <3>3, <3>5
      <4>2. at[i] < k + 1
        BY <1>3, <4>1
      <4>3. CASE j = l + 1
        BY <4>1, <4>2, <4>3
      <4>4. CASE j \in 1 .. l
        BY <3>1, <3>3, <3>5, <4>1, <4>4
      <4> QED BY <3>1, <4>3, <4>4
    <3>6. ASSUME NEW i \in 1 .. l + 1 PROVE f[k + 1][i] = x[next[i]]
      <4>1. CASE i = l + 1
        BY <3>2, <4>1
      <4>2. CASE i # l + 1
        <5>1. i \in 1 .. l
          BY <3>1, <4>2
        <5> QED BY <3>2, <3>3, <4>2, <5>1
      <4> QED BY <4>1, <4>2
    <3>7. ASSUME NEW c \in Passed(k + 1) PROVE \E i \in 1 .. l + 1 : next[i] = c
      <4>1. CASE c = k + 1
        <5>1. next[l + 1] = c /\ l + 1 \in 1 .. l + 1
          BY <3>1, <4>1
        <5> QED BY <5>1
      <4>2. CASE c \in Passed(k)
        <5>1. PICK i \in 1 .. l : at[i] = c
          BY <3>3, <4>2
        <5>2. i \in 1 .. l + 1 /\ next[i] = c
          BY <3>1, <5>1
        <5> QED BY <5>2
      <4> QED BY <3>1, <4>1, <4>2
    <3> HIDE DEF next
    <3> DEFINE g == f[k + 1]
               D == Passed(k + 1)
    <3>8. Len(g) = l + 1 /\ next \in [1 .. Len(g) -> D]
      BY <3>2, <3>4
    <3>9. \A i, j \in 1 .. Len(g) : i < j => next[i] < next[j]
      BY <3>5, <3>8
    <3>10. \A i \in 1 .. Len(g) : g[i] = x[next[i]]
      BY <3>6, <3>8
    <3>11. \A c \in D : \E i \in 1 .. Len(g) : next[i] = c
      BY <3>7, <3>8
    <3> HIDE DEF g, D
    <3>12. Lists(g, D, x)
      BY <3>8, <3>9, <3>10, <3>11 DEF Lists
    <3> QED BY <3>12 DEF g, D
  <2> QED BY <2>3, <2>4
<1> DEFINE T == {k \in Nat : k <= n => Lists(f[k], Passed(k), x)}
<1>7. n \in T
  <2>1. 0 \in T
    BY <1>5
  <2>2. ASSUME NEW k \in Nat, k \in T PROVE k + 1 \in T
    <3> SUFFICES ASSUME k + 1 <= n PROVE Lists(f[k + 1], Passed(k + 1), x)
      OBVIOUS
    <3>1. Lists(f[k], Passed(k), x)
      BY <2>2
    <3> QED BY <1>6, <3>1
  <2> HIDE DEF T
  <2>3. Nat \subseteq T
    BY <2>1, <2>2, AllNumbers
  <2> QED BY <2>3
<1>8. Lists(FlattenSeq(pieces), C, x)
  BY <1>1, <1>4, <1>7
<1>9. FlattenSeq(pieces) \in Seq(S)
  BY FlattenIsTyped
<1> QED BY <1>1, <1>8, <1>9

-----------------------------------------------------------------------------
(***************************************************************************)
(* What the analysis of a video computes in each frame.                    *)
(***************************************************************************)
LEMMA UptoAreSequences ==
    ASSUME NEW S, NEW n \in Int, NEW s \in Upto(S, n)
    PROVE  s \in Seq(S)
BY DEF Upto

LEMMA RoundIsNearest ==
    ASSUME NEW x \in Int, NEW d \in Nat \ {0}
    PROVE  /\ Round(x, d) \in Int
           /\ 2 * x - d <= 2 * (d * Round(x, d))
           /\ 2 * (d * Round(x, d)) <= 2 * x + d
<1> DEFINE low == x \div d
           rest == x % d
<1>1. low \in Int /\ rest \in 0 .. d - 1 /\ x = d * low + rest
  <2>1. x \div d \in Int
    OBVIOUS
  <2>2. x % d \in 0 .. d - 1
    OBVIOUS
  <2>3. x = d * (x \div d) + (x % d)
    OBVIOUS
  <2> QED BY <2>1, <2>2, <2>3
<1>2. \/ Round(x, d) = low /\ 2 * rest <= d
      \/ Round(x, d) = low + 1 /\ 2 * rest >= d
  <2> HIDE DEF low, rest
  <2>1. Round(x, d) = IF 2 * rest < d \/ (2 * rest = d /\ low % 2 = 0) THEN low ELSE low + 1
    BY DEF Round, low, rest
  <2> QED BY <1>1, <2>1
<1> HIDE DEF low, rest
<1>3. d * (low + 1) = d * low + d /\ d * low \in Int
  BY <1>1
<1> QED BY <1>1, <1>2, <1>3

LEMMA IntervalIsRounded ==
    ASSUME fps \in Nat \ {0}
    PROVE  /\ Interval \in Nat \ {0} /\ Scale * Scale \in Nat \ {0} /\ fps * SampleSeconds \in Int
           /\ 2 * (fps * SampleSeconds) - Scale * Scale <= 2 * ((Scale * Scale) * Interval)
           /\ \/ Interval = 1
              \/ 2 * ((Scale * Scale) * Interval) <= 2 * (fps * SampleSeconds) + Scale * Scale
<1> DEFINE x == fps * SampleSeconds
           d == Scale * Scale
           rounded == Round(x, d)
<1>1. x \in Int /\ d \in Nat \ {0}
  BY VideoAssumption
<1>2. Interval = IF rounded < 1 THEN 1 ELSE rounded
  BY DEF Interval
<1> HIDE DEF x, d
<1>3. rounded \in Int /\ 2 * x - d <= 2 * (d * rounded) /\ 2 * (d * rounded) <= 2 * x + d
  BY <1>1, RoundIsNearest
<1> HIDE DEF rounded
<1>4. Interval \in Nat \ {0} /\ rounded <= Interval /\ (Interval = 1 \/ Interval = rounded)
  BY <1>2, <1>3
<1>5. d * rounded <= d * Interval /\ d * rounded \in Int /\ d * Interval \in Int
  BY <1>1, <1>3, <1>4, ProductsCompare
<1>6. 2 * x - d <= 2 * (d * Interval)
  BY <1>1, <1>3, <1>5
<1> QED BY <1>1, <1>3, <1>4, <1>6 DEF x, d

LEMMA IntervalRests == UNCHANGED fps => Interval' = Interval
BY DEF Interval

LEMMA TimesAreTruncated ==
    ASSUME fps \in Nat \ {0}, NEW n \in Nat, NEW t \in TimesMs(n)
    PROVE  t \in Int /\ fps * t <= 1000 * Scale * n /\ 1000 * Scale * n <= fps * (t + 1)
<1> DEFINE x == 1000 * Scale * n
           exact == x \div fps
<1>1. x \in Nat
  BY VideoAssumption
<1>2. t \in IF n > 0 /\ x % fps = 0 THEN {exact - 1, exact} ELSE {exact}
  BY DEF TimesMs
<1> HIDE DEF x
<1>3. exact \in Nat /\ x % fps \in 0 .. fps - 1 /\ x = fps * exact + (x % fps)
  BY <1>1, Division
<1> HIDE DEF exact
<1>4. fps * (exact - 1) = fps * exact - fps /\ fps * (exact + 1) = fps * exact + fps
      /\ fps * exact \in Nat
  BY <1>3
<1>5. CASE t = exact
  BY <1>3, <1>4, <1>5 DEF x
<1>6. CASE t = exact - 1 /\ x % fps = 0
  <2>1. (exact - 1) + 1 = exact
    BY <1>3
  <2>2. fps * t = fps * exact - fps /\ fps * (t + 1) = fps * exact
    BY <1>4, <1>6, <2>1
  <2>3. fps * exact = x /\ t \in Int
    BY <1>3, <1>4, <1>6
  <2> QED BY <1>1, <1>4, <2>2, <2>3 DEF x
<1> QED BY <1>2, <1>5, <1>6

LEMMA PredictionsAreTyped ==
    ASSUME NEW p \in Prediction
    PROVE  p.confidence \in Nat /\ LabelOf(p) \in Label \cup {"UNKNOWN"}
BY VideoAssumption DEF Prediction, LabelOf

Typed == /\ frames \in Seq(Nat) /\ objects \in Seq(Seq(Prediction)) /\ damages \in Seq(Seq(Confidence))
         /\ Len(objects) = Len(damages) /\ Len(objects) <= Len(frames)

LEMMA TypesGive == EvidenceTypeOK => Typed
BY DEF EvidenceTypeOK, VideoTypeOK, Typed

LEMMA CountIsOfShown ==
    ASSUME Typed, NEW i \in 1 .. Len(objects), NEW label
    PROVE  /\ Count(i, label) \in Nat
           /\ Count(i, label) > 0 <=> Shows(i, label)
           /\ OfClass(i, label) \subseteq Nat
<1>1. objects[i] \in Seq(Prediction) /\ Len(objects[i]) \in Nat
  BY DEF Typed
<1>2. IsFiniteSet(1 .. Len(objects[i]))
  BY <1>1, FS_Interval
<1>3. IsFiniteSet(Counted(i, label))
  BY <1>2, FS_Subset DEF Counted
<1>4. Count(i, label) \in Nat
  BY <1>3, FS_CardinalityType DEF Count
<1>5. Count(i, label) = 0 <=> Counted(i, label) = {}
  BY <1>3, FS_EmptySet DEF Count
<1>6. Counted(i, label) # {} <=> Shows(i, label)
  BY DEF Counted, Shows
<1> QED BY <1>1, <1>4, <1>5, <1>6 DEF OfClass

LEMMA FirstOfTheGreatest ==
    ASSUME NEW n \in Nat \ {0}, NEW c \in [1 .. n -> Nat]
    PROVE  \E i \in 1 .. n : \A j \in 1 .. n : c[j] < c[i] \/ (c[j] = c[i] /\ i <= j)
<1> DEFINE Beats(i, k) == \A j \in 1 .. k : c[j] < c[i] \/ (c[j] = c[i] /\ i <= j)
           T == {k \in Nat : k + 1 <= n => \E i \in 1 .. k + 1 : Beats(i, k + 1)}
<1>1. 0 \in T
  <2>1. 1 \in 1 .. 0 + 1 /\ \A j \in 1 .. 0 + 1 : j = 1
    OBVIOUS
  <2>2. Beats(1, 0 + 1)
    BY <2>1
  <2> QED BY <2>1, <2>2
<1>2. ASSUME NEW k \in Nat, k \in T PROVE k + 1 \in T
  <2> SUFFICES ASSUME (k + 1) + 1 <= n PROVE \E i \in 1 .. (k + 1) + 1 : Beats(i, (k + 1) + 1)
    OBVIOUS
  <2> DEFINE m == (k + 1) + 1
  <2>1. PICK i \in 1 .. k + 1 : Beats(i, k + 1)
    BY <1>2
  <2>2. /\ m \in 1 .. n /\ i \in 1 .. m /\ i < m /\ c[m] \in Nat /\ c[i] \in Nat
        /\ \A j \in 1 .. m : c[j] \in Nat /\ (j \in 1 .. k + 1 \/ j = m)
    OBVIOUS
  <2> HIDE DEF m
  <2>6. \A j \in 1 .. k + 1 : c[j] \in Nat /\ c[j] <= c[i]
    BY <2>1, <2>2
  <2>3. ASSUME c[m] <= c[i] PROVE Beats(i, m)
    BY <2>1, <2>2, <2>3
  <2>4. ASSUME c[i] < c[m] PROVE Beats(m, m)
    <3>1. ASSUME NEW j \in 1 .. m PROVE c[j] < c[m] \/ (c[j] = c[m] /\ m <= j)
      <4>1. CASE j = m
        BY <2>2, <4>1
      <4>2. CASE j \in 1 .. k + 1
        BY <2>2, <2>4, <2>6, <4>2
      <4> QED BY <2>2, <4>1, <4>2
    <3> QED BY <3>1
  <2>5. \E l \in 1 .. m : Beats(l, m)
    BY <2>2, <2>3, <2>4
  <2> QED BY <2>5 DEF m
<1>3. n - 1 \in T
  <2> HIDE DEF T
  <2>1. Nat \subseteq T
    BY <1>1, <1>2, AllNumbers
  <2> QED BY <2>1
<1> QED BY <1>3

LEMMA BestFrameIsBest ==
    ASSUME Typed, Len(objects) = Len(frames), frames # <<>>, NEW label
    PROVE  /\ BestFrame(label) \in Frame
           /\ \A j \in Frame : Count(j, label) <= Count(BestFrame(label), label)
<1> DEFINE c == [i \in Frame |-> Count(i, label)]
           Best(i) == \A j \in Frame :
              \/ Count(j, label) < Count(i, label)
              \/ Count(j, label) = Count(i, label) /\ i <= j
<1>1. Len(frames) \in Nat \ {0} /\ Frame = 1 .. Len(frames)
  BY DEF Typed, Frame
<1>2. \A i \in Frame : Count(i, label) \in Nat
  BY CountIsOfShown DEF Frame
<1>3. c \in [1 .. Len(frames) -> Nat] /\ \A i \in Frame : c[i] = Count(i, label)
  BY <1>1, <1>2
<1> HIDE DEF c
<1>4. PICK i \in 1 .. Len(frames) :
          \A j \in 1 .. Len(frames) : c[j] < c[i] \/ (c[j] = c[i] /\ i <= j)
  BY <1>1, <1>3, FirstOfTheGreatest
<1>5. i \in Frame /\ Best(i)
  BY <1>1, <1>3, <1>4
<1>6. BestFrame(label) = CHOOSE l \in Frame : Best(l)
  BY DEF BestFrame
<1>7. BestFrame(label) \in Frame /\ Best(BestFrame(label))
  <2> HIDE DEF Best
  <2> QED BY <1>5, <1>6
<1>8. Count(BestFrame(label), label) \in Nat
  BY <1>2, <1>7
<1> QED BY <1>2, <1>7, <1>8

(***************************************************************************)
(* The classes of a frame: each is first somewhere, in one place.          *)
(***************************************************************************)
LEMMA EachClassIsFirstOnce ==
    ASSUME Typed, NEW i \in 1 .. Len(objects)
    PROVE  /\ FirstOf(i) \in SUBSET (1 .. Len(objects[i]))
           /\ \A label : Shows(i, label) <=> \E j \in FirstOf(i) : LabelOf(objects[i][j]) = label
           /\ \A j, k \in FirstOf(i) : LabelOf(objects[i][j]) = LabelOf(objects[i][k]) => j = k
<1>1. Len(objects[i]) \in Nat /\ \A j \in 1 .. Len(objects[i]) : j \in Nat
  BY DEF Typed
<1>2. FirstOf(i) \in SUBSET (1 .. Len(objects[i]))
  BY DEF FirstOf
<1>3. ASSUME NEW label, Shows(i, label) PROVE \E j \in FirstOf(i) : LabelOf(objects[i][j]) = label
  <2> DEFINE C == Counted(i, label)
  <2>1. C \in SUBSET Nat /\ C # {} /\ C \subseteq 1 .. Len(objects[i])
    BY <1>1, <1>3 DEF Shows, Counted
  <2>2. PICK j \in C : \A k \in C : j <= k
    BY <2>1, HasLeast
  <2>3. ASSUME NEW l \in 1 .. j - 1, Confident(objects[i][l])
        PROVE  LabelOf(objects[i][l]) # LabelOf(objects[i][j])
    <3>1. l \in 1 .. Len(objects[i]) /\ l < j /\ LabelOf(objects[i][j]) = label
      BY <1>1, <2>1, <2>2 DEF Counted
    <3>2. ~(j <= l)
      BY <2>1, <2>2, <3>1
    <3> QED BY <2>2, <2>3, <3>1, <3>2 DEF Counted
  <2>4. j \in FirstOf(i) /\ LabelOf(objects[i][j]) = label
    BY <2>2, <2>3 DEF FirstOf, Counted
  <2> QED BY <2>4
<1>4. ASSUME NEW j \in FirstOf(i) PROVE Shows(i, LabelOf(objects[i][j]))
  BY DEF FirstOf, Shows
<1>5. ASSUME NEW j \in FirstOf(i), NEW k \in FirstOf(i),
             LabelOf(objects[i][j]) = LabelOf(objects[i][k]), j < k
      PROVE  FALSE
  <2>1. j \in 1 .. k - 1 /\ Confident(objects[i][j])
    BY <1>1, <1>2, <1>5 DEF FirstOf
  <2> QED BY <1>5, <2>1 DEF FirstOf
<1>6. \A j, k \in FirstOf(i) : LabelOf(objects[i][j]) = LabelOf(objects[i][k]) => j = k
  BY <1>1, <1>2, <1>5
<1> QED BY <1>2, <1>3, <1>4, <1>6

LEMMA PresenceIsTyped ==
    ASSUME Typed, NEW i \in 1 .. Len(objects), NEW j \in 1 .. Len(objects[i])
    PROVE  Presence(i, j) \in Observation
<1>1. objects[i][j] \in Prediction /\ i \in Nat
  BY DEF Typed
<1>2. LabelOf(objects[i][j]) \in Label \cup {"UNKNOWN"}
  BY <1>1, PredictionsAreTyped
<1> QED BY <1>1, <1>2, CountIsOfShown DEF Presence, Observation

LEMMA NewsAreOfNewClasses ==
    ASSUME Typed, NEW i \in 1 .. Len(objects)
    PROVE  /\ News(i) \in Seq(Observation)
           /\ \A k \in 1 .. Len(News(i)) : /\ News(i)[k].type = "OBJECT_PRESENCE" /\ News(i)[k].frame = i
                                           /\ News(i)[k].from = OfClass(i, News(i)[k].label)
                                           /\ Shows(i, News(i)[k].label) /\ News(i)[k].label \notin seen
           /\ \A label : Shows(i, label) /\ label \notin seen =>
                 \E k \in 1 .. Len(News(i)) :
                    \A l \in 1 .. Len(News(i)) : News(i)[l].label = label <=> l = k
<1> DEFINE n == Len(objects[i])
           C == {j \in FirstOf(i) : IsNew(i, j)}
           x == [j \in C |-> Presence(i, j)]
           pieces == [j \in 1 .. n |-> IF j \in C THEN <<x[j]>> ELSE <<>>]
           flat == FlattenSeq(pieces)
<1>1. n \in Nat /\ C \in SUBSET (1 .. n) /\ x \in [C -> Observation]
  <2>1. n \in Nat /\ C \in SUBSET (1 .. n)
    BY EachClassIsFirstOnce DEF Typed
  <2> QED BY <2>1, PresenceIsTyped
<1>2. News(i) = flat
  <2>1. \A j \in 1 .. n : (IF j \in FirstOf(i) /\ IsNew(i, j) THEN <<Presence(i, j)>> ELSE <<>>)
                        = (IF j \in C THEN <<x[j]>> ELSE <<>>)
    OBVIOUS
  <2>2. [j \in 1 .. n |-> IF j \in FirstOf(i) /\ IsNew(i, j) THEN <<Presence(i, j)>> ELSE <<>>]
          = pieces
    BY <2>1
  <2> QED BY <2>2 DEF News
<1>3. \A j \in C : /\ x[j] = Presence(i, j) /\ j \in FirstOf(i)
                   /\ LabelOf(objects[i][j]) \notin seen
  BY DEF IsNew
<1>0. /\ pieces \in Seq(Seq(Observation)) /\ Len(pieces) = n /\ flat = FlattenSeq(pieces)
      /\ Picks(pieces, n, C, x)
  <2>1. \A j \in 1 .. n : pieces[j] = IF j \in C THEN <<x[j]>> ELSE <<>>
    OBVIOUS
  <2>2. \A j \in C : <<x[j]>> \in Seq(Observation)
    BY <1>1
  <2>3. \A j \in 1 .. n : (IF j \in C THEN <<x[j]>> ELSE <<>>) \in Seq(Observation)
    <3> HIDE DEF x
    <3> QED BY <2>2
  <2>4. pieces \in [1 .. n -> Seq(Observation)]
    <3> HIDE DEF x, C
    <3> QED BY <2>3
  <2>5. pieces \in Seq(Seq(Observation)) /\ Len(pieces) = n
    <3> HIDE DEF pieces
    <3> QED BY <1>1, <2>4
  <2> HIDE DEF pieces
  <2> QED BY <2>1, <2>5 DEF Picks
<1> HIDE DEF n, C, x, pieces, flat
<1>4. flat \in Seq(Observation) /\ Lists(flat, C, x)
  BY <1>0, <1>1, FlattenPicks
<1>5. PICK at \in [1 .. Len(flat) -> C] :
         /\ \A j, k \in 1 .. Len(flat) : j < k => at[j] < at[k]
         /\ \A k \in 1 .. Len(flat) : flat[k] = x[at[k]]
         /\ \A c \in C : \E k \in 1 .. Len(flat) : at[k] = c
  BY <1>4 DEF Lists
<1>6. ASSUME NEW k \in 1 .. Len(flat)
      PROVE  /\ flat[k] = Presence(i, at[k]) /\ at[k] \in FirstOf(i)
             /\ flat[k].label = LabelOf(objects[i][at[k]]) /\ flat[k].label \notin seen
             /\ flat[k].type = "OBJECT_PRESENCE" /\ flat[k].frame = i
             /\ flat[k].from = OfClass(i, flat[k].label)
  <2>1. at[k] \in C /\ flat[k] = Presence(i, at[k])
    BY <1>3, <1>5
  <2> QED BY <1>3, <2>1 DEF Presence
<1>7. \A k \in 1 .. Len(flat) : Shows(i, flat[k].label)
  BY <1>6, EachClassIsFirstOnce
<1>8. ASSUME NEW label, Shows(i, label), label \notin seen
      PROVE  \E k \in 1 .. Len(flat) : \A l \in 1 .. Len(flat) : flat[l].label = label <=> l = k
  <2>1. PICK j \in FirstOf(i) : LabelOf(objects[i][j]) = label
    BY <1>8, EachClassIsFirstOnce
  <2>2. j \in C
    BY <1>8, <2>1 DEF C, IsNew
  <2>3. PICK k \in 1 .. Len(flat) : at[k] = j
    BY <1>5, <2>2
  <2>4. ASSUME NEW l \in 1 .. Len(flat), flat[l].label = label PROVE l = k
    <3>1. at[l] = j
      BY <1>6, <2>1, <2>4, EachClassIsFirstOnce
    <3>2. ~(l < k) /\ ~(k < l) /\ l \in Nat /\ k \in Nat
      <4>1. j \in Nat
        BY <1>1, <2>2
      <4> QED BY <1>5, <2>3, <3>1, <4>1
    <3> QED BY <3>2
  <2>5. flat[k].label = label
    BY <1>6, <2>1, <2>3
  <2> QED BY <2>4, <2>5
<1> QED BY <1>2, <1>4, <1>6, <1>7, <1>8

(***************************************************************************)
(* The search of a frame for damage: after each prediction, what stands is *)
(* what stood before the frame or a prediction of this frame that is more  *)
(* confident, and no confident prediction passed is above it.              *)
(***************************************************************************)
Standing(w, i, k) ==
    /\ w \in [confidence : Nat, frame : Nat]
    /\ w = NoDamage <=> worst = NoDamage /\ \A l \in 1 .. k : ~(damages[i][l] >= MinConfidence)
    /\ \A l \in 1 .. k : damages[i][l] >= MinConfidence => damages[i][l] <= w.confidence
    /\ \/ w = worst
       \/ /\ w.frame = i /\ (worst # NoDamage => worst.confidence < w.confidence)
          /\ w.confidence >= MinConfidence /\ \E l \in 1 .. k : damages[i][l] = w.confidence

LEMMA ScanByPredictions ==
    ASSUME Typed, worst \in [confidence : Nat, frame : Nat], NEW i \in 1 .. Len(damages)
    PROVE  \E f \in [0 .. Len(damages[i]) -> [confidence : Nat, frame : Nat]] :
              /\ f[0] = worst
              /\ \A j \in 1 .. Len(damages[i]) :
                    f[j] = IF damages[i][j] >= MinConfidence /\ IsWorse(damages[i][j], f[j - 1])
                           THEN [confidence |-> damages[i][j], frame |-> i] ELSE f[j - 1]
              /\ Scan(i)[Len(damages[i])] = f[Len(damages[i])]
<1> DEFINE n == Len(damages[i])
           W == [confidence : Nat, frame : Nat]
           After(j, w) == IF damages[i][j] >= MinConfidence /\ IsWorse(damages[i][j], w)
                          THEN [confidence |-> damages[i][j], frame |-> i] ELSE w
           G == [p \in (1 .. n) \X W |-> After(p[1], p[2])]
           Is(g) == g = [j \in 0 .. n |-> IF j = 0 THEN worst ELSE After(j, g[j - 1])]
           J == CHOOSE g : Is(g)
<1>1. n \in Nat /\ worst \in W /\ i \in Nat /\ \A j \in 1 .. n : damages[i][j] \in Nat
  <2>1. damages[i] \in Seq(Confidence) /\ i \in Nat
    BY DEF Typed
  <2>2. n \in Nat /\ \A j \in 1 .. n : damages[i][j] \in Confidence
    BY <2>1
  <2>3. \A c \in Confidence : c \in Nat
    BY VideoAssumption
  <2>4. worst \in W
    OBVIOUS
  <2> HIDE DEF n, W
  <2> QED BY <2>1, <2>2, <2>3, <2>4
<1>2. \A j \in 1 .. n : \A w \in W : After(j, w) \in W
  BY <1>1
<1>3. \A j \in 1 .. n : \A w \in W : G[<<j, w>>] = After(j, w)
  <2> HIDE DEF After, W
  <2> QED OBVIOUS
<1> HIDE DEF G, W, After, n
<1>4. PICK f \in [0 .. n -> W] : Follows(f, G, worst, n)
  <2>1. IsStep(G, n, W)
    BY <1>2, <1>3 DEF IsStep
  <2> QED BY <1>1, <2>1, Recursion
<1>5. f[0] = worst /\ \A j \in 1 .. n : f[j - 1] \in W /\ f[j] = After(j, f[j - 1])
  <2>1. \A j \in 1 .. n : j - 1 \in 0 .. n
    BY <1>1
  <2> QED BY <1>3, <1>4, <2>1 DEF Follows
<1>6. Is(f)
  <2>1. \A j \in 0 .. n : j = 0 \/ j \in 1 .. n
    BY <1>1
  <2> QED BY <1>4, <1>5, <2>1
<1>7. Is(J)
  <2> HIDE DEF Is
  <2> QED BY <1>6, Zenon
<1> HIDE DEF J
<1>8. J[0] = worst /\ \A j \in 1 .. n : J[j] = After(j, J[j - 1])
  BY <1>1, <1>7
<1> DEFINE T == {k \in Nat : k <= n => J[k] = f[k]}
<1>9. n \in T
  <2>1. 0 \in T
    BY <1>5, <1>8
  <2>2. ASSUME NEW k \in Nat, k \in T PROVE k + 1 \in T
    <3> SUFFICES ASSUME k + 1 <= n PROVE J[k + 1] = f[k + 1]
      OBVIOUS
    <3>1. k + 1 \in 1 .. n /\ (k + 1) - 1 = k /\ J[k] = f[k]
      BY <1>1, <2>2
    <3>2. J[k + 1] = After(k + 1, J[k])
      BY <1>8, <3>1
    <3>3. f[k + 1] = After(k + 1, f[k])
      BY <1>5, <3>1
    <3> QED BY <3>1, <3>2, <3>3
  <2> HIDE DEF T
  <2>3. Nat \subseteq T
    BY <2>1, <2>2, AllNumbers
  <2> QED BY <1>1, <2>3
<1>10. Scan(i)[n] = f[n]
  <2>1. Scan(i) = J
    BY DEF Scan, J, After, n
  <2> QED BY <1>1, <1>9, <2>1
<1> QED BY <1>4, <1>5, <1>10 DEF After, W, n

LEMMA ScanLeavesTheWorst ==
    ASSUME Typed, worst \in [confidence : Nat, frame : Nat], NEW i \in 1 .. Len(damages)
    PROVE  Standing(Scan(i)[Len(damages[i])], i, Len(damages[i]))
<1> DEFINE n == Len(damages[i])
           W == [confidence : Nat, frame : Nat]
<1>1. n \in Nat /\ i \in Nat \ {0} /\ MinConfidence \in Nat /\ \A j \in 1 .. n : damages[i][j] \in Nat
  <2>1. damages[i] \in Seq(Confidence) /\ i \in Nat \ {0}
    BY DEF Typed
  <2>2. n \in Nat /\ \A j \in 1 .. n : damages[i][j] \in Confidence
    BY <2>1
  <2>3. (\A c \in Confidence : c \in Nat) /\ MinConfidence \in Nat
    BY VideoAssumption
  <2> HIDE DEF n
  <2> QED BY <2>1, <2>2, <2>3
<1>2. PICK f \in [0 .. n -> W] :
         /\ f[0] = worst
         /\ \A j \in 1 .. n : f[j] = IF damages[i][j] >= MinConfidence /\ IsWorse(damages[i][j], f[j - 1])
                                     THEN [confidence |-> damages[i][j], frame |-> i] ELSE f[j - 1]
         /\ Scan(i)[n] = f[n]
  BY ScanByPredictions
<1> HIDE DEF n
<1> DEFINE T == {k \in Nat : k <= n => Standing(f[k], i, k)}
<1>3. 0 \in T
  <2>1. 1 .. 0 = {}
    OBVIOUS
  <2>2. Standing(worst, i, 0)
    BY <2>1 DEF Standing
  <2> QED BY <1>2, <2>2
<1>4. ASSUME NEW k \in Nat, k \in T, k + 1 <= n PROVE Standing(f[k + 1], i, k + 1)
  <2>1. /\ k + 1 \in 1 .. n /\ (k + 1) - 1 = k /\ Standing(f[k], i, k)
        /\ 1 .. k + 1 = (1 .. k) \cup {k + 1} /\ 1 .. k \subseteq 1 .. n
    <3>1. Standing(f[k], i, k)
      BY <1>1, <1>4
    <3>2. k + 1 \in 1 .. n /\ (k + 1) - 1 = k
      BY <1>1, <1>4
    <3>3. 1 .. k + 1 = (1 .. k) \cup {k + 1} /\ 1 .. k \subseteq 1 .. n
      BY <1>1, <1>4
    <3> QED BY <3>1, <3>2, <3>3
  <2>2. f[k + 1] = IF damages[i][k + 1] >= MinConfidence /\ IsWorse(damages[i][k + 1], f[k])
                   THEN [confidence |-> damages[i][k + 1], frame |-> i] ELSE f[k]
    BY <1>2, <2>1
  <2>3. /\ f[k] \in W /\ damages[i][k + 1] \in Nat /\ worst.confidence \in Nat
        /\ \A l \in 1 .. k : damages[i][l] \in Nat
    <3>1. k \in 0 .. n /\ f[k] \in W
      BY <1>1, <1>2, <1>4
    <3>2. damages[i][k + 1] \in Nat /\ \A l \in 1 .. k : damages[i][l] \in Nat
      BY <1>1, <2>1
    <3> QED BY <3>1, <3>2
  <2>4. CASE damages[i][k + 1] >= MinConfidence /\ IsWorse(damages[i][k + 1], f[k])
    <3> DEFINE w == [confidence |-> damages[i][k + 1], frame |-> i]
    <3>1. f[k + 1] = w /\ w \in W /\ w # NoDamage
      BY <1>1, <2>2, <2>3, <2>4 DEF NoDamage
    <3>2. \A l \in 1 .. k : damages[i][l] >= MinConfidence => damages[i][l] <= damages[i][k + 1]
      BY <2>1, <2>3, <2>4 DEF Standing, IsWorse
    <3>3. worst # NoDamage => worst.confidence < damages[i][k + 1]
      <4> SUFFICES ASSUME worst # NoDamage PROVE worst.confidence < damages[i][k + 1]
        OBVIOUS
      <4>1. f[k] # NoDamage /\ worst.confidence <= f[k].confidence
        BY <2>1, <2>3 DEF Standing
      <4>2. f[k].confidence < damages[i][k + 1]
        BY <2>3, <2>4, <4>1 DEF IsWorse
      <4> QED BY <2>3, <4>1, <4>2
    <3> QED BY <2>1, <2>3, <2>4, <3>1, <3>2, <3>3 DEF Standing
  <2>5. CASE ~(damages[i][k + 1] >= MinConfidence)
    <3>1. f[k + 1] = f[k]
      BY <2>2, <2>5
    <3> QED BY <2>1, <2>5, <3>1 DEF Standing
  <2>6. CASE damages[i][k + 1] >= MinConfidence /\ ~IsWorse(damages[i][k + 1], f[k])
    <3>1. f[k + 1] = f[k] /\ f[k] # NoDamage /\ damages[i][k + 1] <= f[k].confidence
      BY <2>2, <2>3, <2>6 DEF IsWorse
    <3> QED BY <2>1, <3>1 DEF Standing
  <2> QED BY <2>4, <2>5, <2>6
<1>5. n \in T
  <2>1. ASSUME NEW k \in Nat, k \in T PROVE k + 1 \in T
    <3> SUFFICES ASSUME k + 1 <= n PROVE Standing(f[k + 1], i, k + 1)
      OBVIOUS
    <3> QED BY <1>4, <2>1
  <2> HIDE DEF T
  <2>2. Nat \subseteq T
    BY <1>3, <2>1, AllNumbers
  <2> QED BY <1>1, <2>2
<1> QED BY <1>2, <1>5 DEF n

-----------------------------------------------------------------------------
(***************************************************************************)
(* The invariant holds at the start, and nothing is counted, reported or   *)
(* searched before every frame has been sent to the models.                *)
(***************************************************************************)
Quiet ==
    /\ observations = <<>> /\ seen = {} /\ reasons = <<>> /\ scanned = 0
    /\ videoPhase \in {"sampling", "detecting", "expected"}

LEMMA NothingYet ==
    Quiet => MissingSoFar /\ CountsSoFar /\ ReportedSoFar /\ DamageSoFar /\ ReviewIffEvidence
<1> SUFFICES ASSUME Quiet
             PROVE  MissingSoFar /\ CountsSoFar /\ ReportedSoFar /\ DamageSoFar /\ ReviewIffEvidence
  OBVIOUS
<1>1. CountedSoFar = 0 /\ SearchedSoFar = 0 /\ Len(observations) = 0 /\ 1 .. 0 = {}
  BY DEF Quiet, CountedSoFar, SearchedSoFar
<1>2. \A label : Present(label) = {}
  BY <1>1 DEF Present
<1>3. MissingSoFar
  BY <1>1 DEF MissingSoFar, Quiet
<1>4. ReportedSoFar
  BY <1>1, <1>2 DEF ReportedSoFar, Quiet
<1>5. DamageSoFar /\ ReviewIffEvidence
  BY DEF Quiet, DamageSoFar, ReviewIffEvidence, Completed
<1>6. CountsSoFar
  BY <1>1 DEF CountsSoFar, CountsAreOfExpected
<1> QED BY <1>3, <1>4, <1>5, <1>6

LEMMA VideoStarts == VideoInit => VideoInvariant
<1> SUFFICES ASSUME VideoInit PROVE VideoInvariant
  OBVIOUS
<1>1. /\ type \in {"video", "image"} /\ expected \in Upto(Item, MaxExpected)
      /\ index = 0 /\ frames = <<>> /\ unencoded = {} /\ objects = <<>> /\ damages = <<>>
      /\ observations = <<>> /\ seen = {} /\ scanned = 0 /\ worst = NoDamage
      /\ reasons = <<>> /\ videoPhase = "sampling" /\ videoFailure = "none"
      /\ fps \in Rates \cup {DefaultFps}
  BY DEF VideoInit, VideoStart
<1>0. fps \in Nat \ {0}
  BY <1>1, VideoAssumption DEF Rates, DefaultFps
<1>2. Len(<<>>) = 0 /\ Frame = {} /\ MaxFrames \in Nat /\ MaxSampled \in Nat
  BY <1>1, VideoAssumption DEF Frame
<1>3. VideoTypeOK
  BY <1>1, <1>2 DEF VideoTypeOK, NoDamage
<1>4. EvidenceTypeOK
  BY <1>0, <1>1, <1>3 DEF EvidenceTypeOK, NoDamage
<1>5. PhasesInOrder
  BY <1>1 DEF PhasesInOrder, Completed
<1>6. SamplesSoFar
  <2>1. {frames[i] : i \in Frame} = {} /\ 0 .. index - 1 = {}
    BY <1>1, <1>2
  <2> QED BY <1>1, <1>2, <2>1 DEF SamplesSoFar
<1>7. Quiet
  BY <1>1 DEF Quiet
<1> QED BY <1>4, <1>5, <1>6, <1>7, NothingYet DEF VideoInvariant

(***************************************************************************)
(* Sampling.                                                               *)
(***************************************************************************)
LEMMA QuietIsEnough ==
    EvidenceTypeOK' /\ PhasesInOrder' /\ SamplesSoFar' /\ Quiet' => VideoInvariant'
<1>1. Quiet' => (MissingSoFar /\ CountsSoFar /\ ReportedSoFar /\ DamageSoFar /\ ReviewIffEvidence)'
  BY NothingYet, PTL
<1> QED BY <1>1 DEF VideoInvariant

LEMMA AnalysisFails == VideoInvariant /\ (\E code : code # "none" /\ VideoFail(code)) => VideoInvariant'
<1> SUFFICES ASSUME VideoInvariant, NEW code, code # "none", VideoFail(code) PROVE VideoInvariant'
  OBVIOUS
<1>1. /\ UNCHANGED <<type, expected, fps, index, frames, unencoded, objects, damages, observations,
                     seen, scanned, worst, reasons>>
      /\ videoFailure' # "none" /\ videoPhase' = "failed"
  BY DEF VideoFail
<1>2. EvidenceTypeOK'
  BY <1>1 DEF VideoInvariant, EvidenceTypeOK, VideoTypeOK, Frame
<1>3. PhasesInOrder'
  BY <1>1 DEF PhasesInOrder, Completed
<1>4. SamplesSoFar'
  BY <1>1, IntervalRests DEF VideoInvariant, SamplesSoFar, Frame
<1>5. MissingSoFar' /\ CountsSoFar' /\ ReportedSoFar' /\ DamageSoFar' /\ ReviewIffEvidence'
  BY <1>1 DEF MissingSoFar, CountsSoFar, ReportedSoFar, DamageSoFar, ReviewIffEvidence, Completed
<1> QED BY <1>2, <1>3, <1>4, <1>5 DEF VideoInvariant

LEMMA FrameIsSampled == VideoInvariant /\ ReadFrame => VideoInvariant'
<1> SUFFICES ASSUME VideoInvariant, ReadFrame PROVE VideoInvariant'
  OBVIOUS
<1>1. /\ UNCHANGED <<type, expected, fps, objects, damages, observations, seen, scanned,
                     worst, reasons, videoPhase, videoFailure>>
      /\ videoPhase = "sampling" /\ index' = index + 1 /\ index < MaxFrames
      /\ \/ ~IsDue(index) /\ frames' = frames /\ unencoded' = unencoded
         \/ IsDue(index) /\ frames' = Append(frames, index) /\ unencoded' = unencoded
         \/ IsDue(index) /\ frames' = frames /\ unencoded' = unencoded \cup {index}
      /\ Len(frames) < MaxSampled /\ type = "video"
  BY DEF ReadFrame, MayRead
<1>2. /\ index \in 0 .. MaxFrames /\ MaxFrames \in Nat /\ MaxSampled \in Nat
      /\ frames \in Seq(Nat) /\ Len(frames) \in Nat
      /\ \A i \in 1 .. Len(frames) : frames[i] \in 0 .. MaxFrames
      /\ objects = <<>> /\ Len(objects) = 0 /\ scanned = 0 /\ worst = NoDamage
  BY <1>1, VideoAssumption DEF VideoInvariant, EvidenceTypeOK, VideoTypeOK, PhasesInOrder, Frame
<1>3. /\ frames' \in Seq(Nat) /\ Len(frames') \in Nat /\ Len(frames') <= Len(frames) + 1
      /\ \A i \in 1 .. Len(frames') :
            \/ i \in 1 .. Len(frames) /\ frames'[i] = frames[i]
            \/ i = Len(frames) + 1 /\ frames'[i] = index /\ IsDue(index)
  <2>1. CASE frames' = frames
    BY <1>2, <2>1
  <2>2. CASE frames' = Append(frames, index) /\ IsDue(index)
    <3>1. index \in Nat
      BY <1>2
    <3>2. /\ frames' \in Seq(Nat) /\ Len(frames') = Len(frames) + 1
          /\ \A i \in 1 .. Len(frames) + 1 : frames'[i] = IF i <= Len(frames) THEN frames[i] ELSE index
      BY <1>2, <2>2, <3>1
    <3> QED BY <1>2, <2>2, <3>2
  <2> QED BY <1>1, <2>1, <2>2
<1>4. EvidenceTypeOK'
  <2>1. /\ Len(frames') <= MaxSampled /\ \A i \in Frame' : frames'[i] \in 0 .. MaxFrames
        /\ index' \in 0 .. MaxFrames
    <3>1. Len(frames') <= MaxSampled /\ index' \in 0 .. MaxFrames /\ index \in 0 .. MaxFrames
      BY <1>1, <1>2, <1>3
    <3>2. \A i \in 1 .. Len(frames') : frames'[i] \in 0 .. MaxFrames
      BY <1>2, <1>3, <3>1
    <3> QED BY <3>1, <3>2 DEF Frame
  <2>2. Len(objects') <= Len(frames') /\ scanned' \in 0 .. Len(frames') /\ worst'.frame \in 0 .. Len(frames')
    BY <1>1, <1>2, <1>3 DEF NoDamage
  <2>3. VideoTypeOK'
    BY <1>1, <2>1, <2>2 DEF VideoInvariant, EvidenceTypeOK, VideoTypeOK
  <2>4. unencoded' \subseteq Nat
    <3>1. unencoded \subseteq Nat /\ index \in Nat
      BY <1>2 DEF VideoInvariant, EvidenceTypeOK
    <3> QED BY <1>1, <3>1
  <2> QED BY <1>1, <1>3, <2>3, <2>4 DEF VideoInvariant, EvidenceTypeOK
<1>5. PhasesInOrder'
  BY <1>1 DEF VideoInvariant, PhasesInOrder, Completed
<1>6. SamplesSoFar'
  <2>1. /\ \A i \in 1 .. Len(frames) : frames[i] % Interval = 0 /\ frames[i] < index /\ frames[i] \in Nat
        /\ \A i, j \in 1 .. Len(frames) : i < j => frames[i] < frames[j]
    BY <1>1, <1>2 DEF VideoInvariant, SamplesSoFar, Frame
  <2>2. ASSUME NEW i \in 1 .. Len(frames')
        PROVE  frames'[i] % Interval = 0 /\ frames'[i] < index' /\ frames'[i] <= index'
    <3>1. index \in Nat /\ index' = index + 1
      BY <1>1, <1>2
    <3>2. CASE i \in 1 .. Len(frames) /\ frames'[i] = frames[i]
      BY <2>1, <3>1, <3>2
    <3>3. CASE frames'[i] = index /\ IsDue(index)
      BY <3>1, <3>3 DEF IsDue
    <3> QED BY <1>3, <3>2, <3>3
  <2>3. ASSUME NEW i \in 1 .. Len(frames'), NEW j \in 1 .. Len(frames'), i < j PROVE frames'[i] < frames'[j]
    <3>1. i \in 1 .. Len(frames) /\ frames'[i] = frames[i]
      BY <1>2, <1>3, <2>3
    <3>2. CASE j \in 1 .. Len(frames) /\ frames'[j] = frames[j]
      BY <2>1, <2>3, <3>1, <3>2
    <3>3. CASE frames'[j] = index
      BY <2>1, <3>1, <3>3
    <3> QED BY <1>3, <3>2, <3>3
  <2> DEFINE Due(k) == {n \in 0 .. k - 1 : n % Interval = 0}
             sampled == {frames[i] : i \in 1 .. Len(frames)}
             next == {frames'[i] : i \in 1 .. Len(frames')}
  <2>4. sampled = Due(index) \ unencoded /\ unencoded \subseteq 0 .. index - 1
    BY <1>1 DEF VideoInvariant, SamplesSoFar, Frame
  <2>5. /\ index \notin unencoded /\ index \notin Due(index) /\ unencoded' \subseteq 0 .. index' - 1
        /\ Due(index') = IF IsDue(index) THEN Due(index) \cup {index} ELSE Due(index)
    <3>1. 0 .. index' - 1 = (0 .. index - 1) \cup {index} /\ index \notin 0 .. index - 1
      BY <1>1, <1>2
    <3> QED BY <1>1, <2>4, <3>1 DEF IsDue
  <2>6. next = IF frames' = frames THEN sampled ELSE sampled \cup {index}
    <3>1. CASE frames' = frames
      BY <3>1
    <3>2. CASE frames' = Append(frames, index) /\ frames' # frames
      <4>1. /\ Len(frames') = Len(frames) + 1
            /\ \A i \in 1 .. Len(frames) : frames'[i] = frames[i]
            /\ frames'[Len(frames) + 1] = index
        BY <1>2, <3>2
      <4>2. 1 .. Len(frames) + 1 = (1 .. Len(frames)) \cup {Len(frames) + 1}
        BY <1>2
      <4> QED BY <3>2, <4>1, <4>2
    <3> QED BY <1>1, <3>1, <3>2
  <2>7. next = Due(index') \ unencoded'
    <3> HIDE DEF Due, sampled, next
    <3>1. CASE ~IsDue(index)
      BY <1>1, <2>4, <2>5, <2>6, <3>1
    <3>2. CASE IsDue(index) /\ frames' = frames /\ unencoded' = unencoded \cup {index}
      BY <2>4, <2>5, <2>6, <3>2
    <3>3. CASE IsDue(index) /\ frames' = Append(frames, index) /\ unencoded' = unencoded
      <4>1. frames' # frames
        BY <1>2, <3>3
      <4> QED BY <2>4, <2>5, <2>6, <3>3, <4>1
    <3> QED BY <1>1, <3>1, <3>2, <3>3
  <2>8. Interval' = Interval /\ type' = "video"
    BY <1>1, IntervalRests
  <2>9. next = {n \in 0 .. index' - 1 : n % Interval = 0} \ unencoded'
    BY <2>7
  <2> HIDE DEF next
  <2>10. next = {frames'[i] : i \in Frame'}
    BY DEF next, Frame
  <2> QED BY <1>1, <2>2, <2>3, <2>5, <2>8, <2>9, <2>10 DEF SamplesSoFar, Frame
<1>7. Quiet'
  BY <1>1 DEF VideoInvariant, PhasesInOrder, Quiet
<1> QED BY <1>4, <1>5, <1>6, <1>7, QuietIsEnough

LEMMA SamplingEnds == VideoInvariant /\ (EndSampling \/ SampleImage) => VideoInvariant'
<1> SUFFICES ASSUME VideoInvariant, EndSampling \/ SampleImage PROVE VideoInvariant'
  OBVIOUS
<1>1. /\ UNCHANGED <<type, expected, fps, index, unencoded, objects, damages, observations, seen, scanned,
                     worst, reasons, videoFailure>>
      /\ videoPhase = "sampling" /\ videoPhase' = "detecting"
      /\ (frames' = frames /\ frames # <<>>) \/ (frames' = <<0>> /\ type = "image")
  BY DEF EndSampling, SampleImage
<1>2. /\ index \in 0 .. MaxFrames /\ MaxFrames \in Nat /\ MaxSampled \in Nat \ {0}
      /\ frames \in Seq(Nat) /\ Len(frames) \in Nat /\ Len(frames) <= MaxSampled
      /\ \A i \in 1 .. Len(frames) : frames[i] \in 0 .. MaxFrames
      /\ objects = <<>> /\ Len(objects) = 0 /\ scanned = 0 /\ worst = NoDamage
  BY <1>1, VideoAssumption DEF VideoInvariant, EvidenceTypeOK, VideoTypeOK, PhasesInOrder, Frame
<1>3. /\ frames' \in Seq(Nat) /\ Len(frames') \in Nat /\ Len(frames') <= MaxSampled /\ frames' # <<>>
      /\ \A i \in 1 .. Len(frames') : frames'[i] \in 0 .. MaxFrames
  <2>1. CASE frames' = frames /\ frames # <<>>
    BY <1>2, <2>1
  <2>2. CASE frames' = <<0>>
    <3>1. <<0>> \in Seq(Nat) /\ Len(<<0>>) = 1 /\ \A i \in 1 .. 1 : i = 1 /\ <<0>>[1] = 0
      OBVIOUS
    <3> QED BY <1>2, <2>2, <3>1
  <2> QED BY <1>1, <2>1, <2>2
<1>4. EvidenceTypeOK'
  <2>1. Len(objects') <= Len(frames') /\ scanned' \in 0 .. Len(frames') /\ worst'.frame \in 0 .. Len(frames')
    BY <1>1, <1>2, <1>3 DEF NoDamage
  <2>2. VideoTypeOK'
    BY <1>1, <1>3, <2>1 DEF VideoInvariant, EvidenceTypeOK, VideoTypeOK, Frame
  <2> QED BY <1>1, <1>3, <2>2 DEF VideoInvariant, EvidenceTypeOK
<1>5. PhasesInOrder'
  BY <1>1, <1>2, <1>3 DEF VideoInvariant, PhasesInOrder, Completed
<1>6. SamplesSoFar'
  <2>1. CASE frames' = frames
    BY <1>1, <2>1, IntervalRests DEF VideoInvariant, SamplesSoFar, Frame
  <2>2. CASE frames' = <<0>> /\ type = "image"
    <3>1. 0 % Interval = 0 /\ Interval' = Interval
      <4>1. Interval \in Nat \ {0}
        BY IntervalIsRounded DEF VideoInvariant, EvidenceTypeOK
      <4> QED BY <1>1, <4>1, IntervalRests
    <3>2. Frame' = {1} /\ frames'[1] = 0 /\ 0 <= index' /\ Len(frames') = 1
      BY <1>1, <1>2, <2>2 DEF Frame
    <3>3. unencoded' \subseteq 0 .. index' - 1 /\ type' = "image"
      BY <1>1, <2>2 DEF VideoInvariant, SamplesSoFar
    <3> QED BY <1>1, <3>1, <3>2, <3>3 DEF SamplesSoFar
  <2> QED BY <1>1, <2>1, <2>2
<1>7. Quiet'
  BY <1>1 DEF VideoInvariant, PhasesInOrder, Quiet
<1> QED BY <1>4, <1>5, <1>6, <1>7, QuietIsEnough

(***************************************************************************)
(* Detection.                                                              *)
(***************************************************************************)
LEMMA FrameIsDetected == VideoInvariant /\ (Detect \/ Detected) => VideoInvariant'
<1> SUFFICES ASSUME VideoInvariant, Detect \/ Detected PROVE VideoInvariant'
  OBVIOUS
<1>1. Typed
  BY TypesGive DEF VideoInvariant
<1>2. /\ UNCHANGED <<type, expected, fps, index, frames, unencoded, observations, seen, scanned,
                     worst, reasons, videoFailure>>
      /\ videoPhase = "detecting"
  BY DEF Detect, Detected
<1>3. /\ objects' \in Seq(Seq(Prediction)) /\ damages' \in Seq(Seq(Confidence))
      /\ Len(objects') = Len(damages') /\ Len(objects') <= Len(frames')
      /\ videoPhase' \in {"detecting", "expected"}
      /\ videoPhase' = "expected" => Len(objects') = Len(frames')
  <2>1. CASE Detected
    BY <1>1, <2>1 DEF Detected, Typed
  <2>2. CASE Detect
    <3>0. PICK found \in Upto(Prediction, Left) :
             \E damaged \in Upto(Confidence, Left - Len(found)) :
                objects' = Append(objects, found) /\ damages' = Append(damages, damaged)
      BY <2>2 DEF Detect
    <3>1. PICK damaged \in Upto(Confidence, Left - Len(found)) :
             objects' = Append(objects, found) /\ damages' = Append(damages, damaged)
      BY <3>0
    <3>2. Left \in Int
      <4>1. FlattenSeq(objects) \in Seq(Prediction) /\ FlattenSeq(damages) \in Seq(Confidence)
        BY <1>1, FlattenIsTyped DEF Typed
      <4>2. Len(FlattenSeq(objects)) \in Nat /\ Len(FlattenSeq(damages)) \in Nat
        BY <4>1
      <4>3. MaxPredictions \in Nat
        BY VideoAssumption
      <4> QED BY <4>2, <4>3 DEF Left
    <3>3. found \in Seq(Prediction)
      BY <3>2, UptoAreSequences
    <3>4. damaged \in Seq(Confidence)
      <4>1. Left - Len(found) \in Int
        BY <3>2, <3>3
      <4> QED BY <4>1, UptoAreSequences
    <3>5. Len(objects) < Len(frames) /\ frames' = frames /\ videoPhase' = "detecting"
      BY <1>2, <2>2 DEF Detect
    <3>6. /\ objects \in Seq(Seq(Prediction)) /\ damages \in Seq(Seq(Confidence)) /\ frames \in Seq(Nat)
          /\ Len(objects) = Len(damages)
      BY <1>1 DEF Typed
    <3>7. objects' \in Seq(Seq(Prediction)) /\ Len(objects') = Len(objects) + 1
      BY <3>1, <3>3, <3>6
    <3>8. damages' \in Seq(Seq(Confidence)) /\ Len(damages') = Len(damages) + 1
      BY <3>1, <3>4, <3>6
    <3>9. Len(objects) \in Nat /\ Len(frames) \in Nat
      BY <3>6
    <3> QED BY <3>5, <3>6, <3>7, <3>8, <3>9
  <2> QED BY <2>1, <2>2
<1>4. EvidenceTypeOK'
  BY <1>2, <1>3 DEF VideoInvariant, EvidenceTypeOK, VideoTypeOK, Frame
<1>5. PhasesInOrder'
  <2>1. Len(observations') <= Len(expected')
    <3>1. observations' = <<>> /\ expected' \in Upto(Item, MaxExpected) /\ MaxExpected \in Nat
      BY <1>2, VideoAssumption DEF VideoInvariant, PhasesInOrder, EvidenceTypeOK, VideoTypeOK
    <3>2. expected' \in Seq(Item)
      BY <3>1, UptoAreSequences
    <3> QED BY <3>1, <3>2
  <2> QED BY <1>2, <1>3, <2>1 DEF VideoInvariant, PhasesInOrder, Completed
<1>6. SamplesSoFar'
  BY <1>2, <1>3, IntervalRests DEF VideoInvariant, SamplesSoFar, Frame
<1>7. Quiet'
  BY <1>2, <1>3 DEF VideoInvariant, PhasesInOrder, Quiet
<1> QED BY <1>4, <1>5, <1>6, <1>7, QuietIsEnough

-----------------------------------------------------------------------------
(***************************************************************************)
(* Aggregation leaves the frames and what the models said of them alone.   *)
(***************************************************************************)
Given == <<type, expected, fps, index, frames, unencoded, objects, damages>>

LEMMA EvidenceRests ==
    ASSUME UNCHANGED Given
    PROVE  /\ Frame' = Frame /\ (SamplesSoFar /\ videoPhase # "sampling" /\ videoPhase' # "sampling" => SamplesSoFar')
           /\ \A i, label : /\ Count(i, label)' = Count(i, label) /\ OfClass(i, label)' = OfClass(i, label)
                            /\ Shows(i, label)' <=> Shows(i, label)
           /\ \A item : IsMissing(item)' <=> IsMissing(item)
           /\ \A i : HasDamage(i)' <=> HasDamage(i)
           /\ \A label : IsExpected(label)' <=> IsExpected(label)
<1>1. Frame' = Frame /\ (SamplesSoFar /\ videoPhase # "sampling" /\ videoPhase' # "sampling" => SamplesSoFar')
  BY IntervalRests DEF Given, Frame, SamplesSoFar
<1>2. \A i, label : Count(i, label)' = Count(i, label)
  BY DEF Given, Count, Counted
<1>3. \A i, label : OfClass(i, label)' = OfClass(i, label) /\ (Shows(i, label)' <=> Shows(i, label))
  BY DEF Given, OfClass, Shows
<1>4. \A item : IsMissing(item)' <=> IsMissing(item)
  BY <1>1, <1>2 DEF IsMissing
<1>5. \A i : HasDamage(i)' <=> HasDamage(i)
  BY DEF Given, HasDamage
<1>6. \A label : IsExpected(label)' <=> IsExpected(label)
  BY DEF Given, IsExpected
<1> QED BY <1>1, <1>2, <1>3, <1>4, <1>5, <1>6

LEMMA CountsRest ==
    ASSUME CountsSoFar, UNCHANGED Given, videoPhase # "failed", NEW n \in Nat,
           CountedSoFar = n, CountedSoFar' = n, n <= Len(observations'),
           \A k \in 1 .. n : observations'[k] = observations[k]
    PROVE  CountsSoFar'
<1>1. \A k \in 1 .. n : IsCountOf(observations[k], expected[k])
  BY DEF CountsSoFar, CountsAreOfExpected
<1>2. ASSUME NEW k \in 1 .. n PROVE IsCountOf(observations[k], expected[k])'
  <2>1. observations'[k] = observations[k] /\ expected'[k] = expected[k] /\ Frame' = Frame
    BY EvidenceRests DEF Given
  <2>2. \A i, label : Count(i, label)' = Count(i, label)
    BY EvidenceRests
  <2> QED BY <1>1, <2>1, <2>2 DEF IsCountOf
<1> QED BY <1>2 DEF CountsSoFar, CountsAreOfExpected

LEMMA CountsAreKept ==
    ASSUME CountsSoFar, UNCHANGED <<Given, observations>>, videoPhase # "failed", CountedSoFar \in Nat,
           CountedSoFar' = CountedSoFar
    PROVE  CountsSoFar'
<1>1. CountedSoFar <= Len(observations)
  BY DEF CountsSoFar, CountsAreOfExpected
<1> QED BY <1>1, CountsRest

LEMMA CountedIsNumber == EvidenceTypeOK => CountedSoFar \in Nat
<1> SUFFICES ASSUME EvidenceTypeOK PROVE CountedSoFar \in Nat
  OBVIOUS
<1>1. expected \in Seq(Item) /\ observations \in Seq(Observation)
  <2>1. expected \in Upto(Item, MaxExpected) /\ MaxExpected \in Int
    BY VideoAssumption DEF EvidenceTypeOK, VideoTypeOK
  <2> QED BY <2>1, UptoAreSequences DEF EvidenceTypeOK
<1> QED BY <1>1 DEF CountedSoFar

LEMMA ItemsAreTyped ==
    ASSUME EvidenceTypeOK
    PROVE  /\ expected \in Seq(Item) /\ Len(expected) \in Nat
           /\ \A k \in 1 .. Len(expected) : /\ expected[k] \in Item /\ expected[k].label \in Label
                                            /\ expected[k].expectedCount \in Nat
<1>1. expected \in Seq(Item)
  <2>1. expected \in Upto(Item, MaxExpected) /\ MaxExpected \in Int
    BY VideoAssumption DEF EvidenceTypeOK, VideoTypeOK
  <2> QED BY <2>1, UptoAreSequences
<1>2. \A item \in Item : item.label \in Label /\ item.expectedCount \in Nat
  BY VideoAssumption DEF Item
<1> QED BY <1>1, <1>2

(***************************************************************************)
(* Counting: the best frame shows less than expected exactly if every      *)
(* frame does.                                                             *)
(***************************************************************************)
LEMMA ExpectedIsCounted == VideoInvariant /\ CountExpected => VideoInvariant'
<1> SUFFICES ASSUME VideoInvariant, CountExpected PROVE VideoInvariant'
  OBVIOUS
<1> DEFINE n == Len(observations)
           item == expected[n + 1]
           best == BestFrame(item.label)
           count == Count(best, item.label)
           new == [type |-> "OBJECT_COUNT", label |-> item.label, value |-> count,
                   from |-> OfClass(best, item.label), frame |-> best]
<1>1. /\ UNCHANGED <<type, expected, fps, index, frames, unencoded, objects, damages, scanned, worst, videoPhase, videoFailure>>
      /\ videoPhase = "expected" /\ n < Len(expected)
      /\ observations' = Append(observations, new)
      /\ seen' = seen \cup {item.label}
      /\ reasons' = IF count < item.expectedCount THEN Append(reasons, item.label) ELSE reasons
  BY DEF CountExpected, IsShort
<1>2. EvidenceTypeOK /\ Typed /\ UNCHANGED Given
  BY <1>1, TypesGive DEF VideoInvariant, Given
<1>3. /\ scanned = 0 /\ worst = NoDamage /\ frames # <<>> /\ Len(objects) = Len(frames)
      /\ n \in Nat /\ observations \in Seq(Observation) /\ reasons \in Seq(Label \cup {"DAMAGED_PARCEL_DETECTED"})
  BY <1>1, <1>2 DEF VideoInvariant, PhasesInOrder, EvidenceTypeOK
<1>4. /\ Len(expected) \in Nat /\ n + 1 \in 1 .. Len(expected) /\ item.label \in Label
      /\ item.expectedCount \in Nat
  BY <1>1, <1>2, <1>3, ItemsAreTyped
<1>5. best \in Frame /\ \A j \in Frame : Count(j, item.label) <= count
  BY <1>2, <1>3, BestFrameIsBest
<1>6. \A i \in Frame : i \in Nat /\ i \in 1 .. Len(objects) /\ Count(i, item.label) \in Nat
  BY <1>2, <1>3, CountIsOfShown DEF Frame, Typed
<1>7. count < item.expectedCount <=> IsMissing(item)
  BY <1>4, <1>5, <1>6 DEF IsMissing
<1>8. new \in Observation
  <2>1. OfClass(best, item.label) \subseteq Nat
    BY <1>2, <1>5, <1>6, CountIsOfShown
  <2> QED BY <1>4, <1>5, <1>6, <2>1 DEF Observation
<1> HIDE DEF item, best, count, new, n
<1>9. /\ observations' \in Seq(Observation) /\ Len(observations') = n + 1
      /\ \A k \in 1 .. n : observations'[k] = observations[k]
      /\ observations'[n + 1] = new
  BY <1>1, <1>3, <1>8 DEF n
<1>10. reasons' \in Seq(Label \cup {"DAMAGED_PARCEL_DETECTED"})
       /\ (reasons' # <<>> <=> reasons # <<>> \/ IsMissing(item))
  <2>1. CASE IsMissing(item)
    <3>1. reasons' = Append(reasons, item.label) /\ item.label \in Label \cup {"DAMAGED_PARCEL_DETECTED"}
      BY <1>1, <1>4, <1>7, <2>1
    <3> QED BY <1>3, <2>1, <3>1
  <2>2. CASE ~IsMissing(item)
    BY <1>1, <1>3, <1>7, <2>2
  <2> QED BY <2>1, <2>2
<1>11. EvidenceTypeOK'
  <2>1. VideoTypeOK'
    BY <1>1 DEF VideoInvariant, EvidenceTypeOK, VideoTypeOK, Frame
  <2> QED BY <1>1, <1>9, <1>10, <2>1 DEF VideoInvariant, EvidenceTypeOK
<1>12. PhasesInOrder'
  <2>1. Len(observations') <= Len(expected')
    BY <1>1, <1>4, <1>9
  <2> QED BY <1>1, <2>1 DEF VideoInvariant, PhasesInOrder, Completed
<1>13. SamplesSoFar'
  BY <1>1, <1>2, EvidenceRests DEF VideoInvariant
<1>14. CountedSoFar = n /\ CountedSoFar' = n + 1 /\ SearchedSoFar = 0 /\ SearchedSoFar' = 0
  BY <1>1, <1>3, <1>9 DEF CountedSoFar, SearchedSoFar, n
<1>15. 1 .. n + 1 = (1 .. n) \cup {n + 1} /\ 1 .. 0 = {}
  BY <1>3
<1>16. MissingSoFar'
  <2>1. reasons # <<>> <=> \E k \in 1 .. n : IsMissing(expected[k])
    BY <1>1, <1>14 DEF VideoInvariant, MissingSoFar
  <2>2. reasons' # <<>> <=> \E k \in 1 .. n + 1 : IsMissing(expected[k])
    BY <1>10, <1>15, <2>1 DEF item
  <2>3. \A i : IsMissing(i)' <=> IsMissing(i)
    BY <1>2, EvidenceRests
  <2>4. reasons' # <<>> <=> \E k \in 1 .. n + 1 : IsMissing(expected[k])'
    BY <1>1, <2>2, <2>3
  <2> QED BY <1>1, <1>14, <2>4 DEF MissingSoFar
<1>20. CountsSoFar'
  <2>1. n <= Len(observations) /\ \A k \in 1 .. n : IsCountOf(observations[k], expected[k])
    BY <1>1, <1>14 DEF VideoInvariant, CountsSoFar, CountsAreOfExpected
  <2>2. IsCountOf(new, item)
    BY <1>5 DEF IsCountOf, new, count
  <2>3. \A k \in 1 .. n + 1 : IsCountOf(observations'[k], expected[k])
    BY <1>9, <1>15, <2>1, <2>2 DEF item
  <2>4. ASSUME NEW k \in 1 .. n + 1 PROVE IsCountOf(observations[k], expected[k])'
    <3>1. expected'[k] = expected[k] /\ Frame' = Frame
      BY <1>1 DEF Frame
    <3>2. \A i, label : Count(i, label)' = Count(i, label)
      BY <1>2, EvidenceRests
    <3> QED BY <2>3, <3>1, <3>2 DEF IsCountOf
  <2> QED BY <1>3, <1>9, <1>14, <2>4 DEF CountsSoFar, CountsAreOfExpected
<1>17. ReportedSoFar'
  <2>1. /\ seen = {expected[k].label : k \in 1 .. n}
        /\ \A label \in Label \cup {"UNKNOWN"} : Present(label) = {}
    BY <1>1, <1>14, <1>15 DEF VideoInvariant, ReportedSoFar
  <2>2. seen' = {expected'[k].label : k \in 1 .. n + 1}
    BY <1>1, <1>15, <2>1 DEF item
  <2>3. ASSUME NEW label \in Label \cup {"UNKNOWN"} PROVE Present(label)' = {}
    <3>1. \A k \in 1 .. n : ~(observations[k].type = "OBJECT_PRESENCE" /\ observations[k].label = label)
      BY <2>1 DEF Present, n
    <3>2. new.type # "OBJECT_PRESENCE"
      BY DEF new
    <3>3. \A k \in 1 .. n + 1 : ~(observations'[k].type = "OBJECT_PRESENCE" /\ observations'[k].label = label)
      BY <1>9, <1>15, <3>1, <3>2
    <3> QED BY <1>9, <3>3 DEF Present
  <2> QED BY <1>14, <1>15, <2>2, <2>3 DEF ReportedSoFar
<1>18. DamageSoFar' /\ ReviewIffEvidence'
  BY <1>1 DEF DamageSoFar, ReviewIffEvidence, Completed
<1> QED BY <1>11, <1>12, <1>13, <1>16, <1>17, <1>18, <1>20 DEF VideoInvariant

(***************************************************************************)
(* From one loop to the next.                                              *)
(***************************************************************************)
LEMMA AllExpectedAreCounted == VideoInvariant /\ ExpectedCounted => VideoInvariant'
<1> SUFFICES ASSUME VideoInvariant, ExpectedCounted PROVE VideoInvariant'
  OBVIOUS
<1>1. /\ UNCHANGED <<type, expected, fps, index, frames, unencoded, objects, damages, observations,
                     seen, scanned, worst, reasons, videoFailure>>
      /\ videoPhase = "expected" /\ videoPhase' = "present" /\ Len(observations) = Len(expected)
      /\ UNCHANGED Given
  BY DEF ExpectedCounted, Given
<1>2. scanned = 0 /\ Frame' = Frame
  BY <1>1 DEF VideoInvariant, PhasesInOrder, Frame
<1>3. CountedSoFar' = CountedSoFar /\ SearchedSoFar' = SearchedSoFar
  BY <1>1 DEF CountedSoFar, SearchedSoFar
<1>4. EvidenceTypeOK'
  BY <1>1, <1>2 DEF VideoInvariant, EvidenceTypeOK, VideoTypeOK
<1>5. PhasesInOrder'
  BY <1>1 DEF VideoInvariant, PhasesInOrder, Completed
<1>6. SamplesSoFar'
  BY <1>1, EvidenceRests DEF VideoInvariant
<1>7. MissingSoFar'
  <2>1. \A item : IsMissing(item)' <=> IsMissing(item)
    BY <1>1, EvidenceRests
  <2> QED BY <1>1, <1>3, <2>1 DEF VideoInvariant, MissingSoFar
<1>8. ReportedSoFar'
  <2>1. \A label : Present(label)' = Present(label) /\ (IsExpected(label)' <=> IsExpected(label))
    BY <1>1 DEF Present, IsExpected
  <2>2. \A i, label : (Shows(i, label)' <=> Shows(i, label)) /\ OfClass(i, label)' = OfClass(i, label)
    BY <1>1, EvidenceRests
  <2> QED BY <1>1, <1>3, <2>1, <2>2 DEF VideoInvariant, ReportedSoFar
<1>9. DamageSoFar' /\ ReviewIffEvidence'
  BY <1>1 DEF DamageSoFar, ReviewIffEvidence, Completed
<1>10. CountsSoFar'
  BY <1>1, <1>3, CountedIsNumber, CountsAreKept DEF VideoInvariant
<1> QED BY <1>4, <1>5, <1>6, <1>7, <1>8, <1>9, <1>10 DEF VideoInvariant

LEMMA AllFramesAreReported == VideoInvariant /\ PresenceReported => VideoInvariant'
<1> SUFFICES ASSUME VideoInvariant, PresenceReported PROVE VideoInvariant'
  OBVIOUS
<1>1. /\ UNCHANGED <<type, expected, fps, index, frames, unencoded, objects, damages, observations,
                     seen, worst, reasons, videoFailure>>
      /\ videoPhase = "present" /\ videoPhase' = "damage" /\ scanned = Len(frames) /\ scanned' = 0
      /\ UNCHANGED Given
  BY DEF PresenceReported, Given
<1>2. worst = NoDamage /\ Frame' = Frame /\ Len(frames) \in Nat
  BY <1>1 DEF VideoInvariant, PhasesInOrder, EvidenceTypeOK, Frame
<1>3. CountedSoFar' = CountedSoFar /\ SearchedSoFar' = SearchedSoFar
  BY <1>1 DEF CountedSoFar, SearchedSoFar
<1>4. EvidenceTypeOK'
  BY <1>1, <1>2 DEF VideoInvariant, EvidenceTypeOK, VideoTypeOK
<1>5. PhasesInOrder'
  BY <1>1 DEF VideoInvariant, PhasesInOrder, Completed
<1>6. SamplesSoFar'
  BY <1>1, EvidenceRests DEF VideoInvariant
<1>7. MissingSoFar'
  <2>1. \A item : IsMissing(item)' <=> IsMissing(item)
    BY <1>1, EvidenceRests
  <2> QED BY <1>1, <1>3, <2>1 DEF VideoInvariant, MissingSoFar
<1>8. ReportedSoFar'
  <2>1. \A label : Present(label)' = Present(label) /\ (IsExpected(label)' <=> IsExpected(label))
    BY <1>1 DEF Present, IsExpected
  <2>2. \A i, label : (Shows(i, label)' <=> Shows(i, label)) /\ OfClass(i, label)' = OfClass(i, label)
    BY <1>1, EvidenceRests
  <2> QED BY <1>1, <1>3, <2>1, <2>2 DEF VideoInvariant, ReportedSoFar
<1>9. DamageSoFar'
  <2>1. 1 .. 0 = {}
    OBVIOUS
  <2> QED BY <1>1, <1>2, <2>1 DEF DamageSoFar, WorstOutdoes, NoDamage
<1>10. ReviewIffEvidence'
  BY <1>1 DEF ReviewIffEvidence, Completed
<1>11. CountsSoFar'
  BY <1>1, <1>3, CountedIsNumber, CountsAreKept DEF VideoInvariant
<1> QED BY <1>4, <1>5, <1>6, <1>7, <1>8, <1>9, <1>10, <1>11 DEF VideoInvariant

(***************************************************************************)
(* Presence: the next frame adds one observation for each class it shows   *)
(* that has not been seen.                                                 *)
(***************************************************************************)
LEMMA ReportedOfFrame ==
    ASSUME EvidenceTypeOK, ReportedSoFar, UNCHANGED Given,
           videoPhase = "present", videoPhase' = "present", Len(objects) = Len(frames),
           NEW i, i = scanned + 1, i \in 1 .. Len(objects), scanned' = i,
           observations' = observations \o News(i), seen' = SeenNow(i)
    PROVE  ReportedSoFar'
<1> DEFINE n == Len(observations)
           m == Len(News(i))
           Labels == Label \cup {"UNKNOWN"}
<1>1. /\ Typed /\ scanned \in Nat /\ n \in Nat /\ observations \in Seq(Observation)
      /\ Len(expected) \in Nat
  BY TypesGive, ItemsAreTyped DEF EvidenceTypeOK, VideoTypeOK, Typed
<1>2. News(i) \in Seq(Observation) /\ m \in Nat
  BY <1>1, NewsAreOfNewClasses
<1>3. \A k \in 1 .. m : /\ News(i)[k].type = "OBJECT_PRESENCE" /\ News(i)[k].frame = i
                        /\ News(i)[k].from = OfClass(i, News(i)[k].label)
                        /\ Shows(i, News(i)[k].label) /\ News(i)[k].label \notin seen
  BY <1>1, NewsAreOfNewClasses
<1>4. \A label : Shows(i, label) /\ label \notin seen =>
         \E k \in 1 .. m : \A l \in 1 .. m : News(i)[l].label = label <=> l = k
  BY <1>1, NewsAreOfNewClasses
<1>5. /\ Len(observations') = n + m
      /\ \A k \in 1 .. n : observations'[k] = observations[k]
      /\ \A k \in 1 .. m : observations'[n + k] = News(i)[k]
  BY <1>1, <1>2
<1>6. /\ SearchedSoFar = scanned /\ SearchedSoFar' = i
      /\ CountedSoFar = Len(expected) /\ CountedSoFar' = CountedSoFar /\ expected' = expected
  BY DEF SearchedSoFar, CountedSoFar, Given
<1>7. 1 .. i = (1 .. scanned) \cup {i} /\ \A j \in 1 .. scanned : j <= i /\ j # i
  BY <1>1
<1> HIDE DEF n, m
<1>8. /\ seen = {expected[k].label : k \in 1 .. Len(expected)}
                   \cup {label \in Labels : \E j \in 1 .. scanned : Shows(j, label)}
      /\ \A label \in Labels :
            IF IsExpected(label) \/ \A j \in 1 .. scanned : ~Shows(j, label)
            THEN Present(label) = {}
            ELSE \E k \in 1 .. n :
                    /\ Present(label) = {k}
                    /\ observations[k].frame \in 1 .. scanned
                    /\ Shows(observations[k].frame, label)
                    /\ observations[k].from = OfClass(observations[k].frame, label)
                    /\ \A j \in 1 .. scanned : Shows(j, label) => observations[k].frame <= j
  BY <1>6 DEF ReportedSoFar, n
<1>9. \A j, label : (Shows(j, label)' <=> Shows(j, label)) /\ OfClass(j, label)' = OfClass(j, label)
  BY EvidenceRests
<1>10. \A label : IsExpected(label)' <=> IsExpected(label)
  BY EvidenceRests
<1>11. \A label : Shows(i, label) => label \in Labels
  <2> SUFFICES ASSUME NEW label, Shows(i, label) PROVE label \in Labels
    OBVIOUS
  <2>1. PICK j \in 1 .. Len(objects[i]) : LabelOf(objects[i][j]) = label
    BY DEF Shows
  <2>2. objects[i][j] \in Prediction
    BY <1>1 DEF Typed
  <2> QED BY <2>1, <2>2, PredictionsAreTyped
<1>12. seen' = {expected[k].label : k \in 1 .. Len(expected)}
                   \cup {label \in Labels : \E j \in 1 .. i : Shows(j, label)}
  <2>1. {LabelOf(objects[i][j]) : j \in FirstOf(i)} = {label \in Labels : Shows(i, label)}
    <3>1. \A label : Shows(i, label) <=> \E j \in FirstOf(i) : LabelOf(objects[i][j]) = label
      BY <1>1, EachClassIsFirstOnce
    <3> HIDE DEF Labels
    <3> QED BY <1>11, <3>1
  <2>2. \A label : (\E j \in 1 .. i : Shows(j, label)) <=> Shows(i, label) \/ \E j \in 1 .. scanned : Shows(j, label)
    BY <1>7
  <2> HIDE DEF Labels
  <2> QED BY <1>8, <2>1, <2>2 DEF SeenNow
<1>13. \A label : Present(label)' =
           Present(label) \cup {n + k : k \in {l \in 1 .. m : News(i)[l].label = label}}
  <2> SUFFICES ASSUME NEW label
               PROVE  Present(label)' =
                         Present(label) \cup {n + k : k \in {l \in 1 .. m : News(i)[l].label = label}}
    OBVIOUS
  <2>1. Present(label)' = {k \in 1 .. n + m :
            observations'[k].type = "OBJECT_PRESENCE" /\ observations'[k].label = label}
    BY <1>5 DEF Present
  <2>2. Present(label) = {k \in 1 .. n :
            observations[k].type = "OBJECT_PRESENCE" /\ observations[k].label = label}
    BY DEF Present, n
  <2>3. \A k \in 1 .. n + m : k \in 1 .. n \/ (k - n \in 1 .. m /\ n + (k - n) = k)
    BY <1>1, <1>2 DEF n, m
  <2>4. /\ \A k \in 1 .. n : k \in 1 .. n + m
        /\ \A k \in 1 .. m : n + k \in 1 .. n + m
    BY <1>1, <1>2 DEF n, m
  <2>5. ASSUME NEW k \in Present(label)'
        PROVE  k \in Present(label) \/ \E l \in 1 .. m : k = n + l /\ News(i)[l].label = label
    <3>1. k \in 1 .. n + m /\ observations'[k].type = "OBJECT_PRESENCE" /\ observations'[k].label = label
      BY <2>1, <2>5
    <3>2. CASE k \in 1 .. n
      BY <1>5, <2>2, <3>1, <3>2
    <3>3. CASE k - n \in 1 .. m /\ n + (k - n) = k
      BY <1>5, <3>1, <3>3
    <3> QED BY <2>3, <3>1, <3>2, <3>3
  <2>6. ASSUME NEW l \in 1 .. m, News(i)[l].label = label PROVE n + l \in Present(label)'
    BY <1>3, <1>5, <2>1, <2>4, <2>6
  <2>7. Present(label) \subseteq Present(label)'
    BY <1>5, <2>1, <2>2, <2>4
  <2> QED BY <2>5, <2>6, <2>7
<1>14. ASSUME NEW label \in Labels
       PROVE  IF IsExpected(label)' \/ \A j \in 1 .. i : ~Shows(j, label)'
              THEN Present(label)' = {}
              ELSE \E k \in 1 .. n + m :
                      /\ Present(label)' = {k}
                      /\ observations'[k].frame \in 1 .. i
                      /\ Shows(observations'[k].frame, label)
                      /\ observations'[k].from = OfClass(observations'[k].frame, label)
                      /\ \A j \in 1 .. i : Shows(j, label) => observations'[k].frame <= j
  <2> DEFINE Mine == {l \in 1 .. m : News(i)[l].label = label}
  <2>1. label \in seen <=> IsExpected(label) \/ \E j \in 1 .. scanned : Shows(j, label)
    BY <1>8 DEF IsExpected
  <2>2. Present(label)' = Present(label) \cup {n + k : k \in Mine}
    BY <1>13
  <2>3. CASE IsExpected(label)
    <3>1. Mine = {} /\ Present(label) = {}
      BY <1>3, <1>8, <2>1, <2>3
    <3> QED BY <1>10, <2>2, <2>3, <3>1
  <2>4. CASE ~IsExpected(label) /\ \E j \in 1 .. scanned : Shows(j, label)
    <3>1. Mine = {}
      BY <1>3, <2>1, <2>4
    <3>2. PICK k \in 1 .. n :
             /\ Present(label) = {k} /\ observations[k].frame \in 1 .. scanned
             /\ Shows(observations[k].frame, label)
             /\ observations[k].from = OfClass(observations[k].frame, label)
             /\ \A j \in 1 .. scanned : Shows(j, label) => observations[k].frame <= j
      BY <1>8, <2>4
    <3>3. observations'[k] = observations[k] /\ k \in 1 .. n + m /\ Present(label)' = {k}
      BY <1>1, <1>2, <1>5, <2>2, <3>1, <3>2 DEF n, m
    <3>4. /\ observations'[k].frame \in 1 .. i
          /\ \A j \in 1 .. i : Shows(j, label) => observations'[k].frame <= j
      BY <1>7, <3>2, <3>3
    <3>5. ~(IsExpected(label)' \/ \A j \in 1 .. i : ~Shows(j, label)')
      BY <1>7, <1>9, <1>10, <2>4
    <3> QED BY <3>2, <3>3, <3>4, <3>5
  <2>5. CASE ~IsExpected(label) /\ (\A j \in 1 .. scanned : ~Shows(j, label)) /\ ~Shows(i, label)
    <3>1. Mine = {} /\ Present(label) = {}
      BY <1>3, <1>8, <2>5
    <3>2. \A j \in 1 .. i : ~Shows(j, label)'
      BY <1>7, <1>9, <2>5
    <3> QED BY <2>2, <3>1, <3>2
  <2>6. CASE ~IsExpected(label) /\ (\A j \in 1 .. scanned : ~Shows(j, label)) /\ Shows(i, label)
    <3>1. PICK k \in 1 .. m : \A l \in 1 .. m : News(i)[l].label = label <=> l = k
      BY <1>4, <2>1, <2>6
    <3>2. Mine = {k} /\ News(i)[k].label = label
      BY <3>1
    <3>3. Present(label)' = {n + k}
      BY <1>8, <2>2, <2>6, <3>2
    <3>4. observations'[n + k] = News(i)[k] /\ n + k \in 1 .. n + m
      BY <1>1, <1>2, <1>5 DEF n, m
    <3>5. /\ observations'[n + k].frame = i
          /\ observations'[n + k].from = OfClass(i, label)
      BY <1>3, <3>2, <3>4
    <3>6. i \in 1 .. i /\ \A j \in 1 .. i : Shows(j, label) => i <= j
      BY <1>1, <1>7, <2>6
    <3>7. ~(IsExpected(label)' \/ \A j \in 1 .. i : ~Shows(j, label)')
      BY <1>9, <1>10, <2>6, <3>6
    <3> QED BY <2>6, <3>3, <3>4, <3>5, <3>6, <3>7
  <2> QED BY <2>3, <2>4, <2>5, <2>6
<1> HIDE DEF Labels
<1>15. \A label \in Labels :
          IF IsExpected(label)' \/ \A j \in 1 .. SearchedSoFar' : ~Shows(j, label)'
          THEN Present(label)' = {}
          ELSE \E k \in 1 .. Len(observations') :
                  /\ Present(label)' = {k}
                  /\ observations'[k].frame \in 1 .. SearchedSoFar'
                  /\ Shows(observations[k].frame, label)'
                  /\ observations'[k].from = OfClass(observations[k].frame, label)'
                  /\ \A j \in 1 .. SearchedSoFar' : Shows(j, label)' => observations'[k].frame <= j
  BY <1>5, <1>6, <1>9, <1>14
<1>16. seen' = {expected'[k].label : k \in 1 .. CountedSoFar'}
                  \cup {label \in Labels : \E j \in 1 .. SearchedSoFar' : Shows(j, label)'}
  BY <1>6, <1>9, <1>12
<1> QED BY <1>15, <1>16 DEF ReportedSoFar, Labels

LEMMA FrameIsReported == VideoInvariant /\ ReportPresence => VideoInvariant'
<1> SUFFICES ASSUME VideoInvariant, ReportPresence PROVE VideoInvariant'
  OBVIOUS
<1> DEFINE i == scanned + 1
<1>1. /\ UNCHANGED <<type, expected, fps, index, frames, unencoded, objects, damages, worst, reasons, videoPhase, videoFailure>>
      /\ videoPhase = "present" /\ scanned < Len(frames)
      /\ observations' = observations \o News(i) /\ seen' = SeenNow(i) /\ scanned' = i
      /\ UNCHANGED Given
  BY DEF ReportPresence, Given
<1>2. /\ EvidenceTypeOK /\ Typed /\ Len(objects) = Len(frames) /\ worst = NoDamage
      /\ frames # <<>> /\ Len(frames) \in Nat /\ scanned \in Nat
  BY <1>1, TypesGive DEF VideoInvariant, PhasesInOrder, EvidenceTypeOK, VideoTypeOK, Typed
<1>3. i \in 1 .. Len(objects) /\ i \in 0 .. Len(frames)
  BY <1>1, <1>2
<1>4. News(i) \in Seq(Observation)
  BY <1>2, <1>3, NewsAreOfNewClasses
<1>5. EvidenceTypeOK'
  <2>1. VideoTypeOK'
    BY <1>1, <1>3 DEF VideoInvariant, EvidenceTypeOK, VideoTypeOK, Frame
  <2>2. observations' \in Seq(Observation)
    BY <1>1, <1>2, <1>4 DEF EvidenceTypeOK
  <2> QED BY <1>1, <2>1, <2>2 DEF VideoInvariant, EvidenceTypeOK
<1>6. PhasesInOrder'
  BY <1>1, <1>2 DEF VideoInvariant, PhasesInOrder, Completed
<1>7. SamplesSoFar'
  BY <1>1, EvidenceRests DEF VideoInvariant
<1>8. MissingSoFar'
  <2>1. \A item : IsMissing(item)' <=> IsMissing(item)
    BY <1>1, EvidenceRests
  <2>2. CountedSoFar' = CountedSoFar
    BY <1>1 DEF CountedSoFar
  <2> QED BY <1>1, <2>1, <2>2 DEF VideoInvariant, MissingSoFar
<1> HIDE DEF i
<1>9. ReportedSoFar'
  BY <1>1, <1>2, <1>3, ReportedOfFrame DEF i, VideoInvariant
<1>10. DamageSoFar' /\ ReviewIffEvidence'
  BY <1>1 DEF DamageSoFar, ReviewIffEvidence, Completed
<1>11. CountsSoFar'
  <2>1. CountedSoFar \in Nat /\ CountedSoFar' = CountedSoFar
    BY <1>1, <1>2, CountedIsNumber DEF CountedSoFar
  <2>2. CountsSoFar /\ CountedSoFar <= Len(observations) /\ observations \in Seq(Observation)
    BY <1>1 DEF VideoInvariant, CountsSoFar, CountsAreOfExpected, EvidenceTypeOK
  <2>3. /\ Len(observations) <= Len(observations')
        /\ \A k \in 1 .. Len(observations) : observations'[k] = observations[k]
        /\ Len(observations) \in Nat /\ Len(observations') \in Nat
    BY <1>1, <1>4, <2>2
  <2>4. /\ CountedSoFar <= Len(observations')
        /\ \A k \in 1 .. CountedSoFar : observations'[k] = observations[k]
    BY <2>1, <2>2, <2>3
  <2> QED BY <1>1, <2>1, <2>2, <2>4, CountsRest
<1> QED BY <1>5, <1>6, <1>7, <1>8, <1>9, <1>10, <1>11 DEF VideoInvariant

(***************************************************************************)
(* Damage.                                                                 *)
(***************************************************************************)
LEMMA FrameIsSearched == VideoInvariant /\ FindDamage => VideoInvariant'
<1> SUFFICES ASSUME VideoInvariant, FindDamage PROVE VideoInvariant'
  OBVIOUS
<1> DEFINE i == scanned + 1
           w == Scan(i)[Len(damages[i])]
<1>1. /\ UNCHANGED <<type, expected, fps, index, frames, unencoded, objects, damages, observations,
                     seen, reasons, videoPhase, videoFailure>>
      /\ videoPhase = "damage" /\ scanned < Len(frames) /\ scanned' = i /\ worst' = w
      /\ UNCHANGED Given
  BY DEF FindDamage, Given
<1>2. /\ EvidenceTypeOK /\ Typed /\ Len(objects) = Len(frames)
      /\ frames # <<>> /\ Len(frames) \in Nat /\ scanned \in Nat /\ Len(damages) = Len(frames)
      /\ worst \in [confidence : Nat, frame : Nat]
  BY <1>1, TypesGive DEF VideoInvariant, PhasesInOrder, EvidenceTypeOK, VideoTypeOK, Typed
<1>3. i \in 1 .. Len(damages) /\ i \in 0 .. Len(frames) /\ scanned < i
      /\ 1 .. i = (1 .. scanned) \cup {i} /\ \A l \in 1 .. scanned : l < i
  BY <1>1, <1>2
<1>4. Standing(w, i, Len(damages[i]))
  BY <1>2, <1>3, ScanLeavesTheWorst
<1>5. /\ worst = NoDamage <=> \A l \in 1 .. scanned : ~HasDamage(l)
      /\ worst.frame <= scanned
      /\ worst # NoDamage => WorstIsShown(scanned)
      /\ \A l \in 1 .. scanned : \A j \in 1 .. Len(damages[l]) :
            damages[l][j] >= MinConfidence =>
                /\ damages[l][j] <= worst.confidence
                /\ damages[l][j] = worst.confidence => worst.frame <= l
  BY <1>1 DEF VideoInvariant, DamageSoFar, WorstOutdoes
<1>6. /\ \A l \in 1 .. Len(damages) : \A j \in 1 .. Len(damages[l]) : damages[l][j] \in Nat
      /\ MinConfidence \in Nat
  <2>1. \A l \in 1 .. Len(damages) : damages[l] \in Seq(Confidence)
    BY <1>2 DEF Typed
  <2>2. \A l \in 1 .. Len(damages) : \A j \in 1 .. Len(damages[l]) : damages[l][j] \in Confidence
    BY <2>1
  <2>3. MinConfidence \in Nat /\ \A c \in Confidence : c \in Nat
    BY VideoAssumption
  <2> QED BY <2>2, <2>3
<1> HIDE DEF i, w
<1>7. w \in [confidence : Nat, frame : Nat] /\ w.frame <= i /\ (w = worst \/ w.frame = i)
      /\ worst.confidence \in Nat /\ w.confidence \in Nat /\ i \in Nat /\ w.frame \in Nat
  BY <1>2, <1>3, <1>4, <1>5 DEF Standing
<1>8. EvidenceTypeOK'
  <2>1. w.frame \in 0 .. Len(frames)
    BY <1>2, <1>3, <1>7
  <2>2. VideoTypeOK'
    BY <1>1, <1>3, <2>1 DEF VideoInvariant, EvidenceTypeOK, VideoTypeOK, Frame
  <2> QED BY <1>1, <1>7, <2>2 DEF VideoInvariant, EvidenceTypeOK
<1>9. PhasesInOrder'
  BY <1>1, <1>2 DEF VideoInvariant, PhasesInOrder, Completed
<1>10. SamplesSoFar'
  BY <1>1, EvidenceRests DEF VideoInvariant
<1>11. MissingSoFar'
  <2>1. \A item : IsMissing(item)' <=> IsMissing(item)
    BY <1>1, EvidenceRests
  <2>2. CountedSoFar' = CountedSoFar
    BY <1>1 DEF CountedSoFar
  <2> QED BY <1>1, <2>1, <2>2 DEF VideoInvariant, MissingSoFar
<1>12. ReportedSoFar'
  <2>1. \A label : Present(label)' = Present(label) /\ (IsExpected(label)' <=> IsExpected(label))
    BY <1>1 DEF Present, IsExpected
  <2>2. \A l, label : (Shows(l, label)' <=> Shows(l, label)) /\ OfClass(l, label)' = OfClass(l, label)
    BY <1>1, EvidenceRests
  <2>3. CountedSoFar' = CountedSoFar /\ SearchedSoFar' = SearchedSoFar
    BY <1>1 DEF CountedSoFar, SearchedSoFar
  <2> QED BY <1>1, <2>1, <2>2, <2>3 DEF VideoInvariant, ReportedSoFar
<1>13. DamageSoFar'
  <2>1. w = NoDamage <=> worst = NoDamage /\ ~HasDamage(i)
    BY <1>4 DEF Standing, HasDamage
  <2>2. w = NoDamage <=> \A l \in 1 .. i : ~HasDamage(l)
    BY <1>3, <1>5, <2>1
  <2>3. ASSUME NEW l \in 1 .. scanned, NEW j \in 1 .. Len(damages[l]), damages[l][j] >= MinConfidence
        PROVE  damages[l][j] <= w.confidence /\ (damages[l][j] = w.confidence => w.frame <= l)
    <3>1. worst # NoDamage /\ damages[l][j] \in Nat
      <4>1. HasDamage(l)
        BY <2>3 DEF HasDamage
      <4>2. l \in 1 .. Len(damages)
        BY <1>2, <1>3
      <4> QED BY <1>5, <1>6, <4>1, <4>2
    <3>2. damages[l][j] <= worst.confidence /\ (damages[l][j] = worst.confidence => worst.frame <= l)
      BY <1>5, <2>3
    <3>3. CASE w = worst
      BY <3>2, <3>3
    <3>4. CASE worst.confidence < w.confidence
      BY <1>7, <3>1, <3>2, <3>4
    <3> QED BY <1>4, <3>1, <3>3, <3>4 DEF Standing
  <2>4. ASSUME NEW j \in 1 .. Len(damages[i]), damages[i][j] >= MinConfidence
        PROVE  damages[i][j] <= w.confidence /\ (damages[i][j] = w.confidence => w.frame <= i)
    BY <1>4, <1>7, <2>4 DEF Standing
  <2>5. \A l \in 1 .. i : \A j \in 1 .. Len(damages[l]) :
            damages[l][j] >= MinConfidence =>
                damages[l][j] <= w.confidence /\ (damages[l][j] = w.confidence => w.frame <= l)
    BY <1>3, <2>3, <2>4
  <2>6. \A l : HasDamage(l)' <=> HasDamage(l)
    BY <1>1, EvidenceRests
  <2>7. WorstOutdoes(scanned)'
    BY <1>1, <2>5 DEF WorstOutdoes
  <2>8. ASSUME w # NoDamage PROVE WorstIsShown(scanned)'
    <3>1. CASE w = worst
      <4>1. /\ worst.frame \in 1 .. scanned /\ worst.confidence >= MinConfidence
            /\ \E j \in 1 .. Len(damages[worst.frame]) : damages[worst.frame][j] = worst.confidence
        BY <1>5, <2>8, <3>1 DEF WorstIsShown
      <4> QED BY <1>1, <1>3, <3>1, <4>1 DEF WorstIsShown
    <3>2. CASE w.frame = i /\ w.confidence >= MinConfidence
               /\ \E l \in 1 .. Len(damages[i]) : damages[i][l] = w.confidence
      <4>1. i \in 1 .. i
        BY <1>3
      <4> QED BY <1>1, <3>2, <4>1 DEF WorstIsShown
    <3> QED BY <1>4, <3>1, <3>2 DEF Standing
  <2> QED BY <1>1, <1>7, <2>2, <2>6, <2>7, <2>8 DEF DamageSoFar
<1>14. ReviewIffEvidence'
  BY <1>1 DEF ReviewIffEvidence, Completed
<1>15. CountsSoFar'
  <2>1. CountedSoFar' = CountedSoFar /\ videoPhase # "failed"
    BY <1>1 DEF CountedSoFar
  <2> QED BY <1>1, <1>2, <2>1, CountedIsNumber, CountsAreKept DEF VideoInvariant
<1> QED BY <1>8, <1>9, <1>10, <1>11, <1>12, <1>13, <1>14, <1>15 DEF VideoInvariant

LEMMA ResultIsConcluded == VideoInvariant /\ Conclude => VideoInvariant'
<1> SUFFICES ASSUME VideoInvariant, Conclude PROVE VideoInvariant'
  OBVIOUS
<1>1. /\ UNCHANGED <<type, expected, fps, index, frames, unencoded, objects, damages, observations,
                     seen, scanned, worst, videoFailure>>
      /\ videoPhase = "damage" /\ videoPhase' = "completed" /\ scanned = Len(frames)
      /\ reasons' = IF worst = NoDamage THEN reasons ELSE Append(reasons, "DAMAGED_PARCEL_DETECTED")
      /\ UNCHANGED Given
  BY DEF Conclude, Given
<1>2. reasons \in Seq(Label \cup {"DAMAGED_PARCEL_DETECTED"})
  BY DEF VideoInvariant, EvidenceTypeOK
<1>3. /\ reasons' \in Seq(Label \cup {"DAMAGED_PARCEL_DETECTED"})
      /\ reasons' # <<>> <=> reasons # <<>> \/ worst # NoDamage
  BY <1>1, <1>2
<1>4. EvidenceTypeOK'
  <2>1. VideoTypeOK'
    BY <1>1 DEF VideoInvariant, EvidenceTypeOK, VideoTypeOK, Frame
  <2> QED BY <1>1, <1>3, <2>1 DEF VideoInvariant, EvidenceTypeOK
<1>5. PhasesInOrder'
  BY <1>1 DEF VideoInvariant, PhasesInOrder, Completed
<1>6. SamplesSoFar'
  BY <1>1, EvidenceRests DEF VideoInvariant
<1>7. MissingSoFar'
  BY <1>1 DEF MissingSoFar
<1>8. ReportedSoFar'
  <2>1. \A label : Present(label)' = Present(label) /\ (IsExpected(label)' <=> IsExpected(label))
    BY <1>1 DEF Present, IsExpected
  <2>2. \A l, label : (Shows(l, label)' <=> Shows(l, label)) /\ OfClass(l, label)' = OfClass(l, label)
    BY <1>1, EvidenceRests
  <2>3. CountedSoFar' = CountedSoFar /\ SearchedSoFar' = SearchedSoFar
    BY <1>1 DEF CountedSoFar, SearchedSoFar
  <2> QED BY <1>1, <2>1, <2>2, <2>3 DEF VideoInvariant, ReportedSoFar
<1>9. DamageSoFar'
  <2>1. \A l : HasDamage(l)' <=> HasDamage(l)
    BY <1>1, EvidenceRests
  <2>2. (WorstIsShown(scanned)' <=> WorstIsShown(scanned)) /\ (WorstOutdoes(scanned)' <=> WorstOutdoes(scanned))
    BY <1>1 DEF WorstIsShown, WorstOutdoes
  <2> QED BY <1>1, <2>1, <2>2 DEF VideoInvariant, DamageSoFar
<1>11. CountsSoFar'
  <2>1. CountedSoFar' = CountedSoFar /\ videoPhase # "failed"
    BY <1>1 DEF CountedSoFar
  <2> QED BY <1>1, <2>1, CountedIsNumber, CountsAreKept DEF VideoInvariant
<1>10. ReviewIffEvidence'
  <2>1. reasons # <<>> <=> \E k \in 1 .. Len(expected) : IsMissing(expected[k])
    BY <1>1 DEF VideoInvariant, MissingSoFar, CountedSoFar
  <2>2. worst # NoDamage <=> \E l \in Frame : HasDamage(l)
    BY <1>1 DEF VideoInvariant, DamageSoFar, Frame
  <2>3. /\ \A item : IsMissing(item)' <=> IsMissing(item)
        /\ \A l : HasDamage(l)' <=> HasDamage(l)
        /\ Frame' = Frame
    BY <1>1, EvidenceRests
  <2> QED BY <1>1, <1>3, <2>1, <2>2, <2>3 DEF ReviewIffEvidence, ReviewSuggested
<1> QED BY <1>4, <1>5, <1>6, <1>7, <1>8, <1>9, <1>10, <1>11 DEF VideoInvariant

LEMMA AnalysisRests == VideoInvariant /\ UNCHANGED videoVars => VideoInvariant'
<1> SUFFICES ASSUME VideoInvariant, UNCHANGED videoVars PROVE VideoInvariant'
  OBVIOUS
<1>1. /\ UNCHANGED <<type, expected, fps, index, frames, unencoded, objects, damages, observations, seen,
                     scanned, worst, reasons, videoPhase, videoFailure>>
      /\ UNCHANGED Given
  BY DEF videoVars, Given
<1>2. EvidenceTypeOK' /\ PhasesInOrder'
  BY <1>1 DEF VideoInvariant, EvidenceTypeOK, VideoTypeOK, PhasesInOrder, Frame, Completed
<1>3. SamplesSoFar'
  BY <1>1, IntervalRests DEF VideoInvariant, SamplesSoFar, Frame
<1>4. /\ \A item : IsMissing(item)' <=> IsMissing(item)
      /\ \A l : HasDamage(l)' <=> HasDamage(l)
      /\ Frame' = Frame
  BY <1>1, EvidenceRests
<1>5. CountedSoFar' = CountedSoFar /\ SearchedSoFar' = SearchedSoFar
  BY <1>1 DEF CountedSoFar, SearchedSoFar
<1>6. MissingSoFar'
  BY <1>1, <1>4, <1>5 DEF VideoInvariant, MissingSoFar
<1>7. ReportedSoFar'
  <2>1. \A label : Present(label)' = Present(label) /\ (IsExpected(label)' <=> IsExpected(label))
    BY <1>1 DEF Present, IsExpected
  <2>2. \A l, label : (Shows(l, label)' <=> Shows(l, label)) /\ OfClass(l, label)' = OfClass(l, label)
    BY <1>1, EvidenceRests
  <2> QED BY <1>1, <1>5, <2>1, <2>2 DEF VideoInvariant, ReportedSoFar
<1>8. DamageSoFar'
  <2>1. (WorstIsShown(scanned)' <=> WorstIsShown(scanned)) /\ (WorstOutdoes(scanned)' <=> WorstOutdoes(scanned))
    BY <1>1 DEF WorstIsShown, WorstOutdoes
  <2> QED BY <1>1, <1>4, <2>1 DEF VideoInvariant, DamageSoFar
<1>10. CountsSoFar'
  <2>1. CASE videoPhase = "failed"
    BY <1>1, <2>1 DEF CountsSoFar
  <2>2. CASE videoPhase # "failed"
    BY <1>1, <1>5, <2>2, CountedIsNumber, CountsAreKept DEF VideoInvariant
  <2> QED BY <2>1, <2>2
<1>9. ReviewIffEvidence'
  BY <1>1, <1>4 DEF VideoInvariant, ReviewIffEvidence, ReviewSuggested, Completed
<1> QED BY <1>2, <1>3, <1>6, <1>7, <1>8, <1>9, <1>10 DEF VideoInvariant

-----------------------------------------------------------------------------
(***************************************************************************)
(* The invariant, of videos of any length, any predictions and any request.*)
(***************************************************************************)
THEOREM AnalysisKeepsInvariant == VideoSpec => []VideoInvariant
<1>1. VideoInvariant /\ [VideoNext]_videoVars => VideoInvariant'
  <2> SUFFICES ASSUME VideoInvariant, [VideoNext]_videoVars PROVE VideoInvariant'
    OBVIOUS
  <2>1. CASE NoFrames \/ ProviderFails
    BY <2>1, AnalysisFails DEF NoFrames, ProviderFails
  <2>2. CASE UNCHANGED videoVars
    BY <2>2, AnalysisRests
  <2> QED BY <2>1, <2>2, FrameIsSampled, SamplingEnds, FrameIsDetected, ExpectedIsCounted,
             AllExpectedAreCounted, FrameIsReported, AllFramesAreReported, FrameIsSearched,
             ResultIsConcluded DEF VideoNext
<1> QED BY <1>1, VideoStarts, PTL DEF VideoSpec

(***************************************************************************)
(* The samples of every video are the frames due that could be encoded,    *)
(* and their times keep to the interval that was configured as far as the  *)
(* rounding to whole frames and milliseconds lets them, for any rate and   *)
(* interval that are fractions (frames.py:43-61).                          *)
(***************************************************************************)
LEMMA TimesAreSpaced ==
    ASSUME fps \in Nat \ {0}, NEW a \in Nat, NEW b \in Nat,
           NEW t \in TimesMs(a), NEW u \in TimesMs(b)
    PROVE  /\ a + Interval <= b => AreFarEnough(t, u)
           /\ b = a + Interval => AreNearEnough(t, u) \/ b = a + 1
<1> DEFINE d == Scale * Scale
           x == fps * SampleSeconds
           k == 1000 * Scale
           p == fps * t
           q == fps * u
<1>1. /\ t \in Int /\ u \in Int /\ p <= k * a /\ k * a <= p + fps /\ q <= k * b /\ k * b <= q + fps
      /\ p \in Int /\ q \in Int
  <2>1. /\ t \in Int /\ fps * t <= 1000 * Scale * a /\ 1000 * Scale * a <= fps * (t + 1)
        /\ u \in Int /\ fps * u <= 1000 * Scale * b /\ 1000 * Scale * b <= fps * (u + 1)
    BY TimesAreTruncated
  <2>2. fps * (t + 1) = fps * t + fps /\ fps * (u + 1) = fps * u + fps
    BY <2>1
  <2> QED BY <2>1, <2>2
<1>2. /\ Interval \in Nat \ {0} /\ d \in Nat \ {0} /\ x \in Int
      /\ 2 * x - d <= 2 * (d * Interval)
      /\ Interval = 1 \/ 2 * (d * Interval) <= 2 * x + d
  BY IntervalIsRounded
<1>3. Scale \in Nat \ {0} /\ k \in Nat
  BY VideoAssumption
<1>4. /\ Milliseconds(u - t + 1) = 2 * Scale * (q - p + fps)
      /\ Milliseconds(u - t - 1) = 2 * Scale * (q - p - fps)
  <2>1. fps * (u - t + 1) = q - p + fps /\ fps * (u - t - 1) = q - p - fps
    BY <1>1
  <2> QED BY <1>1, <1>3, <2>1 DEF Milliseconds
<1>5. ConfiguredInterval = 2000 * x /\ HalfAFrame = 1000 * d
  BY <1>2, <1>3, VideoAssumption DEF ConfiguredInterval, HalfAFrame
<1>6. 2 * Scale * (k * Interval) = 2000 * (d * Interval)
  BY <1>2, <1>3
<1>7. ASSUME a + Interval <= b PROVE AreFarEnough(t, u)
  <2>1. k * (a + Interval) <= k * b /\ k * (a + Interval) = k * a + k * Interval
    BY <1>2, <1>3, <1>7, ProductsCompare
  <2> HIDE DEF p, q, k, d, x
  <2> DEFINE y == d * Interval
             z == 2 * Scale * (q - p + fps)
  <2>2. k * Interval <= q - p + fps
    BY <1>1, <1>2, <1>3, <2>1
  <2>3. 2 * Scale * (k * Interval) <= 2 * Scale * (q - p + fps)
    BY <1>1, <1>2, <1>3, <2>2, ProductsCompare
  <2>4. y \in Int /\ z \in Int /\ 2000 * y <= z /\ 2 * x - d <= 2 * y /\ Milliseconds(u - t + 1) = z
    BY <1>1, <1>2, <1>3, <1>4, <1>6, <2>3
  <2> HIDE DEF y, z
  <2> QED BY <1>2, <1>5, <2>4 DEF AreFarEnough
<1>8. ASSUME b = a + Interval, Interval # 1 PROVE AreNearEnough(t, u)
  <2>1. k * b = k * a + k * Interval
    BY <1>2, <1>3, <1>8
  <2> HIDE DEF p, q, k, d, x
  <2> DEFINE y == d * Interval
             z == 2 * Scale * (q - p - fps)
  <2>2. q - p - fps <= k * Interval
    BY <1>1, <1>2, <1>3, <2>1
  <2>3. 2 * Scale * (q - p - fps) <= 2 * Scale * (k * Interval)
    BY <1>1, <1>2, <1>3, <2>2, ProductsCompare
  <2>4. y \in Int /\ z \in Int /\ z <= 2000 * y /\ 2 * y <= 2 * x + d /\ Milliseconds(u - t - 1) = z
    BY <1>1, <1>2, <1>3, <1>4, <1>6, <1>8, <2>3
  <2> HIDE DEF y, z
  <2> QED BY <1>2, <1>5, <2>4 DEF AreNearEnough
<1> QED BY <1>7, <1>8

THEOREM SamplesKeepTheirDistance == VideoSpec => []SamplesAreSpaced
<1>1. VideoInvariant => SamplesAreSpaced
  <2> SUFFICES ASSUME VideoInvariant PROVE SamplesAreSpaced
    OBVIOUS
  <2>1. /\ fps \in Nat \ {0} /\ Interval \in Nat \ {0} /\ Len(frames) \in Nat /\ type \in {"video", "image"}
        /\ index \in Nat /\ unencoded \subseteq Nat /\ \A i \in Frame : frames[i] \in Nat
    <3>1. /\ fps \in Nat \ {0} /\ frames \in Seq(Nat) /\ type \in {"video", "image"}
          /\ index \in 0 .. MaxFrames /\ MaxFrames \in Nat /\ unencoded \subseteq Nat
      BY VideoAssumption DEF VideoInvariant, EvidenceTypeOK, VideoTypeOK
    <3>2. Interval \in Nat \ {0}
      BY <3>1, IntervalIsRounded
    <3>3. Len(frames) \in Nat /\ \A i \in 1 .. Len(frames) : frames[i] \in Nat
      BY <3>1
    <3> QED BY <3>1, <3>2, <3>3 DEF Frame
  <2>2. /\ \A i \in Frame : frames[i] % Interval = 0 /\ frames[i] <= index
        /\ \A i, j \in Frame : i < j => frames[i] < frames[j]
    BY DEF VideoInvariant, SamplesSoFar
  <2>3. /\ type = "video" =>
              {frames[i] : i \in Frame} = {n \in 0 .. index - 1 : n % Interval = 0} \ unencoded
        /\ type = "image" => Len(frames) <= 1
    BY DEF VideoInvariant, SamplesSoFar
  <2>4. ASSUME NEW i \in Frame, NEW j \in Frame, i < j PROVE frames[i] + Interval <= frames[j]
    BY <2>1, <2>2, <2>4, MultiplesAreApart
  <2>5. ASSUME NEW i \in Frame, NEW j \in Frame, j = i + 1, NoneLostBetween(frames[i], frames[j])
        PROVE  frames[j] = frames[i] + Interval
    <3> DEFINE n == frames[i] + Interval
    <3>1. n <= frames[j] /\ type = "video" /\ i < j
      BY <2>1, <2>3, <2>4, <2>5 DEF Frame
    <3> SUFFICES ASSUME n < frames[j] PROVE FALSE
      BY <2>1, <3>1
    <3>2. n % Interval = 0
      BY <2>1, <2>2, NextMultiple
    <3>3. frames[j] \in 0 .. index - 1
      BY <2>3, <3>1
    <3>4. n \in 0 .. index - 1 /\ frames[i] < n
      BY <2>1, <3>3
    <3>5. n \notin unencoded
      BY <2>1, <2>5, <3>4 DEF NoneLostBetween
    <3>6. PICK m \in Frame : frames[m] = n
      BY <2>3, <3>1, <3>2, <3>4, <3>5
    <3>7. m <= i \/ j <= m
      BY <2>5 DEF Frame
    <3> HIDE DEF n
    <3>8. frames[m] <= frames[i] \/ frames[j] <= frames[m]
      BY <2>1, <2>2, <3>7 DEF Frame
    <3> QED BY <2>1, <3>4, <3>6, <3>8
  <2>6. ASSUME NEW i \in Frame, NEW j \in Frame, i < j, NEW t \in TimesMs(frames[i]), NEW u \in TimesMs(frames[j])
        PROVE  /\ AreFarEnough(t, u)
               /\ j = i + 1 /\ NoneLostBetween(frames[i], frames[j]) =>
                     AreNearEnough(t, u) \/ frames[j] = frames[i] + 1
    BY <2>1, <2>4, <2>5, <2>6, TimesAreSpaced
  <2> QED BY <2>2, <2>3, <2>6 DEF SamplesAreSpaced
<1> QED BY <1>1, AnalysisKeepsInvariant, PTL

(***************************************************************************)
(* Review is suggested if and only if there is evidence for it, in any     *)
(* video and whatever was expected (aggregation.py:65-93, 118-142).        *)
(***************************************************************************)
THEOREM ReviewNeedsEvidence == VideoSpec => []ReviewIffEvidence
<1>1. VideoInvariant => ReviewIffEvidence
  BY DEF VideoInvariant
<1> QED BY <1>1, AnalysisKeepsInvariant, PTL

(***************************************************************************)
(* Every class that is shown is reported, once, at the first frame that    *)
(* shows it, in any video (aggregation.py:58-115).                         *)
(***************************************************************************)
THEOREM ClassesAreReported == VideoSpec => []EveryClassIsReported
<1>1. VideoInvariant => EveryClassIsReported
  <2> SUFFICES ASSUME VideoInvariant, Completed, NEW label \in Label \cup {"UNKNOWN"}
               PROVE  CountsAreOfExpected(Len(expected)) /\ PresenceIsFirst(label)
    BY DEF EveryClassIsReported
  <2>0. CountsAreOfExpected(Len(expected))
    BY DEF VideoInvariant, CountsSoFar, CountedSoFar, Completed
  <2> DEFINE shown == {i \in Frame : Count(i, label) > 0}
  <2>1. Typed /\ Len(objects) = Len(frames) /\ SearchedSoFar = Len(frames) /\ videoPhase = "completed"
    BY TypesGive DEF VideoInvariant, PhasesInOrder, SearchedSoFar, Completed
  <2>2. \A i \in Frame : i \in shown <=> Shows(i, label)
    BY <2>1, CountIsOfShown DEF Frame
  <2>3. IF IsExpected(label) \/ \A i \in Frame : ~Shows(i, label)
        THEN Present(label) = {}
        ELSE \E n \in 1 .. Len(observations) :
                /\ Present(label) = {n}
                /\ observations[n].frame \in Frame
                /\ Shows(observations[n].frame, label)
                /\ observations[n].from = OfClass(observations[n].frame, label)
                /\ \A i \in Frame : Shows(i, label) => observations[n].frame <= i
    BY <2>1 DEF VideoInvariant, ReportedSoFar, Frame
  <2> HIDE DEF shown
  <2>4. CASE IsExpected(label) \/ \A i \in Frame : ~Shows(i, label)
    <3>1. Present(label) = {} /\ (shown = {} \/ IsExpected(label))
      BY <2>2, <2>3, <2>4 DEF shown
    <3> QED BY <2>0, <3>1, FS_EmptySet DEF shown, PresenceIsFirst
  <2>5. CASE ~(IsExpected(label) \/ \A i \in Frame : ~Shows(i, label))
    <3>1. PICK n \in 1 .. Len(observations) :
             /\ Present(label) = {n}
             /\ observations[n].frame \in Frame
             /\ Shows(observations[n].frame, label)
             /\ observations[n].from = OfClass(observations[n].frame, label)
             /\ \A i \in Frame : Shows(i, label) => observations[n].frame <= i
      BY <2>3, <2>5
    <3>2. Cardinality(Present(label)) = 1
      BY <3>1, FS_Singleton
    <3>3. shown # {} /\ \A i \in shown : observations[n].frame <= i
      BY <2>2, <3>1 DEF shown
    <3>4. ASSUME label # "UNKNOWN"
          PROVE  \E j \in observations[n].from : Confident(objects[observations[n].frame][j])
      <4> DEFINE f == observations[n].frame
      <4>1. PICK j \in 1 .. Len(objects[f]) : Confident(objects[f][j]) /\ LabelOf(objects[f][j]) = label
        BY <3>1 DEF Shows
      <4>2. objects[f][j].class = label
        BY <3>4, <4>1 DEF LabelOf
      <4> QED BY <3>1, <4>1, <4>2 DEF OfClass
    <3> QED BY <2>0, <2>5, <3>1, <3>2, <3>3, <3>4 DEF shown, PresenceIsFirst
  <2> QED BY <2>4, <2>5
<1> QED BY <1>1, AnalysisKeepsInvariant, PTL

(***************************************************************************)
(* The damage reported is the worst, of the first frame that shows one as  *)
(* bad, in any video (aggregation.py:119-126).                             *)
(***************************************************************************)
THEOREM WorstDamageIsReported == VideoSpec => []DamageIsWorst
<1>1. VideoInvariant => DamageIsWorst
  BY DEF VideoInvariant, PhasesInOrder, DamageSoFar, DamageIsWorst, Completed
<1> QED BY <1>1, AnalysisKeepsInvariant, PTL

=============================================================================
