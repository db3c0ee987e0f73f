-------------------------- MODULE NameMaskingProofs --------------------------
(***************************************************************************)
(* What the masking of names promises, for texts of any length, any        *)
(* entities found in them and any answer of the model: nobody's name is    *)
(* sent, and the names come back.                                          *)
(*                                                                         *)
(* Entities are replaced from the last to the first.  The invariant says   *)
(* which of them have been (Replaced), that the text before the first of   *)
(* those is the original one, and that the text, each token read as its    *)
(* person, reads as the original does; for this a replacement is seen as   *)
(* three parts of a sequence of which the middle one becomes one element.  *)
(***************************************************************************)
EXTENDS NameMasking, VideoEvidenceProofs

-----------------------------------------------------------------------------
(***************************************************************************)
(* Flattened sequences: of two in one, of single elements, of nothing.     *)
(***************************************************************************)
IsConcat(c, a, b, S) ==
    /\ c \in Seq(S) /\ Len(c) = Len(a) + Len(b)
    /\ \A i \in 1 .. Len(a) : c[i] = a[i]
    /\ \A i \in 1 .. Len(b) : c[Len(a) + i] = b[i]

LEMMA ConcatIs ==
    ASSUME NEW S, NEW a \in Seq(S), NEW b \in Seq(S)
    PROVE  IsConcat(a \o b, a, b, S)
BY DEF IsConcat

LEMMA ConcatAssociates ==
    ASSUME NEW S
    PROVE  \A a, b, c \in Seq(S) : (a \o b) \o c = a \o (b \o c)
OBVIOUS

LEMMA EmptyConcat ==
    ASSUME NEW S, NEW a \in Seq(S)
    PROVE  a \o <<>> = a /\ <<>> \o a = a
OBVIOUS

LEMMA UpTo ==
    ASSUME NEW P, NEW n \in Nat, 0 \in P, \A k \in Nat : k < n /\ k \in P => k + 1 \in P
    PROVE  n \in P
<1> DEFINE T == {k \in Nat : k <= n => k \in P}
<1>1. 0 \in T
  OBVIOUS
<1>2. ASSUME NEW k \in Nat, k \in T PROVE k + 1 \in T
  BY <1>2
<1> HIDE DEF T
<1>3. n \in T
  BY <1>1, <1>2, AllNumbers
<1> QED BY <1>3 DEF T

LEMMA FlattenSplits ==
    ASSUME NEW S, NEW a \in Seq(Seq(S)), NEW b \in Seq(Seq(S))
    PROVE  FlattenSeq(a \o b) = FlattenSeq(a) \o FlattenSeq(b)
<1> DEFINE c == a \o b
           n == Len(a)
           m == Len(b)
           l == Len(c)
<1>1. /\ c \in Seq(Seq(S)) /\ l = n + m /\ n \in Nat /\ m \in Nat
      /\ \A i \in 1 .. n : c[i] = a[i]
      /\ \A i \in 1 .. m : c[n + i] = b[i]
  <2>1. a \in Seq(Seq(S)) /\ b \in Seq(Seq(S)) /\ n \in Nat /\ m \in Nat
    OBVIOUS
  <2>2. IsConcat(a \o b, a, b, Seq(S))
    BY ConcatIs
  <2> QED BY <2>1, <2>2 DEF IsConcat
<1>9. c = a \o b /\ n = Len(a) /\ m = Len(b) /\ l = Len(c)
  OBVIOUS
<1> HIDE DEF c, n, m, l
<1>2. PICK f \in [0 .. n -> Seq(S)] :
         f[0] = <<>> /\ (\A i \in 1 .. n : f[i] = f[i - 1] \o a[i]) /\ FlattenSeq(a) = f[n]
  BY <1>9, FlattenByPieces
<1>3. PICK g \in [0 .. m -> Seq(S)] :
         g[0] = <<>> /\ (\A i \in 1 .. m : g[i] = g[i - 1] \o b[i]) /\ FlattenSeq(b) = g[m]
  BY <1>9, FlattenByPieces
<1>4. PICK h \in [0 .. l -> Seq(S)] :
         h[0] = <<>> /\ (\A i \in 1 .. l : h[i] = h[i - 1] \o c[i]) /\ FlattenSeq(c) = h[l]
  <2>1. c \in Seq(Seq(S)) /\ Len(c) = l
    BY <1>1, <1>9
  <2> QED BY <2>1, FlattenByPieces
<1>0. \A i \in 1 .. m : b[i] \in Seq(S)
  BY <1>9
<1>10. \A x, y, z \in Seq(S) : (x \o y) \o z = x \o (y \o z)
  BY ONLY ConcatAssociates
<1> DEFINE P == {k \in 0 .. n : h[k] = f[k]}
           Q == {k \in 0 .. m : h[n + k] = f[n] \o g[k]}
<1>5. n \in P
  <2>1. 0 \in P
    BY <1>1, <1>2, <1>4
  <2>2. ASSUME NEW k \in Nat, k < n, k \in P PROVE k + 1 \in P
    <3>1. k + 1 \in 1 .. n /\ k + 1 \in 1 .. l /\ (k + 1) - 1 = k
      BY <1>1, <2>2
    <3>2. h[k + 1] = h[k] \o c[k + 1] /\ f[k + 1] = f[k] \o a[k + 1] /\ c[k + 1] = a[k + 1]
      BY <1>1, <1>2, <1>4, <3>1
    <3>3. k + 1 \in 0 .. n /\ h[k] = f[k]
      BY <2>2, <3>1
    <3> QED BY <3>2, <3>3
  <2> HIDE DEF P
  <2> QED BY <1>1, <2>1, <2>2, UpTo
<1>6. m \in Q
  <2>0. f[n] \in Seq(S)
    BY <1>1, <1>2
  <2>1. 0 \in Q
    <3>1. f[n] \o <<>> = f[n] /\ n + 0 = n
      BY <1>1, <2>0, EmptyConcat
    <3>2. 0 \in 0 .. m /\ h[n] = f[n]
      BY <1>1, <1>5
    <3>3. h[n + 0] = f[n] \o g[0]
      BY <1>3, <3>1, <3>2
    <3> QED BY <3>2, <3>3
  <2>2. ASSUME NEW k \in Nat, k < m, k \in Q PROVE k + 1 \in Q
    <3>1. k + 1 \in 1 .. m /\ n + (k + 1) \in 1 .. l /\ (k + 1) - 1 = k /\ (n + (k + 1)) - 1 = n + k
      BY <1>1, <2>2
    <3>2. h[n + (k + 1)] = h[n + k] \o c[n + (k + 1)] /\ g[k + 1] = g[k] \o b[k + 1]
      BY <1>3, <1>4, <3>1
    <3>3. c[n + (k + 1)] = b[k + 1]
      BY <1>1, <3>1
    <3>4. g[k] \in Seq(S) /\ b[k + 1] \in Seq(S)
      BY <1>0, <1>3, <2>2, <3>1
    <3>5. (f[n] \o g[k]) \o b[k + 1] = f[n] \o (g[k] \o b[k + 1])
      BY <1>10, <2>0, <3>4
    <3>6. k + 1 \in 0 .. m /\ h[n + k] = f[n] \o g[k]
      BY <2>2, <3>1
    <3>7. h[n + (k + 1)] = f[n] \o g[k + 1]
      BY <3>2, <3>3, <3>5, <3>6
    <3> QED BY <3>6, <3>7
  <2> HIDE DEF Q
  <2> QED BY <1>1, <2>1, <2>2, UpTo
<1> QED BY <1>1, <1>2, <1>3, <1>4, <1>6, <1>9

LEMMA FlattenOne ==
    ASSUME NEW S, NEW x \in Seq(S)
    PROVE  FlattenSeq(<<x>>) = x
<1>1. <<x>> \in Seq(Seq(S)) /\ Len(<<x>>) = 1 /\ <<x>>[1] = x /\ <<>> \o x = x
  OBVIOUS
<1>2. PICK f \in [0 .. 1 -> Seq(S)] :
         f[0] = <<>> /\ (\A i \in 1 .. 1 : f[i] = f[i - 1] \o <<x>>[i]) /\ FlattenSeq(<<x>>) = f[1]
  BY <1>1, FlattenByPieces
<1>3. f[1] = f[0] \o x
  <2>1. 1 \in 1 .. 1 /\ 1 - 1 = 0
    OBVIOUS
  <2> QED BY <1>1, <1>2, <2>1
<1> QED BY <1>1, <1>2, <1>3

LEMMA FlattenNothing ==
    ASSUME NEW n \in Nat
    PROVE  FlattenSeq([p \in 1 .. n |-> <<>>]) = <<>>
<1> DEFINE a == [p \in 1 .. n |-> <<>>]
           S == {}
<1>1. a \in Seq(Seq(S)) /\ Len(a) = n /\ \A p \in 1 .. n : a[p] = <<>>
  OBVIOUS
<1> HIDE DEF a
<1>2. PICK f \in [0 .. n -> Seq(S)] :
         f[0] = <<>> /\ (\A i \in 1 .. n : f[i] = f[i - 1] \o a[i]) /\ FlattenSeq(a) = f[n]
  BY <1>1, FlattenByPieces
<1> DEFINE P == {k \in 0 .. n : f[k] = <<>>}
<1>3. 0 \in P
  BY <1>2
<1>4. ASSUME NEW k \in Nat, k < n, k \in P PROVE k + 1 \in P
  <2>1. k + 1 \in 1 .. n /\ (k + 1) - 1 = k
    BY <1>4
  <2>2. f[k + 1] = <<>> \o <<>>
    BY <1>1, <1>2, <1>4, <2>1
  <2>3. <<>> \o <<>> = <<>>
    OBVIOUS
  <2> QED BY <2>1, <2>2, <2>3
<1> HIDE DEF P
<1>5. n \in P
  BY <1>3, <1>4, UpTo
<1> QED BY <1>2, <1>5 DEF P, a

LEMMA FlattenSingles ==
    ASSUME NEW S, NEW s \in Seq(S)
    PROVE  FlattenSeq([p \in 1 .. Len(s) |-> <<s[p]>>]) = s
<1> DEFINE n == Len(s)
           a == [p \in 1 .. n |-> <<s[p]>>]
           part(k) == [p \in 1 .. k |-> s[p]]
<1>1. n \in Nat /\ a \in Seq(Seq(S)) /\ Len(a) = n /\ \A p \in 1 .. n : a[p] = <<s[p]>> /\ s[p] \in S
  OBVIOUS
<1>2. s = part(n) /\ part(0) = <<>>
  OBVIOUS
<1>3. ASSUME NEW k \in Nat, k < n PROVE part(k) \o <<s[k + 1]>> = part(k + 1)
  <2>1. part(k) \in Seq(S) /\ Len(part(k)) = k /\ s[k + 1] \in S
    BY <1>3
  <2>2. Len(part(k + 1)) = k + 1 /\ part(k + 1) \in Seq(S)
    BY <1>3
  <2>3. \A i \in 1 .. k + 1 : (part(k) \o <<s[k + 1]>>)[i] = part(k + 1)[i]
    <3>1. \A i \in 1 .. k + 1 : (part(k) \o <<s[k + 1]>>)[i] = IF i = k + 1 THEN s[k + 1] ELSE part(k)[i]
      <4> HIDE DEF part
      <4> QED BY <2>1, OneMoreElement
    <3>2. \A i \in 1 .. k + 1 : i # k + 1 => part(k)[i] = s[i]
      BY <1>3
    <3>3. \A i \in 1 .. k + 1 : part(k + 1)[i] = s[i]
      OBVIOUS
    <3> HIDE DEF part
    <3> QED BY <3>1, <3>2, <3>3
  <2>4. part(k) \o <<s[k + 1]>> \in Seq(S) /\ Len(part(k) \o <<s[k + 1]>>) = k + 1
    <3> HIDE DEF part
    <3> QED BY <2>1, OneMoreElement
  <2> DEFINE u == part(k) \o <<s[k + 1]>>
             v == part(k + 1)
  <2>5. u \in Seq(S) /\ v \in Seq(S) /\ Len(u) = Len(v) /\ \A i \in 1 .. Len(u) : u[i] = v[i]
    <3> HIDE DEF part
    <3> QED BY <2>2, <2>3, <2>4
  <2> HIDE DEF u, v
  <2>6. u = v
    BY <2>5
  <2> QED BY <2>6 DEF u, v
<1> HIDE DEF a, n
<1>4. PICK f \in [0 .. n -> Seq(S)] :
         f[0] = <<>> /\ (\A i \in 1 .. n : f[i] = f[i - 1] \o a[i]) /\ FlattenSeq(a) = f[n]
  BY <1>1, FlattenByPieces
<1> HIDE DEF part
<1> DEFINE P == {k \in 0 .. n : f[k] = part(k)}
<1>5. 0 \in P
  BY <1>1, <1>2, <1>4
<1>6. ASSUME NEW k \in Nat, k < n, k \in P PROVE k + 1 \in P
  <2>1. k + 1 \in 1 .. n /\ (k + 1) - 1 = k
    BY <1>1, <1>6
  <2>2. f[k + 1] = f[k] \o a[k + 1] /\ a[k + 1] = <<s[k + 1]>>
    BY <1>1, <1>4, <2>1
  <2>3. f[k] = part(k) /\ part(k) \o <<s[k + 1]>> = part(k + 1)
    BY <1>3, <1>6
  <2>4. k + 1 \in 0 .. n /\ f[k + 1] = part(k + 1)
    BY <2>1, <2>2, <2>3
  <2> QED BY <2>4
<1> HIDE DEF P
<1>7. n \in P
  BY <1>1, <1>5, <1>6, UpTo
<1> QED BY <1>2, <1>4, <1>7 DEF P, a, n

-----------------------------------------------------------------------------
(***************************************************************************)
(* A sequence in which each element is read as what it stands for.         *)
(***************************************************************************)
LEMMA EachPiece ==
    ASSUME NEW S, NEW T, NEW by \in [S -> Seq(T)], NEW s \in Seq(S)
    PROVE  /\ [i \in 1 .. Len(s) |-> by[s[i]]] \in Seq(Seq(T))
           /\ Len([i \in 1 .. Len(s) |-> by[s[i]]]) = Len(s)
<1>1. Len(s) \in Nat /\ \A i \in 1 .. Len(s) : s[i] \in S
  OBVIOUS
<1>2. \A i \in 1 .. Len(s) : by[s[i]] \in Seq(T)
  BY <1>1
<1> QED BY <1>1, <1>2

LEMMA EachIsTyped ==
    ASSUME NEW S, NEW T, NEW by \in [S -> Seq(T)], NEW s \in Seq(S)
    PROVE  Each(s, by) \in Seq(T)
<1> DEFINE a == [i \in 1 .. Len(s) |-> by[s[i]]]
<1>1. a \in Seq(Seq(T))
  BY EachPiece, Zenon
<1> HIDE DEF a
<1>2. FlattenSeq(a) \in Seq(T)
  BY <1>1, FlattenIsTyped, Zenon
<1> QED BY <1>2, Zenon DEF Each, a

LEMMA EachSplits ==
    ASSUME NEW S, NEW T, NEW by \in [S -> Seq(T)], NEW s \in Seq(S), NEW t \in Seq(S)
    PROVE  Each(s \o t, by) = Each(s, by) \o Each(t, by)
<1> DEFINE a == [i \in 1 .. Len(s) |-> by[s[i]]]
           b == [i \in 1 .. Len(t) |-> by[t[i]]]
           c == [i \in 1 .. Len(s \o t) |-> by[(s \o t)[i]]]
<1>1. a \in Seq(Seq(T)) /\ b \in Seq(Seq(T)) /\ Len(a) = Len(s) /\ Len(b) = Len(t)
  BY EachPiece
<1>2. /\ s \o t \in Seq(S) /\ Len(s \o t) = Len(s) + Len(t)
      /\ \A i \in 1 .. Len(s) : (s \o t)[i] = s[i]
      /\ \A i \in 1 .. Len(t) : (s \o t)[Len(s) + i] = t[i]
  <2>1. IsConcat(s \o t, s, t, S)
    BY ConcatIs
  <2> QED BY <2>1 DEF IsConcat
<1>3. c \in Seq(Seq(T)) /\ Len(c) = Len(s) + Len(t)
  BY <1>2, EachPiece
<1>4. /\ a \o b \in Seq(Seq(T)) /\ Len(a \o b) = Len(s) + Len(t)
      /\ \A i \in 1 .. Len(s) : (a \o b)[i] = a[i]
      /\ \A i \in 1 .. Len(t) : (a \o b)[Len(s) + i] = b[i]
  <2> DEFINE d == a \o b
  <2> HIDE DEF a, b
  <2>3. IsConcat(d, a, b, Seq(T))
    BY <1>1, ConcatIs
  <2>1. /\ d \in Seq(Seq(T)) /\ Len(d) = Len(a) + Len(b)
        /\ \A i \in 1 .. Len(a) : d[i] = a[i]
        /\ \A i \in 1 .. Len(b) : d[Len(a) + i] = b[i]
    BY <2>3 DEF IsConcat
  <2> HIDE DEF d
  <2>2. /\ d \in Seq(Seq(T)) /\ Len(d) = Len(s) + Len(t)
        /\ \A i \in 1 .. Len(s) : d[i] = a[i]
        /\ \A i \in 1 .. Len(t) : d[Len(s) + i] = b[i]
    BY <1>1, <2>1
  <2> QED BY <2>2 DEF d
<1>5. \A i \in 1 .. Len(s) + Len(t) : c[i] = (a \o b)[i]
  <2> SUFFICES ASSUME NEW i \in 1 .. Len(s) + Len(t) PROVE c[i] = (a \o b)[i]
    OBVIOUS
  <2>0. c[i] = by[(s \o t)[i]] /\ Len(s) \in Nat /\ Len(t) \in Nat
    BY <1>2
  <2>1. CASE i \in 1 .. Len(s)
    <3>1. a[i] = by[s[i]]
      BY <2>1
    <3> HIDE DEF a, b, c
    <3> QED BY <1>2, <1>4, <2>0, <2>1, <3>1
  <2>2. CASE i \notin 1 .. Len(s)
    <3>1. PICK j \in 1 .. Len(t) : i = Len(s) + j
      <4>1. i - Len(s) \in 1 .. Len(t) /\ i = Len(s) + (i - Len(s))
        BY <2>0, <2>2
      <4> QED BY <4>1
    <3>2. b[j] = by[t[j]]
      OBVIOUS
    <3> HIDE DEF a, b, c
    <3> QED BY <1>2, <1>4, <2>0, <3>1, <3>2
  <2> QED BY <2>1, <2>2
<1>6. c = a \o b
  <2> DEFINE d == a \o b
  <2>1. d \in Seq(Seq(T)) /\ Len(d) = Len(c) /\ \A i \in 1 .. Len(c) : c[i] = d[i]
    BY <1>3, <1>4, <1>5
  <2> HIDE DEF a, b, c, d
  <2>2. c = d
    BY <1>3, <2>1
  <2> QED BY <2>2 DEF d
<1>7. FlattenSeq(a \o b) = FlattenSeq(a) \o FlattenSeq(b)
  <2> HIDE DEF a, b
  <2> QED BY <1>1, FlattenSplits
<1> QED BY <1>6, <1>7 DEF Each

LEMMA EachOfNone ==
    ASSUME NEW by
    PROVE  Each(<<>>, by) = <<>>
<1>1. [i \in 1 .. Len(<<>>) |-> by[<<>>[i]]] = [i \in 1 .. 0 |-> <<>>]
  OBVIOUS
<1> QED BY <1>1, FlattenNothing DEF Each

LEMMA EachOfOne ==
    ASSUME NEW S, NEW T, NEW by \in [S -> Seq(T)], NEW x \in S
    PROVE  Each(<<x>>, by) = by[x]
<1>1. [i \in 1 .. Len(<<x>>) |-> by[<<x>>[i]]] = <<by[x]>>
  OBVIOUS
<1>2. by[x] \in Seq(T)
  OBVIOUS
<1> QED BY <1>1, <1>2, FlattenOne DEF Each

LEMMA EachOfFlat ==
    ASSUME NEW S, NEW T, NEW by \in [S -> Seq(T)], NEW a \in Seq(Seq(S))
    PROVE  Each(FlattenSeq(a), by) = FlattenSeq([p \in 1 .. Len(a) |-> Each(a[p], by)])
<1> DEFINE n == Len(a)
           b == [p \in 1 .. n |-> Each(a[p], by)]
<1>1. n \in Nat /\ \A p \in 1 .. n : a[p] \in Seq(S)
  OBVIOUS
<1>2. b \in Seq(Seq(T)) /\ Len(b) = n
  <2>1. \A p \in 1 .. n : Each(a[p], by) \in Seq(T)
    <3> SUFFICES ASSUME NEW p \in 1 .. n PROVE Each(a[p], by) \in Seq(T)
      OBVIOUS
    <3>1. a[p] \in Seq(S)
      BY <1>1
    <3> QED BY <3>1, EachIsTyped
  <2> HIDE DEF n
  <2> QED BY <1>1, <2>1
<1>3. \A p \in 1 .. n : b[p] = Each(a[p], by)
  OBVIOUS
<1>9. n = Len(a)
  OBVIOUS
<1> HIDE DEF n, b
<1>4. PICK f \in [0 .. n -> Seq(S)] :
         f[0] = <<>> /\ (\A i \in 1 .. n : f[i] = f[i - 1] \o a[i]) /\ FlattenSeq(a) = f[n]
  BY <1>9, FlattenByPieces
<1>5. PICK g \in [0 .. n -> Seq(T)] :
         g[0] = <<>> /\ (\A i \in 1 .. n : g[i] = g[i - 1] \o b[i]) /\ FlattenSeq(b) = g[n]
  BY <1>2, FlattenByPieces
<1>10. \A s, t \in Seq(S) : Each(s \o t, by) = Each(s, by) \o Each(t, by)
  BY EachSplits
<1> DEFINE P == {k \in 0 .. n : Each(f[k], by) = g[k]}
<1>6. 0 \in P
  BY <1>1, <1>4, <1>5, EachOfNone
<1>7. ASSUME NEW k \in Nat, k < n, k \in P PROVE k + 1 \in P
  <2>1. k + 1 \in 1 .. n /\ k + 1 \in 0 .. n /\ (k + 1) - 1 = k /\ k \in 0 .. n
    BY <1>1, <1>7
  <2>2. f[k + 1] = f[k] \o a[k + 1] /\ g[k + 1] = g[k] \o b[k + 1]
    BY <1>4, <1>5, <2>1
  <2>3. Each(f[k] \o a[k + 1], by) = Each(f[k], by) \o Each(a[k + 1], by)
    <3>1. f[k] \in Seq(S) /\ a[k + 1] \in Seq(S)
      BY <1>1, <1>4, <2>1
    <3> QED BY <1>10, <3>1, Zenon
  <2>4. b[k + 1] = Each(a[k + 1], by) /\ Each(f[k], by) = g[k]
    BY <1>3, <1>7, <2>1
  <2>5. Each(f[k + 1], by) = g[k + 1]
    BY <2>2, <2>3, <2>4
  <2> QED BY <2>1, <2>5
<1> HIDE DEF P
<1>8. n \in P
  BY <1>1, <1>6, <1>7, UpTo
<1> QED BY <1>4, <1>5, <1>8 DEF P, b, n

\* k reads an element as h reads what g reads it as
Chains(g, h, k, S, T, U) ==
    /\ g \in [S -> Seq(T)] /\ h \in [T -> Seq(U)] /\ k \in [S -> Seq(U)]
    /\ \A x \in S : Each(g[x], h) = k[x]

LEMMA EachOfEach ==
    ASSUME NEW S, NEW T, NEW U, NEW g, NEW h, NEW k, Chains(g, h, k, S, T, U), NEW s \in Seq(S)
    PROVE  Each(Each(s, g), h) = Each(s, k)
<1> USE DEF Chains
<1> DEFINE a == [i \in 1 .. Len(s) |-> g[s[i]]]
<1>1. a \in Seq(Seq(T)) /\ Len(a) = Len(s)
  BY EachPiece
<1>2. Each(FlattenSeq(a), h) = FlattenSeq([p \in 1 .. Len(a) |-> Each(a[p], h)])
  <2> HIDE DEF a
  <2> QED BY <1>1, EachOfFlat
<1>3. [p \in 1 .. Len(a) |-> Each(a[p], h)] = [p \in 1 .. Len(s) |-> k[s[p]]]
  <2>1. \A p \in 1 .. Len(s) : Each(a[p], h) = k[s[p]]
    OBVIOUS
  <2> HIDE DEF a
  <2> QED BY <1>1, <2>1
<1> QED BY <1>2, <1>3 DEF Each

-----------------------------------------------------------------------------
(***************************************************************************)
(* A sequence in which the elements from s to e have been replaced by one. *)
(***************************************************************************)
Splice(m, s, e, x) == [i \in 1 .. s - 1 |-> m[i]] \o <<x>> \o [i \in 1 .. Len(m) - e |-> m[e + i]]

IsSplice(z, m, s, e, x, S) ==
    /\ z \in Seq(S) /\ Len(z) = (Len(m) - e) + s
    /\ \A i \in 1 .. s - 1 : z[i] = m[i]
    /\ z[s] = x
    /\ \A i \in 1 .. Len(m) - e : z[s + i] = m[e + i]

LEMMA SliceIs ==
    ASSUME NEW S, NEW m \in Seq(S), NEW s \in 1 .. Len(m), NEW e \in s .. Len(m)
    PROVE  /\ SubSeq(m, s, e) \in Seq(S) /\ Len(SubSeq(m, s, e)) = e - s + 1
           /\ \A i \in 1 .. e - s + 1 : SubSeq(m, s, e)[i] = m[s + i - 1]
OBVIOUS

LEMMA SpliceIs ==
    ASSUME NEW S, NEW m \in Seq(S), NEW s \in 1 .. Len(m), NEW e \in s .. Len(m), NEW x \in S
    PROVE  IsSplice(Splice(m, s, e, x), m, s, e, x, S)
<1> DEFINE u == [i \in 1 .. s - 1 |-> m[i]]
           v == [i \in 1 .. Len(m) - e |-> m[e + i]]
           l == Len(m) - e
<1>1. /\ s \in Nat /\ s - 1 \in Nat /\ Len(m) \in Nat /\ e \in Nat /\ l \in Nat
      /\ \A i \in 1 .. s - 1 : i \in 1 .. Len(m)
      /\ \A i \in 1 .. l : e + i \in 1 .. Len(m)
  OBVIOUS
<1>2. u \in Seq(S) /\ Len(u) = s - 1 /\ \A i \in 1 .. s - 1 : u[i] = m[i]
  BY <1>1
<1>3. v \in Seq(S) /\ Len(v) = l /\ \A i \in 1 .. l : v[i] = m[e + i]
  BY <1>1
<1>4. Splice(m, s, e, x) = (u \o <<x>>) \o v
  BY DEF Splice
<1> DEFINE w == u \o <<x>>
           z == w \o v
<1> HIDE DEF u, v, l
<1>5. w \in Seq(S) /\ Len(w) = s /\ w[s] = x /\ \A i \in 1 .. s - 1 : w[i] = m[i]
  <2>1. /\ w \in Seq(S) /\ Len(w) = Len(u) + 1
        /\ \A i \in 1 .. Len(u) + 1 : w[i] = IF i = Len(u) + 1 THEN x ELSE u[i]
    BY <1>2, OneMoreElement
  <2> HIDE DEF w
  <2> QED BY <1>1, <1>2, <2>1
<1> HIDE DEF w
<1>6. /\ z \in Seq(S) /\ Len(z) = Len(w) + Len(v)
      /\ \A i \in 1 .. Len(w) : z[i] = w[i]
      /\ \A i \in 1 .. Len(v) : z[Len(w) + i] = v[i]
  <2>1. IsConcat(z, w, v, S)
    BY <1>3, <1>5, ConcatIs
  <2> QED BY <2>1 DEF IsConcat
<1> HIDE DEF z
<1>7. /\ z \in Seq(S) /\ Len(z) = l + s /\ z[s] = x
      /\ \A i \in 1 .. s - 1 : z[i] = m[i]
      /\ \A i \in 1 .. l : z[s + i] = m[e + i]
  <2>1. z \in Seq(S) /\ Len(z) = l + s
    BY <1>1, <1>3, <1>5, <1>6
  <2>2. z[s] = x
    BY <1>1, <1>5, <1>6
  <2>3. \A i \in 1 .. s - 1 : z[i] = m[i]
    BY <1>1, <1>5, <1>6
  <2>4. \A i \in 1 .. l : z[s + i] = m[e + i]
    BY <1>3, <1>5, <1>6
  <2> QED BY <2>1, <2>2, <2>3, <2>4
<1>8. z = Splice(m, s, e, x)
  BY <1>4 DEF z, w
<1> QED BY <1>7, <1>8 DEF l, IsSplice

LEMMA SameElements ==
    ASSUME NEW S, NEW a \in Seq(S), NEW b \in Seq(S), Len(a) = Len(b),
           \A i \in 1 .. Len(a) : a[i] = b[i]
    PROVE  a = b
OBVIOUS

LEMMA SpliceIsOnly ==
    ASSUME NEW S, NEW m \in Seq(S), NEW s \in 1 .. Len(m), NEW e \in s .. Len(m), NEW x \in S,
           NEW z, IsSplice(z, m, s, e, x, S)
    PROVE  z = Splice(m, s, e, x)
<1> DEFINE y == Splice(m, s, e, x)
<1>1. IsSplice(y, m, s, e, x, S)
  BY SpliceIs
<1> HIDE DEF y
<1> USE DEF IsSplice
<1>2. s \in Nat /\ Len(m) \in Nat /\ e \in Nat
  OBVIOUS
<1>3. ASSUME NEW i \in 1 .. Len(z) PROVE z[i] = y[i]
  <2>1. CASE i \in 1 .. s - 1
    BY <1>1, <2>1
  <2>2. CASE i = s
    BY <1>1, <2>2
  <2>3. CASE i > s
    <3>1. i - s \in 1 .. Len(m) - e /\ s + (i - s) = i
      BY <1>2, <2>3
    <3>2. z[s + (i - s)] = m[e + (i - s)] /\ y[s + (i - s)] = m[e + (i - s)]
      BY <1>1, <3>1
    <3> QED BY <3>1, <3>2
  <2> QED BY <1>2, <2>1, <2>2, <2>3
<1>4. z = y
  BY <1>1, <1>3, SameElements
<1> QED BY <1>4 DEF y

\* the elements seen one by one
SeenBy(m, h) == [i \in 1 .. Len(m) |-> h[m[i]]]

LEMMA SpliceMapped ==
    ASSUME NEW S, NEW T, NEW h \in [S -> T], NEW m \in Seq(S), NEW s \in 1 .. Len(m),
           NEW e \in s .. Len(m), NEW x \in S
    PROVE  SeenBy(Splice(m, s, e, x), h) = Splice(SeenBy(m, h), s, e, h[x])
<1> DEFINE z == Splice(m, s, e, x)
           n == SeenBy(m, h)
           y == SeenBy(z, h)
<1>1. /\ z \in Seq(S) /\ Len(z) = (Len(m) - e) + s
      /\ \A i \in 1 .. s - 1 : z[i] = m[i]
      /\ z[s] = x
      /\ \A i \in 1 .. Len(m) - e : z[s + i] = m[e + i]
  <2>1. IsSplice(z, m, s, e, x, S)
    BY SpliceIs
  <2> QED BY <2>1 DEF IsSplice
<1>2. /\ s \in Nat /\ Len(m) \in Nat /\ e \in Nat /\ h[x] \in T
      /\ \A i \in 1 .. Len(m) : m[i] \in S /\ h[m[i]] \in T
  OBVIOUS
<1>3. n \in Seq(T) /\ Len(n) = Len(m) /\ \A i \in 1 .. Len(m) : n[i] = h[m[i]]
  BY <1>2 DEF SeenBy
<1> HIDE DEF z
<1>4. y \in Seq(T) /\ Len(y) = Len(z) /\ \A i \in 1 .. Len(z) : y[i] = h[z[i]]
  <2>1. \A i \in 1 .. Len(z) : h[z[i]] \in T
    BY <1>1
  <2>2. Len(z) \in Nat
    BY <1>1
  <2> QED BY <2>1, <2>2 DEF SeenBy
<1> HIDE DEF n, y
<1>5. /\ \A i \in 1 .. s - 1 : y[i] = n[i]
      /\ y[s] = h[x]
      /\ \A i \in 1 .. Len(n) - e : y[s + i] = n[e + i]
  <2>1. /\ \A i \in 1 .. s - 1 : i \in 1 .. Len(z) /\ i \in 1 .. Len(m)
        /\ s \in 1 .. Len(z)
        /\ \A i \in 1 .. Len(m) - e : s + i \in 1 .. Len(z) /\ e + i \in 1 .. Len(m)
    BY <1>1, <1>2
  <2>2. \A i \in 1 .. s - 1 : y[i] = n[i]
    BY <1>1, <1>3, <1>4, <2>1
  <2>3. y[s] = h[x]
    BY <1>1, <1>4, <2>1
  <2>4. \A i \in 1 .. Len(m) - e : y[s + i] = n[e + i]
    BY <1>1, <1>3, <1>4, <2>1
  <2> QED BY <1>3, <2>2, <2>3, <2>4
<1>6. y = Splice(n, s, e, h[x])
  <2>1. s \in 1 .. Len(n) /\ e \in s .. Len(n) /\ Len(y) = (Len(n) - e) + s
    BY <1>1, <1>2, <1>3, <1>4
  <2>2. IsSplice(y, n, s, e, h[x], T)
    BY <1>4, <1>5, <2>1 DEF IsSplice
  <2> QED BY <1>2, <1>3, <2>1, <2>2, SpliceIsOnly
<1> QED BY <1>6 DEF y, n, z

\* the parts before, between and after
LEMMA InThreeParts ==
    ASSUME NEW S, NEW m \in Seq(S), NEW s \in 1 .. Len(m), NEW e \in s .. Len(m)
    PROVE  LET u == [i \in 1 .. s - 1 |-> m[i]]
               v == [i \in 1 .. Len(m) - e |-> m[e + i]]
           IN  u \in Seq(S) /\ v \in Seq(S) /\ SubSeq(m, s, e) \in Seq(S) /\ m = (u \o SubSeq(m, s, e)) \o v
<1> DEFINE u == [i \in 1 .. s - 1 |-> m[i]]
           v == [i \in 1 .. Len(m) - e |-> m[e + i]]
           w == SubSeq(m, s, e)
           c == u \o w
           d == c \o v
<1>1. /\ s \in Nat /\ s - 1 \in Nat /\ Len(m) \in Nat /\ e \in Nat /\ Len(m) - e \in Nat
      /\ \A i \in 1 .. s - 1 : i \in 1 .. Len(m)
      /\ \A i \in 1 .. Len(m) - e : e + i \in 1 .. Len(m)
      /\ s <= e /\ e <= Len(m)
  OBVIOUS
<1>2. u \in Seq(S) /\ Len(u) = s - 1 /\ \A i \in 1 .. s - 1 : u[i] = m[i]
  BY <1>1
<1>3. v \in Seq(S) /\ Len(v) = Len(m) - e /\ \A i \in 1 .. Len(m) - e : v[i] = m[e + i]
  BY <1>1
<1>4. w \in Seq(S) /\ Len(w) = e - s + 1 /\ \A i \in 1 .. e - s + 1 : w[i] = m[s + i - 1]
  BY SliceIs, Zenon
<1> HIDE DEF u, v, w
<1>5. IsConcat(c, u, w, S)
  BY <1>2, <1>4, ConcatIs
<1> HIDE DEF c
<1>6. IsConcat(d, c, v, S)
  <2>1. c \in Seq(S)
    BY <1>5 DEF IsConcat
  <2> QED BY <1>3, <2>1, ConcatIs
<1> HIDE DEF d
<1>7. d \in Seq(S) /\ Len(d) = Len(m) /\ Len(c) = e
  BY <1>1, <1>2, <1>3, <1>4, <1>5, <1>6 DEF IsConcat
<1>8. ASSUME NEW i \in 1 .. Len(m) PROVE d[i] = m[i]
  <2>1. CASE i \in 1 .. s - 1
    <3>1. i \in 1 .. Len(c)
      BY <1>1, <1>7, <2>1
    <3>2. d[i] = c[i]
      BY <1>6, <3>1 DEF IsConcat
    <3>3. c[i] = u[i]
      BY <1>2, <1>5, <2>1 DEF IsConcat
    <3> QED BY <1>2, <2>1, <3>2, <3>3
  <2>2. CASE i \in s .. e
    <3> DEFINE j == i - (s - 1)
    <3>1. j \in 1 .. e - s + 1 /\ (s - 1) + j = i /\ s + j - 1 = i /\ i \in 1 .. e
      BY <1>1, <2>2
    <3> HIDE DEF j
    <3>2. d[i] = c[i]
      BY <1>6, <1>7, <3>1 DEF IsConcat
    <3>3. c[Len(u) + j] = w[j]
      BY <1>4, <1>5, <3>1 DEF IsConcat
    <3>4. w[j] = m[i]
      BY <1>4, <3>1
    <3> QED BY <1>2, <3>1, <3>2, <3>3, <3>4
  <2>3. CASE i > e
    <3> DEFINE j == i - e
    <3>1. j \in 1 .. Len(m) - e /\ e + j = i
      BY <1>1, <2>3
    <3> HIDE DEF j
    <3>2. d[Len(c) + j] = v[j]
      BY <1>3, <1>6, <3>1 DEF IsConcat
    <3> QED BY <1>3, <1>7, <3>1, <3>2
  <2> QED BY <1>1, <2>1, <2>2, <2>3
<1>9. d = m
  BY <1>7, <1>8, SameElements
<1> QED BY <1>2, <1>3, <1>4, <1>9 DEF d, c, u, v, w

LEMMA EachOfSplice ==
    ASSUME NEW S, NEW T, NEW by \in [S -> Seq(T)], NEW m \in Seq(S), NEW s \in 1 .. Len(m),
           NEW e \in s .. Len(m), NEW x \in S, by[x] = Each(SubSeq(m, s, e), by)
    PROVE  Each(Splice(m, s, e, x), by) = Each(m, by)
<1> DEFINE u == [i \in 1 .. s - 1 |-> m[i]]
           v == [i \in 1 .. Len(m) - e |-> m[e + i]]
           w == SubSeq(m, s, e)
<1>1. u \in Seq(S) /\ v \in Seq(S) /\ w \in Seq(S) /\ m = (u \o w) \o v
  BY InThreeParts
<1>2. Splice(m, s, e, x) = (u \o <<x>>) \o v
  BY DEF Splice
<1>3. \A y, z \in Seq(S) : Each(y \o z, by) = Each(y, by) \o Each(z, by)
  BY EachSplits
<1>4. Each(<<x>>, by) = Each(w, by)
  BY EachOfOne
<1> HIDE DEF u, v, w
<1>5. u \o w \in Seq(S) /\ <<x>> \in Seq(S) /\ u \o <<x>> \in Seq(S)
  BY <1>1
<1>6. Each((u \o w) \o v, by) = (Each(u, by) \o Each(w, by)) \o Each(v, by)
  <2>1. Each((u \o w) \o v, by) = Each(u \o w, by) \o Each(v, by)
    BY <1>1, <1>3, <1>5
  <2>2. Each(u \o w, by) = Each(u, by) \o Each(w, by)
    BY <1>1, <1>3
  <2> QED BY <2>1, <2>2
<1>7. Each((u \o <<x>>) \o v, by) = (Each(u, by) \o Each(<<x>>, by)) \o Each(v, by)
  <2>1. Each((u \o <<x>>) \o v, by) = Each(u \o <<x>>, by) \o Each(v, by)
    BY <1>1, <1>3, <1>5
  <2>2. Each(u \o <<x>>, by) = Each(u, by) \o Each(<<x>>, by)
    BY <1>1, <1>3, <1>5
  <2> QED BY <2>1, <2>2
<1> QED BY <1>1, <1>2, <1>4, <1>6, <1>7

-----------------------------------------------------------------------------
(***************************************************************************)
(* Pieces of one element up to e, of which those from s to e become one.   *)
(***************************************************************************)
PiecesDiffer(a, b, s, e, w, x) ==
    /\ Len(b) = Len(a)
    /\ \A p \in 1 .. e : a[p] = <<w[p]>>
    /\ \A p \in 1 .. s - 1 : b[p] = <<w[p]>>
    /\ b[s] = <<x>>
    /\ \A p \in s + 1 .. e : b[p] = <<>>
    /\ \A p \in e + 1 .. Len(a) : b[p] = a[p]

LEMMA PiecesAreSpliced ==
    ASSUME NEW S, NEW a \in Seq(Seq(S)), NEW b \in Seq(Seq(S)),
           NEW s \in 1 .. Len(a), NEW e \in s .. Len(a), NEW w \in [1 .. e -> S], NEW x \in S,
           PiecesDiffer(a, b, s, e, w, x)
    PROVE  /\ e <= Len(FlattenSeq(a))
           /\ FlattenSeq(b) = Splice(FlattenSeq(a), s, e, x)
<1> DEFINE n == Len(a)
           r == [p \in 1 .. n - e |-> a[e + p]]
           y == FlattenSeq(r)
           t == [p \in 1 .. s - 1 |-> w[p]]
           A == [p \in 1 .. e |-> <<w[p]>>]
           B == [p \in 1 .. s - 1 |-> <<t[p]>>]
           E == [p \in 1 .. e - s |-> <<>>]
<1>0. /\ Len(b) = n /\ b[s] = <<x>>
      /\ \A p \in 1 .. e : a[p] = <<w[p]>>
      /\ \A p \in 1 .. s - 1 : b[p] = <<w[p]>>
      /\ \A p \in s + 1 .. e : b[p] = <<>>
      /\ \A p \in e + 1 .. n : b[p] = a[p]
  BY DEF PiecesDiffer
<1>1. /\ n \in Nat /\ s \in Nat /\ e \in Nat /\ s - 1 \in Nat /\ e - s \in Nat /\ n - e \in Nat
      /\ 1 <= s /\ s <= e /\ e <= n
  OBVIOUS
<1>2. /\ w \in Seq(S) /\ Len(w) = e /\ t \in Seq(S) /\ Len(t) = s - 1
      /\ \A p \in 1 .. s - 1 : t[p] = w[p]
  BY <1>1
<1>3. /\ \A p \in 1 .. n : a[p] \in Seq(S)
      /\ \A p \in 1 .. n : b[p] \in Seq(S)
  BY <1>0
<1>4. r \in Seq(Seq(S)) /\ Len(r) = n - e /\ \A p \in 1 .. n - e : r[p] = a[e + p]
  <2>1. \A p \in 1 .. n - e : a[e + p] \in Seq(S)
    <3>1. \A p \in 1 .. n - e : e + p \in 1 .. n
      BY <1>1
    <3> QED BY <1>3, <3>1
  <2> QED BY <1>1, <2>1
<1>5. A \in Seq(Seq(S)) /\ Len(A) = e /\ \A p \in 1 .. e : A[p] = <<w[p]>>
  BY <1>1, <1>2
<1>6. /\ B \in Seq(Seq(S)) /\ Len(B) = s - 1 /\ \A p \in 1 .. s - 1 : B[p] = <<w[p]>>
      /\ B = [p \in 1 .. Len(t) |-> <<t[p]>>]
  BY <1>1, <1>2
<1>7. E \in Seq(Seq(S)) /\ Len(E) = e - s /\ \A p \in 1 .. e - s : E[p] = <<>>
  BY <1>1
<1>8. y \in Seq(S)
  <2> HIDE DEF r
  <2> QED BY <1>4, FlattenIsTyped
<1>9. FlattenSeq(A) = w
  <2>1. A = [p \in 1 .. Len(w) |-> <<w[p]>>]
    BY <1>2
  <2> HIDE DEF A
  <2> QED BY <1>2, <2>1, FlattenSingles
<1>10. FlattenSeq(B) = t
  <2> HIDE DEF B, t
  <2> QED BY <1>2, <1>6, FlattenSingles
<1>11. FlattenSeq(E) = <<>>
  BY <1>1, FlattenNothing
<1> HIDE DEF r, y, t, A, B, E
<1>12. a = A \o r
  <2> DEFINE c == A \o r
  <2>1. IsConcat(c, A, r, Seq(S))
    BY <1>4, <1>5, ConcatIs
  <2> HIDE DEF c
  <2>2. c \in Seq(Seq(S)) /\ Len(c) = n
    BY <1>1, <1>4, <1>5, <2>1 DEF IsConcat
  <2>3. ASSUME NEW p \in 1 .. n PROVE a[p] = c[p]
    <3>1. CASE p \in 1 .. e
      BY <1>0, <1>5, <2>1, <3>1 DEF IsConcat
    <3>2. CASE p \notin 1 .. e
      <4> DEFINE q == p - e
      <4>1. q \in 1 .. n - e /\ e + q = p
        BY <1>1, <3>2
      <4> HIDE DEF q
      <4> QED BY <1>4, <1>5, <2>1, <4>1 DEF IsConcat
    <3> QED BY <3>1, <3>2
  <2>4. a = c
    BY <2>2, <2>3, SameElements
  <2> QED BY <2>4 DEF c
<1>13. b = ((B \o <<<<x>>>>) \o E) \o r
  <2> DEFINE X == <<<<x>>>>
             c == B \o X
             d == c \o E
             f == d \o r
  <2>0. X \in Seq(Seq(S)) /\ Len(X) = 1 /\ X[1] = <<x>>
    OBVIOUS
  <2> HIDE DEF X
  <2>1. IsConcat(c, B, X, Seq(S))
    BY <1>6, <2>0, ConcatIs
  <2>2. c \in Seq(Seq(S)) /\ Len(c) = s
    BY <1>1, <1>6, <2>0, <2>1 DEF IsConcat
  <2> HIDE DEF c
  <2>3. IsConcat(d, c, E, Seq(S))
    BY <1>7, <2>2, ConcatIs
  <2>4. d \in Seq(Seq(S)) /\ Len(d) = e
    BY <1>1, <1>7, <2>2, <2>3 DEF IsConcat
  <2> HIDE DEF d
  <2>5. IsConcat(f, d, r, Seq(S))
    BY <1>4, <2>4, ConcatIs
  <2> HIDE DEF f
  <2>6. f \in Seq(Seq(S)) /\ Len(f) = n
    BY <1>1, <1>4, <2>4, <2>5 DEF IsConcat
  <2>7. ASSUME NEW p \in 1 .. n PROVE b[p] = f[p]
    <3>1. CASE p \in 1 .. s - 1
      <4>0. p \in Nat /\ 1 <= p /\ p <= s - 1
        BY <1>1, <3>1
      <4>1. p \in 1 .. s /\ p \in 1 .. e
        BY <1>1, <4>0
      <4>2. f[p] = d[p] /\ d[p] = c[p] /\ c[p] = B[p]
        BY <1>6, <2>1, <2>2, <2>3, <2>4, <2>5, <3>1, <4>1 DEF IsConcat
      <4> QED BY <1>0, <1>6, <3>1, <4>2
    <3>2. CASE p = s
      <4>1. p \in 1 .. s /\ p \in 1 .. e /\ 1 \in 1 .. 1 /\ (s - 1) + 1 = p
        BY <1>1, <3>2
      <4>2. f[p] = d[p] /\ d[p] = c[p]
        BY <2>2, <2>3, <2>4, <2>5, <4>1 DEF IsConcat
      <4>3. c[p] = X[1]
        BY <1>6, <2>0, <2>1, <4>1 DEF IsConcat
      <4> QED BY <1>0, <2>0, <3>2, <4>2, <4>3
    <3>3. CASE p \in s + 1 .. e
      <4> DEFINE q == p - s
      <4>1. q \in 1 .. e - s /\ s + q = p /\ p \in 1 .. e
        BY <1>1, <3>3
      <4> HIDE DEF q
      <4>2. f[p] = d[p]
        BY <2>4, <2>5, <4>1 DEF IsConcat
      <4>3. d[p] = E[q]
        BY <1>7, <2>2, <2>3, <4>1 DEF IsConcat
      <4> QED BY <1>0, <1>7, <3>3, <4>1, <4>2, <4>3
    <3>4. CASE p \in e + 1 .. n
      <4> DEFINE q == p - e
      <4>0. p \in Nat /\ e + 1 <= p /\ p <= n
        BY <1>1, <3>4
      <4>1. q \in 1 .. n - e /\ e + q = p
        BY <1>1, <4>0
      <4> HIDE DEF q
      <4>2. f[p] = r[q]
        BY <1>4, <2>4, <2>5, <4>1 DEF IsConcat
      <4> QED BY <1>0, <1>4, <3>4, <4>1, <4>2
    <3> QED BY <1>1, <3>1, <3>2, <3>3, <3>4
  <2>8. b = f
    BY <1>0, <2>6, <2>7, SameElements
  <2> QED BY <2>8 DEF f, d, c, X
<1>14. \A c, d \in Seq(Seq(S)) : c \o d \in Seq(Seq(S)) /\ FlattenSeq(c \o d) = FlattenSeq(c) \o FlattenSeq(d)
  <2>1. \A c, d \in Seq(Seq(S)) : FlattenSeq(c \o d) = FlattenSeq(c) \o FlattenSeq(d)
    BY FlattenSplits
  <2>2. \A c, d \in Seq(Seq(S)) : c \o d \in Seq(Seq(S))
    OBVIOUS
  <2> QED BY <2>1, <2>2
<1>15. FlattenSeq(a) = w \o y
  BY <1>4, <1>5, <1>9, <1>12, <1>14 DEF y
<1>16. FlattenSeq(b) = (t \o <<x>>) \o y
  <2> DEFINE X == <<<<x>>>>
  <2>0. X \in Seq(Seq(S)) /\ FlattenSeq(X) = <<x>>
    <3>1. <<x>> \in Seq(S)
      OBVIOUS
    <3>2. <<<<x>>>> \in Seq(Seq(S))
      BY <3>1
    <3>3. FlattenSeq(<<<<x>>>>) = <<x>>
      BY <3>1, FlattenOne, Zenon
    <3> QED BY <3>2, <3>3
  <2> HIDE DEF X
  <2>1. B \o X \in Seq(Seq(S)) /\ FlattenSeq(B \o X) = t \o <<x>>
    <3>1. B \o X \in Seq(Seq(S)) /\ FlattenSeq(B \o X) = FlattenSeq(B) \o FlattenSeq(X)
      BY <1>6, <1>14, <2>0, Zenon
    <3> QED BY <1>10, <2>0, <3>1
  <2>2. (B \o X) \o E \in Seq(Seq(S)) /\ FlattenSeq((B \o X) \o E) = (t \o <<x>>) \o <<>>
    <3>1. /\ (B \o X) \o E \in Seq(Seq(S))
          /\ FlattenSeq((B \o X) \o E) = FlattenSeq(B \o X) \o FlattenSeq(E)
      BY <1>7, <1>14, <2>1, Zenon
    <3> QED BY <1>11, <2>1, <3>1
  <2>3. (t \o <<x>>) \o <<>> = t \o <<x>>
    BY <1>2
  <2>4. FlattenSeq(((B \o X) \o E) \o r) = (t \o <<x>>) \o y
    <3>1. FlattenSeq(((B \o X) \o E) \o r) = FlattenSeq((B \o X) \o E) \o FlattenSeq(r)
      BY <1>4, <1>14, <2>2, Zenon
    <3> QED BY <2>2, <2>3, <3>1 DEF y
  <2> QED BY <1>13, <2>4 DEF X
<1> DEFINE m == w \o y
<1>17. IsConcat(m, w, y, S)
  BY <1>2, <1>8, ConcatIs
<1> HIDE DEF m
<1>18. m \in Seq(S) /\ Len(y) \in Nat /\ Len(m) = e + Len(y) /\ e <= Len(m) /\ Len(m) - e = Len(y)
  BY <1>1, <1>2, <1>8, <1>17 DEF IsConcat
<1>19. t = [i \in 1 .. s - 1 |-> m[i]]
  <2>1. \A i \in 1 .. s - 1 : m[i] = w[i]
    BY <1>1, <1>2, <1>17 DEF IsConcat
  <2> QED BY <2>1 DEF t
<1>20. y = [i \in 1 .. Len(m) - e |-> m[e + i]]
  <2>1. \A i \in 1 .. Len(y) : m[e + i] = y[i]
    BY <1>2, <1>17 DEF IsConcat
  <2>2. y = [i \in 1 .. Len(y) |-> y[i]]
    BY <1>8
  <2> QED BY <1>18, <2>1, <2>2
<1> QED BY <1>15, <1>16, <1>18, <1>19, <1>20 DEF Splice, m

-----------------------------------------------------------------------------
(***************************************************************************)
(* Words, people and the spans of entities.                                *)
(***************************************************************************)
LEMMA InLowerIsTyped == InLower \in [Words \cup {Blank} -> Seq(Words)]
<1>1. \A w \in Words : Lower[w] \in Words
  BY MaskingAssumption
<1>2. \A w \in Words \cup {Blank} : w # Blank => <<Lower[w]>> \in Seq(Words)
  BY <1>1
<1> QED BY <1>2 DEF InLower

LEMMA PersonIsTyped ==
    ASSUME NEW w \in Seq(Words \cup {Blank})
    PROVE  Person(w) \in Seq(Words)
BY InLowerIsTyped, EachIsTyped DEF Person

LEMMA BlanksReadAsNothing ==
    ASSUME NEW w \in Seq(Words \cup {Blank}), \A i \in 1 .. Len(w) : w[i] = Blank
    PROVE  Person(w) = <<>>
<1>1. \A i \in 1 .. Len(w) : InLower[w[i]] = <<>>
  BY DEF InLower
<1>2. [i \in 1 .. Len(w) |-> InLower[w[i]]] = [i \in 1 .. Len(w) |-> <<>>]
  BY <1>1
<1>3. FlattenSeq([i \in 1 .. Len(w) |-> <<>>]) = <<>>
  BY FlattenNothing
<1> QED BY <1>2, <1>3 DEF Person, Each

LEMMA HasGreatest ==
    ASSUME NEW n \in Nat, NEW I \in SUBSET (1 .. n), I # {}
    PROVE  \E m \in I : \A i \in I : m >= i
<1> DEFINE S == {k \in Nat : n - k \in I}
<1>1. PICK i \in I : TRUE
  OBVIOUS
<1>2. n - i \in S
  <2>1. n - i \in Nat /\ n - (n - i) = i
    OBVIOUS
  <2> QED BY <2>1
<1>3. PICK k \in S : \A j \in S : k <= j
  BY <1>2, HasLeast
<1>4. ASSUME NEW j \in I PROVE n - k >= j
  <2>1. n - j \in Nat /\ n - (n - j) = j /\ n - j \in S
    OBVIOUS
  <2>2. k <= n - j /\ k \in Nat
    BY <1>3, <2>1
  <2> QED BY <2>2
<1> QED BY <1>3, <1>4

LEMMA StripReadsTheSame ==
    ASSUME NEW w \in Seq(Words \cup {Blank}), ~IsBlank(w)
    PROVE  Strip(w) \in Seq(Words \cup {Blank}) /\ Person(Strip(w)) = Person(w)
<1> DEFINE I == {i \in 1 .. Len(w) : w[i] # Blank}
           s == Min(I)
           e == Max(I)
           u == [i \in 1 .. s - 1 |-> w[i]]
           v == [i \in 1 .. Len(w) - e |-> w[e + i]]
           m == SubSeq(w, s, e)
<1>1. I # {} /\ I \in SUBSET (1 .. Len(w)) /\ Len(w) \in Nat
  BY DEF IsBlank
<1>2. Strip(w) = m
  BY <1>1 DEF Strip, SelectInSeq, SelectLastInSeq
<1>0. \A i \in 1 .. Len(w) : i \notin I => w[i] = Blank
  OBVIOUS
<1> HIDE DEF I
<1>3. s \in I /\ \A i \in I : s <= i
  <2>1. I \in SUBSET Nat
    BY <1>1
  <2>2. \E n \in I : \A i \in I : n <= i
    BY <1>1, <2>1, HasLeast
  <2> QED BY <2>2, Zenon DEF Min
<1>4. e \in I /\ \A i \in I : e >= i
  <2>1. \E n \in I : \A i \in I : n >= i
    BY <1>1, HasGreatest
  <2> QED BY <2>1, Zenon DEF Max
<1> HIDE DEF s, e
<1>5. s \in 1 .. Len(w) /\ e \in s .. Len(w)
  BY <1>1, <1>3, <1>4
<1>6. /\ u \in Seq(Words \cup {Blank}) /\ v \in Seq(Words \cup {Blank})
      /\ m \in Seq(Words \cup {Blank}) /\ w = (u \o m) \o v
  BY <1>5, InThreeParts
<1>7. Person(u) = <<>>
  <2>1. \A i \in 1 .. s - 1 : w[i] = Blank
    BY <1>0, <1>3, <1>5
  <2>2. \A i \in 1 .. Len(u) : u[i] = Blank
    BY <1>5, <2>1
  <2> HIDE DEF u
  <2> QED BY <1>6, <2>2, BlanksReadAsNothing
<1>8. Person(v) = <<>>
  <2>1. \A i \in 1 .. Len(w) - e : w[e + i] = Blank
    BY <1>0, <1>1, <1>4, <1>5
  <2>2. \A i \in 1 .. Len(v) : v[i] = Blank
    BY <1>1, <1>5, <2>1
  <2> HIDE DEF v
  <2> QED BY <1>6, <2>2, BlanksReadAsNothing
<1>9. \A y, z \in Seq(Words \cup {Blank}) : Person(y \o z) = Person(y) \o Person(z)
  BY InLowerIsTyped, EachSplits DEF Person
<1> HIDE DEF u, v, m
<1>10. Person(w) = (Person(u) \o Person(m)) \o Person(v)
  <2>1. u \o m \in Seq(Words \cup {Blank})
    BY <1>6
  <2>2. Person((u \o m) \o v) = Person(u \o m) \o Person(v)
    BY <1>6, <1>9, <2>1
  <2>3. Person(u \o m) = Person(u) \o Person(m)
    BY <1>6, <1>9
  <2> QED BY <1>6, <2>2, <2>3
<1>11. Person(m) \in Seq(Words)
  BY <1>6, PersonIsTyped
<1> QED BY <1>2, <1>6, <1>7, <1>8, <1>10, <1>11

SpansInOrder ==
    /\ Len(text) \in Nat /\ Len(entities) \in Nat /\ Len(entities) <= MaxEntities /\ MaxEntities \in Nat
    /\ \A i \in 1 .. Len(entities) :
          /\ entities[i].start \in Nat /\ entities[i].end \in Nat /\ entities[i].person \in BOOLEAN
          /\ 1 <= entities[i].start /\ entities[i].start <= entities[i].end
          /\ entities[i].end <= Len(text)
    /\ \A i, j \in 1 .. Len(entities) : i < j => entities[i].end < entities[j].start

LEMMA EntitiesInOrder == NamesTyped => SpansInOrder
<1> SUFFICES ASSUME NamesTyped PROVE SpansInOrder
  OBVIOUS
<1>1. Len(text) \in Nat /\ MaxEntities \in Nat
  BY MaskingAssumption DEF NamesTyped
<1>2. CASE entities = <<>>
  BY <1>1, <1>2 DEF SpansInOrder
<1>3. CASE entities \in Found
  <2>1. PICK n \in 1 .. MaxEntities : entities \in [1 .. n -> Entity]
    BY <1>3 DEF Found
  <2>2. Len(entities) = n /\ \A i \in 1 .. n : entities[i] \in Entity
    BY <1>1, <2>1
  <2>3. \A x \in Entity : /\ x.start \in 1 .. Len(text) /\ x.end \in 1 .. Len(text)
                          /\ x.person \in BOOLEAN
    BY DEF Entity
  <2>4. /\ \A i \in 1 .. n : entities[i].start <= entities[i].end
        /\ \A i, j \in 1 .. n : i < j => entities[i].end < entities[j].start
    BY <1>3, <2>2 DEF Found
  <2> QED BY <1>1, <2>2, <2>3, <2>4 DEF SpansInOrder
<1> QED BY <1>2, <1>3 DEF NamesTyped

LEMMA SpansAreApart ==
    ASSUME SpansInOrder, NEW i \in 1 .. Len(entities), NEW j \in 1 .. Len(entities)
    PROVE  /\ entities[i].start = entities[j].start => i = j
           /\ entities[i].start < entities[j].start => entities[i].end < entities[j].start
BY DEF SpansInOrder

LEMMA SpanIsTyped ==
    ASSUME NamesTyped, NEW i \in 1 .. Len(entities)
    PROVE  /\ SubSeq(text, entities[i].start, entities[i].end) \in Seq(Words \cup {Blank})
           /\ PersonAt(i) \in Seq(Words)
<1>1. /\ text \in Seq(Words \cup {Blank}) /\ entities[i].start \in 1 .. Len(text)
      /\ entities[i].end \in entities[i].start .. Len(text)
  BY EntitiesInOrder DEF NamesTyped, SpansInOrder
<1>2. SubSeq(text, entities[i].start, entities[i].end) \in Seq(Words \cup {Blank})
  BY <1>1, SliceIs
<1> QED BY <1>2, PersonIsTyped DEF PersonAt

-----------------------------------------------------------------------------
(***************************************************************************)
(* Tokens are no words, and are read as their people.                      *)
(***************************************************************************)
LEMMA TokensAreNoWords ==
    ASSUME NamesTyped, NEW n \in 1 .. Len(people)
    PROVE  /\ n \in Nat /\ Token(n) \notin Words \cup {Blank}
           /\ Token(n) \in Symbols(Len(people)) /\ Token(n).token = n
<1>1. n \in 1 .. MaxEntities
  BY EntitiesInOrder DEF NamesTyped, SpansInOrder
<1>2. Token(n) \notin Words \cup {Blank}
  BY <1>1, TokenAssumption
<1>3. Token(n) \in Symbols(Len(people))
  BY DEF Symbols
<1>4. Token(n).token = n
  BY DEF Token
<1> QED BY <1>1, <1>2, <1>3, <1>4

LEMMA SymbolsAre ==
    ASSUME NEW x \in Symbols(Len(people)), x \notin Words \cup {Blank}
    PROVE  \E n \in 1 .. Len(people) : x = Token(n)
BY DEF Symbols

LEMMA InPeopleIsTyped ==
    ASSUME NamesTyped
    PROVE  /\ InPeople \in [Symbols(Len(people)) -> Seq(Words)]
           /\ \A x \in Words \cup {Blank} : InPeople[x] = InLower[x]
           /\ \A n \in 1 .. Len(people) : InPeople[Token(n)] = people[n]
<1>1. people \in Seq(Seq(Words)) /\ Len(people) \in Nat
  BY DEF NamesTyped
<1>2. ASSUME NEW x \in Words \cup {Blank} PROVE x \in Symbols(Len(people)) /\ InLower[x] \in Seq(Words)
  BY InLowerIsTyped DEF Symbols
<1>3. \A n \in 1 .. Len(people) : people[n] \in Seq(Words)
  BY <1>1
<1>4. ASSUME NEW n \in 1 .. Len(people) PROVE InPeople[Token(n)] = people[n]
  BY TokensAreNoWords DEF InPeople
<1>5. \A x \in Words \cup {Blank} : InPeople[x] = InLower[x]
  BY <1>2 DEF InPeople
<1>6. ASSUME NEW x \in Symbols(Len(people))
      PROVE  (IF x \in Words \cup {Blank} THEN InLower[x] ELSE people[x.token]) \in Seq(Words)
  <2>1. CASE x \in Words \cup {Blank}
    BY <1>2, <2>1
  <2>2. CASE x \notin Words \cup {Blank}
    <3>1. PICK n \in 1 .. Len(people) : x = Token(n)
      BY <2>2, SymbolsAre
    <3>2. x.token = n
      BY <3>1, TokensAreNoWords
    <3> QED BY <1>3, <2>2, <3>2
  <2> QED BY <2>1, <2>2
<1>7. InPeople \in [Symbols(Len(people)) -> Seq(Words)]
  BY <1>6 DEF InPeople
<1> QED BY <1>4, <1>5, <1>7

LEMMA InNamesIsTyped ==
    ASSUME NamesTyped
    PROVE  /\ InNames \in [Symbols(Len(people)) -> Seq(Words \cup {Blank})]
           /\ \A x \in Words \cup {Blank} : InNames[x] = <<x>>
           /\ \A n \in 1 .. Len(people) : InNames[Token(n)] = names[n]
<1>1. names \in Seq(Seq(Words \cup {Blank})) /\ Len(people) \in Nat /\ Len(names) = Len(people)
  BY DEF NamesTyped
<1>2. ASSUME NEW x \in Words \cup {Blank} PROVE x \in Symbols(Len(people)) /\ <<x>> \in Seq(Words \cup {Blank})
  BY DEF Symbols
<1>3. \A n \in 1 .. Len(people) : names[n] \in Seq(Words \cup {Blank})
  BY <1>1
<1>4. ASSUME NEW n \in 1 .. Len(people) PROVE InNames[Token(n)] = names[n]
  BY TokensAreNoWords DEF InNames
<1>5. \A x \in Words \cup {Blank} : InNames[x] = <<x>>
  BY <1>2 DEF InNames
<1>6. ASSUME NEW x \in Symbols(Len(people))
      PROVE  (IF x \in Words \cup {Blank} THEN <<x>> ELSE names[x.token]) \in Seq(Words \cup {Blank})
  <2>1. CASE x \in Words \cup {Blank}
    BY <1>2, <2>1
  <2>2. CASE x \notin Words \cup {Blank}
    <3>1. PICK n \in 1 .. Len(people) : x = Token(n)
      BY <2>2, SymbolsAre
    <3>2. x.token = n
      BY <3>1, TokensAreNoWords
    <3> QED BY <1>3, <2>2, <3>2
  <2> QED BY <2>1, <2>2
<1>7. InNames \in [Symbols(Len(people)) -> Seq(Words \cup {Blank})]
  BY <1>6 DEF InNames
<1> QED BY <1>4, <1>5, <1>7

-----------------------------------------------------------------------------
(***************************************************************************)
(* A text in which nobody has been replaced yet.                           *)
(***************************************************************************)
LEMMA PlainTextIsMasked == NamesTyped /\ Replaced = {} /\ maskedText = text => TextIsMasked
<1> SUFFICES ASSUME NamesTyped, Replaced = {}, maskedText = text PROVE TextIsMasked
  OBVIOUS
<1>1. text \in Seq(Words \cup {Blank}) /\ Len(text) \in Nat
  BY DEF NamesTyped
<1>2. \A p \in 1 .. Len(text) : text[p] \notin {Token(n) : n \in 1 .. Len(people)}
  <2>1. \A p \in 1 .. Len(text) : text[p] \in Words \cup {Blank}
    BY <1>1
  <2>2. \A n \in 1 .. Len(people) : Token(n) \notin Words \cup {Blank}
    BY TokensAreNoWords
  <2> QED BY <2>1, <2>2
<1>3. Sent = text
  <2>1. Sent = [p \in 1 .. Len(text) |-> text[p]]
    BY <1>2 DEF Sent
  <2> QED BY <1>1, <2>1
<1>4. Shown({}) = text
  <2>1. Shown({}) = FlattenSeq([p \in 1 .. Len(text) |-> <<text[p]>>])
    BY DEF Shown
  <2> QED BY <1>1, <2>1, FlattenSingles
<1>5. Each(text, InPeople) = Person(text)
  <2>1. \A p \in 1 .. Len(text) : InPeople[text[p]] = InLower[text[p]]
    BY <1>1, InPeopleIsTyped
  <2>2. [p \in 1 .. Len(text) |-> InPeople[text[p]]] = [p \in 1 .. Len(text) |-> InLower[text[p]]]
    BY <2>1
  <2> QED BY <2>2 DEF Each, Person
<1> QED BY <1>3, <1>4, <1>5 DEF TextIsMasked

LEMMA MaskingStarts == NamesInit => NamesInvariant
<1> SUFFICES ASSUME NamesInit PROVE NamesInvariant
  OBVIOUS
<1>1. /\ entities = <<>> /\ entityAt = 1 /\ people = <<>> /\ names = <<>> /\ replacements = {}
      /\ maskedText = text /\ maskPhase = "finding" /\ text \in Texts
  BY DEF NamesInit, NamesStart
<1>2. text \in Seq(Words \cup {Blank})
  BY <1>1, MaskingAssumption DEF Texts
<1>3. NamesTyped
  <2>1. maskedText \in Seq(Symbols(Len(people)))
    <3>1. Words \cup {Blank} \subseteq Symbols(Len(people))
      BY DEF Symbols
    <3>2. \A i \in 1 .. Len(text) : text[i] \in Symbols(Len(people))
      BY <1>2, <3>1
    <3> QED BY <1>1, <1>2, <3>2
  <2> QED BY <1>1, <1>2, <2>1 DEF NamesTyped, IsSent
<1>4. PeopleAreNamed
  BY <1>1 DEF PeopleAreNamed, People
<1>5. Replaced = {}
  BY <1>1 DEF Replaced, People
<1>6. SpansAreOfPeople
  BY <1>1, <1>5 DEF SpansAreOfPeople, IsSent
<1>7. TextIsMasked
  BY <1>1, <1>3, <1>5, PlainTextIsMasked
<1>8. AnswerIsOfText
  BY <1>1 DEF AnswerIsOfText
<1> QED BY <1>3, <1>4, <1>6, <1>7, <1>8 DEF NamesInvariant

\* before the entities are known nobody is named
LEMMA NobodyIsNamed ==
    ASSUME NamesInvariant, maskPhase = "finding"
    PROVE  /\ entities = <<>> /\ entityAt = 1 /\ people = <<>> /\ names = <<>> /\ replacements = {}
           /\ Replaced = {} /\ maskedText = text
<1>1. entities = <<>> /\ entityAt = 1
  BY DEF NamesInvariant, NamesTyped
<1>2. people = <<>> /\ names = <<>>
  <2>1. /\ people \in Seq(Seq(Words)) /\ Len(people) = 0
        /\ names \in Seq(Seq(Words \cup {Blank})) /\ Len(names) = 0
    BY <1>1 DEF NamesInvariant, NamesTyped
  <2> QED BY <2>1
<1>3. replacements = {}
  BY <1>1 DEF NamesInvariant, SpansAreOfPeople, People
<1> QED BY <1>1, <1>2, <1>3 DEF NamesInvariant, SpansAreOfPeople

LEMMA NobodyIsFound == NamesInvariant /\ FindNoOne => NamesInvariant'
<1> SUFFICES ASSUME NamesInvariant, FindNoOne PROVE NamesInvariant'
  OBVIOUS
<1>1. /\ UNCHANGED <<text, entities, entityAt, people, names, replacements, maskedText>>
      /\ maskPhase = "finding" /\ maskPhase' = "asking"
  BY DEF FindNoOne
<1>2. /\ entities = <<>> /\ entityAt = 1 /\ people = <<>> /\ names = <<>> /\ replacements = {}
      /\ Replaced = {} /\ maskedText = text
  BY <1>1, NobodyIsNamed
<1>3. NamesTyped'
  BY <1>1 DEF NamesInvariant, NamesTyped, IsSent
<1>4. PeopleAreNamed'
  BY <1>1, <1>2 DEF PeopleAreNamed, People
<1>5. Replaced' = {}
  BY <1>1, <1>2 DEF Replaced, People
<1>6. SpansAreOfPeople'
  BY <1>1, <1>2, <1>5 DEF SpansAreOfPeople
<1>7. TextIsMasked'
  <2>1. NamesTyped' /\ (Replaced = {})' /\ (maskedText = text)'
    BY <1>1, <1>2, <1>3, <1>5
  <2> QED BY <2>1, PlainTextIsMasked, PTL
<1>8. AnswerIsOfText'
  BY <1>1 DEF AnswerIsOfText
<1> QED BY <1>3, <1>4, <1>6, <1>7, <1>8 DEF NamesInvariant

LEMMA PeopleAreFound == NamesInvariant /\ FindPeople => NamesInvariant'
<1> SUFFICES ASSUME NamesInvariant, FindPeople PROVE NamesInvariant'
  OBVIOUS
<1>1. /\ UNCHANGED <<text, entityAt, people, names, replacements, maskedText>>
      /\ maskPhase = "finding" /\ maskPhase' = "naming" /\ entities' \in Found
  BY DEF FindPeople
<1>2. /\ entities = <<>> /\ entityAt = 1 /\ people = <<>> /\ names = <<>> /\ replacements = {}
      /\ Replaced = {} /\ maskedText = text
  BY <1>1, NobodyIsNamed
<1>3. NamesTyped'
  <2>1. Found' = Found
    BY <1>1 DEF Found, Entity
  <2>2. Len(entities') \in Nat
    <3>1. PICK n \in 1 .. MaxEntities : entities' \in [1 .. n -> Entity]
      BY <1>1 DEF Found
    <3>2. n \in Nat
      BY MaskingAssumption
    <3> QED BY <3>1, <3>2
  <2>3. Len(people') = 0 /\ Len(people) = 0
    BY <1>1, <1>2
  <2> QED BY <1>1, <1>2, <2>1, <2>2, <2>3 DEF NamesInvariant, NamesTyped, IsSent
<1>4. PeopleAreNamed'
  <2>1. \A i \in People' : ~(i < entityAt')
    BY <1>1, <1>2 DEF People
  <2>2. Len(people') = 0
    BY <1>1, <1>2
  <2> QED BY <2>1, <2>2 DEF PeopleAreNamed
<1>5. Replaced' = {}
  BY <1>1, <1>2 DEF Replaced, People
<1>6. SpansAreOfPeople'
  BY <1>1, <1>2, <1>5 DEF SpansAreOfPeople, IsSent
<1>7. TextIsMasked'
  <2>1. NamesTyped' /\ (Replaced = {})' /\ (maskedText = text)'
    BY <1>1, <1>2, <1>3, <1>5
  <2> QED BY <2>1, PlainTextIsMasked, PTL
<1>8. AnswerIsOfText'
  BY <1>1 DEF AnswerIsOfText
<1> QED BY <1>3, <1>4, <1>6, <1>7, <1>8 DEF NamesInvariant

-----------------------------------------------------------------------------
(***************************************************************************)
(* An entity is passed: it is no person, or a replacement of its span by   *)
(* its person's token is added.                                            *)
(***************************************************************************)
Passing ==
    /\ Naming /\ entityAt' = entityAt + 1
    /\ UNCHANGED <<text, entities, maskedText, maskPhase>>
    /\ replacements \subseteq replacements'

LEMMA EntityIsPassed ==
    ASSUME NamesInvariant, Passing, NamesTyped', PeopleAreNamed',
           \A n \in 1 .. Len(people) : n \in 1 .. Len(people') /\ people'[n] = people[n],
           \A r \in replacements' \ replacements : \E i \in People : i = entityAt /\ IsOf(r, i)',
           entityAt \in People => \E r \in replacements' : r.start = entities[entityAt].start
    PROVE  NamesInvariant'
<1>1. /\ maskPhase = "naming" /\ entityAt <= Len(entities) /\ entityAt' = entityAt + 1
      /\ UNCHANGED <<text, entities, maskedText, maskPhase>>
      /\ replacements \subseteq replacements'
  BY DEF Passing, Naming
<1>2. Replaced = {} /\ maskedText = text /\ SpansInOrder /\ entityAt \in Nat
  BY <1>1, EntitiesInOrder DEF NamesInvariant, SpansAreOfPeople, NamesTyped
<1>3. People' = People /\ People \subseteq 1 .. Len(entities)
  BY <1>1 DEF People
<1>4. Replaced' = {}
  <2> SUFFICES ASSUME NEW i \in People, i < entityAt + 1
               PROVE  \E r \in replacements' : r.start = entities[i].start
    BY <1>1, <1>3 DEF Replaced
  <2>1. CASE i = entityAt
    BY <2>1
  <2>2. CASE i < entityAt
    <3>1. \E r \in replacements : r.start = entities[i].start
      BY <1>2, <2>2 DEF Replaced
    <3> QED BY <1>1, <3>1
  <2>3. i \in Nat
    BY <1>2, <1>3 DEF SpansInOrder
  <2> QED BY <1>2, <2>1, <2>2, <2>3
<1>5. \A r \in replacements' : \E i \in People' : IsOf(r, i)'
  <2> SUFFICES ASSUME NEW r \in replacements' PROVE \E i \in People' : IsOf(r, i)'
    OBVIOUS
  <2>1. CASE r \in replacements
    <3>1. PICK i \in People : IsOf(r, i)
      BY <2>1 DEF NamesInvariant, SpansAreOfPeople
    <3>2. i < entityAt' /\ PersonAt(i)' = PersonAt(i)
      <4>1. i \in Nat
        BY <1>2, <1>3 DEF SpansInOrder
      <4> QED BY <1>1, <1>2, <3>1, <4>1 DEF IsOf, PersonAt
    <3>3. IsOf(r, i)'
      BY <1>1, <3>1, <3>2 DEF IsOf
    <3> QED BY <1>3, <3>1, <3>3
  <2>2. CASE r \notin replacements
    <3> QED BY <1>3, <2>2
  <2> QED BY <2>1, <2>2
<1>6. SpansAreOfPeople'
  <2>1. ASSUME NEW r \in replacements' PROVE r.end <= Len(text)
    <3>1. PICK i \in People : IsOf(r, i)'
      BY <1>3, <1>5
    <3>2. r.end = entities[i].end
      BY <1>1, <3>1 DEF IsOf
    <3> QED BY <1>2, <1>3, <3>1, <3>2 DEF SpansInOrder
  <2>2. \A r \in replacements' : \A p \in 1 .. r.end : p <= Len(maskedText') /\ maskedText'[p] = text'[p]
    <3> SUFFICES ASSUME NEW r \in replacements', NEW p \in 1 .. r.end
                 PROVE  p <= Len(maskedText') /\ maskedText'[p] = text'[p]
      OBVIOUS
    <3>1. PICK i \in People : IsOf(r, i)'
      BY <1>3, <1>5
    <3>2. r.end \in Nat /\ r.end <= Len(text)
      <4>1. r.end = entities[i].end
        BY <1>1, <3>1 DEF IsOf
      <4> QED BY <1>2, <1>3, <3>1, <4>1 DEF SpansInOrder
    <3>3. p <= Len(text)
      BY <1>2, <3>2 DEF SpansInOrder
    <3> QED BY <1>1, <1>2, <3>3
  <2> QED BY <1>1, <1>2, <1>4, <1>5, <2>2 DEF SpansAreOfPeople, IsSent
<1>7. TextIsMasked'
  <2>1. NamesTyped' /\ (Replaced = {})' /\ (maskedText = text)'
    BY <1>1, <1>2, <1>4
  <2> QED BY <2>1, PlainTextIsMasked, PTL
<1>8. AnswerIsOfText'
  BY <1>1 DEF AnswerIsOfText
<1> QED BY <1>6, <1>7, <1>8 DEF NamesInvariant

LEMMA NoPersonIsSkipped == NamesInvariant /\ SkipEntity => NamesInvariant'
<1> SUFFICES ASSUME NamesInvariant, SkipEntity PROVE NamesInvariant'
  OBVIOUS
<1>1. /\ Naming /\ maskPhase = "naming" /\ entityAt <= Len(entities) /\ entityAt' = entityAt + 1
      /\ UNCHANGED <<text, entities, people, names, replacements, maskedText, maskPhase>>
  BY DEF SkipEntity, Naming
<1>2. entityAt \in Nat /\ Len(entities) \in Nat
  BY EntitiesInOrder DEF NamesInvariant, NamesTyped, SpansInOrder
<1>3. entityAt \notin People
  BY DEF SkipEntity, People, EntityHere, Span
<1>4. NamesTyped'
  <2>1. entityAt' \in 1 .. Len(entities') + 1 /\ Len(people') < entityAt'
    BY <1>1, <1>2 DEF NamesInvariant, NamesTyped
  <2>2. Found' = Found /\ Symbols(Len(people))' = Symbols(Len(people))
    BY <1>1 DEF Found, Entity, Symbols
  <2> QED BY <1>1, <2>1, <2>2 DEF NamesInvariant, NamesTyped, IsSent
<1>5. PeopleAreNamed'
  <2>1. People' = People /\ \A i \in People : i \in Nat
    BY <1>1, <1>2 DEF People
  <2>2. \A i \in People' : i < entityAt' => i < entityAt
    BY <1>1, <1>2, <1>3, <2>1
  <2>3. \A i \in People : PersonAt(i)' = PersonAt(i)
    BY <1>1 DEF PersonAt
  <2> QED BY <1>1, <2>1, <2>2, <2>3 DEF NamesInvariant, PeopleAreNamed
<1>6. Passing
  BY <1>1 DEF Passing
<1> QED BY <1>1, <1>3, <1>4, <1>5, <1>6, EntityIsPassed

LEMMA PersonIsHere ==
    ASSUME NamesInvariant, Naming, EntityHere.person, ~IsBlank(Span)
    PROVE  /\ entityAt \in People /\ PersonAt(entityAt) = Person(Span)
           /\ Span \in Seq(Words \cup {Blank}) /\ Person(Span) \in Seq(Words)
           /\ maskPhase = "naming" /\ entityAt \in Nat /\ entityAt <= Len(entities) /\ Len(entities) \in Nat
<1>1. entityAt \in 1 .. Len(entities) /\ Len(entities) \in Nat /\ entityAt \in Nat
  BY EntitiesInOrder DEF NamesInvariant, NamesTyped, SpansInOrder, Naming
<1>2. entityAt \in People
  BY <1>1 DEF People, EntityHere, Span
<1>3. PersonAt(entityAt) = Person(Span)
  BY DEF PersonAt, Span, EntityHere
<1>4. Span \in Seq(Words \cup {Blank}) /\ PersonAt(entityAt) \in Seq(Words)
  BY <1>1, SpanIsTyped DEF NamesInvariant, Span, EntityHere
<1> QED BY <1>1, <1>2, <1>3, <1>4 DEF Naming

LEMMA KnownPersonIsNamed == NamesInvariant /\ KnownPerson => NamesInvariant'
<1> SUFFICES ASSUME NamesInvariant, KnownPerson PROVE NamesInvariant'
  OBVIOUS
<1>1. PICK n \in 1 .. Len(people) : IsPerson(n) /\ replacements' = replacements \cup {Replacement(n)}
  BY DEF KnownPerson
<1>2. /\ UNCHANGED <<text, entities, people, names, maskedText, maskPhase>> /\ entityAt' = entityAt + 1
      /\ Naming /\ EntityHere.person /\ ~IsBlank(Span)
  BY DEF KnownPerson
<1>3. /\ entityAt \in People /\ PersonAt(entityAt) = Person(Span)
      /\ maskPhase = "naming" /\ entityAt \in Nat /\ entityAt <= Len(entities) /\ Len(entities) \in Nat
  BY <1>2, PersonIsHere
<1>4. NamesTyped'
  <2>1. entityAt' \in 1 .. Len(entities') + 1 /\ Len(people') < entityAt'
    BY <1>2, <1>3 DEF NamesInvariant, NamesTyped
  <2>2. Found' = Found /\ Symbols(Len(people))' = Symbols(Len(people))
    BY <1>2 DEF Found, Entity, Symbols
  <2> QED BY <1>2, <2>1, <2>2 DEF NamesInvariant, NamesTyped, IsSent
<1>5. PeopleAreNamed'
  <2>1. People' = People /\ \A i \in People : i \in Nat /\ PersonAt(i)' = PersonAt(i)
    BY <1>2, <1>3 DEF People, PersonAt
  <2>2. people[n] = PersonAt(entityAt)
    BY <1>1, <1>3 DEF IsPerson
  <2>3. \A i \in People' : i < entityAt' => i < entityAt \/ i = entityAt
    BY <1>2, <1>3, <2>1
  <2>4. \A i \in People' : i < entityAt' => \E k \in 1 .. Len(people') : people'[k] = PersonAt(i)'
    <3> SUFFICES ASSUME NEW i \in People, i < entityAt \/ i = entityAt
                 PROVE  \E k \in 1 .. Len(people) : people[k] = PersonAt(i)
      BY <1>2, <2>1, <2>3
    <3>1. CASE i = entityAt
      BY <1>1, <2>2, <3>1
    <3>2. CASE i < entityAt
      BY <3>2 DEF NamesInvariant, PeopleAreNamed
    <3> QED BY <3>1, <3>2
  <2> QED BY <1>2, <2>4 DEF NamesInvariant, PeopleAreNamed
<1>6. Passing
  BY <1>1, <1>2 DEF Passing
<1>7. \A r \in replacements' \ replacements : \E i \in People : i = entityAt /\ IsOf(r, i)'
  <2> SUFFICES ASSUME NEW r \in replacements', r = Replacement(n), NEW i \in People, i = entityAt PROVE IsOf(r, i)'
    BY <1>1, <1>3
  <2>1. /\ r = [start |-> entities[i].start, end |-> entities[i].end, token |-> r.token]
        /\ r.token = n
    BY DEF Replacement, EntityHere
  <2>2. people[n] = PersonAt(i) /\ PersonAt(i)' = PersonAt(i)
    BY <1>1, <1>2, <1>3 DEF IsPerson, PersonAt
  <2>3. i < entityAt'
    BY <1>2, <1>3
  <2> QED BY <1>1, <1>2, <2>1, <2>2, <2>3 DEF IsOf
<1>8. \E r \in replacements' : r.start = entities[entityAt].start
  <2>1. Replacement(n).start = entities[entityAt].start
    BY DEF Replacement, EntityHere
  <2> QED BY <1>1, <2>1
<1>9. \A k \in 1 .. Len(people) : k \in 1 .. Len(people') /\ people'[k] = people[k]
  BY <1>2
<1> QED BY <1>4, <1>5, <1>6, <1>7, <1>8, <1>9, EntityIsPassed

LEMMA NewPersonIsNamed == NamesInvariant /\ NewPerson => NamesInvariant'
<1> SUFFICES ASSUME NamesInvariant, NewPerson PROVE NamesInvariant'
  OBVIOUS
<1> DEFINE m == Len(people)
<1>1. /\ UNCHANGED <<text, entities, maskedText, maskPhase>> /\ entityAt' = entityAt + 1
      /\ Naming /\ EntityHere.person /\ ~IsBlank(Span)
      /\ people' = Append(people, Person(Span)) /\ names' = Append(names, Strip(Span))
      /\ replacements' = replacements \cup {Replacement(m + 1)}
      /\ \A n \in 1 .. m : people[n] # Person(Span)
  BY DEF NewPerson, IsPerson
<1>2. /\ entityAt \in People /\ PersonAt(entityAt) = Person(Span)
      /\ Span \in Seq(Words \cup {Blank}) /\ Person(Span) \in Seq(Words)
      /\ maskPhase = "naming" /\ entityAt \in Nat /\ entityAt <= Len(entities) /\ Len(entities) \in Nat
  BY <1>1, PersonIsHere
<1>3. Strip(Span) \in Seq(Words \cup {Blank}) /\ Person(Strip(Span)) = Person(Span)
  BY <1>1, <1>2, StripReadsTheSame
<1>4. /\ people \in Seq(Seq(Words)) /\ names \in Seq(Seq(Words \cup {Blank})) /\ m \in Nat /\ Len(names) = m
      /\ m < entityAt
  BY DEF NamesInvariant, NamesTyped
<1>5. /\ people' \in Seq(Seq(Words)) /\ Len(people') = m + 1 /\ people'[m + 1] = Person(Span)
      /\ \A n \in 1 .. m : people'[n] = people[n]
  BY <1>1, <1>2, <1>4
<1>6. /\ names' \in Seq(Seq(Words \cup {Blank})) /\ Len(names') = m + 1 /\ names'[m + 1] = Strip(Span)
      /\ \A n \in 1 .. m : names'[n] = names[n]
  BY <1>1, <1>3, <1>4
<1> HIDE DEF m
<1>0. m = Len(people)
  BY DEF m
<1>7. \A n \in 1 .. m + 1 : n \in 1 .. m \/ n = m + 1
  BY <1>4
<1>8. NamesTyped'
  <2>1. entityAt' \in 1 .. Len(entities') + 1 /\ Len(people') < entityAt'
    BY <1>1, <1>2, <1>4, <1>5 DEF NamesInvariant, NamesTyped
  <2>2. Found' = Found
    BY <1>1 DEF Found, Entity
  <2>3. maskedText' \in Seq(Symbols(Len(people)))'
    <3>1. Symbols(m) \subseteq Symbols(m + 1)
      BY <1>4 DEF Symbols
    <3>2. maskedText \in Seq(Symbols(m))
      BY <1>0 DEF NamesInvariant, NamesTyped
    <3>3. maskedText \in Seq(Symbols(m + 1))
      BY <3>1, <3>2, SequenceWidens
    <3>4. Symbols(Len(people))' = Symbols(m + 1)
      BY <1>5 DEF Symbols
    <3> QED BY <1>1, <3>3, <3>4
  <2> QED BY <1>1, <1>2, <1>5, <1>6, <2>1, <2>2, <2>3 DEF NamesInvariant, NamesTyped, IsSent
<1>9. PeopleAreNamed'
  <2>1. People' = People /\ \A i \in People : i \in Nat /\ PersonAt(i)' = PersonAt(i)
    BY <1>1, <1>2 DEF People, PersonAt
  <2>2. \A n \in 1 .. m : Person(names[n]) = people[n]
    BY <1>0 DEF NamesInvariant, PeopleAreNamed
  <2>3. \A n \in 1 .. Len(people') : Person(names'[n]) = people'[n]
    BY <1>3, <1>5, <1>6, <1>7, <2>2
  <2>4. \A n, k \in 1 .. Len(people') : n # k => people'[n] # people'[k]
    <3>1. \A n, k \in 1 .. m : n # k => people[n] # people[k]
      BY <1>0 DEF NamesInvariant, PeopleAreNamed
    <3> QED BY <1>0, <1>1, <1>5, <1>7, <3>1
  <2>5. ASSUME NEW i \in People', i < entityAt'
        PROVE  \E n \in 1 .. Len(people') : people'[n] = PersonAt(i)'
    <3>1. CASE i = entityAt
      <4>1. m + 1 \in 1 .. Len(people')
        BY <1>4, <1>5
      <4> QED BY <1>2, <1>5, <2>1, <2>5, <3>1, <4>1
    <3>2. CASE i < entityAt
      <4>1. PICK n \in 1 .. m : people[n] = PersonAt(i)
        BY <1>0, <2>1, <2>5, <3>2 DEF NamesInvariant, PeopleAreNamed
      <4>2. n \in 1 .. Len(people')
        BY <1>4, <1>5
      <4> QED BY <1>5, <2>1, <2>5, <4>1, <4>2
    <3>3. i < entityAt \/ i = entityAt
      BY <1>1, <1>2, <2>1, <2>5
    <3> QED BY <3>1, <3>2, <3>3
  <2> QED BY <2>3, <2>4, <2>5 DEF PeopleAreNamed
<1>10. Passing
  BY <1>1 DEF Passing
<1>11. \A r \in replacements' \ replacements : \E i \in People : i = entityAt /\ IsOf(r, i)'
  <2> SUFFICES ASSUME NEW r \in replacements', r = Replacement(m + 1), NEW i \in People, i = entityAt
               PROVE  IsOf(r, i)'
    BY <1>1, <1>2
  <2>1. /\ r = [start |-> entities[i].start, end |-> entities[i].end, token |-> r.token]
        /\ r.token = m + 1
    BY DEF Replacement, EntityHere
  <2>2. people'[m + 1] = PersonAt(i)'
    BY <1>1, <1>2, <1>5 DEF PersonAt
  <2>3. i < entityAt' /\ m + 1 \in 1 .. Len(people')
    BY <1>1, <1>2, <1>4, <1>5
  <2> QED BY <1>1, <2>1, <2>2, <2>3 DEF IsOf
<1>12. \E r \in replacements' : r.start = entities[entityAt].start
  <2>1. Replacement(m + 1).start = entities[entityAt].start
    BY DEF Replacement, EntityHere
  <2> QED BY <1>1, <2>1
<1>13. \A k \in 1 .. Len(people) : k \in 1 .. Len(people') /\ people'[k] = people[k]
  BY <1>0, <1>4, <1>5
<1> QED BY <1>8, <1>9, <1>10, <1>11, <1>12, <1>13, EntityIsPassed

-----------------------------------------------------------------------------
(***************************************************************************)
(* The last span left is replaced.                                         *)
(***************************************************************************)
\* a replacement of the person i whose span is the last of those left
IsLast(r, i) ==
    /\ r \in replacements /\ LastLeft(r) /\ i \in People /\ IsOf(r, i)
    /\ maskedText' = Splice(maskedText, r.start, r.end, Token(r.token))
    /\ replacements' = replacements \ {r}
    /\ UNCHANGED <<text, entities, entityAt, people, names, tokenAnswer, restored, maskPhase>>
    /\ maskPhase = "naming" /\ entityAt > Len(entities)

LastSpan(r, i) ==
    /\ r.start = entities[i].start /\ r.end = entities[i].end /\ r.token \in 1 .. Len(people)
    /\ people[r.token] = PersonAt(i)
    /\ i \in 1 .. Len(entities) /\ i < entityAt
    /\ r.start \in 1 .. Len(text) /\ r.end \in r.start .. Len(text)
    /\ r.start \in 1 .. Len(maskedText) /\ r.end \in r.start .. Len(maskedText)
    /\ \A p \in 1 .. r.end : maskedText[p] = text[p]

LEMMA LastSpanIsUntouched ==
    ASSUME NamesInvariant, NEW r, NEW i, IsLast(r, i)
    PROVE  LastSpan(r, i)
<1>1. /\ r = [start |-> entities[i].start, end |-> entities[i].end, token |-> r.token]
      /\ r.token \in 1 .. Len(people) /\ people[r.token] = PersonAt(i)
      /\ i \in 1 .. Len(entities) /\ i < entityAt
  BY DEF IsLast, IsOf, People
<1>2. r.start = entities[i].start /\ r.end = entities[i].end
  BY <1>1
<1>3. r.start \in 1 .. Len(text) /\ r.end \in r.start .. Len(text) /\ Len(text) \in Nat
  BY <1>1, <1>2, EntitiesInOrder DEF NamesInvariant, SpansInOrder
<1>4. \A p \in 1 .. r.end : p <= Len(maskedText) /\ maskedText[p] = text[p]
  BY DEF IsLast, NamesInvariant, SpansAreOfPeople
<1>5. r.end <= Len(maskedText) /\ Len(maskedText) \in Nat
  <2>1. r.end \in 1 .. r.end
    BY <1>3
  <2> QED BY <1>4, <2>1 DEF NamesInvariant, NamesTyped
<1>6. r.start \in 1 .. Len(maskedText) /\ r.end \in r.start .. Len(maskedText)
  BY <1>3, <1>5
<1> QED BY <1>1, <1>2, <1>3, <1>4, <1>6 DEF LastSpan

LEMMA ReplaceIsSplice ==
    ASSUME NamesInvariant, Replace
    PROVE  \E r : \E i : IsLast(r, i)
<1>1. PICK r \in replacements :
         /\ LastLeft(r) /\ replacements' = replacements \ {r}
         /\ maskedText' = Before(r.start) \o <<Token(r.token)>> \o After(r.end)
  BY DEF Replace
<1>2. /\ maskPhase = "naming" /\ entityAt > Len(entities)
      /\ UNCHANGED <<text, entities, entityAt, people, names, tokenAnswer, restored, maskPhase>>
  BY DEF Replace, Named
<1>3. PICK i \in People : IsOf(r, i)
  BY DEF NamesInvariant, SpansAreOfPeople
<1>4. r.start \in Nat /\ 1 <= r.start /\ r.start <= r.end /\ r.end \in Nat
  <2>1. r.start = entities[i].start /\ r.end = entities[i].end /\ i \in 1 .. Len(entities)
    BY <1>3 DEF IsOf, People
  <2> QED BY <2>1, EntitiesInOrder DEF NamesInvariant, SpansInOrder
<1>5. r.end <= Len(maskedText) /\ Len(maskedText) \in Nat
  <2>1. r.end \in 1 .. r.end
    BY <1>4
  <2> QED BY <2>1 DEF NamesInvariant, NamesTyped, SpansAreOfPeople
<1>6. Min({r.start - 1, Len(maskedText)}) = r.start - 1
  <2>1. r.start - 1 \in Int /\ r.start - 1 <= Len(maskedText) /\ Len(maskedText) \in Int
    BY <1>4, <1>5
  <2>2. \A x \in {r.start - 1, Len(maskedText)} :
           (\A y \in {r.start - 1, Len(maskedText)} : x <= y) => x = r.start - 1
    BY <2>1
  <2>3. \E x \in {r.start - 1, Len(maskedText)} : \A y \in {r.start - 1, Len(maskedText)} : x <= y
    BY <2>1
  <2> DEFINE M == Min({r.start - 1, Len(maskedText)})
  <2>4. M \in {r.start - 1, Len(maskedText)} /\ \A y \in {r.start - 1, Len(maskedText)} : M <= y
    BY <2>3, Zenon DEF Min
  <2> HIDE DEF M
  <2>5. M = r.start - 1
    BY <2>2, <2>4
  <2> QED BY <2>5 DEF M
<1>7. maskedText' = Splice(maskedText, r.start, r.end, Token(r.token))
  BY <1>1, <1>6 DEF Before, After, Splice
<1> QED BY <1>1, <1>2, <1>3, <1>7 DEF IsLast

LEMMA OthersAreBefore ==
    ASSUME NamesInvariant, NEW r, NEW i, IsLast(r, i), NEW q \in replacements, q # r
    PROVE  q.end < r.start /\ q.start < r.start /\ q.end \in Nat /\ q.start \in Nat
<1>1. PICK j \in People : IsOf(q, j)
  BY DEF NamesInvariant, SpansAreOfPeople
<1>2. /\ q = [start |-> entities[j].start, end |-> entities[j].end, token |-> q.token]
      /\ r = [start |-> entities[i].start, end |-> entities[i].end, token |-> r.token]
      /\ q.start = entities[j].start /\ q.end = entities[j].end /\ q.token \in 1 .. Len(people)
      /\ r.start = entities[i].start /\ r.token \in 1 .. Len(people)
      /\ people[q.token] = PersonAt(j) /\ people[r.token] = PersonAt(i)
      /\ i \in 1 .. Len(entities) /\ j \in 1 .. Len(entities)
  BY <1>1 DEF IsLast, IsOf, People
<1>3. SpansInOrder
  BY EntitiesInOrder DEF NamesInvariant
<1>4. /\ q.start \in Nat /\ q.end \in Nat /\ r.start \in Nat /\ q.start <= q.end
  BY <1>2, <1>3 DEF SpansInOrder
<1>5. q.start <= r.start
  BY DEF IsLast, LastLeft
<1>6. q.start # r.start
  <2> SUFFICES ASSUME q.start = r.start PROVE FALSE
    OBVIOUS
  <2>1. i = j
    BY <1>2, <1>3, SpansAreApart
  <2>2. q.token = r.token
    BY <1>2, <2>1 DEF NamesInvariant, PeopleAreNamed
  <2>3. q = r
    BY <1>2, <2>1, <2>2
  <2> QED BY <2>3
<1>7. q.start < r.start
  BY <1>4, <1>5, <1>6
<1> QED BY <1>2, <1>3, <1>4, <1>7, SpansAreApart

LEMMA OneMoreIsReplaced ==
    ASSUME NamesInvariant, NEW r, NEW i, IsLast(r, i)
    PROVE  /\ Replaced' = Replaced \cup {i} /\ i \in 1 .. Len(entities) /\ i \notin Replaced
           /\ \A j \in Replaced : j \in 1 .. Len(entities) /\ r.end < entities[j].start
<1>1. LastSpan(r, i)
  BY LastSpanIsUntouched
<1>2. People' = People /\ People \subseteq 1 .. Len(entities)
  BY DEF IsLast, People
<1>3. \A q \in replacements' : q.start # r.start
  BY OthersAreBefore DEF IsLast
<1>4. /\ i \in People /\ i < entityAt /\ r.start = entities[i].start /\ r \in replacements
      /\ replacements' = replacements \ {r}
      /\ UNCHANGED <<entities, entityAt>>
  BY <1>1 DEF IsLast, LastSpan
<1>5. Replaced \cup {i} \subseteq Replaced'
  BY <1>2, <1>3, <1>4 DEF Replaced
<1>6. Replaced' \subseteq Replaced \cup {i}
  <2> SUFFICES ASSUME NEW j \in Replaced', j \notin Replaced PROVE j = i
    OBVIOUS
  <2>1. j \in People /\ j < entityAt /\ \A q \in replacements \ {r} : q.start # entities[j].start
    BY <1>2, <1>4 DEF Replaced
  <2>2. r.start = entities[j].start
    BY <2>1 DEF Replaced
  <2>3. j \in 1 .. Len(entities) /\ i \in 1 .. Len(entities)
    BY <1>2, <1>4, <2>1
  <2>4. SpansInOrder
    BY EntitiesInOrder DEF NamesInvariant
  <2> QED BY <1>4, <2>2, <2>3, <2>4, SpansAreApart
<1>7. i \notin Replaced
  BY <1>4 DEF Replaced
<1>8. ASSUME NEW j \in Replaced PROVE j \in 1 .. Len(entities) /\ r.end < entities[j].start
  <2>1. j \in 1 .. Len(entities)
    BY <1>2 DEF Replaced
  <2>2. entities[i].start < entities[j].start
    BY <1>1, <1>4 DEF NamesInvariant, SpansAreOfPeople, LastSpan
  <2>3. SpansInOrder /\ i \in 1 .. Len(entities)
    BY <1>2, <1>4, EntitiesInOrder DEF NamesInvariant
  <2>4. entities[i].end < entities[j].start
    BY <2>1, <2>2, <2>3, SpansAreApart
  <2> QED BY <1>1, <2>1, <2>4 DEF LastSpan
<1> QED BY <1>2, <1>4, <1>5, <1>6, <1>7, <1>8

ShownAt(p, done) ==
    IF \E i \in done : entities[i].start = p THEN <<"token">>
    ELSE IF \E i \in done : IsIn(p, i) THEN <<>>
    ELSE <<text[p]>>

LEMMA ShownIsSpliced ==
    ASSUME NamesInvariant, NEW r, NEW i, IsLast(r, i)
    PROVE  /\ r.start \in 1 .. Len(Shown(Replaced)) /\ r.end \in r.start .. Len(Shown(Replaced))
           /\ Shown(Replaced \cup {i}) = Splice(Shown(Replaced), r.start, r.end, "token")
<1> DEFINE S == Words \cup {Blank, "token"}
           n == Len(text)
           a == [p \in 1 .. n |-> ShownAt(p, Replaced)]
           b == [p \in 1 .. n |-> ShownAt(p, Replaced \cup {i})]
           s == r.start
           e == r.end
           w == [p \in 1 .. e |-> text[p]]
<1>0. text \in Seq(Words \cup {Blank}) /\ n \in Nat
  BY DEF NamesInvariant, NamesTyped
<1>1. LastSpan(r, i)
  BY LastSpanIsUntouched
<1>2. /\ s = entities[i].start /\ e = entities[i].end /\ i \in 1 .. Len(entities)
      /\ s \in 1 .. n /\ e \in s .. n /\ s \in Nat /\ e \in Nat /\ s <= e
  BY <1>0, <1>1 DEF LastSpan
<1>3. \A j \in Replaced : e < entities[j].start /\ entities[j].start \in Nat /\ entities[j].start <= entities[j].end
                          /\ entities[j].end \in Nat
  BY OneMoreIsReplaced, EntitiesInOrder DEF NamesInvariant, SpansInOrder
<1>4. \A p \in 1 .. n : text[p] \in S
  BY <1>0
<1>5. /\ a \in Seq(Seq(S)) /\ Len(a) = n /\ b \in Seq(Seq(S)) /\ Len(b) = n
  <2>1. \A p \in 1 .. n : <<text[p]>> \in Seq(S)
    BY <1>4
  <2>2. <<"token">> \in Seq(S) /\ <<>> \in Seq(S)
    OBVIOUS
  <2>3. \A p \in 1 .. n : ShownAt(p, Replaced) \in Seq(S) /\ ShownAt(p, Replaced \cup {i}) \in Seq(S)
    <3> HIDE DEF S
    <3> QED BY <2>1, <2>2 DEF ShownAt
  <2> DEFINE P == Seq(S)
             c(p) == ShownAt(p, Replaced)
             d(p) == ShownAt(p, Replaced \cup {i})
  <2>4. \A p \in 1 .. n : c(p) \in P /\ d(p) \in P
    BY <2>3
  <2> HIDE DEF P, c, d, n
  <2>5. [p \in 1 .. n |-> c(p)] \in Seq(P) /\ Len([p \in 1 .. n |-> c(p)]) = n
    BY <1>0, <2>4
  <2>6. [p \in 1 .. n |-> d(p)] \in Seq(P) /\ Len([p \in 1 .. n |-> d(p)]) = n
    BY <1>0, <2>4
  <2> QED BY <2>5, <2>6 DEF P, c, d
<1>6. \A p \in 1 .. n : a[p] = ShownAt(p, Replaced) /\ b[p] = ShownAt(p, Replaced \cup {i})
  OBVIOUS
<1>7. w \in [1 .. e -> S] /\ \A p \in 1 .. e : w[p] = text[p] /\ p \in 1 .. n
  BY <1>2, <1>4
<1>8. \A p \in 1 .. e : \A j \in Replaced : entities[j].start # p /\ ~IsIn(p, j)
  BY <1>2, <1>3 DEF IsIn
<1> HIDE DEF a, b, w, S, n
<1>9. \A p \in 1 .. e : a[p] = <<w[p]>>
  <2> SUFFICES ASSUME NEW p \in 1 .. e PROVE a[p] = <<w[p]>>
    OBVIOUS
  <2>1. \A j \in Replaced : entities[j].start # p /\ ~IsIn(p, j)
    BY <1>8
  <2>2. ShownAt(p, Replaced) = <<text[p]>>
    BY <2>1 DEF ShownAt
  <2> QED BY <1>6, <1>7, <2>2
<1>10. \A p \in 1 .. s - 1 : b[p] = <<w[p]>>
  <2> SUFFICES ASSUME NEW p \in 1 .. s - 1 PROVE b[p] = <<w[p]>>
    OBVIOUS
  <2>1. p \in 1 .. e /\ p < s
    BY <1>2
  <2>2. \A j \in Replaced \cup {i} : entities[j].start # p /\ ~IsIn(p, j)
    BY <1>2, <1>8, <2>1 DEF IsIn
  <2> QED BY <1>6, <1>7, <2>1, <2>2 DEF ShownAt
<1>11. b[s] = <<"token">>
  BY <1>2, <1>6 DEF ShownAt, n
<1>12. \A p \in s + 1 .. e : b[p] = <<>>
  <2> SUFFICES ASSUME NEW p \in s + 1 .. e PROVE b[p] = <<>>
    OBVIOUS
  <2>1. p \in 1 .. e /\ p # s /\ s <= p /\ p <= e
    BY <1>2
  <2>2. \A j \in Replaced \cup {i} : entities[j].start # p
    BY <1>2, <1>8, <2>1
  <2>3. IsIn(p, i)
    BY <1>2, <2>1 DEF IsIn
  <2> QED BY <1>6, <1>7, <2>1, <2>2, <2>3 DEF ShownAt
<1>13. \A p \in e + 1 .. n : b[p] = a[p]
  <2> SUFFICES ASSUME NEW p \in e + 1 .. n PROVE b[p] = a[p]
    OBVIOUS
  <2>1. p \in 1 .. n /\ ~(p <= e) /\ p # s
    BY <1>0, <1>2
  <2>2. entities[i].start # p /\ ~IsIn(p, i)
    BY <1>2, <2>1 DEF IsIn
  <2>3. ShownAt(p, Replaced \cup {i}) = ShownAt(p, Replaced)
    BY <2>2 DEF ShownAt
  <2> QED BY <1>6, <2>1, <2>3
<1>14. Shown(Replaced) = FlattenSeq(a) /\ Shown(Replaced \cup {i}) = FlattenSeq(b)
  BY DEF Shown, ShownAt, a, b, n
<1>15. "token" \in S
  BY DEF S
<1>16. /\ e <= Len(FlattenSeq(a))
       /\ FlattenSeq(b) = Splice(FlattenSeq(a), s, e, "token")
  <2>1. s \in 1 .. Len(a) /\ e \in s .. Len(a) /\ \A p \in e + 1 .. Len(a) : b[p] = a[p]
    BY <1>2, <1>5, <1>13 DEF n
  <2> HIDE DEF s, e
  <2>2. PiecesDiffer(a, b, s, e, w, "token")
    BY <1>5, <1>9, <1>10, <1>11, <1>12, <2>1 DEF PiecesDiffer
  <2> QED BY <1>5, <1>7, <1>15, <2>1, <2>2, PiecesAreSpliced
<1>17. Len(FlattenSeq(a)) \in Nat
  <2>1. FlattenSeq(a) \in Seq(S)
    BY <1>5, FlattenIsTyped
  <2> QED BY <2>1
<1> QED BY <1>2, <1>14, <1>16, <1>17

LEMMA SentIsMapped ==
    ASSUME NamesTyped
    PROVE  LET h == [x \in Symbols(Len(people)) |->
                        IF x \in {Token(n) : n \in 1 .. Len(people)} THEN "token" ELSE x]
           IN  Sent = SeenBy(maskedText, h)
<1>1. \A p \in 1 .. Len(maskedText) : maskedText[p] \in Symbols(Len(people))
  BY DEF NamesTyped
<1> QED BY <1>1 DEF Sent, SeenBy

LEMMA SpanIsReplaced == NamesInvariant /\ Replace => NamesInvariant'
<1> SUFFICES ASSUME NamesInvariant, Replace PROVE NamesInvariant'
  OBVIOUS
<1>1. PICK r : \E i : IsLast(r, i)
  BY ReplaceIsSplice
<1>2. PICK i : IsLast(r, i)
  BY <1>1
<1>3. LastSpan(r, i)
  BY <1>2, LastSpanIsUntouched
<1> DEFINE s == r.start
           e == r.end
           x == Token(r.token)
           Y == Symbols(Len(people))
           m == maskedText
<1>4. /\ UNCHANGED <<text, entities, entityAt, people, names, maskPhase>>
      /\ replacements' = replacements \ {r} /\ r \in replacements /\ i \in People
      /\ maskPhase = "naming" /\ entityAt > Len(entities)
      /\ maskedText' = Splice(m, s, e, x)
  BY <1>2 DEF IsLast
<1>5. m \in Seq(Y) /\ NamesTyped
  BY DEF NamesInvariant, NamesTyped
<1>6. x \in Y
  BY <1>3, <1>5, TokensAreNoWords DEF LastSpan
<1>7. s \in 1 .. Len(m) /\ e \in s .. Len(m) /\ r.token \in 1 .. Len(people) /\ people[r.token] = PersonAt(i)
  BY <1>3 DEF LastSpan
<1>8. IsSplice(maskedText', m, s, e, x, Y)
  <2> HIDE DEF s, e, x, Y, m
  <2> QED BY <1>4, <1>5, <1>6, <1>7, SpliceIs
<1>9. NamesTyped'
  <2>1. Found' = Found /\ Symbols(Len(people))' = Y
    BY <1>4 DEF Found, Entity, Symbols
  <2>2. maskedText' \in Seq(Y)
    BY <1>8 DEF IsSplice
  <2> QED BY <1>4, <1>5, <2>1, <2>2 DEF NamesTyped, IsSent
<1>10. PeopleAreNamed'
  BY <1>4 DEF NamesInvariant, PeopleAreNamed, People, PersonAt
<1>11. Replaced' = Replaced \cup {i}
  BY <1>2, OneMoreIsReplaced
<1>12. SpansAreOfPeople'
  <2>1. \A q \in replacements' : \E j \in People' : IsOf(q, j)'
    <3> SUFFICES ASSUME NEW q \in replacements' PROVE \E j \in People' : IsOf(q, j)'
      OBVIOUS
    <3>1. PICK j \in People : IsOf(q, j)
      BY <1>4 DEF NamesInvariant, SpansAreOfPeople
    <3>2. People' = People /\ IsOf(q, j)'
      BY <1>4, <3>1 DEF People, IsOf, PersonAt
    <3> QED BY <3>1, <3>2
  <2>2. \A q \in replacements' : \A j \in Replaced' : q.start < entities'[j].start
    <3> SUFFICES ASSUME NEW q \in replacements, q # r, NEW j \in Replaced \cup {i}
                 PROVE  q.start < entities[j].start
      BY <1>4, <1>11
    <3>1. CASE j = i
      BY <1>2, <1>3, <3>1, OthersAreBefore DEF LastSpan
    <3>2. CASE j \in Replaced
      BY <3>2 DEF NamesInvariant, SpansAreOfPeople
    <3> QED BY <3>1, <3>2
  <2>3. \A q \in replacements' : \A p \in 1 .. q.end : p <= Len(maskedText') /\ maskedText'[p] = text'[p]
    <3> SUFFICES ASSUME NEW q \in replacements, q # r, NEW p \in 1 .. q.end
                 PROVE  p <= Len(maskedText') /\ maskedText'[p] = text[p]
      BY <1>4
    <3>1. q.end < s /\ q.end \in Nat /\ s \in Nat /\ e \in Nat /\ e <= Len(m) /\ Len(m) \in Nat
      BY <1>2, <1>5, <1>7, OthersAreBefore
    <3>2. p \in 1 .. s - 1 /\ p <= s
      BY <3>1
    <3>3. maskedText'[p] = m[p] /\ Len(maskedText') = (Len(m) - e) + s
      BY <1>8, <3>2 DEF IsSplice
    <3>4. m[p] = text[p]
      BY DEF NamesInvariant, SpansAreOfPeople
    <3> QED BY <3>1, <3>2, <3>3, <3>4
  <2>4. ~(maskPhase' = "finding") /\ ~(entityAt' <= Len(entities')) /\ ~IsSent'
    <3>1. entityAt \in Nat /\ Len(entities) \in Nat
      BY <1>5, EntitiesInOrder DEF NamesTyped, SpansInOrder
    <3> QED BY <1>4, <3>1 DEF IsSent
  <2> QED BY <2>1, <2>2, <2>3, <2>4 DEF SpansAreOfPeople
<1>13. TextIsMasked'
  <2>1. Sent' = Shown(Replaced)'
    <3> DEFINE T == {Token(n) : n \in 1 .. Len(people)}
               h == [y \in Y |-> IF y \in T THEN "token" ELSE y]
               Z == Y \cup {"token"}
    <3>1. Sent = SeenBy(m, h)
      BY <1>5, SentIsMapped
    <3>2. Sent' = SeenBy(maskedText', h)
      <4>1. \A p \in 1 .. Len(maskedText') : maskedText'[p] \in Y
        BY <1>8 DEF IsSplice
      <4> HIDE DEF Y
      <4> QED BY <1>4, <4>1 DEF Sent, SeenBy
    <3>3. h \in [Y -> Z] /\ h[x] = "token"
      <4>1. x \in T
        BY <1>7
      <4> HIDE DEF T, Y, x
      <4> QED BY <1>6, <4>1
    <3>4. SeenBy(Splice(m, s, e, x), h) = Splice(SeenBy(m, h), s, e, h[x])
      <4> HIDE DEF Y, h, Z, s, e, x, m
      <4> QED BY <1>5, <1>6, <1>7, <3>3, SpliceMapped
    <3>5. Sent' = Splice(Sent, s, e, "token")
      <4> HIDE DEF h, s, e, x, m
      <4> QED BY <1>4, <3>1, <3>2, <3>3, <3>4
    <3>6. Sent = Shown(Replaced)
      BY DEF NamesInvariant, TextIsMasked
    <3>7. Shown(Replaced)' = Shown(Replaced \cup {i})
      BY <1>4, <1>11 DEF Shown, IsIn
    <3>8. Shown(Replaced \cup {i}) = Splice(Shown(Replaced), s, e, "token")
      BY <1>2, ShownIsSpliced
    <3> HIDE DEF s, e
    <3> QED BY <3>5, <3>6, <3>7, <3>8
  <2>2. Each(maskedText, InPeople)' = Person(text)'
    <3>1. /\ InPeople \in [Y -> Seq(Words)]
          /\ \A y \in Words \cup {Blank} : InPeople[y] = InLower[y]
          /\ InPeople[x] = people[r.token]
      BY <1>5, <1>7, InPeopleIsTyped
    <3>2. InPeople' = InPeople
      BY <1>4 DEF InPeople, Symbols
    <3>3. SubSeq(m, s, e) = SubSeq(text, s, e)
      <4>1. \A p \in s .. e : m[p] = text[p]
        BY <1>3, <1>7 DEF LastSpan
      <4> DEFINE c == SubSeq(m, s, e)
                 d == SubSeq(text, s, e)
      <4>2. c \in Seq(Y) /\ Len(c) = e - s + 1 /\ \A k \in 1 .. e - s + 1 : c[k] = m[s + k - 1]
        <5> HIDE DEF Y, m, s, e
        <5> QED BY <1>5, <1>7, SliceIs, Zenon
      <4>3. d \in Seq(Words \cup {Blank}) /\ Len(d) = e - s + 1 /\ \A k \in 1 .. e - s + 1 : d[k] = text[s + k - 1]
        <5>1. text \in Seq(Words \cup {Blank}) /\ s \in 1 .. Len(text) /\ e \in s .. Len(text)
          BY <1>3, <1>5 DEF LastSpan, NamesTyped
        <5> HIDE DEF s, e
        <5> QED BY <5>1, SliceIs, Zenon
      <4>4. \A k \in 1 .. e - s + 1 : s + k - 1 \in s .. e
        BY <1>7
      <4>5. d \in Seq(Y)
        <5>1. Words \cup {Blank} \subseteq Y
          BY DEF Symbols
        <5> HIDE DEF d, Y
        <5> QED BY <4>3, <5>1, SequenceWidens
      <4> HIDE DEF c, d, s, e, m, Y
      <4>6. Len(c) = Len(d) /\ \A k \in 1 .. Len(c) : c[k] = d[k]
        BY <4>1, <4>2, <4>3, <4>4
      <4>7. c = d
        BY <4>2, <4>5, <4>6, SameElements
      <4> QED BY <4>7 DEF c, d
    <3>4. Each(SubSeq(text, s, e), InPeople) = PersonAt(i)
      <4> DEFINE d == SubSeq(text, s, e)
      <4>1. d \in Seq(Words \cup {Blank}) /\ PersonAt(i) = Person(d)
        BY <1>3, <1>5, SpanIsTyped DEF LastSpan, PersonAt
      <4> HIDE DEF d
      <4>2. \A k \in 1 .. Len(d) : InPeople[d[k]] = InLower[d[k]]
        BY <3>1, <4>1
      <4>3. [k \in 1 .. Len(d) |-> InPeople[d[k]]] = [k \in 1 .. Len(d) |-> InLower[d[k]]]
        BY <4>2
      <4>4. Each(d, InPeople) = Person(d)
        BY <4>3 DEF Each, Person
      <4> QED BY <4>1, <4>4 DEF d
    <3>5. InPeople[x] = Each(SubSeq(m, s, e), InPeople)
      BY <1>7, <3>1, <3>3, <3>4
    <3>6. Each(Splice(m, s, e, x), InPeople) = Each(m, InPeople)
      <4> HIDE DEF m, s, e, x, Y
      <4> QED BY <1>5, <1>6, <1>7, <3>1, <3>5, EachOfSplice
    <3>7. Each(m, InPeople) = Person(text)
      BY DEF NamesInvariant, TextIsMasked
    <3> QED BY <1>4, <3>2, <3>6, <3>7 DEF Person
  <2> QED BY <2>1, <2>2 DEF TextIsMasked
<1>14. AnswerIsOfText'
  BY <1>4 DEF AnswerIsOfText
<1> QED BY <1>9, <1>10, <1>12, <1>13, <1>14 DEF NamesInvariant

LEMMA NamesRest ==
    ASSUME NamesInvariant, UNCHANGED <<text, entities, entityAt, people, names, replacements, maskedText>>
    PROVE  /\ (NamesTyped' <=> maskPhase' \in {"finding", "naming", "asking", "answered", "restored"}
                                 /\ (maskPhase' = "finding" => entities = <<>>))
           /\ PeopleAreNamed' /\ TextIsMasked' /\ Replaced' = Replaced
           /\ InNames' = InNames /\ \A r \in replacements : \A i \in People : IsOf(r, i) => IsOf(r, i)'
<1>1. Found' = Found /\ Symbols(Len(people))' = Symbols(Len(people)) /\ People' = People
  BY DEF Found, Entity, Symbols, People
<1>2. NamesTyped' <=> /\ maskPhase' \in {"finding", "naming", "asking", "answered", "restored"}
                      /\ maskPhase' = "finding" => entities = <<>>
  BY <1>1 DEF NamesInvariant, NamesTyped, IsSent
<1>3. PeopleAreNamed'
  BY <1>1 DEF NamesInvariant, PeopleAreNamed, PersonAt
<1>4. Replaced' = Replaced
  BY <1>1 DEF Replaced
<1>5. TextIsMasked'
  <2>1. Sent' = Sent /\ Shown(Replaced)' = Shown(Replaced)
    BY <1>4 DEF Sent, Shown, IsIn
  <2>2. Each(maskedText, InPeople)' = Each(maskedText, InPeople) /\ Person(text)' = Person(text)
    BY DEF Each, InPeople, Symbols, Person
  <2> QED BY <2>1, <2>2 DEF NamesInvariant, TextIsMasked
<1>6. InNames' = InNames
  BY DEF InNames, Symbols
<1>7. \A r \in replacements : \A i \in People : IsOf(r, i) => IsOf(r, i)'
  BY DEF IsOf, PersonAt
<1> QED BY <1>2, <1>3, <1>4, <1>5, <1>6, <1>7

LEMMA EverybodyIsMasked == NamesInvariant /\ Masked => NamesInvariant'
<1> SUFFICES ASSUME NamesInvariant, Masked PROVE NamesInvariant'
  OBVIOUS
<1>1. /\ UNCHANGED <<text, entities, entityAt, people, names, replacements, maskedText>>
      /\ maskPhase' = "asking" /\ replacements = {} /\ entityAt > Len(entities)
  BY DEF Masked, Named
<1>2. NamesTyped' /\ PeopleAreNamed' /\ TextIsMasked' /\ Replaced' = Replaced
  BY <1>1, NamesRest
<1>3. SpansAreOfPeople'
  <2>1. ~(entityAt <= Len(entities))
    BY <1>1, EntitiesInOrder DEF NamesInvariant, NamesTyped, SpansInOrder
  <2> QED BY <1>1, <2>1 DEF SpansAreOfPeople
<1>4. AnswerIsOfText'
  BY <1>1 DEF AnswerIsOfText
<1> QED BY <1>2, <1>3, <1>4 DEF NamesInvariant

LEMMA SpansRest ==
    ASSUME NamesInvariant, UNCHANGED <<text, entities, entityAt, people, names, replacements, maskedText>>,
           IsSent, IsSent'
    PROVE  SpansAreOfPeople'
<1>1. replacements = {} /\ replacements' = {} /\ entityAt > Len(entities)
  BY DEF NamesInvariant, SpansAreOfPeople
<1>2. ~(entityAt <= Len(entities)) /\ maskPhase' # "finding"
  BY <1>1, EntitiesInOrder DEF NamesInvariant, NamesTyped, SpansInOrder, IsSent
<1> QED BY <1>1, <1>2 DEF SpansAreOfPeople

LEMMA ModelAnswersInTokens == NamesInvariant /\ AnswerInTokens => NamesInvariant'
<1> SUFFICES ASSUME NamesInvariant, AnswerInTokens PROVE NamesInvariant'
  OBVIOUS
<1>1. /\ UNCHANGED <<text, entities, entityAt, people, names, replacements, maskedText>>
      /\ maskPhase = "asking" /\ maskPhase' = "answered" /\ tokenAnswer' \in TokenAnswers
  BY DEF AnswerInTokens
<1>2. NamesTyped' /\ PeopleAreNamed' /\ TextIsMasked'
  BY <1>1, NamesRest
<1>3. SpansAreOfPeople'
  BY <1>1, SpansRest DEF IsSent
<1>4. maskedText \in Seq(ToSet(maskedText))
  <2>1. maskedText \in Seq(Symbols(Len(people)))
    BY DEF NamesInvariant, NamesTyped
  <2>2. \A p \in 1 .. Len(maskedText) : maskedText[p] \in ToSet(maskedText)
    BY <2>1 DEF ToSet
  <2> QED BY <2>1, <2>2
<1>5. tokenAnswer' \in Seq(ToSet(maskedText))
  <2>1. CASE tokenAnswer' = maskedText
    BY <1>4, <2>1
  <2>2. CASE \E n \in 0 .. MaxAnswer : tokenAnswer' \in [1 .. n -> ToSet(maskedText)]
    <3>1. \A n \in 0 .. MaxAnswer : n \in Nat
      BY MaskingAssumption
    <3> QED BY <2>2, <3>1
  <2> QED BY <1>1, <2>1, <2>2 DEF TokenAnswers
<1>6. AnswerIsOfText'
  BY <1>1, <1>5 DEF AnswerIsOfText, ToSet
<1> QED BY <1>2, <1>3, <1>6 DEF NamesInvariant

LEMMA AnswerIsOfSymbols ==
    ASSUME NamesInvariant, maskPhase \in {"answered", "restored"}
    PROVE  tokenAnswer \in Seq(Symbols(Len(people)))
<1>1. ToSet(maskedText) \subseteq Symbols(Len(people))
  BY DEF NamesInvariant, NamesTyped, ToSet
<1>2. tokenAnswer \in Seq(ToSet(maskedText))
  BY DEF NamesInvariant, AnswerIsOfText
<1> QED BY <1>1, <1>2, SequenceWidens

LEMMA NamesAreRestored == NamesInvariant /\ Restore => NamesInvariant'
<1> SUFFICES ASSUME NamesInvariant, Restore PROVE NamesInvariant'
  OBVIOUS
<1>1. /\ UNCHANGED <<text, entities, entityAt, people, names, replacements, maskedText, tokenAnswer>>
      /\ maskPhase = "answered" /\ maskPhase' = "restored"
      /\ restored' = FlattenSeq([i \in 1 .. Len(tokenAnswer) |->
                        IF IsToken(i) THEN names[tokenAnswer[i].token] ELSE <<tokenAnswer[i]>>])
  BY DEF Restore
<1>2. NamesTyped' /\ PeopleAreNamed' /\ TextIsMasked' /\ InNames' = InNames
  BY <1>1, NamesRest
<1>3. SpansAreOfPeople'
  BY <1>1, SpansRest DEF IsSent
<1>4. tokenAnswer \in Seq(Symbols(Len(people))) /\ Len(names) = Len(people) /\ NamesTyped
  BY <1>1, AnswerIsOfSymbols DEF NamesInvariant, NamesTyped
<1>5. ASSUME NEW i \in 1 .. Len(tokenAnswer)
      PROVE  (IF IsToken(i) THEN names[tokenAnswer[i].token] ELSE <<tokenAnswer[i]>>) = InNames[tokenAnswer[i]]
  <2>1. tokenAnswer[i] \in Symbols(Len(people))
    BY <1>4
  <2>2. CASE tokenAnswer[i] \in Words \cup {Blank}
    <3>1. ~IsToken(i)
      BY <1>4, <2>2, TokensAreNoWords DEF IsToken
    <3> QED BY <1>4, <2>2, <3>1, InNamesIsTyped
  <2>3. CASE tokenAnswer[i] \notin Words \cup {Blank}
    <3>1. PICK n \in 1 .. Len(people) : tokenAnswer[i] = Token(n)
      BY <2>1, <2>3, SymbolsAre
    <3>2. IsToken(i) /\ tokenAnswer[i].token = n
      BY <1>4, <3>1, TokensAreNoWords DEF IsToken
    <3> QED BY <1>4, <3>1, <3>2, InNamesIsTyped
  <2> QED BY <2>2, <2>3
<1>6. restored' = Each(tokenAnswer, InNames)
  <2>1. [i \in 1 .. Len(tokenAnswer) |-> IF IsToken(i) THEN names[tokenAnswer[i].token] ELSE <<tokenAnswer[i]>>]
          = [i \in 1 .. Len(tokenAnswer) |-> InNames[tokenAnswer[i]]]
    BY <1>5
  <2> QED BY <1>1, <2>1 DEF Each
<1>7. AnswerIsOfText'
  BY <1>1, <1>2, <1>6 DEF NamesInvariant, AnswerIsOfText, Each, ToSet
<1> QED BY <1>2, <1>3, <1>7 DEF NamesInvariant

LEMMA MaskingRests == NamesInvariant /\ UNCHANGED namesVars => NamesInvariant'
<1> SUFFICES ASSUME NamesInvariant, UNCHANGED namesVars PROVE NamesInvariant'
  OBVIOUS
<1>1. UNCHANGED <<text, entities, entityAt, people, names, replacements, maskedText, tokenAnswer, restored, maskPhase>>
  BY DEF namesVars
<1>2. NamesTyped' /\ PeopleAreNamed' /\ TextIsMasked' /\ InNames' = InNames /\ Replaced' = Replaced
  <2>1. /\ maskPhase' \in {"finding", "naming", "asking", "answered", "restored"}
        /\ maskPhase' = "finding" => entities = <<>>
    BY <1>1 DEF NamesInvariant, NamesTyped, IsSent
  <2> QED BY <1>1, <2>1, NamesRest
<1>3. SpansAreOfPeople'
  <2>1. People' = People /\ \A r \in replacements : \A i \in People : IsOf(r, i) => IsOf(r, i)'
    BY <1>1, NamesRest DEF People
  <2> QED BY <1>1, <1>2, <2>1 DEF NamesInvariant, SpansAreOfPeople, IsSent
<1>4. AnswerIsOfText'
  BY <1>1, <1>2 DEF NamesInvariant, AnswerIsOfText, Each, ToSet
<1> QED BY <1>2, <1>3, <1>4 DEF NamesInvariant

(***************************************************************************)
(* The masking keeps its invariant, whatever the text and the entities     *)
(* found in it (name_masking.py:90-129).                                   *)
(***************************************************************************)
THEOREM MaskingKeepsInvariant == NamesSpec => []NamesInvariant
<1>1. NamesInvariant /\ [NamesNext]_namesVars => NamesInvariant'
  <2> SUFFICES ASSUME NamesInvariant, [NamesNext]_namesVars PROVE NamesInvariant'
    OBVIOUS
  <2>1. CASE FindNoOne
    BY <2>1, NobodyIsFound
  <2>2. CASE FindPeople
    BY <2>2, PeopleAreFound
  <2>3. CASE SkipEntity
    BY <2>3, NoPersonIsSkipped
  <2>4. CASE KnownPerson
    BY <2>4, KnownPersonIsNamed
  <2>5. CASE NewPerson
    BY <2>5, NewPersonIsNamed
  <2>6. CASE Replace
    BY <2>6, SpanIsReplaced
  <2>7. CASE Masked
    BY <2>7, EverybodyIsMasked
  <2>8. CASE AnswerInTokens
    BY <2>8, ModelAnswersInTokens
  <2>9. CASE Restore
    BY <2>9, NamesAreRestored
  <2>10. CASE UNCHANGED namesVars
    BY <2>10, MaskingRests
  <2> QED BY <2>1, <2>2, <2>3, <2>4, <2>5, <2>6, <2>7, <2>8, <2>9, <2>10 DEF NamesNext
<1> QED BY <1>1, MaskingStarts, PTL DEF NamesSpec

(***************************************************************************)
(* No name that was found is sent, and nothing but names is replaced       *)
(* (name_masking.py:106-109).                                              *)
(***************************************************************************)
THEOREM NoNameIsSent == NamesSpec => []NamesAreReplaced
<1>1. NamesInvariant => NamesAreReplaced
  <2> SUFFICES ASSUME NamesInvariant, IsSent PROVE Sent = Shown(People)
    BY DEF NamesAreReplaced
  <2>1. replacements = {} /\ entityAt > Len(entities)
    BY DEF NamesInvariant, SpansAreOfPeople
  <2>2. \A i \in People : i < entityAt
    BY <2>1, EntitiesInOrder DEF NamesInvariant, NamesTyped, SpansInOrder, People
  <2>3. Replaced = People
    BY <2>1, <2>2 DEF Replaced
  <2> QED BY <2>3 DEF NamesInvariant, TextIsMasked
<1> QED BY <1>1, MaskingKeepsInvariant, PTL

(***************************************************************************)
(* A token has one person and a person one token; a copy of the text reads *)
(* as it did when the names are back (name_masking.py:90-129).             *)
(***************************************************************************)
THEOREM EveryNameComesBack == NamesSpec => []NamesComeBack
<1>1. NamesInvariant => TokenIsThePerson
  <2> SUFFICES ASSUME NamesInvariant PROVE TokenIsThePerson
    OBVIOUS
  <2>1. /\ Len(names) = Len(people) /\ \A n \in 1 .. Len(people) : Person(names[n]) = people[n]
        /\ \A n, m \in 1 .. Len(people) : n # m => people[n] # people[m]
    BY DEF NamesInvariant, NamesTyped, PeopleAreNamed
  <2>2. ASSUME NEW r \in replacements
        PROVE  Person(names[r.token]) = Person(SubSeq(text, r.start, r.end))
    <3>1. PICK i \in People : IsOf(r, i)
      BY DEF NamesInvariant, SpansAreOfPeople
    <3>2. r.start = entities[i].start /\ r.end = entities[i].end
      BY <3>1 DEF IsOf
    <3>3. r.token \in 1 .. Len(people) /\ people[r.token] = PersonAt(i)
      BY <3>1 DEF IsOf
    <3> QED BY <2>1, <3>2, <3>3 DEF PersonAt
  <2>3. ASSUME maskPhase = "asking", NEW i \in People
        PROVE  \E n \in 1 .. Len(people) : Person(names[n]) = PersonAt(i)
    <3>1. entityAt > Len(entities)
      BY <2>3 DEF NamesInvariant, SpansAreOfPeople, IsSent
    <3>2. i < entityAt
      BY <3>1, EntitiesInOrder DEF NamesInvariant, NamesTyped, SpansInOrder, People
    <3>3. PICK n \in 1 .. Len(people) : people[n] = PersonAt(i)
      BY <3>2 DEF NamesInvariant, PeopleAreNamed
    <3> QED BY <2>1, <3>3
  <2> QED BY <2>1, <2>2, <2>3 DEF TokenIsThePerson
<1>2. NamesInvariant => CopyReadsAsBefore
  <2> SUFFICES ASSUME NamesInvariant, maskPhase = "restored"
               PROVE  /\ tokenAnswer = maskedText => Person(restored) = Person(text)
                      /\ ToSet(restored) \subseteq Words \cup {Blank}
    BY DEF CopyReadsAsBefore
  <2> DEFINE Y == Symbols(Len(people))
  <2>1. /\ restored = Each(tokenAnswer, InNames) /\ tokenAnswer \in Seq(Y) /\ NamesTyped
        /\ Each(maskedText, InPeople) = Person(text)
    BY AnswerIsOfSymbols DEF NamesInvariant, AnswerIsOfText, TextIsMasked
  <2>2. /\ InNames \in [Y -> Seq(Words \cup {Blank})]
        /\ \A x \in Words \cup {Blank} : InNames[x] = <<x>>
        /\ \A n \in 1 .. Len(people) : InNames[Token(n)] = names[n]
    BY <2>1, InNamesIsTyped
  <2>3. /\ InPeople \in [Y -> Seq(Words)]
        /\ \A x \in Words \cup {Blank} : InPeople[x] = InLower[x]
        /\ \A n \in 1 .. Len(people) : InPeople[Token(n)] = people[n]
    BY <2>1, InPeopleIsTyped
  <2>4. ToSet(restored) \subseteq Words \cup {Blank}
    <3>1. restored \in Seq(Words \cup {Blank})
      <4> HIDE DEF Y
      <4> QED BY <2>1, <2>2, EachIsTyped
    <3> QED BY <3>1 DEF ToSet
  <2>5. ASSUME NEW x \in Y PROVE Each(InNames[x], InLower) = InPeople[x]
    <3>1. CASE x \in Words \cup {Blank}
      <4>1. Each(<<x>>, InLower) = InLower[x]
        BY <3>1, InLowerIsTyped, EachOfOne
      <4> QED BY <2>2, <2>3, <3>1, <4>1
    <3>2. CASE x \notin Words \cup {Blank}
      <4>1. PICK n \in 1 .. Len(people) : x = Token(n)
        BY <3>2, SymbolsAre
      <4>2. Person(names[n]) = people[n]
        BY DEF NamesInvariant, PeopleAreNamed
      <4> QED BY <2>2, <2>3, <4>1, <4>2 DEF Person
    <3> QED BY <3>1, <3>2
  <2>6. ASSUME tokenAnswer = maskedText PROVE Person(restored) = Person(text)
    <3> DEFINE D == Words \cup {Blank}
    <3>1. Chains(InNames, InLower, InPeople, Y, D, Words) /\ tokenAnswer \in Seq(Y)
      BY <2>1, <2>2, <2>3, <2>5, InLowerIsTyped DEF Chains
    <3>2. Each(Each(tokenAnswer, InNames), InLower) = Each(tokenAnswer, InPeople)
      <4> HIDE DEF Y, D
      <4> QED BY <3>1, EachOfEach
    <3> QED BY <2>1, <2>6, <3>2 DEF Person
  <2> QED BY <2>4, <2>6
<1> QED BY <1>1, <1>2, MaskingKeepsInvariant, PTL DEF NamesComeBack

=============================================================================
