----------------------------- MODULE SequenceLemmas -----------------------------
(***************************************************************************)
(* Induction over sequences.  The induction theorems of the library take a *)
(* predicate as parameter; here a set of numbers takes its place.  With it *)
(* the recursive definitions that the models use can be unfolded.          *)
(***************************************************************************)
EXTENDS SequencesExt, WellFoundedInduction, TLAPS

\* A set of numbers with zero and with the successor of each of its members.
LEMMA SetInduction ==
    ASSUME NEW S \in SUBSET Nat, 0 \in S, \A n \in S : n + 1 \in S
    PROVE  S = Nat
  <1> DEFINE T == Nat \ S
             R == OpToRel(<, Nat)
  <1> SUFFICES ASSUME T # {} PROVE FALSE
    OBVIOUS
  <1>1. PICK x \in T : \A y \in T : <<y, x>> \notin R
    <2>1. T \subseteq Nat
      OBVIOUS
    <2> HIDE DEF T, R
    <2>2. IsWellFoundedOn(R, Nat)
      BY NatLessThanWellFounded DEF R
    <2> QED
      BY <2>1, <2>2, WFMin
  <1>2. \A y \in T : ~ (y < x)
    BY <1>1 DEF OpToRel
  <1>3. x # 0 /\ x - 1 \in Nat
    OBVIOUS
  <1>4. x - 1 \in S
    BY <1>2, <1>3
  <1> QED
    BY <1>3, <1>4

(***************************************************************************)
(* Traces of recursions: what a recursive function is at every argument.   *)
(***************************************************************************)
Follows(f, v, G, n) == f[0] = v /\ \A i \in 1 .. n : f[i] = G[<<f[i - 1], i>>]

LEMMA RecursionExists ==
    ASSUME NEW V, NEW v \in V, NEW G \in [V \X Nat -> V], NEW n \in Nat
    PROVE  \E f \in [0 .. n -> V] : Follows(f, v, G, n)
  <1> DEFINE S == {m \in Nat : \E f \in [0 .. m -> V] : Follows(f, v, G, m)}
  <1>1. 0 \in S
    <2>1. [i \in 0 .. 0 |-> v] \in [0 .. 0 -> V]
      OBVIOUS
    <2>2. Follows([i \in 0 .. 0 |-> v], v, G, 0)
      BY DEF Follows
    <2> QED
      BY <2>1, <2>2
  <1>2. ASSUME NEW m \in S PROVE m + 1 \in S
    <2>1. m \in Nat
      OBVIOUS
    <2>2. PICK f \in [0 .. m -> V] : Follows(f, v, G, m)
      OBVIOUS
    <2> DEFINE g == [i \in 0 .. m + 1 |-> IF i = m + 1 THEN G[<<f[m], m + 1>>] ELSE f[i]]
    <2>3. g \in [0 .. m + 1 -> V]
      BY <2>1, <2>2
    <2>4. g[m + 1] = G[<<f[m], m + 1>>] /\ \A i \in 0 .. m : g[i] = f[i]
      BY <2>1
    <2>5. Follows(g, v, G, m + 1)
      <3> HIDE DEF g
      <3>1. g[0] = v
        BY <2>1, <2>2, <2>4 DEF Follows
      <3>2. ASSUME NEW i \in 1 .. m + 1 PROVE g[i] = G[<<g[i - 1], i>>]
        <4>1. CASE i = m + 1
          <5>1. g[i - 1] = f[m]
            BY <2>1, <2>4, <4>1
          <5> QED
            BY <2>4, <4>1, <5>1
        <4>2. CASE i \in 1 .. m
          <5>1. g[i - 1] = f[i - 1] /\ g[i] = f[i]
            BY <2>1, <2>4, <4>2
          <5> QED
            BY <2>2, <4>2, <5>1 DEF Follows
        <4> QED
          BY <2>1, <4>1, <4>2
      <3> QED
        BY <3>1, <3>2 DEF Follows
    <2> HIDE DEF g
    <2>6. m + 1 \in Nat
      BY <2>1
    <2> QED
      BY <2>3, <2>5, <2>6
  <1>3. S = Nat
    <2>1. S \in SUBSET Nat
      OBVIOUS
    <2> HIDE DEF S
    <2> QED
      BY <1>1, <1>2, <2>1, SetInduction
  <1>4. n \in S
    BY <1>3
  <1> QED
    BY <1>4

\* Sums of numbers, whatever they are.
Sums(f, a, n) == f[0] = 0 /\ \A i \in 1 .. n : f[i] = f[i - 1] + a[i]

LEMMA SumsExist ==
    ASSUME NEW a, NEW n \in Nat
    PROVE  \E f : DOMAIN f = 0 .. n /\ Sums(f, a, n)
  <1> DEFINE S == {m \in Nat : \E f : DOMAIN f = 0 .. m /\ Sums(f, a, m)}
  <1>1. 0 \in S
    <2> DEFINE f == [i \in 0 .. 0 |-> 0]
    <2>1. DOMAIN f = 0 .. 0 /\ Sums(f, a, 0)
      BY DEF Sums
    <2> HIDE DEF f
    <2> QED
      BY <2>1
  <1>2. ASSUME NEW m \in S PROVE m + 1 \in S
    <2>1. m \in Nat
      OBVIOUS
    <2>2. PICK f : DOMAIN f = 0 .. m /\ Sums(f, a, m)
      OBVIOUS
    <2> DEFINE next == f[m] + a[m + 1]
               g == [i \in 0 .. m + 1 |-> IF i = m + 1 THEN next ELSE f[i]]
    <2>3. g[m + 1] = next /\ (\A i \in 0 .. m : g[i] = f[i]) /\ DOMAIN g = 0 .. m + 1
      <3> HIDE DEF next
      <3> QED
        BY <2>1
    <2>4. Sums(g, a, m + 1)
      <3> HIDE DEF g
      <3>1. g[0] = 0
        BY <2>1, <2>2, <2>3 DEF Sums
      <3>2. ASSUME NEW i \in 1 .. m + 1 PROVE g[i] = g[i - 1] + a[i]
        <4>1. CASE i = m + 1
          <5>1. g[i - 1] = f[m]
            BY <2>1, <2>3, <4>1
          <5> QED
            BY <2>3, <4>1, <5>1
        <4>2. CASE i \in 1 .. m
          <5>1. g[i - 1] = f[i - 1] /\ g[i] = f[i]
            BY <2>1, <2>3, <4>2
          <5>2. f[i] = f[i - 1] + a[i]
            BY <2>2, <4>2 DEF Sums
          <5> QED
            BY <5>1, <5>2
        <4> QED
          BY <2>1, <4>1, <4>2
      <3> QED
        BY <3>1, <3>2 DEF Sums
    <2> HIDE DEF g
    <2>5. m + 1 \in Nat
      BY <2>1
    <2> QED
      BY <2>3, <2>4, <2>5
  <1>3. S = Nat
    <2>1. S \in SUBSET Nat
      OBVIOUS
    <2> HIDE DEF S
    <2> QED
      BY <1>1, <1>2, <2>1, SetInduction
  <1>4. n \in S
    BY <1>3
  <1> QED
    BY <1>4

LEMMA SumsUnique ==
    ASSUME NEW f, NEW g, NEW a, NEW n \in Nat, Sums(f, a, n), Sums(g, a, n)
    PROVE  \A i \in 0 .. n : f[i] = g[i]
  <1> DEFINE S == {i \in Nat : i \in 0 .. n => f[i] = g[i]}
  <1>1. 0 \in S
    BY DEF Sums
  <1>2. ASSUME NEW i \in S PROVE i + 1 \in S
    <2>1. i \in Nat /\ i + 1 \in Nat
      OBVIOUS
    <2>2. ASSUME i + 1 \in 0 .. n PROVE f[i + 1] = g[i + 1]
      <3>1. i \in 0 .. n /\ i + 1 \in 1 .. n /\ (i + 1) - 1 = i
        BY <2>1, <2>2
      <3>2. f[i] = g[i]
        BY <3>1
      <3>3. f[i + 1] = f[(i + 1) - 1] + a[i + 1] /\ g[i + 1] = g[(i + 1) - 1] + a[i + 1]
        BY <3>1, Zenon DEF Sums
      <3> QED
        BY <3>1, <3>2, <3>3
    <2> QED
      BY <2>1, <2>2
  <1>3. S = Nat
    <2>1. S \in SUBSET Nat
      OBVIOUS
    <2> HIDE DEF S
    <2> QED
      BY <1>1, <1>2, <2>1, SetInduction
  <1>4. \A i \in Nat : i \in 0 .. n => f[i] = g[i]
    BY <1>3
  <1> QED
    BY <1>4

(***************************************************************************)
(* FlattenSeq joins the parts of a sequence one by one.                    *)
(***************************************************************************)
Joined(f, s, n) == f[0] = <<>> /\ \A i \in 1 .. n : f[i] = f[i - 1] \o s[i]

LEMMA JoinedExists ==
    ASSUME NEW T, NEW s \in Seq(Seq(T))
    PROVE  \E f \in [0 .. Len(s) -> Seq(T)] : Joined(f, s, Len(s))
  <1> DEFINE V == Seq(T)
             join(p) == IF p[2] \in 1 .. Len(s) THEN p[1] \o s[p[2]] ELSE p[1]
             G == [p \in V \X Nat |-> join(p)]
  <1>1. Len(s) \in Nat /\ <<>> \in V
    OBVIOUS
  <1>2. G \in [V \X Nat -> V]
    <2>1. ASSUME NEW p \in V \X Nat PROVE join(p) \in V
      OBVIOUS
    <2> HIDE DEF V, join
    <2> QED
      BY <2>1
  <1>3. PICK f \in [0 .. Len(s) -> V] : Follows(f, <<>>, G, Len(s))
    <2> HIDE DEF V, G
    <2> QED
      BY <1>1, <1>2, RecursionExists
  <1>4. ASSUME NEW i \in 1 .. Len(s) PROVE f[i] = f[i - 1] \o s[i]
    <2>1. i \in Nat /\ i - 1 \in 0 .. Len(s)
      BY <1>1
    <2>2. <<f[i - 1], i>> \in V \X Nat
      BY <1>3, <2>1
    <2>3. G[<<f[i - 1], i>>] = join(<<f[i - 1], i>>)
      <3> HIDE DEF V, join
      <3> QED
        BY <2>2
    <2>4. join(<<f[i - 1], i>>) = f[i - 1] \o s[i]
      OBVIOUS
    <2>5. f[i] = G[<<f[i - 1], i>>]
      BY <1>3 DEF Follows
    <2> QED
      BY <2>3, <2>4, <2>5
  <1>5. f[0] = <<>>
    BY <1>3 DEF Follows
  <1> HIDE DEF G
  <1> QED
    BY <1>3, <1>4, <1>5 DEF Joined

LEMMA JoinedUnique ==
    ASSUME NEW f, NEW g, NEW s, NEW n \in Nat, Joined(f, s, n), Joined(g, s, n)
    PROVE  \A i \in 0 .. n : f[i] = g[i]
  <1> DEFINE S == {i \in Nat : i \in 0 .. n => f[i] = g[i]}
  <1>1. 0 \in S
    BY DEF Joined
  <1>2. ASSUME NEW i \in S PROVE i + 1 \in S
    <2>1. i \in Nat /\ i + 1 \in Nat
      OBVIOUS
    <2>2. ASSUME i + 1 \in 0 .. n PROVE f[i + 1] = g[i + 1]
      <3>1. i \in 0 .. n /\ i + 1 \in 1 .. n /\ (i + 1) - 1 = i
        BY <2>1, <2>2
      <3>2. f[i] = g[i]
        BY <3>1
      <3>3. f[i + 1] = f[(i + 1) - 1] \o s[i + 1] /\ g[i + 1] = g[(i + 1) - 1] \o s[i + 1]
        BY <3>1, Zenon DEF Joined
      <3> QED
        BY <3>1, <3>2, <3>3
    <2> QED
      BY <2>1, <2>2
  <1>3. S = Nat
    <2>1. S \in SUBSET Nat
      OBVIOUS
    <2> HIDE DEF S
    <2> QED
      BY <1>1, <1>2, <2>1, SetInduction
  <1>4. \A i \in Nat : i \in 0 .. n => f[i] = g[i]
    BY <1>3
  <1> QED
    BY <1>4

LEMMA FlattenJoins ==
    ASSUME NEW T, NEW s \in Seq(Seq(T))
    PROVE  \E f \in [0 .. Len(s) -> Seq(T)] : Joined(f, s, Len(s)) /\ FlattenSeq(s) = f[Len(s)]
  <1> DEFINE n == Len(s)
             F == CHOOSE f : f = [i \in 1 .. Len(s) |-> IF i = 1 THEN s[i] ELSE f[i - 1] \o s[i]]
  <1>1. n \in Nat
    OBVIOUS
  <1>2. PICK f \in [0 .. n -> Seq(T)] : Joined(f, s, n)
    BY JoinedExists
  <1>3. CASE s = <<>>
    <2>1. FlattenSeq(s) = <<>>
      BY <1>3 DEF FlattenSeq
    <2>2. f[0] = <<>> /\ n = 0
      BY <1>2, <1>3 DEF Joined
    <2> QED
      BY <1>2, <2>1, <2>2
  <1>4. CASE s # <<>>
    <2>1. FlattenSeq(s) = F[n]
      BY <1>4 DEF FlattenSeq
    <2> DEFINE g == [i \in 1 .. n |-> f[i]]
    <2>2. ASSUME NEW i \in 1 .. n PROVE g[i] = IF i = 1 THEN s[i] ELSE g[i - 1] \o s[i]
      <3>1. f[i] = f[i - 1] \o s[i] /\ g[i] = f[i]
        BY <1>2 DEF Joined
      <3>2. CASE i = 1
        <4>1. f[0] = <<>> /\ i - 1 = 0 /\ s[i] \in Seq(T)
          BY <1>2, <3>2 DEF Joined
        <4>2. <<>> \o s[i] = s[i]
          BY <4>1
        <4> QED
          BY <3>1, <3>2, <4>1, <4>2
      <3>3. CASE i # 1
        <4>1. i - 1 \in 1 .. n
          BY <1>1, <3>3
        <4>2. g[i - 1] = f[i - 1]
          BY <4>1
        <4> QED
          BY <3>1, <3>3, <4>2
      <3> QED
        BY <3>2, <3>3
    <2>3. g = [i \in 1 .. n |-> IF i = 1 THEN s[i] ELSE g[i - 1] \o s[i]]
      <3>1. g = [i \in 1 .. n |-> g[i]]
        OBVIOUS
      <3> HIDE DEF g, n
      <3> QED
        BY <2>2, <3>1, Zenon
    <2>4. F = [i \in 1 .. n |-> IF i = 1 THEN s[i] ELSE F[i - 1] \o s[i]]
      <3> HIDE DEF g
      <3> QED
        BY <2>3, Zenon
    <2> HIDE DEF F
    <2> DEFINE h == [i \in 0 .. n |-> IF i = 0 THEN <<>> ELSE F[i]]
    <2>5. Joined(h, s, n)
      <3>1. h[0] = <<>> /\ \A i \in 1 .. n : h[i] = F[i]
        BY <1>1
      <3> HIDE DEF h
      <3>2. ASSUME NEW i \in 1 .. n PROVE h[i] = h[i - 1] \o s[i]
        <4>1. F[i] = IF i = 1 THEN s[i] ELSE F[i - 1] \o s[i]
          BY <2>4, Zenon
        <4>2. CASE i = 1
          <5>1. s[i] \in Seq(T) /\ i - 1 = 0
            BY <4>2
          <5>2. <<>> \o s[i] = s[i]
            BY <5>1
          <5> QED
            BY <3>1, <4>1, <4>2, <5>1, <5>2
        <4>3. CASE i # 1
          <5>1. i - 1 \in 1 .. n
            BY <1>1, <4>3
          <5>2. h[i - 1] = F[i - 1] /\ h[i] = F[i]
            BY <3>1, <5>1
          <5> HIDE DEF n
          <5> QED
            BY <4>1, <4>3, <5>2
        <4> QED
          BY <4>2, <4>3
      <3> QED
        BY <3>1, <3>2 DEF Joined
    <2>6. h[n] = f[n]
      <3> HIDE DEF h, n
      <3>1. n \in 0 .. n
        BY <1>1
      <3> QED
        BY <1>1, <1>2, <2>5, <3>1, JoinedUnique
    <2>7. h[n] = F[n]
      BY <1>1, <1>4
    <2> HIDE DEF h
    <2> QED
      BY <1>2, <2>1, <2>6, <2>7
  <1> QED
    BY <1>3, <1>4

LEMMA FlattenEmpty == FlattenSeq(<<>>) = <<>>
  BY DEF FlattenSeq

LEMMA FlattenAppend ==
    ASSUME NEW T, NEW s \in Seq(Seq(T)), NEW x \in Seq(T)
    PROVE  /\ FlattenSeq(s) \in Seq(T)
           /\ FlattenSeq(Append(s, x)) = FlattenSeq(s) \o x
  <1> DEFINE t == Append(s, x)
             n == Len(s)
  <1>1. t \in Seq(Seq(T)) /\ Len(t) = n + 1 /\ n \in Nat /\ t[n + 1] = x
        /\ \A i \in 1 .. n : t[i] = s[i]
    OBVIOUS
  <1>2. PICK f \in [0 .. n -> Seq(T)] : Joined(f, s, n) /\ FlattenSeq(s) = f[n]
    BY FlattenJoins
  <1>3. PICK g \in [0 .. n + 1 -> Seq(T)] : Joined(g, t, n + 1) /\ FlattenSeq(t) = g[n + 1]
    <2> HIDE DEF t, n
    <2> QED
      BY <1>1, FlattenJoins
  <1> HIDE DEF t, n
  <1>4. Joined(g, s, n)
    <2>1. ASSUME NEW i \in 1 .. n PROVE g[i] = g[i - 1] \o s[i]
      <3>1. i \in 1 .. n + 1 /\ t[i] = s[i]
        BY <1>1
      <3> QED
        BY <1>3, <3>1 DEF Joined
    <2> QED
      BY <1>3, <2>1 DEF Joined
  <1>5. g[n] = f[n]
    <2>1. n \in 0 .. n
      BY <1>1
    <2>2. n \in Nat /\ Joined(f, s, n)
      BY <1>1, <1>2
    <2>3. \A i \in 0 .. n : f[i] = g[i]
      BY <1>4, <2>2, JoinedUnique, ZenonT(30)
    <2> QED
      BY <2>1, <2>3, Zenon
  <1>6. g[n + 1] = g[n] \o x
    <2>1. n + 1 \in 1 .. n + 1 /\ (n + 1) - 1 = n
      BY <1>1
    <2>2. g[n + 1] = g[(n + 1) - 1] \o t[n + 1]
      BY <1>3, <2>1 DEF Joined
    <2> QED
      BY <1>1, <2>1, <2>2
  <1>7. f[n] \in Seq(T)
    BY <1>1, <1>2
  <1> QED
    BY <1>2, <1>3, <1>5, <1>6, <1>7 DEF t, n

\* A mapping of the elements is a mapping of the flattened sequence.
Image(h, s, t) == t = [k \in 1 .. Len(s) |-> h[s[k]]]

Maps(h, s, t) == Len(t) = Len(s) /\ \A i \in 1 .. Len(s) : Image(h, s[i], t[i])

LEMMA FlattenMap ==
    ASSUME NEW S, NEW T, NEW h \in [S -> T], NEW s \in Seq(Seq(S)), NEW t \in Seq(Seq(T)),
           Maps(h, s, t)
    PROVE  /\ FlattenSeq(s) \in Seq(S)
           /\ Image(h, FlattenSeq(s), FlattenSeq(t))
  <1> DEFINE n == Len(s)
             mapped(x) == [k \in 1 .. Len(x) |-> h[x[k]]]
  <1>1. n \in Nat
    OBVIOUS
  <1>2. PICK f \in [0 .. n -> Seq(S)] : Joined(f, s, n) /\ FlattenSeq(s) = f[n]
    BY FlattenJoins
  <1>3. PICK g \in [0 .. n -> Seq(T)] : Joined(g, t, n) /\ FlattenSeq(t) = g[n]
    BY FlattenJoins DEF Maps
  <1>4. ASSUME NEW x \in Seq(S), NEW y \in Seq(S) PROVE mapped(x \o y) = mapped(x) \o mapped(y)
    <2>1. mapped(x) \in Seq(T) /\ mapped(y) \in Seq(T) /\ mapped(x \o y) \in Seq(T)
      BY SMTT(30)
    <2> QED
      BY <2>1, SMTT(30)
  <1>5. mapped(<<>>) = <<>>
    OBVIOUS
  <1>6. \A i \in 1 .. n : t[i] = mapped(s[i]) /\ s[i] \in Seq(S)
    BY DEF Maps, Image
  <1> HIDE DEF n, mapped
  <1> DEFINE M == {i \in Nat : i \in 0 .. n => g[i] = mapped(f[i])}
  <1>7. 0 \in M
    BY <1>2, <1>3, <1>5 DEF Joined
  <1>8. ASSUME NEW i \in M PROVE i + 1 \in M
    <2>1. i \in Nat /\ i + 1 \in Nat
      OBVIOUS
    <2>2. ASSUME i + 1 \in 0 .. n PROVE g[i + 1] = mapped(f[i + 1])
      <3>1. i \in 0 .. n /\ i + 1 \in 1 .. n /\ (i + 1) - 1 = i
        BY <1>1, <2>1, <2>2
      <3>2. g[i] = mapped(f[i])
        BY <3>1
      <3>3. f[i + 1] = f[i] \o s[i + 1] /\ g[i + 1] = g[i] \o t[i + 1]
        <4>1. f[i + 1] = f[(i + 1) - 1] \o s[i + 1] /\ g[i + 1] = g[(i + 1) - 1] \o t[i + 1]
          BY <1>2, <1>3, <3>1, Zenon DEF Joined
        <4> QED
          BY <3>1, <4>1
      <3>4. f[i] \in Seq(S) /\ s[i + 1] \in Seq(S) /\ t[i + 1] = mapped(s[i + 1])
        BY <1>2, <1>6, <3>1
      <3> QED
        BY <1>4, <3>2, <3>3, <3>4
    <2> QED
      BY <2>1, <2>2
  <1>9. M = Nat
    <2>1. M \in SUBSET Nat
      OBVIOUS
    <2> HIDE DEF M
    <2> QED
      BY <1>7, <1>8, <2>1, SetInduction
  <1>10. \A i \in Nat : i \in 0 .. n => g[i] = mapped(f[i])
    BY <1>9
  <1>11. n \in 0 .. n
    BY <1>1
  <1>12. g[n] = mapped(f[n]) /\ f[n] \in Seq(S)
    BY <1>1, <1>2, <1>10, <1>11
  <1> QED
    BY <1>2, <1>3, <1>12 DEF mapped, Image

\* A set of numbers below a bound that is not empty has a greatest one.
LEMMA MaxExists ==
    ASSUME NEW n \in Nat, NEW S \in SUBSET (1 .. n), S # {}
    PROVE  Max(S) \in S /\ \A x \in S : Max(S) >= x
  <1> DEFINE greatest(X) == \E x \in X : \A y \in X : x >= y
             M == {m \in Nat : \A X \in SUBSET (1 .. m) : X # {} => greatest(X)}
  <1>1. 0 \in M
    <2>1. 1 .. 0 = {}
      OBVIOUS
    <2> HIDE DEF greatest
    <2> QED
      BY <2>1
  <1>2. ASSUME NEW m \in M PROVE m + 1 \in M
    <2>1. m \in Nat /\ m + 1 \in Nat
      OBVIOUS
    <2>2. ASSUME NEW X \in SUBSET (1 .. m + 1), X # {} PROVE greatest(X)
      <3>1. CASE m + 1 \in X
        <4>1. \A y \in X : m + 1 >= y
          BY <2>1
        <4> QED
          BY <3>1, <4>1
      <3>2. CASE m + 1 \notin X
        <4>1. X \in SUBSET (1 .. m)
          BY <2>1, <3>2
        <4> QED
          BY <2>2, <4>1
      <3> QED
        BY <3>1, <3>2
    <2> HIDE DEF greatest
    <2> QED
      BY <2>1, <2>2
  <1>3. M = Nat
    <2>1. M \in SUBSET Nat
      OBVIOUS
    <2> HIDE DEF M
    <2> QED
      BY <1>1, <1>2, <2>1, SetInduction
  <1>4. n \in M
    BY <1>3
  <1>5. greatest(S)
    <2> HIDE DEF greatest
    <2> QED
      BY <1>4
  <1> QED
    BY <1>5 DEF Max

\* A set of numbers that is not empty has a least one.
LEMMA MinExists ==
    ASSUME NEW S \in SUBSET Nat, S # {}
    PROVE  Min(S) \in S /\ \A x \in S : Min(S) <= x
  <1> DEFINE R == OpToRel(<, Nat)
  <1>1. PICK x \in S : \A y \in S : <<y, x>> \notin R
    <2> HIDE DEF R
    <2>1. IsWellFoundedOn(R, Nat)
      BY NatLessThanWellFounded DEF R
    <2> QED
      BY <2>1, WFMin
  <1>2. \A y \in S : ~ (y < x)
    BY <1>1 DEF OpToRel
  <1>3. \A y \in S : x <= y
    BY <1>2
  <1> QED
    BY <1>3 DEF Min

\* A sequence with one more element.
Lengthens(t, s, x, n) ==
    t = [i \in 1 .. n + 1 |-> t[i]] /\ t[n + 1] = x /\ \A i \in 1 .. n : t[i] = s[i]

LEMMA Lengthened ==
    ASSUME NEW T, NEW s \in Seq(T), NEW x \in T, NEW t, Lengthens(t, s, x, Len(s))
    PROVE  t = Append(s, x)
  <1> DEFINE r == Append(s, x)
             n == Len(s)
  <1>1. /\ n \in Nat /\ r \in Seq(T) /\ Len(r) = n + 1 /\ r[n + 1] = x
        /\ \A i \in 1 .. n : r[i] = s[i]
    OBVIOUS
  <1>2. t = [i \in 1 .. n + 1 |-> t[i]] /\ t[n + 1] = x /\ \A i \in 1 .. n : t[i] = s[i]
    BY DEF Lengthens
  <1> HIDE DEF r, n
  <1>3. \A i \in 1 .. n + 1 : t[i] = r[i]
    <2>1. \A i \in 1 .. n + 1 : i = n + 1 \/ i \in 1 .. n
      BY <1>1
    <2> QED
      BY <1>1, <1>2, <2>1
  <1>4. r = [i \in 1 .. n + 1 |-> r[i]]
    BY <1>1
  <1>5. t = r
    BY <1>2, <1>3, <1>4, Zenon
  <1> QED
    BY <1>5 DEF r

LEMMA AppendIs ==
    ASSUME NEW T, NEW s \in Seq(T), NEW x \in T, NEW t, NEW n \in Nat, n = Len(s),
           t = [i \in 1 .. n + 1 |-> t[i]],
           t[n + 1] = x, \A i \in 1 .. n : t[i] = s[i]
    PROVE  t = Append(s, x)
  <1>1. Lengthens(t, s, x, n)
    BY Zenon DEF Lengthens
  <1> QED
    BY <1>1, Lengthened, Zenon

(***************************************************************************)
(* The members of a sequence that are in a set, in their order.            *)
(***************************************************************************)
Pick(s, S, i) == IF s[i] \in S THEN <<s[i]>> ELSE <<>>
Picks(s, S) == FlattenSeq([i \in DOMAIN s |-> Pick(s, S, i)])

\* What one more element x adds.
PicksMore(s, x, S) ==
    Picks(Append(s, x), S) = IF x \in S THEN Append(Picks(s, S), x) ELSE Picks(s, S)

LEMMA PicksEmpty == ASSUME NEW S PROVE Picks(<<>>, S) = <<>>
  <1>1. [i \in DOMAIN <<>> |-> Pick(<<>>, S, i)] = <<>>
    OBVIOUS
  <1> QED
    BY <1>1, FlattenEmpty DEF Picks

LEMMA PicksAppend ==
    ASSUME NEW T, NEW s \in Seq(T), NEW x \in T, NEW S
    PROVE  Picks(s, S) \in Seq(T) /\ PicksMore(s, x, S)
  <1> DEFINE t == Append(s, x)
             own == [i \in DOMAIN s |-> Pick(s, S, i)]
             next == IF x \in S THEN <<x>> ELSE <<>>
  <1>1. /\ t \in Seq(T) /\ Len(s) \in Nat /\ DOMAIN t = 1 .. Len(s) + 1
        /\ DOMAIN s = 1 .. Len(s) /\ t[Len(s) + 1] = x
        /\ \A i \in 1 .. Len(s) : t[i] = s[i] /\ s[i] \in T
    OBVIOUS
  <1>2. own \in Seq(Seq(T)) /\ next \in Seq(T) /\ Len(own) = Len(s)
    BY <1>1 DEF Pick
  <1>3. [i \in DOMAIN t |-> Pick(t, S, i)] = Append(own, next)
    <2>1. /\ DOMAIN Append(own, next) = 1 .. Len(s) + 1
          /\ Append(own, next)[Len(s) + 1] = next
          /\ \A i \in 1 .. Len(s) : Append(own, next)[i] = own[i]
          /\ Append(own, next) = [i \in 1 .. Len(s) + 1 |-> Append(own, next)[i]]
      BY <1>1, <1>2
    <2>2. ASSUME NEW i \in 1 .. Len(s) + 1 PROVE Pick(t, S, i) = Append(own, next)[i]
      <3>1. CASE i = Len(s) + 1
        BY <1>1, <2>1, <3>1 DEF Pick
      <3>2. CASE i # Len(s) + 1
        <4>1. i \in 1 .. Len(s)
          BY <1>1, <3>2
        <4>2. own[i] = Pick(s, S, i) /\ t[i] = s[i]
          BY <1>1, <4>1
        <4> QED
          BY <2>1, <4>1, <4>2 DEF Pick
      <3> QED
        BY <3>1, <3>2
    <2> HIDE DEF own, next, t
    <2> QED
      BY <1>1, <2>1, <2>2
  <1>4. FlattenSeq(own) \in Seq(T) /\ FlattenSeq(Append(own, next)) = FlattenSeq(own) \o next
    <2> HIDE DEF own, next
    <2> QED
      BY <1>2, FlattenAppend
  <1>5. Picks(s, S) \in Seq(T) /\ Picks(t, S) = Picks(s, S) \o next
    <2> HIDE DEF next
    <2> QED
      BY <1>3, <1>4 DEF Picks
  <1>6. x \in S => Picks(s, S) \o <<x>> = Append(Picks(s, S), x)
    BY <1>5, AppendIs
  <1>7. Picks(s, S) \o <<>> = Picks(s, S)
    BY <1>5
  <1> QED
    BY <1>5, <1>6, <1>7 DEF PicksMore

\* The first member comes first.
PicksFirst(x, s, S) ==
    Picks(<<x>> \o s, S) = (IF x \in S THEN <<x>> ELSE <<>>) \o Picks(s, S)

LEMMA PicksCons ==
    ASSUME NEW T, NEW x \in T, NEW s \in Seq(T), NEW S
    PROVE  PicksFirst(x, s, S)
  <1> DEFINE first == IF x \in S THEN <<x>> ELSE <<>>
             Holds(t) == Picks(<<x>> \o t, S) = first \o Picks(t, S)
             N == {n \in Nat : \A t \in Seq(T) : Len(t) = n => Holds(t)}
  <1>0. first \in Seq(T) /\ <<x>> \in Seq(T) /\ <<>> \in Seq(T)
    OBVIOUS
  <1>1. 0 \in N
    <2>1. Picks(<<>>, S) = <<>> /\ <<x>> \o <<>> = <<x>> /\ Append(<<>>, x) = <<x>>
      BY PicksEmpty
    <2>2. Picks(<<x>>, S) = first
      <3>1. /\ x \in S => Picks(<<x>>, S) = Append(Picks(<<>>, S), x)
            /\ x \notin S => Picks(<<x>>, S) = Picks(<<>>, S)
        <4>1. PicksMore(<<>>, x, S)
          BY <1>0, PicksAppend
        <4> QED
          BY <2>1, <4>1 DEF PicksMore
      <3> QED
        BY <2>1, <3>1
    <2>3. first \o <<>> = first
      BY <1>0
    <2>4. \A t \in Seq(T) : Len(t) = 0 => t = <<>>
      OBVIOUS
    <2> HIDE DEF first
    <2> QED
      BY <2>1, <2>2, <2>3, <2>4
  <1>2. ASSUME NEW n \in N PROVE n + 1 \in N
    <2>1. ASSUME NEW t \in Seq(T), Len(t) = n + 1 PROVE Holds(t)
      <3> DEFINE front == SubSeq(t, 1, n)
                 last == t[n + 1]
      <3>1. n \in Nat /\ front \in Seq(T) /\ Len(front) = n /\ last \in T
        BY <2>1
      <3>2. t = Append(front, last)
        BY <2>1, <3>1
      <3> HIDE DEF front, last
      <3>3. <<x>> \o t = Append(<<x>> \o front, last) /\ <<x>> \o front \in Seq(T)
        BY <3>1, <3>2
      <3>4. Holds(front)
        BY <3>1
      <3>5. /\ Picks(front, S) \in Seq(T)
            /\ last \in S => Picks(t, S) = Append(Picks(front, S), last)
            /\ last \notin S => Picks(t, S) = Picks(front, S)
        <4>1. Picks(front, S) \in Seq(T) /\ PicksMore(front, last, S)
          BY <3>1, PicksAppend
        <4> QED
          BY <3>2, <4>1 DEF PicksMore
      <3>7. /\ last \in S => Picks(<<x>> \o t, S) = Append(Picks(<<x>> \o front, S), last)
            /\ last \notin S => Picks(<<x>> \o t, S) = Picks(<<x>> \o front, S)
        <4>1. PicksMore(<<x>> \o front, last, S)
          BY <3>1, <3>3, PicksAppend
        <4> QED
          BY <3>3, <4>1 DEF PicksMore
      <3>6. first \o Append(Picks(front, S), last) = Append(first \o Picks(front, S), last)
        BY <1>0, <3>1, <3>5
      <3> HIDE DEF first
      <3> QED
        BY <3>4, <3>5, <3>6, <3>7
    <2> HIDE DEF Holds
    <2> QED
      BY <2>1
  <1>3. N = Nat
    <2>1. N \in SUBSET Nat
      OBVIOUS
    <2> HIDE DEF N
    <2> QED
      BY <1>1, <1>2, <2>1, SetInduction
  <1> HIDE DEF Holds
  <1>4. Holds(s)
    <2>1. Len(s) \in N
      BY <1>3
    <2> QED
      BY <2>1
  <1> QED
    BY <1>4 DEF Holds, first, PicksFirst

\* How sequences are put together.
LEMMA ConcatFacts ==
    ASSUME NEW T, NEW s \in Seq(T), NEW t \in Seq(T), NEW u \in Seq(T), NEW x \in T
    PROVE  /\ (s \o t) \o u = s \o (t \o u) /\ s \o t \in Seq(T)
           /\ s \o Append(t, x) = Append(s \o t, x) /\ s \o <<x>> = Append(s, x)
           /\ <<>> \o s = s /\ s \o <<>> = s
           /\ Len(s \o t) = Len(s) + Len(t) /\ Len(s) \in Nat /\ Len(t) \in Nat
  <1>1. (s \o t) \o u = s \o (t \o u)
    OBVIOUS
  <1>2. s \o Append(t, x) = Append(s \o t, x)
    OBVIOUS
  <1>3. s \o <<x>> = Append(s, x)
    OBVIOUS
  <1>4. <<>> \o s = s /\ s \o <<>> = s
    OBVIOUS
  <1>5. s \o t \in Seq(T) /\ Len(s \o t) = Len(s) + Len(t) /\ Len(s) \in Nat /\ Len(t) \in Nat
    OBVIOUS
  <1> QED
    BY <1>1, <1>2, <1>3, <1>4, <1>5

LEMMA ConcatAssoc ==
    ASSUME NEW T, NEW s \in Seq(T), NEW t \in Seq(T), NEW u \in Seq(T)
    PROVE  (s \o t) \o u = s \o (t \o u) /\ t \o u \in Seq(T)
  OBVIOUS

(***************************************************************************)
(* The first n parts of a family of sequences, joined.                     *)
(***************************************************************************)
Upto(p, n) == FlattenSeq([i \in 1 .. n |-> p[i]])

LEMMA UptoGrows ==
    ASSUME NEW T, NEW p \in [Nat -> Seq(T)], NEW n \in Nat
    PROVE  /\ Upto(p, n) \in Seq(T) /\ Upto(p, n + 1) = Upto(p, n) \o p[n + 1]
           /\ Upto(p, 0) = <<>>
  <1> DEFINE s == [i \in 1 .. n |-> p[i]]
             t == [i \in 1 .. n + 1 |-> p[i]]
  <1>1. /\ s \in Seq(Seq(T)) /\ n = Len(s) /\ p[n + 1] \in Seq(T)
        /\ \A i \in 1 .. n : t[i] = s[i]
    OBVIOUS
  <1>2. t = Append(s, p[n + 1])
    <2>1. PICK x \in Seq(T) : x = p[n + 1]
      BY <1>1
    <2>2. t = [i \in 1 .. n + 1 |-> t[i]] /\ t[n + 1] = x
      BY <2>1
    <2>3. s \in Seq(Seq(T)) /\ n = Len(s) /\ \A i \in 1 .. n : t[i] = s[i]
      BY <1>1
    <2> HIDE DEF s, t
    <2> DEFINE r == Append(s, x)
    <2>4. r \in Seq(Seq(T)) /\ Len(r) = n + 1 /\ r[n + 1] = x /\ \A i \in 1 .. n : r[i] = s[i]
      BY <2>3
    <2> HIDE DEF r
    <2>5. r = [i \in 1 .. n + 1 |-> r[i]]
      BY <2>4
    <2>6. \A i \in 1 .. n + 1 : t[i] = r[i]
      <3>1. \A i \in 1 .. n + 1 : i = n + 1 \/ i \in 1 .. n
        OBVIOUS
      <3> QED
        BY <2>2, <2>3, <2>4, <3>1
    <2>7. t = r
      BY <2>2, <2>5, <2>6, Zenon
    <2> QED
      BY <2>1, <2>7 DEF r
  <1>3. FlattenSeq(s) \in Seq(T) /\ FlattenSeq(t) = FlattenSeq(s) \o p[n + 1]
    <2> HIDE DEF s, t
    <2> QED
      BY <1>1, <1>2, FlattenAppend
  <1>4. Upto(p, 0) = <<>>
    <2>1. [i \in 1 .. 0 |-> p[i]] = <<>>
      OBVIOUS
    <2> QED
      BY <2>1, FlattenEmpty DEF Upto
  <1> QED
    BY <1>3, <1>4 DEF Upto

\* Parts that are added follow those there were.
UptoFollows(T, p, m, n) == \E rest \in Seq(T) : Upto(p, n) = Upto(p, m) \o rest

LEMMA UptoPrefix ==
    ASSUME NEW T, NEW p \in [Nat -> Seq(T)], NEW m \in Nat, NEW n \in Nat, m <= n
    PROVE  UptoFollows(T, p, m, n)
  <1> DEFINE S == {d \in Nat : UptoFollows(T, p, m, m + d)}
  <1>1. 0 \in S
    <2>1. Upto(p, m) = Upto(p, m) \o <<>> /\ <<>> \in Seq(T)
      BY UptoGrows
    <2> QED
      <3>1. m + 0 = m
        OBVIOUS
      <3> QED
        BY <2>1, <3>1, Zenon DEF UptoFollows
  <1>2. ASSUME NEW d \in S PROVE d + 1 \in S
    <2>1. d \in Nat /\ d + 1 \in Nat /\ m + d \in Nat /\ m + (d + 1) = (m + d) + 1
      OBVIOUS
    <2>2. PICK rest \in Seq(T) : Upto(p, m + d) = Upto(p, m) \o rest
      BY DEF UptoFollows
    <2>3. PICK more \in Seq(T) : more = p[(m + d) + 1]
      <3>1. (m + d) + 1 \in Nat
        BY <2>1
      <3> QED
        BY <3>1, Zenon
    <2>4. Upto(p, m + (d + 1)) = (Upto(p, m) \o rest) \o more
      <3>1. Upto(p, (m + d) + 1) = Upto(p, m + d) \o p[(m + d) + 1]
        BY <2>1, UptoGrows
      <3> QED
        BY <2>1, <2>2, <2>3, <3>1
    <2>5. (Upto(p, m) \o rest) \o more = Upto(p, m) \o (rest \o more) /\ rest \o more \in Seq(T)
      <3>1. PICK s \in Seq(T) : s = Upto(p, m)
        BY UptoGrows
      <3>2. (s \o rest) \o more = s \o (rest \o more) /\ rest \o more \in Seq(T)
        BY ConcatAssoc
      <3> QED
        BY <3>1, <3>2
    <2>6. Upto(p, m + (d + 1)) = Upto(p, m) \o (rest \o more)
      BY <2>4, <2>5, Zenon
    <2> QED
      BY <2>1, <2>5, <2>6, Zenon DEF UptoFollows
  <1>3. S = Nat
    <2>1. S \in SUBSET Nat
      OBVIOUS
    <2> HIDE DEF S
    <2> QED
      BY <1>1, <1>2, <2>1, SetInduction
  <1>4. n - m \in Nat /\ m + (n - m) = n
    OBVIOUS
  <1>5. n - m \in S
    BY <1>3, <1>4, Zenon
  <1> QED
    BY <1>4, <1>5

\* Parts that are empty add nothing.
LEMMA UptoQuiet ==
    ASSUME NEW T, NEW p \in [Nat -> Seq(T)], NEW m \in Nat, NEW n \in Nat, m <= n,
           \A i \in m + 1 .. n : p[i] = <<>>
    PROVE  Upto(p, n) = Upto(p, m)
  <1> DEFINE S == {d \in Nat : m + d <= n => Upto(p, m + d) = Upto(p, m)}
  <1>1. 0 \in S
    OBVIOUS
  <1>2. ASSUME NEW d \in S PROVE d + 1 \in S
    <2>1. d \in Nat /\ m + d \in Nat /\ m + (d + 1) = (m + d) + 1
      OBVIOUS
    <2> SUFFICES ASSUME m + (d + 1) <= n PROVE Upto(p, m + (d + 1)) = Upto(p, m)
      OBVIOUS
    <2>2. Upto(p, m + d) = Upto(p, m) /\ p[(m + d) + 1] = <<>>
      BY <2>1
    <2>3. Upto(p, m + (d + 1)) = Upto(p, m) \o <<>> /\ Upto(p, m) \in Seq(T)
      BY <2>1, <2>2, UptoGrows
    <2> QED
      BY <2>3
  <1>3. S = Nat
    <2>1. S \in SUBSET Nat
      OBVIOUS
    <2> HIDE DEF S
    <2> QED
      BY <1>1, <1>2, <2>1, SetInduction
  <1>4. n - m \in Nat /\ m + (n - m) = n
    OBVIOUS
  <1>5. n - m \in S
    BY <1>3, <1>4, Zenon
  <1> QED
    BY <1>4, <1>5
================================================================================
