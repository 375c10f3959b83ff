------------------------------ MODULE Recursions ------------------------------
(* Lemmas about recursive functions.  The least number principle is the form of *)
(* induction the provers can use.                                               *)
EXTENDS SequencesExt, SequenceTheorems, WellFoundedInduction, TLAPS

\* A set of naturals that is not empty has a least member.
LEMMA NatLeast ==
  ASSUME NEW T \in SUBSET Nat, T # {}
  PROVE  \E m \in T : \A n \in T : ~(n < m)
<1>1. IsWellFoundedOn(OpToRel(<, Nat), Nat)
  BY NatLessThanWellFounded
<1>2. PICK m \in T : \A n \in T : ~(<<n, m>> \in OpToRel(<, Nat))
  BY <1>1, WFMin
<1>3. \A n \in T : ~(n < m)
  BY <1>2 DEF OpToRel
<1>. QED BY <1>3

\* What holds of 0 and goes from n to n + 1 holds up to N.
LEMMA UpTo ==
  ASSUME NEW N \in Nat, NEW G, 0 \in G, \A n \in 1 .. N : n - 1 \in G => n \in G
  PROVE  \A n \in 0 .. N : n \in G
<1>. SUFFICES ASSUME (0 .. N) \ G # {} PROVE FALSE
  OBVIOUS
<1>1. (0 .. N) \ G \in SUBSET Nat
  OBVIOUS
<1>2. PICK m \in (0 .. N) \ G : \A n \in (0 .. N) \ G : ~(n < m)
  BY <1>1, NatLeast
<1>3. m \in 1 .. N /\ m - 1 \in 0 .. N /\ m - 1 < m
  OBVIOUS
<1>4. m - 1 \in G
  BY <1>2, <1>3
<1>. QED BY <1>3, <1>4

\* f starts with a, and F takes it from n - 1 to n.
Follows(f, N, a, F) == f[0] = a /\ \A n \in 1 .. N : f[n] = F[n][f[n - 1]]

\* There is a function for every start and every step.
LEMMA Recursion ==
  ASSUME NEW N \in Nat, NEW A, NEW a \in A, NEW F \in [1 .. N -> [A -> A]]
  PROVE  \E f \in [0 .. N -> A] : Follows(f, N, a, F)
<1>. DEFINE G == {n \in 0 .. N : \E f \in [0 .. n -> A] :
                    f[0] = a /\ \A i \in 1 .. n : f[i] = F[i][f[i - 1]]}
<1>1. 0 \in G
  <2>. DEFINE f == [n \in 0 .. 0 |-> a]
  <2>1. f \in [0 .. 0 -> A] /\ f[0] = a /\ \A i \in 1 .. 0 : f[i] = F[i][f[i - 1]]
    OBVIOUS
  <2>2. 0 \in 0 .. N
    OBVIOUS
  <2>. HIDE DEF f
  <2>. QED BY <2>1, <2>2
<1>2. ASSUME NEW n \in 1 .. N, n - 1 \in G PROVE n \in G
  <2>1. PICK f \in [0 .. n - 1 -> A] :
          f[0] = a /\ \A i \in 1 .. n - 1 : f[i] = F[i][f[i - 1]]
    BY <1>2
  <2>. DEFINE g == [i \in 0 .. n |-> IF i = n THEN F[n][f[n - 1]] ELSE f[i]]
  <2>2. F[n][f[n - 1]] \in A
    <3>1. n \in 1 .. N /\ n - 1 \in 0 .. n - 1
      OBVIOUS
    <3>. QED BY <3>1
  <2>3. g \in [0 .. n -> A]
    BY <2>2
  <2>4. g[0] = a
    <3>1. 0 \in 0 .. n /\ 0 # n
      OBVIOUS
    <3>. QED BY <2>1, <3>1
  <2>5. \A i \in 1 .. n : g[i] = F[i][g[i - 1]]
    <3>. SUFFICES ASSUME NEW i \in 1 .. n PROVE g[i] = F[i][g[i - 1]]
      OBVIOUS
    <3>1. g[i - 1] = f[i - 1]
      OBVIOUS
    <3>2. CASE i = n
      BY <3>1, <3>2
    <3>3. CASE i # n
      <4>1. i \in 1 .. n - 1 /\ g[i] = f[i]
        BY <3>3
      <4>. QED BY <2>1, <3>1, <4>1
    <3>. QED BY <3>2, <3>3
  <2>6. n \in 0 .. N
    OBVIOUS
  <2>. HIDE DEF g
  <2>. QED BY <2>3, <2>4, <2>5, <2>6
<1>3. N \in G
  <2>. HIDE DEF G
  <2>1. \A n \in 0 .. N : n \in G
    BY <1>1, <1>2, UpTo
  <2>2. N \in 0 .. N
    OBVIOUS
  <2>. QED BY <2>1, <2>2
<1>. QED BY <1>3 DEF Follows

-----------------------------------------------------------------------------
(* FlattenSeq.                                                                 *)

\* What FlattenSeq computes: one sequence after the other is appended.
LEMMA Flattening ==
  ASSUME NEW B, NEW n \in Nat, NEW s \in [1 .. n -> Seq(B)]
  PROVE  \E f \in [0 .. n -> Seq(B)] :
           /\ f[0] = <<>> /\ \A i \in 1 .. n : f[i] = f[i - 1] \o s[i]
           /\ FlattenSeq(s) = f[n]
<1>. DEFINE F == [i \in 1 .. n |-> [a \in Seq(B) |-> a \o s[i]]]
            up(g) == [i \in 1 .. Len(s) |-> IF i = 1 THEN s[i] ELSE g[i - 1] \o s[i]]
<1>1. <<>> \in Seq(B) /\ F \in [1 .. n -> [Seq(B) -> Seq(B)]]
  OBVIOUS
<1>2. Len(s) = n
  OBVIOUS
<1>3. PICK f \in [0 .. n -> Seq(B)] : Follows(f, n, <<>>, F)
  <2>. HIDE DEF F
  <2>. QED BY <1>1, Recursion
<1>4. f[0] = <<>> /\ \A i \in 1 .. n : f[i] = f[i - 1] \o s[i]
  <2>1. ASSUME NEW i \in 1 .. n PROVE f[i] = f[i - 1] \o s[i]
    <3>1. i - 1 \in 0 .. n
      OBVIOUS
    <3>2. F[i][f[i - 1]] = f[i - 1] \o s[i]
      BY <3>1
    <3>. QED BY <1>3, <3>2 DEF Follows
  <2>. QED BY <1>3, <2>1 DEF Follows
<1>5. CASE n = 0
  <2>1. FlattenSeq(s) = s /\ s = <<>>
    BY <1>2, <1>5 DEF FlattenSeq
  <2>. QED BY <1>4, <1>5, <2>1
<1>6. CASE n # 0
  <2>. DEFINE h == [i \in 1 .. n |-> f[i]]
              g == CHOOSE e : e = up(e)
  <2>1. h = up(h)
    <3>1. ASSUME NEW i \in 1 .. n PROVE h[i] = IF i = 1 THEN s[i] ELSE h[i - 1] \o s[i]
      <4>1. CASE i = 1
        <5>1. 1 - 1 = 0 /\ 1 \in 1 .. n /\ s[1] \in Seq(B)
          BY <4>1
        <5>2. f[1] = <<>> \o s[1]
          BY <1>4, <5>1
        <5>. QED BY <4>1, <5>1, <5>2
      <4>2. CASE i # 1
        <5>1. i - 1 \in 1 .. n
          BY <4>2
        <5>. QED BY <1>4, <4>2, <5>1
      <4>. QED BY <4>1, <4>2
    <3>. QED BY <1>2, <3>1
  <2>2. g = up(g)
    <3>. HIDE DEF up, h
    <3>. QED BY <2>1
  <2>3. FlattenSeq(s) = g[n]
    <3>. HIDE DEF h
    <3>. QED BY <1>2, <1>6 DEF FlattenSeq
  <2>. HIDE DEF g
  <2>4. \A i \in 1 .. n : g[i] = IF i = 1 THEN s[i] ELSE g[i - 1] \o s[i]
    BY <1>2, <2>2
  <2>. DEFINE G == {i \in 0 .. n : i = 0 \/ g[i] = f[i]}
  <2>5. 0 \in G
    OBVIOUS
  <2>6. ASSUME NEW i \in 1 .. n, i - 1 \in G PROVE i \in G
    <3>1. CASE i = 1
      <4>1. 1 - 1 = 0 /\ 1 \in 1 .. n /\ s[1] \in Seq(B)
        BY <3>1
      <4>2. f[1] = <<>> \o s[1]
        BY <1>4, <4>1
      <4>3. g[1] = s[1]
        BY <2>4, <4>1
      <4>. QED BY <3>1, <4>1, <4>2, <4>3
    <3>2. CASE i # 1
      <4>1. i - 1 # 0 /\ i \in 0 .. n /\ g[i - 1] = f[i - 1]
        BY <2>6, <3>2
      <4>2. f[i] = f[i - 1] \o s[i] /\ g[i] = g[i - 1] \o s[i]
        BY <1>4, <2>4, <3>2
      <4>. QED BY <4>1, <4>2
    <3>. QED BY <3>1, <3>2
  <2>7. n \in G
    <3>. HIDE DEF G
    <3>1. \A i \in 0 .. n : i \in G
      BY <2>5, <2>6, UpTo
    <3>. QED BY <3>1
  <2>. QED BY <1>4, <1>6, <2>3, <2>7
<1>. QED BY <1>5, <1>6

\* Without its last sequence.
LEMMA FlattenLast ==
  ASSUME NEW B, NEW n \in Nat \ {0}, NEW s \in [1 .. n -> Seq(B)]
  PROVE  FlattenSeq(s) = FlattenSeq([i \in 1 .. n - 1 |-> s[i]]) \o s[n]
<1>. DEFINE r == [i \in 1 .. n - 1 |-> s[i]]
<1>1. n - 1 \in Nat /\ r \in [1 .. n - 1 -> Seq(B)]
  OBVIOUS
<1>2. PICK f \in [0 .. n -> Seq(B)] :
        /\ f[0] = <<>> /\ \A i \in 1 .. n : f[i] = f[i - 1] \o s[i]
        /\ FlattenSeq(s) = f[n]
  BY Flattening
<1>3. PICK g \in [0 .. n - 1 -> Seq(B)] :
        /\ g[0] = <<>> /\ \A i \in 1 .. n - 1 : g[i] = g[i - 1] \o r[i]
        /\ FlattenSeq(r) = g[n - 1]
  <2>. HIDE DEF r
  <2>. DEFINE k == n - 1
  <2>1. k \in Nat /\ r \in [1 .. k -> Seq(B)]
    BY <1>1
  <2>. HIDE DEF k
  <2>2. \E g \in [0 .. k -> Seq(B)] :
          /\ g[0] = <<>> /\ \A i \in 1 .. k : g[i] = g[i - 1] \o r[i]
          /\ FlattenSeq(r) = g[k]
    BY <2>1, Flattening
  <2>. QED BY <2>2 DEF k
<1>. DEFINE G == {i \in 0 .. n - 1 : g[i] = f[i]}
<1>4. 0 \in G
  BY <1>2, <1>3
<1>5. ASSUME NEW i \in 1 .. n - 1, i - 1 \in G PROVE i \in G
  <2>1. i \in 0 .. n - 1 /\ i \in 1 .. n /\ r[i] = s[i] /\ g[i - 1] = f[i - 1]
    BY <1>5
  <2>2. g[i] = g[i - 1] \o r[i] /\ f[i] = f[i - 1] \o s[i]
    BY <1>2, <1>3, <2>1
  <2>. QED BY <2>1, <2>2
<1>6. n - 1 \in G
  <2>. HIDE DEF G
  <2>1. \A i \in 0 .. n - 1 : i \in G
    BY <1>1, <1>4, <1>5, UpTo
  <2>. QED BY <1>1, <2>1
<1>7. n \in 1 .. n /\ g[n - 1] = f[n - 1]
  BY <1>6
<1>8. f[n] = f[n - 1] \o s[n]
  BY <1>2, <1>7
<1>. QED
  <2>. HIDE DEF r, G
  <2>1. FlattenSeq(r) = f[n - 1]
    BY <1>3, <1>7
  <2>2. FlattenSeq(s) = FlattenSeq(r) \o s[n]
    BY <1>2, <1>8, <2>1
  <2>. QED BY <2>2 DEF r

\* Nothing gives nothing.
LEMMA FlattenNone == ASSUME NEW s, Len(s) = 0 PROVE FlattenSeq(s) = s
  BY DEF FlattenSeq
=============================================================================
