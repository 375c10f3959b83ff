------------------------ MODULE ModemQueriesProofs -------------------------
(* Theorems about ModemQueries, for every modem, every answer it may give, and *)
(* any requests.                                                               *)
EXTENDS ModemQueries, Recursions

(* Texts.  The symbols the answers and the commands are made of, and the others.      *)
Literals ==
  {" ", "\"", ":", ",", "/", "+", "-", "0", "1", "2", "3", "4", "5", "6", "7", "8", "9",
   "F", "IP", "IPV6", "IPV4V6"}
Names == {"+CCID", "+CRSM", "+CPIN", "+COPS", "+CCLK", "+CGPADDR", "+CPSMS", "+CEDRXS"}
Symbols == (STRING \cup Literals) \cup Names
Texts == Seq(Symbols)

LEMMA Wider == ASSUME NEW A, NEW B, NEW C, NEW s \in Seq(A) PROVE s \in Seq((A \cup B) \cup C)
OBVIOUS

LEMMA TextIs == ASSUME NEW s \in Text PROVE s \in Texts
BY Wider, Zenon DEF Text, Texts, Symbols

LEMMA SymbolsAre == Literals \subseteq Symbols /\ Names \subseteq Symbols
BY DEF Symbols

LEMMA LeastIs ==
  ASSUME NEW T \in SUBSET Nat, T # {}
  PROVE  Min(T) \in T /\ \A n \in T : Min(T) <= n
<1>1. PICK m \in T : \A n \in T : ~(n < m)
  BY NatLeast
<1>2. \A n \in T : m <= n
  BY <1>1
<1>. QED BY <1>2 DEF Min

\* The least of a set is known by what it is.
LEMMA LeastOf ==
  ASSUME NEW T \in SUBSET Nat, NEW m \in T, \A n \in T : m <= n
  PROVE  Min(T) = m
<1>1. Min(T) \in T /\ \A n \in T : Min(T) <= n
  BY LeastIs
<1>2. Min(T) \in Nat /\ m \in Nat /\ Min(T) <= m /\ m <= Min(T)
  BY <1>1
<1>. QED BY <1>2

-----------------------------------------------------------------------------
(* Where a symbol is.                                                          *)

\* Before its first c a text lacks c.
LEMMA FirstAt ==
  ASSUME NEW s \in Texts, NEW c \in Symbols, NEW k \in 1 .. Len(s), s[k] = c, \A i \in 1 .. k - 1 : s[i] # c
  PROVE  FirstOf(s, c) = k
<1>. DEFINE T == {i \in 1 .. Len(s) : s[i] = c} \cup {Len(s) + 1}
<1>1. Len(s) \in Nat
  BY DEF Texts
<1>2. T \in SUBSET Nat /\ k \in T
  BY <1>1
<1>3. \A n \in T : k <= n
  BY <1>1
<1>4. Min(T) = k
  <2>. HIDE DEF T
  <2>. QED BY <1>2, <1>3, LeastOf
<1>. QED BY <1>4 DEF FirstOf

LEMMA FirstNowhere ==
  ASSUME NEW s \in Texts, NEW c \in Symbols, Lacks(s, c)
  PROVE  FirstOf(s, c) = Len(s) + 1
<1>1. Len(s) \in Nat
  BY DEF Texts
<1>2. {i \in 1 .. Len(s) : s[i] = c} \cup {Len(s) + 1} = {Len(s) + 1}
  BY DEF Lacks
<1>3. Min({Len(s) + 1}) = Len(s) + 1
  BY <1>1, LeastOf
<1>. QED BY <1>2, <1>3 DEF FirstOf

\* Texts put together.
LEMMA Joined ==
  ASSUME NEW a \in Texts, NEW b \in Texts
  PROVE  /\ a \o b \in Texts /\ Len(a \o b) = Len(a) + Len(b)
         /\ Len(a) \in Nat /\ Len(b) \in Nat
         /\ \A i \in 1 .. Len(a) : (a \o b)[i] = a[i]
         /\ \A i \in 1 .. Len(b) : (a \o b)[Len(a) + i] = b[i]
<1>1. a \in Seq(Symbols) /\ b \in Seq(Symbols)
  BY DEF Texts
<1>. QED BY <1>1, ConcatProperties DEF Texts

LEMMA Single == ASSUME NEW c \in Symbols
                PROVE  <<c>> \in Texts /\ Len(<<c>>) = 1 /\ <<c>>[1] = c
BY DEF Texts

LEMMA Nothing == <<>> \in Texts /\ Len(<<>>) = 0
BY DEF Texts

\* What is before the first d and what is after it.
LEMMA CutAt ==
  ASSUME NEW a \in Texts, NEW b \in Texts, NEW d \in Symbols, Lacks(a, d)
  PROVE  LET s == a \o <<d>> \o b IN
         /\ s \in Texts /\ Len(s) = Len(a) + 1 + Len(b)
         /\ FirstOf(s, d) = Len(a) + 1
         /\ SubSeq(s, 1, FirstOf(s, d) - 1) = a
         /\ From(s, FirstOf(s, d) + 1) = b
<1>. DEFINE s == a \o <<d>> \o b
            k == Len(a) + 1
<1>0. <<d>> \in Texts /\ Len(<<d>>) = 1 /\ <<d>>[1] = d /\ 1 \in 1 .. 1
  BY Single
<1>1. /\ a \o <<d>> \in Texts /\ Len(a \o <<d>>) = k /\ Len(a) \in Nat /\ Len(b) \in Nat
      /\ \A i \in 1 .. Len(a) : (a \o <<d>>)[i] = a[i]
      /\ (a \o <<d>>)[k] = d
  <2>1. /\ a \o <<d>> \in Texts /\ Len(a \o <<d>>) = Len(a) + Len(<<d>>)
        /\ \A i \in 1 .. Len(a) : (a \o <<d>>)[i] = a[i]
        /\ \A i \in 1 .. Len(<<d>>) : (a \o <<d>>)[Len(a) + i] = <<d>>[i]
    BY <1>0, Joined
  <2>2. Len(a) \in Nat /\ Len(b) \in Nat
    BY DEF Texts
  <2>3. (a \o <<d>>)[Len(a) + 1] = d
    BY <1>0, <2>1
  <2>. QED BY <1>0, <2>1, <2>2, <2>3
<1>2. /\ s \in Texts /\ Len(s) = k + Len(b)
      /\ \A i \in 1 .. k : s[i] = (a \o <<d>>)[i]
      /\ \A i \in 1 .. Len(b) : s[k + i] = b[i]
  <2>1. /\ s \in Texts /\ Len(s) = Len(a \o <<d>>) + Len(b)
        /\ \A i \in 1 .. Len(a \o <<d>>) : s[i] = (a \o <<d>>)[i]
        /\ \A i \in 1 .. Len(b) : s[Len(a \o <<d>>) + i] = b[i]
    BY <1>1, Joined
  <2>. QED BY <1>1, <2>1
<1>3. k \in 1 .. Len(s) /\ s[k] = d /\ \A i \in 1 .. k - 1 : s[i] = a[i] /\ s[i] # d
  <2>1. k \in 1 .. k /\ k \in 1 .. k + Len(b)
    BY <1>1
  <2>2. \A i \in 1 .. k - 1 : i \in 1 .. Len(a) /\ i \in 1 .. k
    BY <1>1
  <2>3. s[k] = d
    BY <1>1, <1>2, <2>1
  <2>4. \A i \in 1 .. k - 1 : s[i] = a[i] /\ s[i] # d
    BY <1>1, <1>2, <2>2 DEF Lacks
  <2>. QED BY <1>2, <2>1, <2>3, <2>4
<1>4. FirstOf(s, d) = k
  <2>. HIDE DEF s, k
  <2>. QED BY <1>2, <1>3, FirstAt
<1>5. SubSeq(s, 1, k - 1) = a
  <2>. HIDE DEF s
  <2>1. k - 1 = Len(a) /\ Len(a) \in 0 .. Len(s)
    BY <1>1, <1>2
  <2>2. SubSeq(s, 1, Len(a)) \in Texts /\ Len(SubSeq(s, 1, Len(a))) = Len(a)
        /\ \A i \in 1 .. Len(a) : SubSeq(s, 1, Len(a))[i] = s[i]
    BY <1>2, <2>1 DEF Texts
  <2>3. \A i \in 1 .. Len(a) : SubSeq(s, 1, Len(a))[i] = a[i]
    BY <1>3, <2>1, <2>2
  <2>. QED BY <2>1, <2>2, <2>3, SeqEqual DEF Texts
<1>6. From(s, k + 1) = b
  <2>. DEFINE r == SubSeq(s, k + 1, Len(s))
  <2>1. r \in Texts /\ Len(r) = Len(b) /\ \A i \in 1 .. Len(b) : r[i] = s[k + i]
    <3>1. k + 1 \in 1 .. Len(s) + 1 /\ Len(s) \in Nat /\ Len(s) - (k + 1) + 1 = Len(b)
      BY <1>1, <1>2
    <3>. HIDE DEF s, k
    <3>2. s \in Seq(Symbols) /\ k \in Nat
      BY <1>1, <1>2 DEF Texts
    <3>3. r \in Seq(Symbols) /\ Len(r) = Len(b) /\ \A i \in 1 .. Len(b) : r[i] = s[k + 1 + i - 1]
      BY <1>1, <3>1, <3>2, SubSeqProperties
    <3>4. \A i \in 1 .. Len(b) : k + 1 + i - 1 = k + i
      BY <1>1, <3>2
    <3>. QED BY <3>3, <3>4 DEF Texts
  <2>2. \A i \in 1 .. Len(b) : r[i] = b[i]
    <3>. HIDE DEF r, s, k
    <3>. QED BY <1>2, <2>1
  <2>3. r = b
    <3>. HIDE DEF r
    <3>. QED BY <2>1, <2>2, SeqEqual DEF Texts
  <2>. QED BY <2>3 DEF From
<1>. QED BY <1>1, <1>2, <1>4, <1>5, <1>6

-----------------------------------------------------------------------------
(* Taking a symbol out.                                                        *)

\* f takes the c out of s, symbol by symbol.
TakesOut(f, s, c) ==
  /\ f \in [0 .. Len(s) -> Texts] /\ f[0] = <<>>
  /\ \A n \in 1 .. Len(s) : f[n] = IF s[n] = c THEN f[n - 1] ELSE Append(f[n - 1], s[n])

LEMMA WithoutIs ==
  ASSUME NEW s \in Texts, NEW c \in Symbols
  PROVE  \E f : TakesOut(f, s, c) /\ Without(s, c) = f[Len(s)]
<1>. DEFINE N == Len(s)
            up(g) == [n \in 0 .. Len(s) |->
                        IF n = 0 THEN <<>>
                        ELSE IF s[n] = c THEN g[n - 1] ELSE Append(g[n - 1], s[n])]
            h == CHOOSE g : g = up(g)
            F == [n \in 1 .. N |-> [a \in Texts |-> IF s[n] = c THEN a ELSE Append(a, s[n])]]
<1>1. N \in Nat /\ <<>> \in Texts /\ F \in [1 .. N -> [Texts -> Texts]]
  BY DEF Texts
<1>2. PICK f \in [0 .. N -> Texts] : Follows(f, N, <<>>, F)
  <2>. HIDE DEF F, N
  <2>. QED BY <1>1, Recursion
<1>3. f[0] = <<>> /\ \A n \in 1 .. N : f[n] = IF s[n] = c THEN f[n - 1] ELSE Append(f[n - 1], s[n])
  <2>1. \A n \in 1 .. N : f[n - 1] \in Texts
    BY <1>2
  <2>2. \A n \in 1 .. N : F[n][f[n - 1]] = IF s[n] = c THEN f[n - 1] ELSE Append(f[n - 1], s[n])
    BY <2>1
  <2>. HIDE DEF F, N
  <2>. QED BY <1>2, <2>2 DEF Follows
<1>4. f = up(f)
  <2>1. ASSUME NEW n \in 0 .. N
        PROVE  f[n] = IF n = 0 THEN <<>>
                      ELSE IF s[n] = c THEN f[n - 1] ELSE Append(f[n - 1], s[n])
    <3>1. n = 0 \/ n \in 1 .. N
      BY <1>1
    <3>2. ~(0 \in 1 .. N)
      OBVIOUS
    <3>. HIDE DEF N
    <3>. QED BY <1>3, <3>1, <3>2
  <2>2. f = [n \in 0 .. N |-> f[n]]
    <3>. HIDE DEF N
    <3>. QED BY <1>2
  <2>. HIDE DEF N, F
  <2>. QED BY <2>1, <2>2 DEF N
<1>5. h = up(h)
  <2>. HIDE DEF up
  <2>. QED BY <1>4
<1>6. Without(s, c) = h[N]
  BY DEF Without
<1>. HIDE DEF h
<1>7. h[0] = <<>> /\ \A n \in 1 .. N : h[n] = IF s[n] = c THEN h[n - 1] ELSE Append(h[n - 1], s[n])
  <2>1. \A n \in 0 .. N : h[n] = IF n = 0 THEN <<>>
                                ELSE IF s[n] = c THEN h[n - 1] ELSE Append(h[n - 1], s[n])
    BY <1>5
  <2>2. 0 \in 0 .. N /\ \A n \in 1 .. N : n \in 0 .. N /\ n # 0
    BY <1>1
  <2>. HIDE DEF N
  <2>. QED BY <2>1, <2>2
<1>8. \A n \in 0 .. N : h[n] \in Texts
  <2>. DEFINE G == {n \in 0 .. N : h[n] \in Texts}
  <2>1. 0 \in G
    BY <1>1, <1>7
  <2>2. ASSUME NEW n \in 1 .. N, n - 1 \in G PROVE n \in G
    <3>1. s[n] \in Symbols /\ h[n - 1] \in Texts
      BY <2>2 DEF Texts
    <3>2. Append(h[n - 1], s[n]) \in Texts
      <4>. DEFINE x == h[n - 1]
                  y == s[n]
      <4>1. x \in Seq(Symbols) /\ y \in Symbols
        BY <3>1 DEF Texts
      <4>. HIDE DEF x, y
      <4>2. Append(x, y) \in Seq(Symbols)
        BY <4>1, AppendProperties
      <4>. QED BY <4>2 DEF x, y, Texts
    <3>3. n \in 0 .. N
      BY <1>1
    <3>4. h[n] = IF s[n] = c THEN h[n - 1] ELSE Append(h[n - 1], s[n])
      BY <1>7
    <3>5. h[n] \in Texts
      BY <3>1, <3>2, <3>4
    <3>. QED BY <3>3, <3>5
  <2>. HIDE DEF G
  <2>3. \A n \in 0 .. N : n \in G
    BY <1>1, <2>1, <2>2, UpTo
  <2>. QED BY <2>3 DEF G
<1>9. TakesOut(h, s, c)
  <2>1. h = [n \in 0 .. N |-> h[n]]
    BY <1>5
  <2>2. h \in [0 .. N -> Texts]
    BY <1>8, <2>1
  <2>. QED BY <1>7, <2>2 DEF TakesOut
<1>. QED BY <1>6, <1>9

\* Two functions that do so are alike as far as their texts are.
LEMMA TakesOutAlike ==
  ASSUME NEW s \in Texts, NEW r \in Texts, NEW c \in Symbols, NEW f, NEW g, NEW N \in 0 .. Len(s), N <= Len(r),
         TakesOut(f, s, c), TakesOut(g, r, c), \A i \in 1 .. N : s[i] = r[i]
  PROVE  f[N] = g[N]
<1>. DEFINE G == {n \in 0 .. N : f[n] = g[n]}
<1>0. Len(s) \in Nat /\ Len(r) \in Nat /\ N \in Nat
  BY DEF Texts
<1>1. 0 \in G
  BY <1>0 DEF TakesOut
<1>2. ASSUME NEW n \in 1 .. N, n - 1 \in G PROVE n \in G
  <2>1. n \in 1 .. Len(s) /\ n \in 1 .. Len(r) /\ s[n] = r[n] /\ f[n - 1] = g[n - 1] /\ n \in 0 .. N
    BY <1>0, <1>2
  <2>2. f[n] = g[n]
    BY <2>1 DEF TakesOut
  <2>. QED BY <2>1, <2>2
<1>3. \A n \in 0 .. N : n \in G
  <2>. HIDE DEF G
  <2>. QED BY <1>0, <1>1, <1>2, UpTo
<1>. QED BY <1>0, <1>3

\* It is done to a text put together part by part.
LEMMA WithoutJoined ==
  ASSUME NEW a \in Texts, NEW b \in Texts, NEW c \in Symbols
  PROVE  /\ Without(a, c) \in Texts
         /\ Without(a \o b, c) = Without(a, c) \o Without(b, c)
<1>. DEFINE s == a \o b
            K == Len(a)
            M == Len(b)
<1>1. /\ s \in Texts /\ Len(s) = K + M /\ K \in Nat /\ M \in Nat
      /\ (\A i \in 1 .. K : s[i] = a[i]) /\ \A i \in 1 .. M : s[K + i] = b[i]
  BY Joined
<1>2. PICK f : TakesOut(f, s, c) /\ Without(s, c) = f[Len(s)]
  <2>. HIDE DEF s
  <2>. QED BY <1>1, WithoutIs
<1>3. PICK fa : TakesOut(fa, a, c) /\ Without(a, c) = fa[Len(a)]
  BY WithoutIs
<1>4. PICK fb : TakesOut(fb, b, c) /\ Without(b, c) = fb[Len(b)]
  BY WithoutIs
<1>. HIDE DEF s
<1>5. f[K] = fa[K] /\ fa[K] \in Texts
  <2>1. K \in 0 .. Len(s) /\ K <= Len(a) /\ K \in 0 .. Len(a)
    BY <1>1
  <2>2. f[K] = fa[K]
    <3>. DEFINE k == K
    <3>1. k \in 0 .. Len(s) /\ k <= Len(a) /\ \A i \in 1 .. k : s[i] = a[i]
      BY <1>1, <2>1
    <3>. HIDE DEF k
    <3>2. s \in Texts /\ a \in Texts /\ TakesOut(f, s, c) /\ TakesOut(fa, a, c)
      BY <1>1, <1>2, <1>3
    <3>3. f[k] = fa[k]
      BY <3>1, <3>2, TakesOutAlike
    <3>. QED BY <3>3 DEF k
  <2>. QED BY <1>3, <2>1, <2>2 DEF TakesOut
<1>. DEFINE G == {n \in 0 .. M : f[K + n] = fa[K] \o fb[n]}
<1>6. 0 \in G
  <2>1. fb[0] = <<>> /\ K + 0 = K
    BY <1>1, <1>4 DEF TakesOut
  <2>2. fa[K] \o <<>> = fa[K]
    BY <1>5 DEF Texts
  <2>3. f[K + 0] = fa[K] \o fb[0]
    BY <1>5, <2>1, <2>2
  <2>4. 0 \in 0 .. M
    BY <1>1
  <2>. HIDE DEF K, M
  <2>. QED BY <2>3, <2>4
<1>7. ASSUME NEW n \in 1 .. M, n - 1 \in G PROVE n \in G
  <2>1. K + n \in 1 .. Len(s) /\ K + n - 1 = K + (n - 1) /\ s[K + n] = b[n] /\ n - 1 \in 0 .. M
    BY <1>1
  <2>2. f[K + (n - 1)] = fa[K] \o fb[n - 1] /\ fb[n - 1] \in Texts /\ b[n] \in Symbols
    <3>1. f[K + (n - 1)] = fa[K] \o fb[n - 1]
      <4>. HIDE DEF K, M
      <4>. QED BY <1>7
    <3>2. fb[n - 1] \in Texts
      BY <1>4, <2>1 DEF TakesOut
    <3>3. b[n] \in Symbols
      BY ElementOfSeq DEF Texts
    <3>. QED BY <3>1, <3>2, <3>3
  <2>3. fb[n] = IF b[n] = c THEN fb[n - 1] ELSE Append(fb[n - 1], b[n])
    BY <1>4 DEF TakesOut
  <2>4. f[K + n] = IF b[n] = c THEN f[K + (n - 1)] ELSE Append(f[K + (n - 1)], b[n])
    BY <1>2, <2>1 DEF TakesOut
  <2>5. Append(fa[K] \o fb[n - 1], b[n]) = fa[K] \o Append(fb[n - 1], b[n])
    <3>. DEFINE x == fa[K]
                y == fb[n - 1]
    <3>1. x \in Seq(Symbols) /\ y \in Seq(Symbols) /\ b[n] \in Symbols /\ <<b[n]>> \in Seq(Symbols)
      BY <1>5, <2>2 DEF Texts
    <3>. HIDE DEF x, y
    <3>2. Append(x \o y, b[n]) = (x \o y) \o <<b[n]>> /\ Append(y, b[n]) = y \o <<b[n]>>
      BY <3>1, AppendIsConcat, ConcatProperties
    <3>3. \A z \in Seq(Symbols) : (x \o y) \o z = x \o (y \o z)
      BY <3>1, ConcatAssociative
    <3>4. (x \o y) \o <<b[n]>> = x \o (y \o <<b[n]>>)
      BY <3>1, <3>3
    <3>. QED BY <3>2, <3>4 DEF x, y
  <2>6. f[K + n] = fa[K] \o fb[n]
    BY <2>2, <2>3, <2>4, <2>5
  <2>7. n \in 0 .. M
    BY <1>1
  <2>. HIDE DEF K, M
  <2>. QED BY <2>6, <2>7
<1>8. \A n \in 0 .. M : n \in G
  <2>. HIDE DEF G, K, M
  <2>. QED BY <1>1, <1>6, <1>7, UpTo
<1>9. f[K + M] = fa[K] \o fb[M]
  <2>1. M \in 0 .. M
    BY <1>1
  <2>. HIDE DEF K, M
  <2>. QED BY <1>8, <2>1
<1>. QED BY <1>1, <1>2, <1>3, <1>4, <1>5, <1>9 DEF s

LEMMA WithoutNothing == ASSUME NEW c \in Symbols PROVE Without(<<>>, c) = <<>>
<1>1. PICK f : TakesOut(f, <<>>, c) /\ Without(<<>>, c) = f[Len(<<>>)]
  BY Nothing, WithoutIs
<1>. QED BY <1>1, Nothing DEF TakesOut

LEMMA WithoutOne ==
  ASSUME NEW d \in Symbols, NEW c \in Symbols
  PROVE  Without(<<d>>, c) = IF d = c THEN <<>> ELSE <<d>>
<1>1. <<d>> \in Texts /\ Len(<<d>>) = 1 /\ <<d>>[1] = d
  BY Single
<1>2. PICK f : TakesOut(f, <<d>>, c) /\ Without(<<d>>, c) = f[1]
  BY <1>1, WithoutIs
<1>3. 1 \in 1 .. 1 /\ 1 - 1 = 0
  OBVIOUS
<1>4. f[0] = <<>> /\ f[1] = IF d = c THEN f[0] ELSE Append(f[0], d)
  BY <1>1, <1>2, <1>3 DEF TakesOut
<1>. QED BY <1>2, <1>4

\* A text that lacks c stays as it is.
LEMMA WithoutSame ==
  ASSUME NEW s \in Texts, NEW c \in Symbols, Lacks(s, c)
  PROVE  Without(s, c) = s
<1>1. PICK f : TakesOut(f, s, c) /\ Without(s, c) = f[Len(s)]
  BY WithoutIs
<1>. DEFINE G == {n \in 0 .. Len(s) : Len(f[n]) = n /\ \A i \in 1 .. n : f[n][i] = s[i]}
<1>2. Len(s) \in Nat /\ \A i \in 1 .. Len(s) : s[i] \in Symbols /\ s[i] # c
  BY DEF Texts, Lacks
<1>3. 0 \in G
  BY <1>1, <1>2, Nothing DEF TakesOut
<1>4. ASSUME NEW n \in 1 .. Len(s), n - 1 \in G PROVE n \in G
  <2>1. f[n] = Append(f[n - 1], s[n]) /\ f[n - 1] \in Seq(Symbols) /\ s[n] \in Symbols
    <3>1. n - 1 \in 0 .. Len(s)
      BY <1>2
    <3>2. f[n - 1] \in Texts
      BY <1>1, <3>1 DEF TakesOut
    <3>. QED BY <1>1, <1>2, <3>2 DEF TakesOut, Texts
  <2>2. Len(f[n - 1]) = n - 1 /\ \A i \in 1 .. n - 1 : f[n - 1][i] = s[i]
    BY <1>4
  <2>3. Len(f[n]) = n - 1 + 1 /\ (\A i \in 1 .. n - 1 : f[n][i] = s[i]) /\ f[n][n - 1 + 1] = s[n]
    BY <2>1, <2>2, AppendProperties
  <2>4. n - 1 + 1 = n /\ \A i \in 1 .. n : i = n \/ i \in 1 .. n - 1
    BY <1>2
  <2>5. Len(f[n]) = n /\ \A i \in 1 .. n : f[n][i] = s[i]
    BY <2>3, <2>4
  <2>. QED BY <2>5
<1>5. \A n \in 0 .. Len(s) : n \in G
  <2>. HIDE DEF G
  <2>. QED BY <1>2, <1>3, <1>4, UpTo
<1>6. Len(s) \in 0 .. Len(s)
  BY <1>2
<1>7. Len(f[Len(s)]) = Len(s) /\ (\A i \in 1 .. Len(s) : f[Len(s)][i] = s[i]) /\ f[Len(s)] \in Texts
  BY <1>1, <1>5, <1>6 DEF TakesOut
<1>8. f[Len(s)] = s
  BY <1>7, SeqEqual DEF Texts
<1>. QED BY <1>1, <1>8

\* What is left has no c, nothing new, and is no longer.
LEMMA WithoutLacks ==
  ASSUME NEW s \in Texts, NEW c \in Symbols
  PROVE  /\ Without(s, c) \in Texts /\ Lacks(Without(s, c), c) /\ Len(Without(s, c)) <= Len(s)
         /\ \A d \in Symbols : Lacks(s, d) => Lacks(Without(s, c), d)
<1>1. PICK f : TakesOut(f, s, c) /\ Without(s, c) = f[Len(s)]
  BY WithoutIs
<1>. DEFINE G == {n \in 0 .. Len(s) : /\ Len(f[n]) <= n
                                      /\ \A i \in 1 .. Len(f[n]) :
                                           f[n][i] # c /\ \E j \in 1 .. Len(s) : f[n][i] = s[j]}
<1>2. Len(s) \in Nat /\ \A i \in 1 .. Len(s) : s[i] \in Symbols
  BY DEF Texts
<1>3. 0 \in G
  BY <1>1, <1>2, Nothing DEF TakesOut
<1>4. ASSUME NEW n \in 1 .. Len(s), n - 1 \in G PROVE n \in G
  <2>1. f[n - 1] \in Seq(Symbols) /\ s[n] \in Symbols /\ Len(f[n - 1]) \in Nat
    <3>1. n - 1 \in 0 .. Len(s)
      BY <1>2
    <3>2. f[n - 1] \in Texts
      BY <1>1, <3>1 DEF TakesOut
    <3>. QED BY <1>2, <3>2 DEF Texts
  <2>2. CASE s[n] = c
    <3>1. f[n] = f[n - 1]
      BY <1>1, <2>2 DEF TakesOut
    <3>2. Len(f[n - 1]) <= n - 1
      BY <1>4
    <3>3. Len(f[n]) <= n
      BY <1>2, <2>1, <3>1, <3>2
    <3>. QED BY <1>4, <3>1, <3>3
  <2>3. CASE s[n] # c
    <3>1. f[n] = Append(f[n - 1], s[n])
      BY <1>1, <2>3 DEF TakesOut
    <3>2. /\ Len(f[n]) = Len(f[n - 1]) + 1 /\ f[n][Len(f[n - 1]) + 1] = s[n]
          /\ \A i \in 1 .. Len(f[n - 1]) : f[n][i] = f[n - 1][i]
      BY <2>1, <3>1, AppendProperties
    <3>3. Len(f[n - 1]) <= n - 1
      BY <1>4
    <3>4. Len(f[n]) <= n
      BY <1>2, <2>1, <3>2, <3>3
    <3>5. \A i \in 1 .. Len(f[n]) : i = Len(f[n - 1]) + 1 \/ i \in 1 .. Len(f[n - 1])
      BY <2>1, <3>2
    <3>6. \A i \in 1 .. Len(f[n]) : f[n][i] # c /\ \E j \in 1 .. Len(s) : f[n][i] = s[j]
      BY <1>4, <2>3, <3>2, <3>5
    <3>. QED BY <3>4, <3>6
  <2>. QED BY <2>2, <2>3
<1>5. \A n \in 0 .. Len(s) : n \in G
  <2>. HIDE DEF G
  <2>. QED BY <1>2, <1>3, <1>4, UpTo
<1>6. Len(s) \in 0 .. Len(s)
  BY <1>2
<1>7. f[Len(s)] \in Texts
  BY <1>1, <1>6 DEF TakesOut
<1>. DEFINE w == f[Len(s)]
<1>8. /\ Len(w) <= Len(s)
      /\ \A i \in 1 .. Len(w) : w[i] # c /\ \E j \in 1 .. Len(s) : w[i] = s[j]
  BY <1>5, <1>6
<1>. HIDE DEF w
<1>9. Lacks(w, c) /\ \A d \in Symbols : Lacks(s, d) => Lacks(w, d)
  BY <1>8 DEF Lacks
<1>. QED BY <1>1, <1>7, <1>8, <1>9 DEF w

\* (The provers take two texts put together for one value.)
Cat(a, b) == a \o b

-----------------------------------------------------------------------------
(* Texts put together with a symbol between them, and their tokens.            *)

LEMMA Between ==
  ASSUME NEW a \in Texts, NEW b \in Texts, NEW d \in Symbols
  PROVE  /\ a \o <<d>> \o b \in Texts /\ Len(a \o <<d>> \o b) = Len(a) + 1 + Len(b)
         /\ Len(a) \in Nat /\ Len(b) \in Nat
<1>1. <<d>> \in Texts /\ Len(<<d>>) = 1
  BY Single
<1>2. a \o <<d>> \in Texts /\ Len(a \o <<d>>) = Len(a) + 1 /\ Len(a) \in Nat
  BY <1>1, Joined
<1>3. /\ a \o <<d>> \o b \in Texts /\ Len(a \o <<d>> \o b) = Len(a \o <<d>>) + Len(b)
      /\ Len(b) \in Nat
  BY <1>2, Joined
<1>. QED BY <1>2, <1>3

LEMMA Grouped ==
  ASSUME NEW a \in Texts, NEW b \in Texts, NEW c \in Texts
  PROVE  (a \o b) \o c = a \o (b \o c)
BY ConcatAssociative DEF Texts

LEMMA Commas == "," \in Symbols /\ Quote \in Symbols /\ Space \in Symbols /\ ":" \in Symbols
BY SymbolsAre DEF Literals, Quote, Space

LEMMA CommaIs ==
  ASSUME NEW a \in Texts, NEW b \in Texts
  PROVE  Comma(a, b) \in Texts /\ Len(Comma(a, b)) = Len(a) + 1 + Len(b)
         /\ Len(a) \in Nat /\ Len(b) \in Nat
BY Commas, Between DEF Comma

LEMMA Longer == ASSUME NEW s \in Texts, Len(s) >= 1 PROVE s # <<>>
BY Nothing

\* The first token and the rest,
LEMMA FirstToken ==
  ASSUME NEW a \in Texts, NEW b \in Texts, NEW d \in Symbols, Lacks(a, d),
         Len(a) + 1 + Len(b) <= MaxString
  PROVE  ATGetSpecificNextTok(a \o <<d>> \o b, d) = [st |-> "SUCCESS", tok |-> a, s |-> b]
<1>. DEFINE s == a \o <<d>> \o b
<1>1. /\ s \in Texts /\ Len(s) = Len(a) + 1 + Len(b) /\ Len(a) \in Nat /\ Len(b) \in Nat
      /\ SubSeq(s, 1, FirstOf(s, d) - 1) = a /\ From(s, FirstOf(s, d) + 1) = b
  BY Between, CutAt
<1>2. Valid(s)
  <2>1. Len(s) >= 1 /\ Len(s) <= MaxString
    BY <1>1
  <2>. HIDE DEF s
  <2>. QED BY <1>1, <2>1, Longer DEF Valid
<1>. HIDE DEF s
<1>3. ATGetSpecificNextTok(s, d) = [st |-> "SUCCESS", tok |-> a, s |-> b]
  BY <1>1, <1>2 DEF ATGetSpecificNextTok
<1>. QED BY <1>3 DEF s

\* and the last one.
LEMMA LastToken ==
  ASSUME NEW a \in Texts, NEW d \in Symbols, Lacks(a, d), a # <<>>, Len(a) <= MaxString
  PROVE  ATGetSpecificNextTok(a, d) = [st |-> "SUCCESS", tok |-> a, s |-> <<>>]
<1>1. FirstOf(a, d) = Len(a) + 1 /\ Len(a) \in Nat
  BY FirstNowhere DEF Texts
<1>2. SubSeq(a, 1, Len(a)) = a
  BY SubSeqFull DEF Texts
<1>3. From(a, Len(a) + 2) = <<>>
  BY <1>1 DEF From, Texts
<1>4. SubSeq(a, 1, FirstOf(a, d) - 1) = a /\ From(a, FirstOf(a, d) + 1) = <<>>
  <2>1. Len(a) + 1 - 1 = Len(a) /\ Len(a) + 1 + 1 = Len(a) + 2
    BY <1>1
  <2>. QED BY <1>1, <1>2, <1>3, <2>1
<1>. QED BY <1>4 DEF ATGetSpecificNextTok, Valid

LEMMA NoToken == ASSUME NEW d \in Symbols
                 PROVE  ATGetSpecificNextTok(<<>>, d) = [st |-> "BAD_PARAMETER", tok |-> <<>>, s |-> <<>>]
BY DEF ATGetSpecificNextTok, Valid

-----------------------------------------------------------------------------
(* What is taken out of such texts.                                            *)

LEMMA CatIs == ASSUME NEW a \in Texts, NEW b \in Texts PROVE Cat(a, b) \in Texts
BY Joined DEF Cat

LEMMA WithoutCat ==
  ASSUME NEW a \in Texts, NEW b \in Texts, NEW c \in Symbols
  PROVE  Without(Cat(a, b), c) = Cat(Without(a, c), Without(b, c))
BY WithoutJoined DEF Cat

LEMMA WithoutComma ==
  ASSUME NEW a \in Texts, NEW b \in Texts, NEW c \in Symbols, c # ","
  PROVE  Without(Comma(a, b), c) = Comma(Without(a, c), Without(b, c))
<1>. DEFINE q == <<",">>
<1>1. q \in Texts /\ Without(q, c) = q
  BY Commas, Single, WithoutOne
<1>2. \A s, t : Comma(s, t) = Cat(Cat(s, q), t)
  BY DEF Comma, Cat
<1>. HIDE DEF q
<1>3. Cat(a, q) \in Texts
  BY <1>1, CatIs
<1>4. Without(Cat(Cat(a, q), b), c) = Cat(Cat(Without(a, c), Without(q, c)), Without(b, c))
  <2>1. Without(Cat(a, q), c) = Cat(Without(a, c), Without(q, c))
    BY <1>1, WithoutCat
  <2>2. Without(Cat(Cat(a, q), b), c) = Cat(Without(Cat(a, q), c), Without(b, c))
    BY <1>3, WithoutCat
  <2>. QED BY <2>1, <2>2
<1>. QED BY <1>1, <1>2, <1>4

LEMMA WithoutLeading ==
  ASSUME NEW a \in Texts, NEW c \in Symbols
  PROVE  Without(<<c>> \o a, c) = Without(a, c) /\ <<c>> \o a \in Texts /\ Len(<<c>> \o a) = 1 + Len(a)
<1>. DEFINE q == <<c>>
            w == Without(a, c)
<1>1. q \in Texts /\ Without(q, c) = <<>> /\ Len(q) = 1
  BY Single, WithoutOne
<1>. HIDE DEF q
<1>2. w \in Texts
  BY WithoutLacks
<1>5. Without(q \o a, c) = Without(q, c) \o w
  BY <1>1, WithoutJoined
<1>. HIDE DEF w
<1>3. <<>> \o w = w
  BY <1>2 DEF Texts
<1>4. q \o a \in Texts /\ Len(q \o a) = Len(q) + Len(a)
  BY <1>1, Joined
<1>. QED BY <1>1, <1>3, <1>4, <1>5 DEF q, w

\* A text in quotes, and without them.
LEMMA QuotedIs ==
  ASSUME NEW a \in Texts
  PROVE  /\ Quoted(a) \in Texts /\ Len(Quoted(a)) = Len(a) + 2 /\ Len(a) \in Nat
         /\ Without(Quoted(a), Quote) = Without(a, Quote)
         /\ \A d \in Symbols : d # Quote /\ Lacks(a, d) => Lacks(Quoted(a), d)
<1>. DEFINE q == <<Quote>>
<1>1. q \in Texts /\ Len(q) = 1 /\ Without(q, Quote) = <<>> /\ q[1] = Quote
  BY Commas, Single, WithoutOne
<1>. HIDE DEF q
<1>2. /\ q \o a \in Texts /\ Len(q \o a) = 1 + Len(a) /\ Len(a) \in Nat
      /\ (q \o a)[1] = Quote /\ \A i \in 1 .. Len(a) : (q \o a)[1 + i] = a[i]
  <2>1. 1 \in 1 .. 1
    OBVIOUS
  <2>2. /\ q \o a \in Texts /\ Len(q \o a) = Len(q) + Len(a) /\ Len(a) \in Nat
        /\ \A i \in 1 .. Len(q) : (q \o a)[i] = q[i]
        /\ \A i \in 1 .. Len(a) : (q \o a)[Len(q) + i] = a[i]
    BY <1>1, Joined
  <2>. QED BY <1>1, <2>1, <2>2
<1>3. /\ (q \o a) \o q \in Texts /\ Len((q \o a) \o q) = 1 + Len(a) + 1
      /\ \A i \in 1 .. 1 + Len(a) : ((q \o a) \o q)[i] = (q \o a)[i]
      /\ ((q \o a) \o q)[1 + Len(a) + 1] = Quote
  <2>. DEFINE b == q \o a
  <2>1. b \in Texts /\ Len(b) = 1 + Len(a)
    BY <1>2
  <2>. HIDE DEF b
  <2>2. /\ b \o q \in Texts /\ Len(b \o q) = Len(b) + Len(q)
        /\ \A i \in 1 .. Len(b) : (b \o q)[i] = b[i]
        /\ \A i \in 1 .. Len(q) : (b \o q)[Len(b) + i] = q[i]
    BY <1>1, <2>1, Joined
  <2>3. 1 \in 1 .. 1
    OBVIOUS
  <2>. QED BY <1>1, <2>1, <2>2, <2>3 DEF b
<1>4. Without((q \o a) \o q, Quote) = Without(a, Quote)
  <2>. DEFINE w == Without(a, Quote)
              qa == Cat(q, a)
  <2>1. qa \in Texts /\ w \in Texts /\ Quote \in Symbols
    BY <1>1, CatIs, Commas, WithoutLacks
  <2>2. Without(qa, Quote) = Cat(Without(q, Quote), w)
    BY <1>1, <2>1, WithoutCat
  <2>. HIDE DEF w, qa
  <2>3. Without(Cat(qa, q), Quote) = Cat(Without(qa, Quote), Without(q, Quote))
    BY <1>1, <2>1, WithoutCat
  <2>4. Cat(Cat(<<>>, w), <<>>) = w
    BY <2>1 DEF Cat, Texts
  <2>5. Without(Cat(qa, q), Quote) = w
    BY <1>1, <2>2, <2>3, <2>4
  <2>. QED BY <2>5 DEF w, qa, Cat
<1>5. ASSUME NEW d \in Symbols, d # Quote, Lacks(a, d) PROVE Lacks((q \o a) \o q, d)
  <2>. DEFINE r == (q \o a) \o q
  <2>1. ASSUME NEW i \in 1 .. Len(a) + 2 PROVE r[i] # d
    <3>1. CASE i = 1
      <4>1. 1 \in 1 .. 1 + Len(a)
        BY <1>2
      <4>. QED BY <1>2, <1>3, <1>5, <3>1, <4>1
    <3>2. CASE i = Len(a) + 2
      <4>1. 1 + Len(a) + 1 = Len(a) + 2
        BY <1>2
      <4>. QED BY <1>3, <1>5, <3>2, <4>1
    <3>3. CASE i # 1 /\ i # Len(a) + 2
      <4>1. PICK j \in 1 .. Len(a) : i = 1 + j
        <5>1. i - 1 \in 1 .. Len(a) /\ i = 1 + (i - 1)
          BY <1>2, <3>3
        <5>. QED BY <5>1
      <4>2. i \in 1 .. 1 + Len(a)
        BY <1>2, <4>1
      <4>3. r[i] = a[j] /\ a[j] # d
        BY <1>2, <1>3, <1>5, <4>1, <4>2 DEF Lacks
      <4>. QED BY <4>3
    <3>. QED BY <3>1, <3>2, <3>3
  <2>2. Len(r) = Len(a) + 2
    BY <1>2, <1>3
  <2>. HIDE DEF r
  <2>. QED BY <2>1, <2>2 DEF Lacks, r
<1>. QED BY <1>2, <1>3, <1>4, <1>5 DEF Quoted, q

\* The end of a text in quotes and all.
LEMMA LacksJoined ==
  ASSUME NEW a \in Texts, NEW b \in Texts, NEW d \in Symbols, Lacks(a, d), Lacks(b, d)
  PROVE  Lacks(a \o b, d)
<1>1. /\ Len(a \o b) = Len(a) + Len(b) /\ Len(a) \in Nat /\ Len(b) \in Nat
      /\ \A i \in 1 .. Len(a) : (a \o b)[i] = a[i]
      /\ \A i \in 1 .. Len(b) : (a \o b)[Len(a) + i] = b[i]
  BY Joined
<1>2. ASSUME NEW i \in 1 .. Len(a) + Len(b) PROVE (a \o b)[i] # d
  <2>1. CASE i \in 1 .. Len(a)
    BY <1>1, <2>1 DEF Lacks
  <2>2. CASE i \notin 1 .. Len(a)
    <3>1. PICK j \in 1 .. Len(b) : i = Len(a) + j
      <4>1. i - Len(a) \in 1 .. Len(b) /\ i = Len(a) + (i - Len(a))
        BY <1>1, <2>2
      <4>. QED BY <4>1
    <3>. QED BY <1>1, <3>1 DEF Lacks
  <2>. QED BY <2>1, <2>2
<1>. QED BY <1>1, <1>2 DEF Lacks

-----------------------------------------------------------------------------
(* The prefix of an answer.                                                    *)

LEMMA Pair == ASSUME NEW a \in Symbols, NEW b \in Symbols PROVE <<a>> \o <<b>> = <<a, b>>
<1>. DEFINE x == <<a>>
            y == <<b>>
            z == <<a, b>>
<1>1. x \in Texts /\ y \in Texts /\ Len(x) = 1 /\ Len(y) = 1 /\ x[1] = a /\ y[1] = b
  BY Single
<1>2. z \in Seq(Symbols) /\ Len(z) = 2 /\ z[1] = a /\ z[2] = b
  OBVIOUS
<1>. HIDE DEF x, y, z
<1>3. /\ x \o y \in Texts /\ Len(x \o y) = Len(x) + Len(y)
      /\ \A i \in 1 .. Len(x) : (x \o y)[i] = x[i]
      /\ \A i \in 1 .. Len(y) : (x \o y)[Len(x) + i] = y[i]
  BY <1>1, Joined
<1>4. 1 \in 1 .. 1 /\ 1 + 1 = 2 /\ \A i \in 1 .. 2 : i = 1 \/ i = 2
  OBVIOUS
<1>5. Len(x \o y) = 2 /\ (x \o y)[1] = a /\ (x \o y)[2] = b
  BY <1>1, <1>3, <1>4
<1>. DEFINE w == x \o y
<1>6. w \in Seq(Symbols) /\ Len(w) = Len(z) /\ \A i \in 1 .. Len(w) : w[i] = z[i]
  BY <1>2, <1>3, <1>4, <1>5 DEF Texts
<1>. HIDE DEF w
<1>7. w = z
  BY <1>2, <1>6, SeqEqual
<1>. QED BY <1>7 DEF w, x, y, z

LEMMA Triple ==
  ASSUME NEW a \in Symbols, NEW b \in Symbols, NEW c \in Symbols
  PROVE  <<a, b>> \o <<c>> = <<a, b, c>>
<1>. DEFINE x == <<a, b>>
            y == <<c>>
            z == <<a, b, c>>
<1>1. x \in Texts /\ y \in Texts /\ Len(x) = 2 /\ Len(y) = 1 /\ x[1] = a /\ x[2] = b /\ y[1] = c
  BY Single DEF Texts
<1>2. z \in Seq(Symbols) /\ Len(z) = 3 /\ z[1] = a /\ z[2] = b /\ z[3] = c
  OBVIOUS
<1>. HIDE DEF x, y, z
<1>3. /\ x \o y \in Texts /\ Len(x \o y) = Len(x) + Len(y)
      /\ \A i \in 1 .. Len(x) : (x \o y)[i] = x[i]
      /\ \A i \in 1 .. Len(y) : (x \o y)[Len(x) + i] = y[i]
  BY <1>1, Joined
<1>4. 1 \in 1 .. 1 /\ 1 \in 1 .. 2 /\ 2 \in 1 .. 2 /\ 2 + 1 = 3
      /\ \A i \in 1 .. 3 : i = 1 \/ i = 2 \/ i = 3
  OBVIOUS
<1>5. Len(x \o y) = 3 /\ (x \o y)[1] = a /\ (x \o y)[2] = b /\ (x \o y)[3] = c
  BY <1>1, <1>3, <1>4
<1>. DEFINE w == x \o y
<1>6. w \in Seq(Symbols) /\ Len(w) = Len(z) /\ \A i \in 1 .. Len(w) : w[i] = z[i]
  BY <1>2, <1>3, <1>4, <1>5 DEF Texts
<1>. HIDE DEF w
<1>7. w = z
  BY <1>2, <1>6, SeqEqual
<1>. QED BY <1>7 DEF w, x, y, z

LEMMA Three ==
  ASSUME NEW a \in Symbols, NEW b \in Symbols, NEW c \in Symbols, NEW s \in Texts
  PROVE  <<a, b, c>> \o s = <<a>> \o <<b>> \o (<<c>> \o s)
<1>1. <<a>> \in Texts /\ <<b>> \in Texts /\ <<c>> \in Texts
  BY Single
<1>2. <<a, b, c>> = (<<a>> \o <<b>>) \o <<c>>
  <2>1. <<a>> \o <<b>> = <<a, b>>
    BY Pair
  <2>2. <<a, b>> \o <<c>> = <<a, b, c>>
    BY Triple
  <2>. QED BY <2>1, <2>2
<1>3. <<a>> \o <<b>> \in Texts
  BY <1>1, Joined
<1>4. ((<<a>> \o <<b>>) \o <<c>>) \o s = (<<a>> \o <<b>>) \o (<<c>> \o s)
  BY <1>1, <1>3, Grouped
<1>. QED BY <1>2, <1>4

LEMMA PlusIs ==
  ASSUME NEW w \in Names, NEW b \in Texts
  PROVE  LET s == Plus(w) \o b IN
         /\ s \in Texts /\ Len(s) = Len(b) + 3 /\ Len(b) \in Nat
         /\ ATRemovePrefix(s) = IF Len(b) + 3 <= MaxString THEN Ok(<<Space>> \o b)
                                ELSE Fail("BAD_PARAMETER", s)
<1>. DEFINE s == Plus(w) \o b
            t == <<Space>> \o b
<1>1. w \in Symbols /\ ":" \in Symbols /\ Space \in Symbols /\ w # ":"
  BY Commas, SymbolsAre DEF Names
<1>2. <<w>> \in Texts /\ Lacks(<<w>>, ":") /\ Len(<<w>>) = 1 /\ <<Space>> \in Texts /\ Len(<<Space>>) = 1
  <2>1. <<w>> \in Texts /\ <<w>>[1] = w /\ Len(<<w>>) = 1 /\ <<Space>> \in Texts /\ Len(<<Space>>) = 1
    BY <1>1, Single
  <2>. QED BY <1>1, <2>1 DEF Lacks
<1>3. t \in Texts /\ Len(t) = 1 + Len(b) /\ Len(b) \in Nat
  BY <1>2, Joined
<1>4. s = <<w>> \o <<":">> \o t
  BY <1>1, Three DEF Plus, Space
<1>. HIDE DEF t, s
<1>5. s \in Texts /\ Len(s) = 1 + 1 + Len(t) /\ FirstOf(s, ":") = 2 /\ From(s, 2 + 1) = t
  <2>. DEFINE q == <<w>>
              d == ":"
              z == q \o <<d>> \o t
  <2>1. q \in Texts /\ d \in Symbols /\ Lacks(q, d) /\ t \in Texts /\ Len(q) = 1
    BY <1>1, <1>2, <1>3
  <2>. HIDE DEF q, d
  <2>2. /\ z \in Texts /\ Len(z) = Len(q) + 1 + Len(t) /\ FirstOf(z, d) = Len(q) + 1
        /\ From(z, FirstOf(z, d) + 1) = t
    BY <2>1, CutAt
  <2>3. s = z
    BY <1>4 DEF q, d
  <2>. HIDE DEF z
  <2>4. s \in Texts /\ Len(s) = 1 + 1 + Len(t) /\ FirstOf(s, d) = 2 /\ From(s, 2 + 1) = t
    BY <2>1, <2>2, <2>3
  <2>. QED BY <2>4 DEF d
<1>6. s \in Texts /\ Len(s) = Len(b) + 3 /\ s # <<>>
  <2>1. Len(s) = Len(b) + 3 /\ Len(s) >= 1
    BY <1>3, <1>5
  <2>. QED BY <1>5, <2>1, Longer
<1>7. ATRemovePrefix(s) = IF Len(b) + 3 <= MaxString THEN Ok(t) ELSE Fail("BAD_PARAMETER", s)
  <2>1. 2 <= Len(s)
    BY <1>3, <1>6
  <2>. QED BY <1>5, <1>6, <2>1 DEF ATRemovePrefix, OfValid, Valid
<1>. QED BY <1>3, <1>6, <1>7 DEF s, t

-----------------------------------------------------------------------------
(* Digits and numbers.                                                         *)

LEMMA NibbleIs == ASSUME NEW c PROVE CharToNibble(c) \in 0 .. 255
<1>1. CASE c \in ToSet(Hex) \cup ToSet(HexCapitals)
  <2>1. \E i \in 1 .. 16 : c \in {Hex[i], HexCapitals[i]}
    BY <1>1 DEF ToSet, Hex, HexCapitals
  <2>2. (CHOOSE i \in 1 .. 16 : c \in {Hex[i], HexCapitals[i]}) \in 1 .. 16
    BY <2>1
  <2>. QED BY <1>1, <2>2 DEF CharToNibble
<1>2. CASE c \notin ToSet(Hex) \cup ToSet(HexCapitals)
  BY <1>2 DEF CharToNibble
<1>. QED BY <1>1, <1>2

LEMMA NibbleInt == ASSUME NEW c PROVE CharToNibble(c) \in Int
<1>. DEFINE x == CharToNibble(c)
<1>1. x \in 0 .. 255
  BY NibbleIs
<1>. HIDE DEF x
<1>2. x \in Int
  BY <1>1
<1>. QED BY <1>2 DEF x

LEMMA DecimalsAre ==
  /\ Decimals[1] = "0" /\ Decimals[2] = "1" /\ Decimals[3] = "2" /\ Decimals[4] = "3"
  /\ Decimals[5] = "4" /\ Decimals[6] = "5" /\ Decimals[7] = "6" /\ Decimals[8] = "7"
  /\ Decimals[9] = "8" /\ Decimals[10] = "9"
  /\ DOMAIN Decimals = 1 .. 10
  /\ ToSet(Decimals) = {"0", "1", "2", "3", "4", "5", "6", "7", "8", "9"}
BY DEF Decimals, ToSet

LEMMA DigitOf == ASSUME NEW k \in 0 .. 9 PROVE CharToNibble(Decimals[k + 1]) = k
<1>. DEFINE c == Decimals[k + 1]
<1>1. c = Hex[k + 1] /\ k + 1 \in 1 .. 16
  BY DEF Decimals, Hex
<1>2. c \in ToSet(Hex)
  BY <1>1 DEF ToSet, Hex
<1>3. \A i \in 1 .. 16 : c \in {Hex[i], HexCapitals[i]} => i = k + 1
  BY DEF Decimals, Hex, HexCapitals
<1>. HIDE DEF c
<1>. DEFINE place == CHOOSE i \in 1 .. 16 : c \in {Hex[i], HexCapitals[i]}
<1>4. place = k + 1
  BY <1>1, <1>3
<1>5. CharToNibble(c) = place - 1
  BY <1>2 DEF CharToNibble
<1>. HIDE DEF place
<1>6. CharToNibble(c) = k
  BY <1>4, <1>5
<1>. QED BY <1>6 DEF c

LEMMA DigitsSymbols ==
  ASSUME NEW k \in 0 .. 9
  PROVE  /\ Decimals[k + 1] \in Literals
         /\ Decimals[k + 1] \notin {Space, Quote, ":", ",", "/", "+", "-", "F"}
<1>1. k \in {0, 1, 2, 3, 4, 5, 6, 7, 8, 9}
  OBVIOUS
<1>2. Decimals[k + 1] \in {"0", "1", "2", "3", "4", "5", "6", "7", "8", "9"}
  BY <1>1, DecimalsAre
<1>. QED BY <1>2 DEF Literals, Space, Quote

\* f reads the digits of s, one after the other.
Reads(f, s, base) ==
  /\ f \in [0 .. Len(s) -> Int] /\ f[0] = 0
  /\ \A n \in 1 .. Len(s) : f[n] = base * f[n - 1] + CharToNibble(s[n])

LEMMA ValueIs ==
  ASSUME NEW s \in Texts, NEW base \in Nat
  PROVE  \E f : Reads(f, s, base) /\ ValueOf(s, base) = f[Len(s)]
<1>. DEFINE N == Len(s)
            up(g) == [n \in 0 .. Len(s) |-> IF n = 0 THEN 0 ELSE base * g[n - 1] + CharToNibble(s[n])]
            h == CHOOSE g : g = up(g)
            F == [n \in 1 .. N |-> [a \in Int |-> base * a + CharToNibble(s[n])]]
<1>1. N \in Nat /\ 0 \in Int /\ F \in [1 .. N -> [Int -> Int]]
  <2>1. N \in Nat
    BY DEF Texts
  <2>2. \A n \in 1 .. N : CharToNibble(s[n]) \in Int
    BY NibbleInt, Zenon
  <2>3. \A a \in Int, x \in Int : base * a + x \in Int
    OBVIOUS
  <2>4. \A n \in 1 .. N : [a \in Int |-> base * a + CharToNibble(s[n])] \in [Int -> Int]
    BY <2>2, <2>3
  <2>5. F \in [1 .. N -> [Int -> Int]]
    BY <2>4
  <2>. HIDE DEF F
  <2>. QED BY <2>1, <2>5
<1>. HIDE DEF F
<1>2. PICK f \in [0 .. N -> Int] : Follows(f, N, 0, F)
  <2>. HIDE DEF N
  <2>. QED BY <1>1, Recursion
<1>3. f[0] = 0 /\ \A n \in 1 .. N : f[n] = base * f[n - 1] + CharToNibble(s[n])
  <2>1. \A n \in 1 .. N : f[n - 1] \in Int
    <3>1. \A n \in 1 .. N : n - 1 \in 0 .. N
      BY <1>1
    <3>. HIDE DEF N
    <3>. QED BY <1>2, <3>1
  <2>2. \A n \in 1 .. N : F[n][f[n - 1]] = base * f[n - 1] + CharToNibble(s[n])
    BY <2>1 DEF F
  <2>. HIDE DEF N
  <2>. QED BY <1>2, <2>2 DEF Follows
<1>4. f = up(f)
  <2>1. ASSUME NEW n \in 0 .. N
        PROVE  f[n] = IF n = 0 THEN 0 ELSE base * f[n - 1] + CharToNibble(s[n])
    <3>1. n = 0 \/ n \in 1 .. N
      BY <1>1
    <3>2. ~(0 \in 1 .. N)
      OBVIOUS
    <3>. HIDE DEF N
    <3>. QED BY <1>3, <3>1, <3>2
  <2>2. f = [n \in 0 .. N |-> f[n]]
    <3>. HIDE DEF N
    <3>. QED BY <1>2
  <2>. HIDE DEF N, F
  <2>. QED BY <2>1, <2>2 DEF N
<1>5. h = up(h)
  <2>. HIDE DEF up
  <2>. QED BY <1>4
<1>6. ValueOf(s, base) = h[N]
  BY DEF ValueOf
<1>. HIDE DEF h
<1>7. h[0] = 0 /\ \A n \in 1 .. N : h[n] = base * h[n - 1] + CharToNibble(s[n])
  <2>1. \A n \in 0 .. N : h[n] = IF n = 0 THEN 0 ELSE base * h[n - 1] + CharToNibble(s[n])
    BY <1>5
  <2>2. 0 \in 0 .. N /\ \A n \in 1 .. N : n \in 0 .. N /\ n # 0
    BY <1>1
  <2>. HIDE DEF N
  <2>. QED BY <2>1, <2>2
<1>8. \A n \in 0 .. N : h[n] \in Int
  <2>. DEFINE G == {n \in 0 .. N : h[n] \in Int}
  <2>1. 0 \in G
    BY <1>1, <1>7
  <2>2. ASSUME NEW n \in 1 .. N, n - 1 \in G PROVE n \in G
    <3>0. CharToNibble(s[n]) \in Int
      BY NibbleInt, Zenon
    <3>1. h[n - 1] \in Int /\ CharToNibble(s[n]) \in Int /\ n \in 0 .. N
      BY <1>1, <2>2, <3>0
    <3>2. \A a \in Int, x \in Int : base * a + x \in Int
      OBVIOUS
    <3>. HIDE DEF N
    <3>. QED BY <1>7, <3>1, <3>2
  <2>. HIDE DEF G
  <2>3. \A n \in 0 .. N : n \in G
    BY <1>1, <2>1, <2>2, UpTo
  <2>. QED BY <2>3 DEF G
<1>9. Reads(h, s, base)
  <2>1. h = [n \in 0 .. N |-> h[n]]
    BY <1>5
  <2>2. h \in [0 .. N -> Int]
    BY <1>8, <2>1
  <2>. QED BY <1>7, <2>2 DEF Reads
<1>. QED BY <1>6, <1>9

\* A digit after others.
LEMMA ValueNext ==
  ASSUME NEW s \in Texts, NEW base \in Nat
  PROVE  /\ Len(s) = 1 => ValueOf(s, base) = CharToNibble(s[1])
         /\ Len(s) = 2 => ValueOf(s, base) = base * CharToNibble(s[1]) + CharToNibble(s[2])
<1>1. PICK f : Reads(f, s, base) /\ ValueOf(s, base) = f[Len(s)]
  BY ValueIs
<1>2. base * 0 = 0 /\ \A x \in Int : 0 + x = x
  OBVIOUS
<1>3. ASSUME Len(s) >= 1 PROVE f[1] = CharToNibble(s[1])
  <2>1. 1 \in 1 .. Len(s) /\ 1 - 1 = 0 /\ Len(s) \in Nat
    BY <1>3 DEF Texts
  <2>0. CharToNibble(s[1]) \in Int
    BY NibbleInt, Zenon
  <2>2. f[1] = base * 0 + CharToNibble(s[1]) /\ CharToNibble(s[1]) \in Int
    BY <1>1, <2>0, <2>1 DEF Reads
  <2>. QED BY <1>2, <2>2
<1>4. ASSUME Len(s) = 2 PROVE f[2] = base * CharToNibble(s[1]) + CharToNibble(s[2])
  <2>1. 2 \in 1 .. Len(s) /\ 2 - 1 = 1 /\ Len(s) >= 1
    BY <1>4
  <2>. QED BY <1>1, <1>3, <2>1 DEF Reads
<1>. QED
  <2>1. 1 >= 1
    OBVIOUS
  <2>. QED BY <1>1, <1>3, <1>4, <2>1

\* A number as it is written with the digits below base.
Numeral(s, base) ==
  /\ s \in Texts /\ s # <<>>
  /\ \A i \in 1 .. Len(s) : \E k \in 0 .. base - 1 : s[i] = Decimals[k + 1]
Bases == {2, 10}

LEMMA NumeralIs ==
  ASSUME NEW base \in Bases, NEW s, Numeral(s, base)
  PROVE  /\ Len(s) \in Nat /\ Len(s) >= 1
         /\ \A i \in 1 .. Len(s) : CharToNibble(s[i]) \in 0 .. base - 1
         /\ \A d \in {Space, Quote, ":", ",", "/", "+", "-", "F"} : Lacks(s, d)
         /\ s[1] \notin {Space, "+", "-"}
<1>1. Len(s) \in Nat /\ Len(s) >= 1
  <2>1. Len(s) \in Nat
    BY DEF Numeral, Texts
  <2>2. Len(s) # 0
    BY DEF Numeral, Texts
  <2>. QED BY <2>1, <2>2
<1>2. ASSUME NEW i \in 1 .. Len(s)
      PROVE  /\ CharToNibble(s[i]) \in 0 .. base - 1
             /\ s[i] \notin {Space, Quote, ":", ",", "/", "+", "-", "F"}
  <2>1. PICK k \in 0 .. base - 1 : s[i] = Decimals[k + 1]
    BY DEF Numeral
  <2>2. k \in 0 .. 9
    BY DEF Bases
  <2>3. CharToNibble(s[i]) = k
    BY <2>1, <2>2, DigitOf
  <2>4. s[i] \notin {Space, Quote, ":", ",", "/", "+", "-", "F"}
    BY <2>1, <2>2, DigitsSymbols
  <2>. QED BY <2>3, <2>4
<1>3. ASSUME NEW d \in {Space, Quote, ":", ",", "/", "+", "-", "F"} PROVE Lacks(s, d)
  <2>1. \A i \in 1 .. Len(s) : s[i] # d
    BY <1>2
  <2>. QED BY <2>1 DEF Lacks
<1>4. s[1] \notin {Space, "+", "-"}
  <2>1. 1 \in 1 .. Len(s)
    BY <1>1
  <2>. QED BY <1>2, <2>1
<1>5. \A i \in 1 .. Len(s) : CharToNibble(s[i]) \in 0 .. base - 1
  BY <1>2
<1>. QED BY <1>1, <1>3, <1>4, <1>5

\* All of it is read.
LEMMA DigitsOfNumeral ==
  ASSUME NEW base \in Bases, NEW s, Numeral(s, base)
  PROVE  DigitsOf(s, base) = s
<1>1. Len(s) \in Nat /\ \A i \in 1 .. Len(s) : CharToNibble(s[i]) \in 0 .. base - 1
  BY NumeralIs
<1>2. \A i \in 1 .. Len(s) : ~(CharToNibble(s[i]) >= base)
  <2>1. \A x \in 0 .. base - 1 : ~(x >= base)
    BY DEF Bases
  <2>. QED BY <1>1, <2>1
<1>3. {i \in 1 .. Len(s) : CharToNibble(s[i]) >= base} \cup {Len(s) + 1} = {Len(s) + 1}
  BY <1>2
<1>4. Min({Len(s) + 1}) = Len(s) + 1
  BY <1>1, LeastOf
<1>5. Len(s) + 1 - 1 = Len(s)
  BY <1>1
<1>6. SubSeq(s, 1, Len(s)) = s
  BY SubSeqFull DEF Numeral, Texts
<1>. DEFINE T == {i \in 1 .. Len(s) : CharToNibble(s[i]) >= base} \cup {Len(s) + 1}
<1>7. Min(T) = Len(s) + 1
  BY <1>3, <1>4
<1>8. DigitsOf(s, base) = SubSeq(s, 1, Min(T) - 1)
  BY DEF DigitsOf
<1>. HIDE DEF T
<1>. QED BY <1>5, <1>6, <1>7, <1>8

\* A text without the spaces before it.
Skipped(s) == From(s, Min({i \in 1 .. Len(s) : s[i] # Space} \cup {Len(s) + 1}))

LEMMA FirstOther ==
  ASSUME NEW s \in Texts, NEW k \in 1 .. Len(s), s[k] # Space, \A i \in 1 .. k - 1 : s[i] = Space
  PROVE  Skipped(s) = From(s, k)
<1>. DEFINE T == {i \in 1 .. Len(s) : s[i] # Space} \cup {Len(s) + 1}
<1>1. Len(s) \in Nat
  BY DEF Texts
<1>2. T \in SUBSET Nat /\ k \in T
  BY <1>1
<1>3. \A n \in T : k <= n
  BY <1>1
<1>4. Min(T) = k
  <2>. HIDE DEF T
  <2>. QED BY <1>2, <1>3, LeastOf
<1>. QED BY <1>4 DEF Skipped

LEMMA Led ==
  ASSUME NEW c \in Symbols, NEW t \in Texts
  PROVE  LET s == <<c>> \o t IN
         /\ s \in Texts /\ Len(s) = 1 + Len(t) /\ s[1] = c /\ From(s, 2) = t /\ Tail(s) = t /\ s # <<>>
         /\ \A i \in 1 .. Len(t) : s[1 + i] = t[i]
<1>. DEFINE q == <<c>>
            s == q \o t
<1>1. q \in Texts /\ Len(q) = 1 /\ q[1] = c
  BY Single
<1>. HIDE DEF q
<1>2. /\ s \in Texts /\ Len(s) = Len(q) + Len(t) /\ Len(t) \in Nat
      /\ \A i \in 1 .. Len(q) : s[i] = q[i]
      /\ \A i \in 1 .. Len(t) : s[Len(q) + i] = t[i]
  BY <1>1, Joined
<1>. HIDE DEF s
<1>3. 1 \in 1 .. 1
  OBVIOUS
<1>4. Len(s) = 1 + Len(t) /\ s[1] = c /\ \A i \in 1 .. Len(t) : s[1 + i] = t[i]
  BY <1>1, <1>2, <1>3
<1>5. SubSeq(s, 2, Len(s)) = t
  <2>. DEFINE r == SubSeq(s, 2, Len(s))
  <2>1. s \in Seq(Symbols) /\ 2 \in 1 .. Len(s) + 1 /\ Len(s) \in Nat /\ Len(s) - 2 + 1 = Len(t)
    BY <1>2, <1>4 DEF Texts
  <2>2. r \in Seq(Symbols) /\ Len(r) = Len(t) /\ \A i \in 1 .. Len(t) : r[i] = s[2 + i - 1]
    BY <2>1, SubSeqProperties
  <2>3. \A i \in 1 .. Len(t) : r[i] = t[i]
    <3>1. \A i \in 1 .. Len(t) : 2 + i - 1 = 1 + i
      BY <1>2
    <3>. HIDE DEF r
    <3>. QED BY <1>4, <2>2, <3>1
  <2>. HIDE DEF r
  <2>4. r = t
    BY <2>2, <2>3, SeqEqual DEF Texts
  <2>. QED BY <2>4 DEF r
<1>6. s # <<>>
  BY <1>2, <1>4, Nothing
<1>7. Tail(s) = t
  BY <1>2, <1>5, <1>6, TailIsSubSeq DEF Texts
<1>. QED BY <1>2, <1>4, <1>5, <1>6, <1>7 DEF s, q, From

LEMMA SkippedIs ==
  ASSUME NEW t \in Texts, t # <<>>, t[1] # Space
  PROVE  Skipped(t) = t /\ Skipped(<<Space>> \o t) = t
<1>1. Len(t) \in Nat /\ 1 \in 1 .. Len(t)
  <2>1. Len(t) \in Nat /\ Len(t) # 0
    BY DEF Texts
  <2>. QED BY <2>1
<1>2. Skipped(t) = t
  <2>1. \A i \in 1 .. 1 - 1 : t[i] = Space
    OBVIOUS
  <2>2. Skipped(t) = From(t, 1)
    BY <1>1, <2>1, FirstOther
  <2>3. From(t, 1) = t
    BY SubSeqFull DEF From, Texts
  <2>. QED BY <2>2, <2>3
<1>3. Skipped(<<Space>> \o t) = t
  <2>. DEFINE s == <<Space>> \o t
  <2>1. s \in Texts /\ Len(s) = 1 + Len(t) /\ s[1] = Space /\ From(s, 2) = t /\ s[1 + 1] = t[1]
    BY <1>1, Led, Commas
  <2>. HIDE DEF s
  <2>2. 2 \in 1 .. Len(s) /\ 1 + 1 = 2 /\ \A i \in 1 .. 2 - 1 : i = 1
    BY <1>1, <2>1
  <2>3. s[2] # Space /\ \A i \in 1 .. 2 - 1 : s[i] = Space
    BY <2>1, <2>2
  <2>4. Skipped(s) = From(s, 2)
    BY <2>1, <2>2, <2>3, FirstOther
  <2>. QED BY <2>1, <2>4 DEF s
<1>. QED BY <1>2, <1>3

LEMMA StrtoiOf ==
  ASSUME NEW s, NEW base
  PROVE  ATStrtoi(s, base) =
           LET t == Skipped(s)
               signed == t # <<>> /\ t[1] \in {"+", "-"}
           IN  NumberOf(DigitsOf(IF signed THEN Tail(t) ELSE t, base),
                        IF signed /\ t[1] = "-" THEN -1 ELSE 1, base)
BY DEF ATStrtoi, Skipped
\* A number, alone, after a space, or after a sign.
LEMMA StrtoiNumeral ==
  ASSUME NEW base \in Bases, NEW s, Numeral(s, base)
  PROVE  /\ ATStrtoi(s, base) = [ok |-> TRUE, value |-> ValueOf(s, base)]
         /\ ATStrtoi(<<Space>> \o s, base) = [ok |-> TRUE, value |-> ValueOf(s, base)]
         /\ ATStrtoi(<<"+">> \o s, base) = [ok |-> TRUE, value |-> ValueOf(s, base)]
         /\ ATStrtoi(<<"-">> \o s, base) = [ok |-> TRUE, value |-> -ValueOf(s, base)]
         /\ ValueOf(s, base) \in Int
<1>1. s \in Texts /\ s # <<>> /\ s[1] \notin {Space, "+", "-"}
  BY NumeralIs DEF Numeral
<1>2. ValueOf(s, base) \in Int
  <2>1. base \in Nat /\ Len(s) \in Nat
    BY <1>1 DEF Bases, Texts
  <2>2. PICK f : Reads(f, s, base) /\ ValueOf(s, base) = f[Len(s)]
    BY <1>1, <2>1, ValueIs
  <2>3. Len(s) \in 0 .. Len(s)
    BY <2>1
  <2>. QED BY <2>2, <2>3 DEF Reads
<1>3. DigitsOf(s, base) = s
  BY DigitsOfNumeral
<1>4. NumberOf(s, 1, base) = [ok |-> TRUE, value |-> ValueOf(s, base)]
  <2>. DEFINE v == ValueOf(s, base)
  <2>1. NumberOf(s, 1, base) = [ok |-> s # <<>>, value |-> 1 * v]
    BY DEF NumberOf
  <2>2. v \in Int
    BY <1>2
  <2>. HIDE DEF v
  <2>3. 1 * v = v
    BY <2>2
  <2>. QED BY <1>1, <2>1, <2>3 DEF v
<1>5. NumberOf(s, -1, base) = [ok |-> TRUE, value |-> -ValueOf(s, base)]
  <2>. DEFINE v == ValueOf(s, base)
  <2>1. NumberOf(s, -1, base) = [ok |-> s # <<>>, value |-> (-1) * v]
    BY DEF NumberOf
  <2>2. v \in Int
    BY <1>2
  <2>. HIDE DEF v
  <2>3. (-1) * v = -v
    BY <2>2
  <2>. QED BY <1>1, <2>1, <2>3 DEF v
<1>6. ATStrtoi(s, base) = NumberOf(s, 1, base)
  <2>1. Skipped(s) = s
    BY <1>1, SkippedIs
  <2>. QED BY <1>1, <1>3, <2>1, StrtoiOf
<1>7. ATStrtoi(<<Space>> \o s, base) = NumberOf(s, 1, base)
  <2>. DEFINE z == <<Space>> \o s
  <2>1. Skipped(z) = s
    BY <1>1, SkippedIs
  <2>. HIDE DEF z
  <2>2. ATStrtoi(z, base) = NumberOf(s, 1, base)
    BY <1>1, <1>3, <2>1, StrtoiOf
  <2>. QED BY <2>2 DEF z
<1>8. ASSUME NEW c \in {"+", "-"}
      PROVE  ATStrtoi(<<c>> \o s, base) = NumberOf(s, IF c = "-" THEN -1 ELSE 1, base)
  <2>. DEFINE z == <<c>> \o s
  <2>1. c \in Symbols /\ c # Space
    BY SymbolsAre DEF Literals, Space
  <2>2. z \in Texts /\ z # <<>> /\ z[1] = c /\ Tail(z) = s
    BY <1>1, <2>1, Led
  <2>. HIDE DEF z
  <2>3. Skipped(z) = z
    BY <2>1, <2>2, SkippedIs
  <2>4. ATStrtoi(z, base) = NumberOf(DigitsOf(s, base), IF c = "-" THEN -1 ELSE 1, base)
    BY <2>2, <2>3, StrtoiOf
  <2>. QED BY <1>3, <2>4 DEF z
<1>9. ATStrtoi(<<"+">> \o s, base) = NumberOf(s, 1, base)
  BY <1>8
<1>10. ATStrtoi(<<"-">> \o s, base) = NumberOf(s, -1, base)
  BY <1>8
<1>. QED BY <1>2, <1>4, <1>5, <1>6, <1>7, <1>9, <1>10

\* Where there is no digit there is no number.
LEMMA StrtoiNothing == ASSUME NEW base PROVE ~ATStrtoi(<<>>, base).ok
<1>1. Skipped(<<>>) = <<>>
  <2>1. {i \in 1 .. Len(<<>>) : <<>>[i] # Space} \cup {Len(<<>>) + 1} = {1}
    BY Nothing
  <2>2. Min({1}) = 1
    BY LeastOf
  <2>3. From(<<>>, 1) = <<>>
    BY Nothing DEF From
  <2>. QED BY <2>1, <2>2, <2>3 DEF Skipped
<1>2. DigitsOf(<<>>, base) = <<>>
  <2>1. {i \in 1 .. Len(<<>>) : CharToNibble(<<>>[i]) >= base} \cup {Len(<<>>) + 1} = {1}
    BY Nothing
  <2>2. Min({1}) = 1
    BY LeastOf
  <2>3. SubSeq(<<>>, 1, 1 - 1) = <<>>
    OBVIOUS
  <2>. QED BY <2>1, <2>2, <2>3 DEF DigitsOf
<1>3. ATStrtoi(<<>>, base) = NumberOf(<<>>, 1, base)
  BY <1>1, <1>2, StrtoiOf
<1>4. NumberOf(<<>>, 1, base).ok = (<<>> # <<>>)
  BY DEF NumberOf
<1>. QED BY <1>3, <1>4

\* The numbers to 99.
LEMMA DecDigitsAre ==
  ASSUME NEW n \in 0 .. 99
  PROVE  /\ Numeral(DecDigits[n], 10) /\ ValueOf(DecDigits[n], 10) = n
         /\ Len(DecDigits[n]) = IF n < 10 THEN 1 ELSE 2
<1>1. CASE n < 10
  <2>. DEFINE d == Decimals[n + 1]
              q == <<d>>
  <2>1. n \in 0 .. 9 /\ DecDigits[n] = q
    BY <1>1 DEF DecDigits
  <2>2. d \in Symbols /\ CharToNibble(d) = n
    BY <2>1, DigitsSymbols, SymbolsAre, DigitOf
  <2>3. q \in Texts /\ Len(q) = 1 /\ q[1] = d
    <3>. HIDE DEF d
    <3>. QED BY <2>2, Single
  <2>4. \A i \in 1 .. 1 : q[i] = Decimals[n + 1]
    BY <2>3
  <2>. HIDE DEF q, d
  <2>5. 10 \in Nat /\ q # <<>> /\ n \in 0 .. 10 - 1
    BY <2>1, <2>3, Nothing
  <2>6. ValueOf(q, 10) = n
    BY <2>2, <2>3, <2>5, ValueNext
  <2>7. Numeral(q, 10)
    BY <2>3, <2>4, <2>5 DEF Numeral
  <2>. QED BY <1>1, <2>1, <2>3, <2>6, <2>7
<1>2. CASE ~(n < 10)
  <2>. DEFINE x == n \div 10
              y == n % 10
              c == Decimals[x + 1]
              d == Decimals[y + 1]
              q == <<c, d>>
  <2>1. x \in 0 .. 9 /\ y \in 0 .. 9 /\ n = 10 * x + y /\ DecDigits[n] = q
    BY <1>2 DEF DecDigits
  <2>. HIDE DEF x, y
  <2>2. c \in Symbols /\ CharToNibble(c) = x /\ d \in Symbols /\ CharToNibble(d) = y
    BY <2>1, DigitsSymbols, SymbolsAre, DigitOf
  <2>3. q \in Texts /\ Len(q) = 2 /\ q[1] = c /\ q[2] = d
    <3>. HIDE DEF c, d
    <3>. QED BY <2>2 DEF Texts
  <2>4. \A i \in 1 .. 2 : q[i] = Decimals[x + 1] \/ q[i] = Decimals[y + 1]
    BY <2>3
  <2>. HIDE DEF q, c, d
  <2>5. 10 \in Nat /\ q # <<>> /\ x \in 0 .. 10 - 1 /\ y \in 0 .. 10 - 1
    <3>1. 10 \in Nat /\ x \in 0 .. 10 - 1 /\ y \in 0 .. 10 - 1
      BY <2>1
    <3>. QED BY <2>3, <3>1, Nothing
  <2>6. ValueOf(q, 10) = n
    BY <2>1, <2>2, <2>3, <2>5, ValueNext
  <2>7. Numeral(q, 10)
    BY <2>3, <2>4, <2>5 DEF Numeral
  <2>. QED BY <1>2, <2>1, <2>3, <2>6, <2>7
<1>. QED BY <1>1, <1>2

LEMMA Half == ASSUME NEW m \in Nat PROVE m = 2 * (m \div 2) + (m % 2)
OBVIOUS

LEMMA Halves ==
  ASSUME NEW n \in Nat
  PROVE  /\ n = 2 * (n \div 2) + (n % 2) /\ n \div 1 = n
         /\ n \div 2 = 2 * (n \div 4) + ((n \div 2) % 2)
         /\ n \div 4 = 2 * (n \div 8) + ((n \div 4) % 2)
         /\ n \div 8 = 2 * (n \div 16) + ((n \div 8) % 2)
         /\ n \div 16 = 2 * (n \div 32) + ((n \div 16) % 2)
         /\ n \div 32 = 2 * (n \div 64) + ((n \div 32) % 2)
         /\ n \div 64 = 2 * (n \div 128) + ((n \div 64) % 2)
         /\ n \div 128 = 2 * (n \div 256) + ((n \div 128) % 2)
<1>1. \A m \in Nat : m = 2 * (m \div 2) + (m % 2)
  BY Half
<1>17. n \div 1 = n
  OBVIOUS
<1>2. (n \div 2) \div 2 = n \div 4 /\ n \div 2 \in Nat
  <2>. DEFINE q == n \div 2
              r == n % 2
              p == q \div 2
              t == q % 2
  <2>1. n = 2 * q + r /\ q \in Nat /\ r \in 0 .. 1
    OBVIOUS
  <2>. HIDE DEF q, r
  <2>2. q = 2 * p + t /\ p \in Nat /\ t \in 0 .. 1
    BY <2>1
  <2>. HIDE DEF p, t
  <2>3. n = 4 * p + (2 * t + r) /\ 2 * t + r \in 0 .. 3
    BY <2>1, <2>2
  <2>. DEFINE y == 2 * t + r
  <2>4. n = 4 * p + y /\ y \in 0 .. 3 /\ p \in Int
    BY <2>2, <2>3
  <2>. HIDE DEF y
  <2>5. n \div 4 = p
    BY <2>4
  <2>. QED BY <2>1, <2>5 DEF p, q
<1>3. (n \div 4) \div 2 = n \div 8 /\ n \div 4 \in Nat
  <2>. DEFINE q == n \div 4
              r == n % 4
              p == q \div 2
              t == q % 2
  <2>1. n = 4 * q + r /\ q \in Nat /\ r \in 0 .. 3
    OBVIOUS
  <2>. HIDE DEF q, r
  <2>2. q = 2 * p + t /\ p \in Nat /\ t \in 0 .. 1
    BY <2>1
  <2>. HIDE DEF p, t
  <2>3. n = 8 * p + (4 * t + r) /\ 4 * t + r \in 0 .. 7
    BY <2>1, <2>2
  <2>. DEFINE y == 4 * t + r
  <2>4. n = 8 * p + y /\ y \in 0 .. 7 /\ p \in Int
    BY <2>2, <2>3
  <2>. HIDE DEF y
  <2>5. n \div 8 = p
    BY <2>4
  <2>. QED BY <2>1, <2>5 DEF p, q
<1>4. (n \div 8) \div 2 = n \div 16 /\ n \div 8 \in Nat
  <2>. DEFINE q == n \div 8
              r == n % 8
              p == q \div 2
              t == q % 2
  <2>1. n = 8 * q + r /\ q \in Nat /\ r \in 0 .. 7
    OBVIOUS
  <2>. HIDE DEF q, r
  <2>2. q = 2 * p + t /\ p \in Nat /\ t \in 0 .. 1
    BY <2>1
  <2>. HIDE DEF p, t
  <2>3. n = 16 * p + (8 * t + r) /\ 8 * t + r \in 0 .. 15
    BY <2>1, <2>2
  <2>. DEFINE y == 8 * t + r
  <2>4. n = 16 * p + y /\ y \in 0 .. 15 /\ p \in Int
    BY <2>2, <2>3
  <2>. HIDE DEF y
  <2>5. n \div 16 = p
    BY <2>4
  <2>. QED BY <2>1, <2>5 DEF p, q
<1>5. (n \div 16) \div 2 = n \div 32 /\ n \div 16 \in Nat
  <2>. DEFINE q == n \div 16
              r == n % 16
              p == q \div 2
              t == q % 2
  <2>1. n = 16 * q + r /\ q \in Nat /\ r \in 0 .. 15
    OBVIOUS
  <2>. HIDE DEF q, r
  <2>2. q = 2 * p + t /\ p \in Nat /\ t \in 0 .. 1
    BY <2>1
  <2>. HIDE DEF p, t
  <2>3. n = 32 * p + (16 * t + r) /\ 16 * t + r \in 0 .. 31
    BY <2>1, <2>2
  <2>. DEFINE y == 16 * t + r
  <2>4. n = 32 * p + y /\ y \in 0 .. 31 /\ p \in Int
    BY <2>2, <2>3
  <2>. HIDE DEF y
  <2>5. n \div 32 = p
    BY <2>4
  <2>. QED BY <2>1, <2>5 DEF p, q
<1>6. (n \div 32) \div 2 = n \div 64 /\ n \div 32 \in Nat
  <2>. DEFINE q == n \div 32
              r == n % 32
              p == q \div 2
              t == q % 2
  <2>1. n = 32 * q + r /\ q \in Nat /\ r \in 0 .. 31
    OBVIOUS
  <2>. HIDE DEF q, r
  <2>2. q = 2 * p + t /\ p \in Nat /\ t \in 0 .. 1
    BY <2>1
  <2>. HIDE DEF p, t
  <2>3. n = 64 * p + (32 * t + r) /\ 32 * t + r \in 0 .. 63
    BY <2>1, <2>2
  <2>. DEFINE y == 32 * t + r
  <2>4. n = 64 * p + y /\ y \in 0 .. 63 /\ p \in Int
    BY <2>2, <2>3
  <2>. HIDE DEF y
  <2>5. n \div 64 = p
    BY <2>4
  <2>. QED BY <2>1, <2>5 DEF p, q
<1>7. (n \div 64) \div 2 = n \div 128 /\ n \div 64 \in Nat
  <2>. DEFINE q == n \div 64
              r == n % 64
              p == q \div 2
              t == q % 2
  <2>1. n = 64 * q + r /\ q \in Nat /\ r \in 0 .. 63
    OBVIOUS
  <2>. HIDE DEF q, r
  <2>2. q = 2 * p + t /\ p \in Nat /\ t \in 0 .. 1
    BY <2>1
  <2>. HIDE DEF p, t
  <2>3. n = 128 * p + (64 * t + r) /\ 64 * t + r \in 0 .. 127
    BY <2>1, <2>2
  <2>. DEFINE y == 64 * t + r
  <2>4. n = 128 * p + y /\ y \in 0 .. 127 /\ p \in Int
    BY <2>2, <2>3
  <2>. HIDE DEF y
  <2>5. n \div 128 = p
    BY <2>4
  <2>. QED BY <2>1, <2>5 DEF p, q
<1>8. (n \div 128) \div 2 = n \div 256 /\ n \div 128 \in Nat
  <2>. DEFINE q == n \div 128
              r == n % 128
              p == q \div 2
              t == q % 2
  <2>1. n = 128 * q + r /\ q \in Nat /\ r \in 0 .. 127
    OBVIOUS
  <2>. HIDE DEF q, r
  <2>2. q = 2 * p + t /\ p \in Nat /\ t \in 0 .. 1
    BY <2>1
  <2>. HIDE DEF p, t
  <2>3. n = 256 * p + (128 * t + r) /\ 128 * t + r \in 0 .. 255
    BY <2>1, <2>2
  <2>. DEFINE y == 128 * t + r
  <2>4. n = 256 * p + y /\ y \in 0 .. 255 /\ p \in Int
    BY <2>2, <2>3
  <2>. HIDE DEF y
  <2>5. n \div 256 = p
    BY <2>4
  <2>. QED BY <2>1, <2>5 DEF p, q
<1>9. n = 2 * (n \div 2) + (n % 2) /\ n \div 1 = n
  BY <1>1, <1>17
<1>10. n \div 2 = 2 * (n \div 4) + ((n \div 2) % 2)
  BY <1>1, <1>2
<1>11. n \div 4 = 2 * (n \div 8) + ((n \div 4) % 2)
  BY <1>1, <1>3
<1>12. n \div 8 = 2 * (n \div 16) + ((n \div 8) % 2)
  BY <1>1, <1>4
<1>13. n \div 16 = 2 * (n \div 32) + ((n \div 16) % 2)
  BY <1>1, <1>5
<1>14. n \div 32 = 2 * (n \div 64) + ((n \div 32) % 2)
  BY <1>1, <1>6
<1>15. n \div 64 = 2 * (n \div 128) + ((n \div 64) % 2)
  BY <1>1, <1>7
<1>16. n \div 128 = 2 * (n \div 256) + ((n \div 128) % 2)
  BY <1>1, <1>8
<1>. QED BY <1>9, <1>10, <1>11, <1>12, <1>13, <1>14, <1>15, <1>16

\* The bits of a number, from the one of the weight w down.
Bit(n, w) == (n \div w) % 2

LEMMA BitIs == ASSUME NEW n \in Nat, NEW w \in {1, 2, 4, 8, 16, 32, 64, 128}
               PROVE  Bit(n, w) \in 0 .. 1 /\ CharToNibble(Decimals[Bit(n, w) + 1]) = Bit(n, w)
<1>1. Bit(n, w) \in 0 .. 1
  BY DEF Bit
<1>2. Bit(n, w) \in 0 .. 9
  BY <1>1
<1>. QED BY <1>1, <1>2, DigitOf

LEMMA WeightsAre ==
  /\ Weights \in [1 .. 8 -> {1, 2, 4, 8, 16, 32, 64, 128}]
  /\ Weights[1] = 1 /\ Weights[2] = 2 /\ Weights[3] = 4 /\ Weights[4] = 8
  /\ Weights[5] = 16 /\ Weights[6] = 32 /\ Weights[7] = 64 /\ Weights[8] = 128
BY DEF Weights

LEMMA BitsText ==
  ASSUME NEW n \in Nat, NEW width \in {4, 8}
  PROVE  /\ Numeral(Bits(n, width), 2) /\ Len(Bits(n, width)) = width
         /\ \A i \in 1 .. width : CharToNibble(Bits(n, width)[i]) = Bit(n, Weights[width + 1 - i])
<1>. DEFINE s == Bits(n, width)
<1>1. \A i \in 1 .. width : s[i] = Decimals[Bit(n, Weights[width + 1 - i]) + 1]
  BY DEF Bits, Bit
<1>2. \A i \in 1 .. width : Weights[width + 1 - i] \in {1, 2, 4, 8, 16, 32, 64, 128}
  <2>1. \A i \in 1 .. width : width + 1 - i \in 1 .. 8
    OBVIOUS
  <2>. QED BY <2>1, WeightsAre
<1>3. ASSUME NEW i \in 1 .. width
      PROVE  /\ Bit(n, Weights[width + 1 - i]) \in 0 .. 1
             /\ CharToNibble(s[i]) = Bit(n, Weights[width + 1 - i])
             /\ s[i] \in Symbols
  <2>. DEFINE w == Weights[width + 1 - i]
  <2>1. w \in {1, 2, 4, 8, 16, 32, 64, 128} /\ s[i] = Decimals[Bit(n, w) + 1]
    BY <1>1, <1>2
  <2>. HIDE DEF w, s
  <2>2. Bit(n, w) \in 0 .. 1 /\ CharToNibble(s[i]) = Bit(n, w)
    BY <2>1, BitIs
  <2>3. Bit(n, w) \in 0 .. 9
    BY <2>2
  <2>4. s[i] \in Symbols
    BY <2>1, <2>3, DigitsSymbols, SymbolsAre
  <2>. QED BY <2>2, <2>4 DEF w
<1>4. s = [i \in 1 .. width |-> s[i]]
  BY DEF Bits
<1>. HIDE DEF s
<1>5. s \in Seq(Symbols) /\ Len(s) = width
  <2>1. s \in [1 .. width -> Symbols] /\ width \in Nat
    BY <1>3, <1>4
  <2>. QED BY <2>1
<1>6. Numeral(s, 2)
  <2>1. s # <<>>
    BY <1>5, Nothing
  <2>2. \A i \in 1 .. width : \E k \in 0 .. 2 - 1 : s[i] = Decimals[k + 1]
    BY <1>1, <1>3 DEF s
  <2>. QED BY <1>5, <2>1, <2>2 DEF Numeral, Texts
<1>. QED BY <1>3, <1>5, <1>6 DEF s

LEMMA BitsValue ==
  ASSUME NEW n \in Nat
  PROVE  ValueOf(Bits(n, 8), 2) = n % 256 /\ ValueOf(Bits(n, 4), 2) = n % 16
<1>. DEFINE b(w) == Bit(n, w)
<1>0. \A w \in {1, 2, 4, 8, 16, 32, 64, 128} : b(w) \in 0 .. 1
  BY BitIs
<1>1. ValueOf(Bits(n, 8), 2) = n % 256
  <2>. DEFINE s == Bits(n, 8)
  <2>1. /\ s \in Texts /\ Len(s) = 8
        /\ \A i \in 1 .. 8 : CharToNibble(s[i]) = b(Weights[8 + 1 - i])
    BY BitsText DEF Numeral
  <2>. HIDE DEF s
  <2>2. PICK f : Reads(f, s, 2) /\ ValueOf(s, 2) = f[8]
    BY <2>1, ValueIs
  <2>3. f[0] = 0 /\ \A i \in 1 .. 8 : f[i] = 2 * f[i - 1] + b(Weights[8 + 1 - i])
    BY <2>1, <2>2 DEF Reads
  <2>. HIDE DEF b
  <2>4. /\ f[1] = 2 * f[0] + b(128) /\ f[2] = 2 * f[1] + b(64) /\ f[3] = 2 * f[2] + b(32)
        /\ f[4] = 2 * f[3] + b(16) /\ f[5] = 2 * f[4] + b(8) /\ f[6] = 2 * f[5] + b(4)
        /\ f[7] = 2 * f[6] + b(2) /\ f[8] = 2 * f[7] + b(1)
    BY <2>3, WeightsAre
  <2>5. f[8] = 128 * b(128) + 64 * b(64) + 32 * b(32) + 16 * b(16) + 8 * b(8) + 4 * b(4)
               + 2 * b(2) + b(1)
        /\ f[8] \in 0 .. 255
    BY <1>0, <2>3, <2>4
  <2>6. n = 256 * (n \div 256) + f[8]
    <3>1. /\ n = 2 * (n \div 2) + b(1) /\ n \div 2 = 2 * (n \div 4) + b(2)
          /\ n \div 4 = 2 * (n \div 8) + b(4) /\ n \div 8 = 2 * (n \div 16) + b(8)
          /\ n \div 16 = 2 * (n \div 32) + b(16) /\ n \div 32 = 2 * (n \div 64) + b(32)
          /\ n \div 64 = 2 * (n \div 128) + b(64) /\ n \div 128 = 2 * (n \div 256) + b(128)
      BY Halves DEF b, Bit
    <3>. QED BY <1>0, <2>5, <3>1, SMTT(30)
  <2>7. \A q \in Int, r \in 0 .. 255 : n = 256 * q + r => n % 256 = r
    OBVIOUS
  <2>8. n \div 256 \in Int
    OBVIOUS
  <2>9. f[8] \in 0 .. 255
    BY <2>5
  <2>10. n % 256 = f[8]
    BY <2>6, <2>7, <2>8, <2>9
  <2>. QED BY <2>2, <2>10 DEF s
<1>2. ValueOf(Bits(n, 4), 2) = n % 16
  <2>. DEFINE s == Bits(n, 4)
  <2>1. /\ s \in Texts /\ Len(s) = 4
        /\ \A i \in 1 .. 4 : CharToNibble(s[i]) = b(Weights[4 + 1 - i])
    BY BitsText DEF Numeral
  <2>. HIDE DEF s
  <2>2. PICK f : Reads(f, s, 2) /\ ValueOf(s, 2) = f[4]
    BY <2>1, ValueIs
  <2>3. f[0] = 0 /\ \A i \in 1 .. 4 : f[i] = 2 * f[i - 1] + b(Weights[4 + 1 - i])
    BY <2>1, <2>2 DEF Reads
  <2>. HIDE DEF b
  <2>4. /\ f[1] = 2 * f[0] + b(8) /\ f[2] = 2 * f[1] + b(4) /\ f[3] = 2 * f[2] + b(2)
        /\ f[4] = 2 * f[3] + b(1)
    BY <2>3, WeightsAre
  <2>5. f[4] = 8 * b(8) + 4 * b(4) + 2 * b(2) + b(1) /\ f[4] \in 0 .. 15
    BY <1>0, <2>3, <2>4
  <2>6. n = 16 * (n \div 16) + f[4]
    <3>1. /\ n = 2 * (n \div 2) + b(1) /\ n \div 2 = 2 * (n \div 4) + b(2)
          /\ n \div 4 = 2 * (n \div 8) + b(4) /\ n \div 8 = 2 * (n \div 16) + b(8)
      BY Halves DEF b, Bit
    <3>. QED BY <1>0, <2>5, <3>1
  <2>7. \A q \in Int, r \in 0 .. 15 : n = 16 * q + r => n % 16 = r
    OBVIOUS
  <2>8. n \div 16 \in Int
    OBVIOUS
  <2>9. f[4] \in 0 .. 15
    BY <2>5
  <2>10. n % 16 = f[4]
    BY <2>6, <2>7, <2>8, <2>9
  <2>. QED BY <2>2, <2>10 DEF s
<1>. QED BY <1>1, <1>2

-----------------------------------------------------------------------------
(* The line of an answer, without its prefix and its quotes.                   *)

LEMMA QuotesOff ==
  ASSUME NEW w \in Names, NEW c \in Texts, Len(c) + 3 <= MaxString
  PROVE  LET q == Without(c, Quote)
             r == Then(ATRemovePrefix(Plus(w) \o c), ATRemoveAllDoubleQuote)
         IN  /\ q \in Texts /\ Len(q) <= Len(c)
             /\ r = Ok(<<Space>> \o q)
             /\ Without(q, Space) # <<>> =>
                  Then(r, ATRemoveAllWhiteSpaces) = Ok(Without(q, Space))
<1>. DEFINE q == Without(c, Quote)
            sc == <<Space>> \o c
            sq == <<Space>> \o q
            l == Plus(w) \o c
            v == Without(q, Space)
<1>1. /\ q \in Texts /\ Len(q) <= Len(c) /\ Len(q) \in Nat /\ Len(c) \in Nat
      /\ v \in Texts
  <2>1. q \in Texts /\ Len(q) <= Len(c)
    BY WithoutLacks, Commas
  <2>. HIDE DEF q
  <2>2. v \in Texts
    BY <2>1, WithoutLacks, Commas
  <2>3. Len(q) \in Nat /\ Len(c) \in Nat
    BY <2>1 DEF Texts
  <2>. QED BY <2>1, <2>2, <2>3
<1>2. ATRemovePrefix(l) = Ok(sc)
  BY PlusIs
<1>3. sc \in Texts /\ Len(sc) = 1 + Len(c)
  BY WithoutLeading, Commas
<1>4. sq \in Texts /\ Len(sq) = 1 + Len(q) /\ Without(sq, Space) = v
  <2>. HIDE DEF q
  <2>. QED BY <1>1, WithoutLeading, Commas
<1>5. Without(sc, Quote) = sq
  <2>. DEFINE p == <<Space>>
  <2>1. p \in Texts /\ Without(p, Quote) = p
    BY Single, WithoutOne, Commas DEF Space, Quote
  <2>. HIDE DEF p
  <2>2. Without(p \o c, Quote) = Without(p, Quote) \o Without(c, Quote)
    BY <2>1, WithoutJoined, Commas
  <2>. QED BY <2>1, <2>2 DEF p
<1>. HIDE DEF q, sc, sq, l, v
<1>6. Valid(sc) /\ Valid(sq)
  <2>1. Len(sc) >= 1 /\ Len(sc) <= MaxString /\ Len(sq) >= 1 /\ Len(sq) <= MaxString
    BY <1>1, <1>3, <1>4, TextAssumption
  <2>. QED BY <1>3, <1>4, <2>1, Longer DEF Valid
<1>7. \A s : Ok(s).st = "SUCCESS" /\ Ok(s).s = s
  BY DEF Ok
<1>8. Then(ATRemovePrefix(l), ATRemoveAllDoubleQuote) = Ok(sq)
  <2>1. ATRemoveAllDoubleQuote(sc) = Ok(sq)
    BY <1>5, <1>6 DEF ATRemoveAllDoubleQuote, OfValid
  <2>. QED BY <1>2, <1>7, <2>1 DEF Then
<1>9. ATRemoveAllWhiteSpaces(sq) = Ok(v)
  BY <1>4, <1>6 DEF ATRemoveAllWhiteSpaces, OfValid
<1>10. Then(Ok(sq), ATRemoveAllWhiteSpaces) = Ok(v)
  BY <1>7, <1>9 DEF Then
<1>. QED BY <1>1, <1>8, <1>10 DEF q, sq, l, v

LEMMA LineTooLong ==
  ASSUME NEW w \in Names, NEW c \in Texts, ~(Len(c) + 3 <= MaxString)
  PROVE  LET l == Plus(w) \o c IN
         /\ ATRemovePrefix(l) = Fail("BAD_PARAMETER", l)
         /\ Then(ATRemovePrefix(l), ATRemoveAllDoubleQuote) = Fail("BAD_PARAMETER", l)
         /\ Then(ATRemovePrefix(l), ATRemoveAllWhiteSpaces) = Fail("BAD_PARAMETER", l)
         /\ Then(Then(ATRemovePrefix(l), ATRemoveAllDoubleQuote), ATRemoveAllWhiteSpaces) =
              Fail("BAD_PARAMETER", l)
<1>. DEFINE l == Plus(w) \o c
<1>1. ATRemovePrefix(l) = Fail("BAD_PARAMETER", l)
  BY PlusIs
<1>. HIDE DEF l
<1>2. Fail("BAD_PARAMETER", l).st # "SUCCESS"
  BY DEF Fail
<1>. QED BY <1>1, <1>2 DEF Then, l

-----------------------------------------------------------------------------
(* The operator.                                                               *)

CopsFields == {"mode", "format", "plmn", "name", "rat"}
NumberFields == {"mode", "format", "rat"}
IsInfo(f) == f = [x \in CopsFields |-> f[x]]

\* g has the PLMN of f.
Keeps(g, f) == IsInfo(g) /\ g["plmn"] = f["plmn"]

\* g differs from f in one field at most.
But(g, f, field) ==
  IsInfo(g) /\ \A x \in CopsFields \ {field} : g[x] = f[x]

LEMMA ButIs ==
  ASSUME NEW info, IsInfo(info), NEW field \in CopsFields, NEW v
  PROVE  /\ But([info EXCEPT ![field] = v], info, field)
         /\ [info EXCEPT ![field] = v][field] = v
<1>. DEFINE g == [info EXCEPT ![field] = v]
<1>1. DOMAIN info = CopsFields
  BY DEF IsInfo
<1>2. g = [x \in CopsFields |-> IF x = field THEN v ELSE info[x]]
  BY <1>1
<1>. HIDE DEF g
<1>3. g[field] = v /\ \A x \in CopsFields \ {field} : g[x] = info[x]
  BY <1>2
<1>4. IsInfo(g)
  BY <1>2 DEF IsInfo
<1>. QED BY <1>3, <1>4 DEF But, g

LEMMA ButWhen ==
  ASSUME NEW info, IsInfo(info), NEW field \in CopsFields, NEW v,
         NEW g, g = [info EXCEPT ![field] = v]
  PROVE  But(g, info, field) /\ g[field] = v
BY ButIs

LEMMA ButSame == ASSUME NEW info, IsInfo(info), NEW field PROVE But(info, info, field)
BY DEF But

\* A token for a number touches no other field.
LEMMA CopsNumber ==
  ASSUME NEW tok, NEW field \in NumberFields, NEW max \in Nat, NEW info, IsInfo(info)
  PROVE  But(ParseCopsNumber(tok, field, max, info).info, info, field)
<1>. DEFINE n == ATStrtoi(tok, 10)
            r == ParseCopsNumber(tok, field, max, info)
            new(v) == [info EXCEPT ![field] = v]
<1>1. \A v : But(new(v), info, field)
  BY ButIs DEF CopsFields, NumberFields
<1>2. But(info, info, field)
  BY ButSame
<1>3. r.info = info \/ \E v : r.info = new(v)
  BY DEF ParseCopsNumber
<1>. HIDE DEF new, r, n
<1>4. But(r.info, info, field)
  BY <1>1, <1>2, <1>3
<1>. QED BY <1>4 DEF r

LEMMA CopsNumberStored ==
  ASSUME NEW tok, NEW field \in NumberFields, NEW max \in Nat, NEW info, IsInfo(info),
         NEW n \in 0 .. max - 1, ATStrtoi(tok, 10) = [ok |-> TRUE, value |-> n]
  PROVE  LET r == ParseCopsNumber(tok, field, max, info) IN r.ok /\ r.info[field] = n
<1>. DEFINE new == [info EXCEPT ![field] = n]
            k == ATStrtoi(tok, 10)
<1>1. k.ok /\ k.value = n
  OBVIOUS
<1>2. new[field] = n
  <2>1. field \in CopsFields
    BY DEF CopsFields, NumberFields
  <2>2. new = [info EXCEPT ![field] = n]
    OBVIOUS
  <2>. HIDE DEF new
  <2>. QED BY <2>1, <2>2, ButWhen
<1>3. k.ok /\ k.value \in 0 .. max - 1 =>
        ParseCopsNumber(tok, field, max, info) = [ok |-> TRUE, info |-> [info EXCEPT ![field] = k.value]]
  BY DEF ParseCopsNumber
<1>. HIDE DEF k
<1>4. ParseCopsNumber(tok, field, max, info) = [ok |-> TRUE, info |-> new]
  BY <1>1, <1>3
<1>. HIDE DEF new
<1>. QED BY <1>2, <1>4

\* The token that is next, and the four steps.
Tok(f) == ATGetNextTok(f.s).tok
AfterMode(f) == CopsToken(f, ParseCopsRegModeToken(Tok(f), f.info))
AfterFormat(f) == CopsToken(f, ParseCopsNetworkNameFormatToken(Tok(f), f.info))
AfterName(f) == CopsToken(f, ParseCopsNetworkNameToken(Tok(f), f.info))
AfterRat(f) == CopsToken(f, ParseCopsRatToken(Tok(f), f.info))
CopsStart(s, info) == [st |-> "SUCCESS", s |-> s, info |-> info]

LEMMA CopsSteps ==
  ASSUME NEW s, NEW info
  PROVE  ParseCops(s, info) = AfterRat(AfterName(AfterFormat(AfterMode(CopsStart(s, info)))))
BY DEF ParseCops, AfterMode, AfterFormat, AfterName, AfterRat, Tok, CopsStart

IsRead(f) == f = [st |-> f.st, s |-> f.s, info |-> f.info] /\ IsInfo(f.info)

\* A step leaves the structure, or what the parser made of it.
LEMMA StepIs ==
  ASSUME NEW f, IsRead(f), NEW p, IsInfo(p.info)
  PROVE  LET g == CopsToken(f, p) IN IsRead(g) /\ (g.info = f.info \/ g.info = p.info)
<1>. DEFINE tok == ATGetNextTok(f.s)
            g == CopsToken(f, p)
<1>1. \/ g = f \/ g = [f EXCEPT !.st = tok.st]
      \/ g = [st |-> IF p.ok THEN "SUCCESS" ELSE "ERROR", s |-> tok.s, info |-> p.info]
  BY DEF CopsToken
<1>. HIDE DEF tok, g
<1>2. IsRead(g) /\ (g.info = f.info \/ g.info = p.info)
  <2>1. CASE g = f
    BY <2>1
  <2>2. CASE g = [f EXCEPT !.st = tok.st]
    <3>1. g = [st |-> tok.st, s |-> f.s, info |-> f.info]
      BY <2>2 DEF IsRead
    <3>. QED BY <3>1 DEF IsRead
  <2>3. CASE g = [st |-> IF p.ok THEN "SUCCESS" ELSE "ERROR", s |-> tok.s, info |-> p.info]
    BY <2>3 DEF IsRead
  <2>. QED BY <1>1, <2>1, <2>2, <2>3
<1>. QED BY <1>2 DEF g

\* Whatever a token is, it does not reach the PLMN, the name in letters neither.
LEMMA NameKeeps ==
  ASSUME NEW f, IsRead(f), f.info.format \in {0, 1}
  PROVE  LET g == AfterName(f) IN IsRead(g) /\ Keeps(g.info, f.info)
<1>. DEFINE p == ParseCopsNetworkNameToken(Tok(f), f.info)
<1>1. p.info = [f.info EXCEPT !.name = Cut(Tok(f), Sizes.name)]
  BY DEF ParseCopsNetworkNameToken
<1>2. Keeps(p.info, f.info) /\ IsInfo(p.info) /\ Keeps(f.info, f.info)
  BY <1>1 DEF IsRead, IsInfo, CopsFields, Keeps
<1>. HIDE DEF p
<1>3. LET g == CopsToken(f, p) IN IsRead(g) /\ Keeps(g.info, f.info)
  BY <1>2, StepIs
<1>. QED BY <1>3 DEF AfterName, p

LEMMA RatKeeps ==
  ASSUME NEW f, IsRead(f)
  PROVE  Keeps(AfterRat(f).info, f.info)
<1>. DEFINE p == ParseCopsRatToken(Tok(f), f.info)
            field == "rat"
<1>1. p = ParseCopsNumber(Tok(f), field, RatMax, f.info) /\ IsInfo(f.info) /\ RatMax \in Nat
      /\ field \in NumberFields
  BY DEF ParseCopsRatToken, IsRead, RatMax, NumberFields
<1>. HIDE DEF p, field
<1>2. But(p.info, f.info, field)
  BY <1>1, CopsNumber
<1>3. IsInfo(p.info) /\ Keeps(p.info, f.info) /\ Keeps(f.info, f.info)
  BY <1>1, <1>2 DEF But, Keeps, field, CopsFields
<1>4. LET g == CopsToken(f, p) IN Keeps(g.info, f.info)
  BY <1>3, StepIs
<1>. QED BY <1>4 DEF AfterRat, p

\* Nothing comes after a failure.
LEMMA AfterFailure ==
  ASSUME NEW f, f.st # "SUCCESS"
  PROVE  AfterFormat(f) = f /\ AfterName(f) = f /\ AfterRat(f) = f
BY DEF AfterFormat, AfterName, AfterRat, CopsToken

\* A good token.
LEMMA GoodToken ==
  ASSUME NEW f, NEW a, NEW b, NEW p, f.st = "SUCCESS", p.ok,
         ATGetNextTok(f.s) = [st |-> "SUCCESS", tok |-> a, s |-> b]
  PROVE  Tok(f) = a /\ CopsToken(f, p) = [st |-> "SUCCESS", s |-> b, info |-> p.info]
BY DEF CopsToken, Tok

LEMMA StrtoiDec ==
  ASSUME NEW n \in 0 .. 99
  PROVE  ATStrtoi(DecDigits[n], 10) = [ok |-> TRUE, value |-> n]
BY DecDigitsAre, StrtoiNumeral DEF Bases

LEMMA ModeToken ==
  ASSUME NEW n \in 0 .. 4, NEW info, IsInfo(info), NEW p, p = ParseCopsRegModeToken(DecDigits[n], info)
  PROVE  p.ok /\ Keeps(p.info, info)
<1>. DEFINE d == DecDigits[n]
            field == "mode"
<1>1. ATStrtoi(d, 10) = [ok |-> TRUE, value |-> n]
  <2>1. n \in 0 .. 99
    OBVIOUS
  <2>. QED BY <2>1, StrtoiDec
<1>2. n \in 0 .. 5 - 1 /\ 5 \in Nat /\ field \in NumberFields
  BY DEF CopsFields, NumberFields
<1>3. p = ParseCopsNumber(d, field, 5, info)
  BY DEF ParseCopsRegModeToken, RegistrationModeMax
<1>. HIDE DEF d, field
<1>4. But(p.info, info, field)
  BY <1>2, <1>3, CopsNumber
<1>5. p.ok /\ p.info[field] = n
  BY <1>1, <1>2, <1>3, CopsNumberStored
<1>6. Keeps(p.info, info)
  BY <1>4 DEF But, field, CopsFields, Keeps
<1>. QED BY <1>5, <1>6 DEF field

LEMMA FormatToken ==
  ASSUME NEW n \in 0 .. 4, NEW info, IsInfo(info), NEW p,
         p = ParseCopsNetworkNameFormatToken(DecDigits[n], info)
  PROVE  p.ok /\ Keeps(p.info, info) /\ p.info.format = n
<1>. DEFINE d == DecDigits[n]
            field == "format"
<1>1. ATStrtoi(d, 10) = [ok |-> TRUE, value |-> n]
  <2>1. n \in 0 .. 99
    OBVIOUS
  <2>. QED BY <2>1, StrtoiDec
<1>2. n \in 0 .. 10 - 1 /\ 10 \in Nat /\ field \in NumberFields
  BY DEF CopsFields, NumberFields
<1>3. p = ParseCopsNumber(d, field, 10, info)
  BY DEF ParseCopsNetworkNameFormatToken, OperatorNameFormatMax
<1>. HIDE DEF d, field
<1>4. But(p.info, info, field)
  BY <1>2, <1>3, CopsNumber
<1>5. p.ok /\ p.info[field] = n
  BY <1>1, <1>2, <1>3, CopsNumberStored
<1>6. Keeps(p.info, info)
  BY <1>4 DEF But, field, CopsFields, Keeps
<1>. QED BY <1>5, <1>6 DEF field

\* The answer of a modem that is registered nowhere,
LEMMA CopsOfNobody ==
  ASSUME NEW n \in 0 .. 4, NEW info, IsInfo(info), 1 <= MaxString
  PROVE  Keeps(ParseCops(DecDigits[n], info).info, info)
<1>. DEFINE f == CopsStart(DecDigits[n], info)
            g == AfterMode(f)
            h == AfterFormat(g)
<1>1. Numeral(DecDigits[n], 10) /\ Len(DecDigits[n]) = 1
  <2>1. n \in 0 .. 99 /\ n < 10
    OBVIOUS
  <2>. QED BY <2>1, DecDigitsAre
<1>2. ATGetNextTok(DecDigits[n]) = [st |-> "SUCCESS", tok |-> DecDigits[n], s |-> <<>>]
  <2>. DEFINE d == DecDigits[n]
  <2>1. d \in Texts /\ Lacks(d, ",") /\ d # <<>> /\ Len(d) <= MaxString
    <3>1. Lacks(d, ",")
      BY <1>1, NumeralIs DEF Bases
    <3>. QED BY <1>1, <3>1 DEF Numeral
  <2>. DEFINE z == ","
  <2>2. z \in Symbols /\ Lacks(d, z)
    BY <2>1, Commas
  <2>. HIDE DEF d, z
  <2>3. ATGetSpecificNextTok(d, z) = [st |-> "SUCCESS", tok |-> d, s |-> <<>>]
    BY <2>1, <2>2, LastToken
  <2>. QED BY <2>3 DEF ATGetNextTok, z, d
<1>3. f.st = "SUCCESS" /\ f.s = DecDigits[n] /\ f.info = info
  BY DEF CopsStart
<1>. HIDE DEF f
<1>. DEFINE p == ParseCopsRegModeToken(DecDigits[n], info)
<1>4. p.ok /\ Keeps(p.info, info)
  <2>1. p = ParseCopsRegModeToken(DecDigits[n], info)
    OBVIOUS
  <2>. HIDE DEF p
  <2>. QED BY <2>1, ModeToken
<1>5. g.st = "SUCCESS" /\ g.s = <<>> /\ g.info = p.info
  <2>. HIDE DEF p, g
  <2>1. Tok(f) = DecDigits[n] /\ CopsToken(f, p) = [st |-> "SUCCESS", s |-> <<>>, info |-> p.info]
    BY <1>2, <1>3, <1>4, GoodToken
  <2>2. g = CopsToken(f, p)
    BY <1>3, <2>1 DEF g, p, AfterMode
  <2>. QED BY <2>1, <2>2
<1>. HIDE DEF p, g
<1>6. h.st # "SUCCESS" /\ h.info = g.info
  <2>1. ATGetNextTok(<<>>).st = "BAD_PARAMETER"
    BY DEF ATGetNextTok, ATGetSpecificNextTok, Valid
  <2>2. h = [g EXCEPT !.st = "BAD_PARAMETER"]
    BY <1>5, <2>1 DEF AfterFormat, CopsToken
  <2>3. g = [st |-> g.st, s |-> g.s, info |-> g.info]
    BY DEF g, AfterMode, CopsToken, f, CopsStart
  <2>. QED BY <2>2, <2>3
<1>. HIDE DEF h
<1>7. ParseCops(DecDigits[n], info) = h
  <2>1. AfterName(h) = h /\ AfterRat(h) = h
    BY <1>6, AfterFailure
  <2>. QED BY <2>1, CopsSteps DEF h, g, f
<1>. QED BY <1>4, <1>5, <1>6, <1>7

\* and of one that is: the name in letters is not looked at, the digits are taken apart.
\* The digits of a PLMN, and what becomes of them.
Numeric(name) == Lacks(name, ",") /\ Len(name) \in {5, 6}
PlmnOf(name) == [mcc |-> SubSeq(name, 1, 3), mnc |-> From(name, 4)]

LEMMA CopsOfOperator ==
  ASSUME NEW n \in 0 .. 4, NEW k \in 0 .. 2, NEW info, IsInfo(info), NEW name \in Texts, NEW d \in Texts,
         Len(name) + Len(d) + 5 <= MaxString
  PROVE  LET s == Comma(DecDigits[n], Comma(DecDigits[k], Comma(name, d)))
             r == ParseCops(s, info).info
         IN  /\ k \in {0, 1} => Keeps(r, info)
             /\ k = 2 /\ Numeric(name) => r.plmn = PlmnOf(name)
<1>. DEFINE b == Comma(name, d)
            c == Comma(DecDigits[k], b)
            s == Comma(DecDigits[n], c)
            f == CopsStart(s, info)
            g == AfterMode(f)
            h == AfterFormat(g)
            p == ParseCopsRegModeToken(DecDigits[n], info)
            q == ParseCopsNetworkNameFormatToken(DecDigits[k], p.info)
<1>1. ASSUME NEW i \in 0 .. 4
      PROVE  DecDigits[i] \in Texts /\ Len(DecDigits[i]) = 1 /\ Lacks(DecDigits[i], ",")
  <2>1. i \in 0 .. 99 /\ i < 10
    OBVIOUS
  <2>2. Numeral(DecDigits[i], 10) /\ Len(DecDigits[i]) = 1
    BY <2>1, DecDigitsAre
  <2>3. Lacks(DecDigits[i], ",")
    BY <2>2, NumeralIs DEF Bases
  <2>. QED BY <2>2, <2>3 DEF Numeral
<1>2. b \in Texts /\ Len(b) = Len(name) + 1 + Len(d) /\ Len(name) \in Nat /\ Len(d) \in Nat
  BY CommaIs
<1>3. k \in 0 .. 4
  OBVIOUS
<1>. HIDE DEF b
<1>4. c \in Texts /\ Len(c) = 1 + 1 + Len(b)
  <2>. DEFINE e == DecDigits[k]
  <2>1. e \in Texts /\ Len(e) = 1
    BY <1>1, <1>3
  <2>. HIDE DEF e
  <2>2. Comma(e, b) \in Texts /\ Len(Comma(e, b)) = Len(e) + 1 + Len(b)
    BY <1>2, <2>1, CommaIs
  <2>. QED BY <2>1, <2>2 DEF e
<1>. HIDE DEF c
<1>5. ATGetNextTok(s) = [st |-> "SUCCESS", tok |-> DecDigits[n], s |-> c]
  <2>. DEFINE e == DecDigits[n]
              z == ","
  <2>1. e \in Texts /\ Lacks(e, z) /\ Len(e) + 1 + Len(c) <= MaxString /\ z \in Symbols
    <3>1. 1 + 1 + Len(c) <= MaxString
      BY <1>2, <1>4, TextAssumption
    <3>2. Len(e) = 1 /\ e \in Texts /\ Lacks(e, z)
      BY <1>1, <1>3
    <3>. HIDE DEF e
    <3>. QED BY <3>1, <3>2, Commas
  <2>. HIDE DEF e, z
  <2>2. ATGetSpecificNextTok(e \o <<z>> \o c, z) = [st |-> "SUCCESS", tok |-> e, s |-> c]
    BY <1>4, <2>1, FirstToken
  <2>. QED BY <2>2 DEF ATGetNextTok, Comma, e, z
<1>6. ATGetNextTok(c) = [st |-> "SUCCESS", tok |-> DecDigits[k], s |-> b]
  <2>. DEFINE e == DecDigits[k]
              z == ","
  <2>1. e \in Texts /\ Lacks(e, z) /\ Len(e) + 1 + Len(b) <= MaxString /\ z \in Symbols
    <3>1. 1 + 1 + Len(b) <= MaxString
      BY <1>2, <1>4, TextAssumption
    <3>2. Len(e) = 1 /\ e \in Texts /\ Lacks(e, z)
      BY <1>1, <1>3
    <3>. HIDE DEF e
    <3>. QED BY <3>1, <3>2, Commas
  <2>. HIDE DEF e, z
  <2>2. ATGetSpecificNextTok(e \o <<z>> \o b, z) = [st |-> "SUCCESS", tok |-> e, s |-> b]
    BY <1>2, <2>1, FirstToken
  <2>. QED BY <2>2 DEF ATGetNextTok, Comma, c, e, z
<1>7. f.st = "SUCCESS" /\ f.s = s /\ f.info = info
  BY DEF CopsStart
<1>. HIDE DEF f, s
<1>8. p.ok /\ Keeps(p.info, info) /\ IsInfo(p.info)
  <2>1. p = ParseCopsRegModeToken(DecDigits[n], info)
    OBVIOUS
  <2>. HIDE DEF p
  <2>1a. p.ok /\ Keeps(p.info, info)
    BY <2>1, ModeToken
  <2>. QED BY <2>1a DEF Keeps
<1>. HIDE DEF p
<1>9. q.ok /\ IsInfo(q.info) /\ Keeps(q.info, info) /\ q.info.format = k
  <2>. DEFINE i == p.info
  <2>1. q = ParseCopsNetworkNameFormatToken(DecDigits[k], i) /\ IsInfo(i) /\ Keeps(i, info)
    BY <1>8
  <2>. HIDE DEF q, i
  <2>2. q.ok /\ Keeps(q.info, i) /\ q.info.format = k
    BY <1>3, <2>1, FormatToken
  <2>. QED BY <2>1, <2>2 DEF Keeps
<1>. HIDE DEF q
<1>10. g = [st |-> "SUCCESS", s |-> c, info |-> p.info]
  <2>1. Tok(f) = DecDigits[n] /\ CopsToken(f, p) = [st |-> "SUCCESS", s |-> c, info |-> p.info]
    BY <1>5, <1>7, <1>8, GoodToken
  <2>2. g = CopsToken(f, p)
    BY <1>7, <2>1 DEF g, p, AfterMode
  <2>. QED BY <2>1, <2>2
<1>. HIDE DEF g
<1>11. h = [st |-> "SUCCESS", s |-> b, info |-> q.info]
  <2>0. g.st = "SUCCESS" /\ g.s = c /\ g.info = p.info
    BY <1>10
  <2>1. Tok(g) = DecDigits[k] /\ CopsToken(g, q) = [st |-> "SUCCESS", s |-> b, info |-> q.info]
    BY <1>6, <1>9, <2>0, GoodToken
  <2>2. h = CopsToken(g, q)
    BY <2>0, <2>1 DEF h, q, AfterFormat
  <2>. QED BY <2>1, <2>2
<1>. HIDE DEF h
<1>12. ParseCops(s, info) = AfterRat(AfterName(h))
  BY CopsSteps DEF h, g, f
<1>13. IsRead(h) /\ h.st = "SUCCESS" /\ h.s = b /\ h.info = q.info
  BY <1>9, <1>11 DEF IsRead
<1>. DEFINE r == ParseCops(s, info).info
<1>14. ASSUME k \in {0, 1} PROVE Keeps(r, info)
  <2>1. IsRead(AfterName(h)) /\ Keeps(AfterName(h).info, q.info)
    BY <1>9, <1>13, <1>14, NameKeeps
  <2>2. Keeps(AfterRat(AfterName(h)).info, AfterName(h).info)
    BY <2>1, RatKeeps
  <2>. QED BY <1>9, <1>12, <2>1, <2>2 DEF Keeps
<1>15. ASSUME k = 2, Lacks(name, ","), Len(name) \in {5, 6}
       PROVE  r.plmn = [mcc |-> SubSeq(name, 1, 3), mnc |-> From(name, 4)]
  <2>. DEFINE w == NumericName(name, q.info)
              plmn == [mcc |-> SubSeq(name, 1, 3), mnc |-> From(name, 4)]
  <2>0. Len(name) = 5 \/ Len(name) = 6
    BY <1>15
  <2>1. ATGetNextTok(b) = [st |-> "SUCCESS", tok |-> name, s |-> d]
    <3>. DEFINE z == ","
    <3>1. Lacks(name, z) /\ z \in Symbols
      BY <1>15, Commas
    <3>1a. Len(name) + 1 + Len(d) <= MaxString
      BY <1>2, TextAssumption
    <3>. HIDE DEF z
    <3>2. ATGetSpecificNextTok(name \o <<z>> \o d, z) = [st |-> "SUCCESS", tok |-> name, s |-> d]
      BY <3>1, <3>1a, FirstToken
    <3>. QED BY <3>2 DEF ATGetNextTok, Comma, b, z
  <2>2. Cut(name, 3) = SubSeq(name, 1, 3)
    <3>1. Min({3, Len(name)}) = 3
      <4>. DEFINE x == Len(name)
                  T == {3, x}
      <4>. HIDE DEF r, w, plmn, T
      <4>0a. x \in Nat
        BY <1>2
      <4>0b. x = 5 \/ x = 6
        BY <2>0
      <4>. HIDE DEF x
      <4>0. 3 <= x
        BY <4>0a, <4>0b
      <4>1. T \in SUBSET Nat /\ 3 \in T /\ \A i \in T : 3 <= i
        BY <4>0a, <4>0 DEF T
      <4>. HIDE DEF T
      <4>2. Min(T) = 3
        BY <4>1, LeastOf
      <4>. QED BY <4>2 DEF T, x
    <3>. QED BY <3>1 DEF Cut
  <2>3. w = [ok |-> TRUE, info |-> [q.info EXCEPT !.plmn = plmn]]
    <3>1. MccMax = 3 /\ MncMax = 3 /\ MccMax + 1 = 4 /\ Len(name) \in {MccMax + MncMax, MccMax + MncMax - 1}
      BY <2>0 DEF MccMax, MncMax
    <3>2. w = [ok |-> TRUE, info |-> [q.info EXCEPT !.plmn = [mcc |-> Cut(name, MccMax),
                                                              mnc |-> From(name, MccMax + 1)]]]
      BY <3>1 DEF NumericName
    <3>. QED BY <2>2, <3>1, <3>2
  <2>. HIDE DEF w, plmn
  <2>4. w.ok /\ But(w.info, q.info, "plmn") /\ w.info["plmn"] = plmn
    <3>. DEFINE i == q.info
                j == w.info
                field == "plmn"
    <3>1. j = [i EXCEPT ![field] = plmn] /\ IsInfo(i) /\ field \in CopsFields
      BY <1>9, <2>3 DEF CopsFields
    <3>2. w.ok
      BY <2>3
    <3>. HIDE DEF i, j, field
    <3>3. But(j, i, field)
      BY <3>1, ButWhen
    <3>4. j[field] = plmn
      BY <3>1 DEF IsInfo
    <3>. QED BY <3>2, <3>3, <3>4 DEF i, j, field
  <2>5. ParseCopsNetworkNameToken(name, q.info) = w
    <3>1. q.info.format = 2
      BY <1>9, <1>15
    <3>. HIDE DEF plmn
    <3>. QED BY <3>1, SMT DEF ParseCopsNetworkNameToken, w
  <2>6. Tok(h) = name /\ CopsToken(h, w) = [st |-> "SUCCESS", s |-> d, info |-> w.info]
    BY <1>13, <2>1, <2>4, GoodToken
  <2>7. AfterName(h) = [st |-> "SUCCESS", s |-> d, info |-> w.info]
    BY <1>13, <2>5, <2>6 DEF AfterName
  <2>8. IsRead(AfterName(h)) /\ AfterName(h).info = w.info
    BY <2>4, <2>7 DEF IsRead, But
  <2>9. Keeps(r, w.info)
    BY <1>12, <2>8, RatKeeps
  <2>10. r.plmn = plmn
    BY <2>4, <2>9 DEF Keeps
  <2>. QED BY <2>10 DEF plmn
<1>16. ASSUME k = 2, Numeric(name) PROVE r.plmn = PlmnOf(name)
  BY <1>15, <1>16 DEF Numeric, PlmnOf
<1>. QED BY <1>14, <1>16 DEF s, c, b

-----------------------------------------------------------------------------
(* The parameters of a command.                                                *)

Param(a) == a \in Texts /\ Lacks(a, ",")

LEMMA ParamFirst ==
  ASSUME NEW a, Param(a), NEW b \in Texts
  PROVE  First(Comma(a, b)) = a /\ Rest(Comma(a, b)) = b
<1>. DEFINE d == ","
<1>1. a \in Texts /\ Lacks(a, d) /\ d \in Symbols
  BY Commas DEF Param
<1>. HIDE DEF d
<1>2. LET s == a \o <<d>> \o b IN
      SubSeq(s, 1, FirstOf(s, d) - 1) = a /\ From(s, FirstOf(s, d) + 1) = b
  BY <1>1, CutAt
<1>. QED BY <1>2 DEF First, Rest, Comma, d

LEMMA ParamLast ==
  ASSUME NEW a, Param(a)
  PROVE  First(a) = a /\ Rest(a) = <<>>
<1>. DEFINE d == ","
<1>1. a \in Texts /\ Lacks(a, d) /\ d \in Symbols
  BY Commas DEF Param
<1>. HIDE DEF d
<1>2. FirstOf(a, d) = Len(a) + 1 /\ Len(a) \in Nat
  BY <1>1, FirstNowhere DEF Texts
<1>3. SubSeq(a, 1, Len(a)) = a
  BY <1>1, SubSeqFull DEF Texts
<1>4. From(a, Len(a) + 1 + 1) = <<>>
  BY <1>1, <1>2 DEF From, Texts
<1>5. SubSeq(a, 1, FirstOf(a, d) - 1) = a
  BY <1>2, <1>3
<1>. QED BY <1>2, <1>4, <1>5 DEF First, Rest, d

LEMMA ParamNone == Param(<<>>) /\ <<>> \in Texts
BY Nothing DEF Param, Lacks

LEMMA FieldsOfThree ==
  ASSUME NEW a, Param(a), NEW b, Param(b), NEW c, Param(c)
  PROVE  LET f == Fields(Comma(a, Comma(b, c))) IN
         f[1] = a /\ f[2] = b /\ f[3] = c /\ f[4] = <<>> /\ f[5] = <<>>
<1>. DEFINE t == Comma(b, c)
            s == Comma(a, t)
            f == Fields(s)
<1>1. t \in Texts
  BY CommaIs DEF Param
<1>2. First(s) = a /\ Rest(s) = t
  <2>. HIDE DEF t
  <2>. QED BY <1>1, ParamFirst
<1>3. First(t) = b /\ Rest(t) = c
  BY ParamFirst DEF Param
<1>4. First(c) = c /\ Rest(c) = <<>>
  BY ParamLast
<1>5. First(<<>>) = <<>> /\ Rest(<<>>) = <<>>
  BY ParamNone, ParamLast
<1>. HIDE DEF s, t
<1>6. f[1] = a /\ f[2] = b /\ f[3] = c /\ f[4] = <<>> /\ f[5] = <<>>
  BY <1>2, <1>3, <1>4, <1>5 DEF Fields
<1>. QED BY <1>6 DEF s, t

LEMMA FieldsOfFive ==
  ASSUME NEW a, Param(a), NEW b, Param(b), NEW c, Param(c), NEW d, Param(d), NEW e, Param(e)
  PROVE  LET f == Fields(Comma(a, Comma(b, Comma(c, Comma(d, e))))) IN
         f[1] = a /\ f[2] = b /\ f[3] = c /\ f[4] = d /\ f[5] = e
<1>. DEFINE w == Comma(d, e)
            v == Comma(c, w)
            t == Comma(b, v)
            s == Comma(a, t)
            f == Fields(s)
<1>0. w \in Texts
  BY CommaIs DEF Param
<1>1. v \in Texts
  <2>. HIDE DEF w
  <2>. QED BY <1>0, CommaIs DEF Param
<1>1a. t \in Texts
  <2>. HIDE DEF v
  <2>. QED BY <1>1, CommaIs DEF Param
<1>2. First(s) = a /\ Rest(s) = t
  <2>. HIDE DEF t
  <2>. QED BY <1>1a, ParamFirst
<1>3. First(t) = b /\ Rest(t) = v
  <2>. HIDE DEF v
  <2>. QED BY <1>1, ParamFirst
<1>4. First(v) = c /\ Rest(v) = w
  <2>. HIDE DEF w
  <2>. QED BY <1>0, ParamFirst
<1>5. First(w) = d /\ Rest(w) = e
  BY ParamFirst DEF Param
<1>6. First(e) = e
  BY ParamLast
<1>. HIDE DEF s, t, v, w
<1>7. f[1] = a /\ f[2] = b /\ f[3] = c /\ f[4] = d /\ f[5] = e
  BY <1>2, <1>3, <1>4, <1>5, <1>6 DEF Fields
<1>. QED BY <1>7 DEF s, t, v, w

\* A command: its name, and its parameters.
LEMMA Command ==
  ASSUME NEW w, NEW s \in Texts
  PROVE  LET c == <<w>> \o s IN c[1] = w /\ Tail(c) = s
<1>. DEFINE q == <<w>>
            A == Symbols \cup {w}
            c == q \o s
<1>1. q \in Seq(A) /\ Len(q) = 1 /\ q[1] = w
  OBVIOUS
<1>2. s \in Seq(A) /\ Len(s) \in Nat
  BY DEF Texts
<1>. HIDE DEF q, A
<1>3. /\ c \in Seq(A) /\ Len(c) = 1 + Len(s) /\ c[1] = w
      /\ \A i \in 1 .. Len(s) : c[1 + i] = s[i]
  <2>0. /\ q \o s \in Seq(A) /\ Len(q \o s) = Len(q) + Len(s)
        /\ \A i \in 1 .. Len(q) + Len(s) : (q \o s)[i] = IF i <= Len(q) THEN q[i] ELSE s[i - Len(q)]
    BY <1>1, <1>2, ConcatProperties
  <2>1. /\ c \in Seq(A) /\ Len(c) = Len(q) + Len(s)
        /\ \A i \in 1 .. Len(c) : c[i] = IF i <= Len(q) THEN q[i] ELSE s[i - Len(q)]
    <3>1. c = q \o s
      OBVIOUS
    <3>. HIDE DEF c
    <3>2. Len(c) = Len(q) + Len(s)
      BY <2>0, <3>1
    <3>. QED BY <2>0, <3>1, <3>2
  <2>. HIDE DEF c
  <2>2. \A i \in 1 .. Len(s) : 1 + i \in 1 .. Len(c) /\ ~(1 + i <= Len(q)) /\ 1 + i - Len(q) = i
    BY <1>1, <1>2, <2>1
  <2>3. \A i \in 1 .. Len(s) : c[1 + i] = s[1 + i - Len(q)]
    BY <2>1, <2>2
  <2>4. \A i \in 1 .. Len(s) : c[1 + i] = s[i]
    BY <2>2, <2>3
  <2>5. 1 \in 1 .. Len(c) /\ 1 <= Len(q)
    BY <1>1, <1>2, <2>1
  <2>6. c[1] = w
    BY <1>1, <2>1, <2>5
  <2>. QED BY <1>1, <2>1, <2>4, <2>6
<1>. HIDE DEF c
<1>4. c # <<>>
  <2>1. Len(c) # 0
    BY <1>2, <1>3
  <2>. QED BY <2>1
<1>. DEFINE r == Tail(c)
<1>5. r \in Seq(A) /\ Len(r) = Len(s) /\ \A i \in 1 .. Len(s) : r[i] = c[i + 1]
  <2>1. r \in Seq(A) /\ Len(r) = Len(c) - 1 /\ \A i \in 1 .. Len(r) : r[i] = c[i + 1]
    BY <1>3, <1>4, HeadTailProperties
  <2>2. 1 + Len(s) - 1 = Len(s)
    BY <1>2
  <2>. QED BY <1>3, <2>1, <2>2
<1>6. \A i \in 1 .. Len(s) : r[i] = s[i]
  <2>1. \A i \in 1 .. Len(s) : i + 1 = 1 + i
    BY <1>2
  <2>. HIDE DEF r
  <2>. QED BY <1>3, <1>5, <2>1
<1>. HIDE DEF r
<1>7. r = s
  BY <1>2, <1>5, <1>6, SeqEqual
<1>. QED BY <1>3, <1>7 DEF c, r, q

LEMMA NumberParam ==
  ASSUME NEW n \in 0 .. 99
  PROVE  Param(DecDigits[n]) /\ ValueOf(DecDigits[n], 10) = n
<1>1. Numeral(DecDigits[n], 10) /\ ValueOf(DecDigits[n], 10) = n
  BY DecDigitsAre
<1>2. Lacks(DecDigits[n], ",")
  BY <1>1, NumeralIs DEF Bases
<1>. QED BY <1>1, <1>2 DEF Param, Numeral

\* A parameter in quotes, and without them.
LEMMA QuotedParam ==
  ASSUME NEW a, Param(a), Lacks(a, Quote)
  PROVE  Param(Quoted(a)) /\ Unquoted(Quoted(a)) = a /\ Quoted(a) # <<>>
<1>1. a \in Texts /\ Lacks(a, ",") /\ "," \in Symbols /\ "," # Quote /\ Quote \in Symbols
  BY Commas DEF Param, Quote
<1>2. Quoted(a) \in Texts /\ Len(Quoted(a)) = Len(a) + 2 /\ Len(a) \in Nat
      /\ Without(Quoted(a), Quote) = Without(a, Quote)
  BY <1>1, QuotedIs
<1>3. Lacks(Quoted(a), ",")
  BY <1>1, QuotedIs
<1>4. Without(a, Quote) = a
  BY <1>1, WithoutSame
<1>5. Quoted(a) # <<>>
  BY <1>2, Longer
<1>. QED BY <1>2, <1>3, <1>4, <1>5 DEF Param, Unquoted

LEMMA BitsParam ==
  ASSUME NEW n \in Nat, NEW width \in {4, 8}
  PROVE  /\ Param(Quoted(Bits(n, width))) /\ Quoted(Bits(n, width)) # <<>>
         /\ ValueOf(Unquoted(Quoted(Bits(n, width))), 2) = n % (IF width = 8 THEN 256 ELSE 16)
<1>. DEFINE b == Bits(n, width)
<1>1. Numeral(b, 2)
  BY BitsText
<1>2. ValueOf(b, 2) = n % (IF width = 8 THEN 256 ELSE 16)
  BY BitsValue
<1>. HIDE DEF b
<1>3. Lacks(b, ",") /\ Lacks(b, Quote)
  BY <1>1, NumeralIs DEF Bases
<1>4. Param(b)
  BY <1>1, <1>3 DEF Param, Numeral
<1>5. Param(Quoted(b)) /\ Unquoted(Quoted(b)) = b /\ Quoted(b) # <<>>
  BY <1>3, <1>4, QuotedParam
<1>. QED BY <1>2, <1>5 DEF b

LEMMA PatternParam ==
  ASSUME NEW n \in Nat
  PROVE  /\ Param(BinaryPattern(n))
         /\ n = 0 => BinaryPattern(n) = <<>>
         /\ n # 0 => BinaryPattern(n) # <<>> /\ ValueOf(Unquoted(BinaryPattern(n)), 2) = n % 256
<1>1. CASE n = 0
  BY <1>1, ParamNone DEF BinaryPattern
<1>2. CASE n # 0
  <2>. DEFINE q == Quoted(Bits(n, 8))
  <2>1. Param(q) /\ q # <<>> /\ ValueOf(Unquoted(q), 2) = n % 256
    BY BitsParam
  <2>. HIDE DEF q
  <2>2. BinaryPattern(n) = q
    BY <1>2 DEF BinaryPattern, q
  <2>. QED BY <1>2, <2>1, <2>2
<1>. QED BY <1>1, <1>2

-----------------------------------------------------------------------------
(* What the modem hears.                                                       *)

IsPsmArg(p) == p.mode \in {0, 1} /\ \A f \in TimerFields : p[f] \in Nat

\* psm is what was there, with the timers of p that are not 0.
PsmHeard(h, psm, p) ==
  /\ h.mode = p.mode
  /\ \A f \in TimerFields : h[f] = IF p[f] = 0 THEN psm[f] ELSE {p[f] % 256}

LEMMA PsmCommandHeard ==
  ASSUME NEW psm, NEW p, IsPsmArg(p)
  PROVE  LET c == PsmCommand(p) IN
         c[1] = "AT+CPSMS=" /\ PsmHeard(HeardPsm(psm, Fields(Tail(c))), psm, p)
<1>. DEFINE m == DecDigits[p.mode]
            a == BinaryPattern(p.rau)
            b == BinaryPattern(p.ready)
            d == BinaryPattern(p.tau)
            e == BinaryPattern(p.active)
            s == Comma(m, Comma(a, Comma(b, Comma(d, e))))
            c == PsmCommand(p)
<1>1. p.rau \in Nat /\ p.ready \in Nat /\ p.tau \in Nat /\ p.active \in Nat /\ p.mode \in 0 .. 99
  BY DEF IsPsmArg, TimerFields
<1>2. Param(m) /\ ValueOf(m, 10) = p.mode
  BY <1>1, NumberParam
<1>3. \A n \in Nat : /\ Param(BinaryPattern(n))
                     /\ n = 0 => BinaryPattern(n) = <<>>
                     /\ n # 0 => BinaryPattern(n) # <<>> /\ ValueOf(Unquoted(BinaryPattern(n)), 2) = n % 256
  BY PatternParam
<1>4. Param(a) /\ Param(b) /\ Param(d) /\ Param(e)
  BY <1>1, <1>3
<1>5. s \in Texts
  <2>. HIDE DEF m, a, b, d, e
  <2>1. Comma(d, e) \in Texts
    BY <1>4, CommaIs DEF Param
  <2>2. Comma(b, Comma(d, e)) \in Texts
    BY <1>4, <2>1, CommaIs DEF Param
  <2>3. Comma(a, Comma(b, Comma(d, e))) \in Texts
    BY <1>4, <2>2, CommaIs DEF Param
  <2>. QED BY <1>2, <2>3, CommaIs DEF Param
<1>6. LET f == Fields(s) IN f[1] = m /\ f[2] = a /\ f[3] = b /\ f[4] = d /\ f[5] = e
  <2>. HIDE DEF m, a, b, d, e
  <2>. QED BY <1>2, <1>4, FieldsOfFive
<1>7. c[1] = "AT+CPSMS=" /\ Tail(c) = s
  <2>1. c = <<"AT+CPSMS=">> \o s
    BY DEF PsmCommand
  <2>. DEFINE w == "AT+CPSMS="
  <2>. HIDE DEF s, w, c
  <2>2. c = <<w>> \o s
    BY <2>1 DEF w
  <2>3. c[1] = w /\ Tail(c) = s
    BY <1>5, <2>2, Command
  <2>. QED BY <2>3 DEF w
<1>. DEFINE f == Fields(s)
            h == HeardPsm(psm, f)
            heard(i) == IF f[i + 1] # <<>> THEN {ValueOf(Unquoted(f[i + 1]), 2)} ELSE psm[PsmFields[i]]
<1>8. h = [mode |-> ValueOf(f[1], 10), rau |-> heard(1), ready |-> heard(2), tau |-> heard(3),
           active |-> heard(4)]
  BY DEF HeardPsm
<1>9. h.mode = p.mode
  <2>. HIDE DEF s, m
  <2>. QED BY <1>2, <1>6, <1>8
<1>10. heard(1) = (IF p.rau = 0 THEN psm.rau ELSE {p.rau % 256})
  <2>1. PsmFields[1] = "rau" /\ f[1 + 1] = a
    <3>. HIDE DEF a, b, d, e, s
    <3>. QED BY <1>6 DEF PsmFields
  <2>2. a = IF p.rau = 0 THEN <<>> ELSE a
    BY <1>1, <1>3
  <2>3. p.rau # 0 => a # <<>> /\ ValueOf(Unquoted(a), 2) = p.rau % 256
    BY <1>1, <1>3
  <2>. HIDE DEF a, f
  <2>. QED BY <2>1, <2>2, <2>3
<1>11. heard(2) = (IF p.ready = 0 THEN psm.ready ELSE {p.ready % 256})
  <2>1. PsmFields[2] = "ready" /\ f[2 + 1] = b
    <3>. HIDE DEF a, b, d, e, s
    <3>. QED BY <1>6 DEF PsmFields
  <2>2. b = IF p.ready = 0 THEN <<>> ELSE b
    BY <1>1, <1>3
  <2>3. p.ready # 0 => b # <<>> /\ ValueOf(Unquoted(b), 2) = p.ready % 256
    BY <1>1, <1>3
  <2>. HIDE DEF b, f
  <2>. QED BY <2>1, <2>2, <2>3
<1>12. heard(3) = (IF p.tau = 0 THEN psm.tau ELSE {p.tau % 256})
  <2>1. PsmFields[3] = "tau" /\ f[3 + 1] = d
    <3>. HIDE DEF a, b, d, e, s
    <3>. QED BY <1>6 DEF PsmFields
  <2>2. d = IF p.tau = 0 THEN <<>> ELSE d
    BY <1>1, <1>3
  <2>3. p.tau # 0 => d # <<>> /\ ValueOf(Unquoted(d), 2) = p.tau % 256
    BY <1>1, <1>3
  <2>. HIDE DEF d, f
  <2>. QED BY <2>1, <2>2, <2>3
<1>13. heard(4) = (IF p.active = 0 THEN psm.active ELSE {p.active % 256})
  <2>1. PsmFields[4] = "active" /\ f[4 + 1] = e
    <3>. HIDE DEF a, b, d, e, s
    <3>. QED BY <1>6 DEF PsmFields
  <2>2. e = IF p.active = 0 THEN <<>> ELSE e
    BY <1>1, <1>3
  <2>3. p.active # 0 => e # <<>> /\ ValueOf(Unquoted(e), 2) = p.active % 256
    BY <1>1, <1>3
  <2>. HIDE DEF e, f
  <2>. QED BY <2>1, <2>2, <2>3
<1>14. PsmHeard(h, psm, p)
  <2>. HIDE DEF heard
  <2>1. h.rau = heard(1) /\ h.ready = heard(2) /\ h.tau = heard(3) /\ h.active = heard(4)
    BY <1>8
  <2>. HIDE DEF h
  <2>. DEFINE right(x) == h[x] = IF p[x] = 0 THEN psm[x] ELSE {p[x] % 256}
  <2>2. right("rau")
    BY <1>10, <2>1
  <2>3. right("ready")
    BY <1>11, <2>1
  <2>4. right("tau")
    BY <1>12, <2>1
  <2>5. right("active")
    BY <1>13, <2>1
  <2>. HIDE DEF right
  <2>6. \A x \in TimerFields : right(x)
    BY <2>2, <2>3, <2>4, <2>5 DEF TimerFields
  <2>. QED BY <1>9, <2>6 DEF PsmHeard, right
<1>. QED BY <1>7, <1>14

IsEidrxArg(e) == e.mode \in 0 .. 3 /\ e.rat \in 0 .. 99 /\ e.value \in 0 .. 15
Entries == [rat : 0 .. 99, value : 0 .. 15]

LEMMA EidrxCommandHeard ==
  ASSUME NEW list \in Seq(Entries), NEW e, IsEidrxArg(e)
  PROVE  LET c == EidrxCommand(e)
             h == HeardEdrx(list, Fields(Tail(c)))
         IN  /\ c[1] = "AT+CEDRXS=" /\ h \in Seq(Entries)
             /\ [rat |-> e.rat, value |-> e.value] \in ToSet(h)
<1>. DEFINE m == DecDigits[e.mode]
            r == DecDigits[e.rat]
            v == Quoted(Bits(e.value, 4))
            s == Comma(m, Comma(r, v))
            c == EidrxCommand(e)
            f == Fields(s)
            h == HeardEdrx(list, f)
            x == [rat |-> e.rat, value |-> e.value]
<1>1. e.mode \in 0 .. 99 /\ e.rat \in 0 .. 99 /\ e.value \in Nat /\ e.value \in 0 .. 15
  BY DEF IsEidrxArg
<1>2. Param(m) /\ Param(r) /\ ValueOf(r, 10) = e.rat
  BY <1>1, NumberParam
<1>3. Param(v) /\ ValueOf(Unquoted(v), 2) = e.value % 16
  <2>1. ASSUME NEW n \in Nat
        PROVE  /\ Param(Quoted(Bits(n, 4)))
               /\ ValueOf(Unquoted(Quoted(Bits(n, 4))), 2) = n % (IF 4 = 8 THEN 256 ELSE 16)
    <3>1. 4 \in {4, 8}
      OBVIOUS
    <3>. QED BY <3>1, BitsParam
  <2>2. \A n \in Nat : n % (IF 4 = 8 THEN 256 ELSE 16) = n % 16
    OBVIOUS
  <2>3. \A n \in Nat : Param(Quoted(Bits(n, 4))) /\ ValueOf(Unquoted(Quoted(Bits(n, 4))), 2) = n % 16
    BY <2>1, <2>2
  <2>. QED BY <1>1, <2>3
<1>4. e.value % 16 = e.value
  <2>1. \A n \in 0 .. 15 : n % 16 = n
    OBVIOUS
  <2>. QED BY <1>1, <2>1
<1>5. f[2] = r /\ f[3] = v
  <2>. HIDE DEF m, r, v
  <2>. QED BY <1>2, <1>3, FieldsOfThree
<1>6. c[1] = "AT+CEDRXS=" /\ Tail(c) = s
  <2>. DEFINE w == "AT+CEDRXS="
  <2>1. c = <<w>> \o s
    BY DEF EidrxCommand
  <2>2. s \in Texts
    <3>. HIDE DEF m, r, v
    <3>1. Comma(r, v) \in Texts
      BY <1>2, <1>3, CommaIs DEF Param
    <3>. QED BY <1>2, <3>1, CommaIs DEF Param
  <2>. HIDE DEF s, w, c
  <2>3. c[1] = w /\ Tail(c) = s
    BY <2>1, <2>2, Command
  <2>. QED BY <2>3 DEF w
<1>7. h = IF \E i \in DOMAIN list : list[i].rat = x.rat
          THEN [i \in DOMAIN list |-> IF list[i].rat = x.rat THEN x ELSE list[i]]
          ELSE Append(list, x)
  <2>1. [rat |-> ValueOf(f[2], 10), value |-> ValueOf(Unquoted(f[3]), 2)] = x
    <3>. HIDE DEF f, v, r
    <3>. QED BY <1>2, <1>3, <1>4, <1>5
  <2>. HIDE DEF x, f
  <2>. QED BY <2>1 DEF HeardEdrx
<1>8. x \in Entries
  BY <1>1 DEF Entries
<1>. HIDE DEF h, x
<1>9. Len(list) \in Nat /\ DOMAIN list = 1 .. Len(list) /\ \A i \in DOMAIN list : list[i] \in Entries
  <2>. HIDE DEF Entries
  <2>. QED BY ElementOfSeq
<1>10. h \in Seq(Entries) /\ x \in ToSet(h)
  <2>1. CASE \E i \in DOMAIN list : list[i].rat = x.rat
    <3>. DEFINE g == [i \in 1 .. Len(list) |-> IF list[i].rat = x.rat THEN x ELSE list[i]]
    <3>1. h = g
      BY <1>7, <1>9, <2>1
    <3>2. g \in Seq(Entries)
      <4>1. \A i \in 1 .. Len(list) : (IF list[i].rat = x.rat THEN x ELSE list[i]) \in Entries
        BY <1>8, <1>9
      <4>. HIDE DEF Entries
      <4>. QED BY <1>9, <4>1
    <3>3. x \in ToSet(g)
      <4>1. PICK i \in 1 .. Len(list) : list[i].rat = x.rat
        BY <1>9, <2>1
      <4>2. g[i] = x /\ i \in DOMAIN g
        BY <4>1
      <4>. HIDE DEF g
      <4>. QED BY <4>2 DEF ToSet
    <3>. QED BY <3>1, <3>2, <3>3
  <2>2. CASE ~\E i \in DOMAIN list : list[i].rat = x.rat
    <3>1. h = Append(list, x)
      BY <1>7, <2>2
    <3>2. h \in Seq(Entries) /\ Len(h) = Len(list) + 1 /\ h[Len(list) + 1] = x
      <4>. HIDE DEF Entries
      <4>. QED BY <1>8, <3>1, AppendProperties
    <3>3. Len(list) + 1 \in DOMAIN h
      <4>1. DOMAIN h = 1 .. Len(list) + 1
        <5>. HIDE DEF Entries
        <5>. QED BY <3>2
      <4>. QED BY <1>9, <4>1
    <3>. QED BY <3>2, <3>3 DEF ToSet
  <2>. QED BY <2>1, <2>2
<1>11. c[1] = "AT+CEDRXS=" /\ HeardEdrx(list, Fields(Tail(c))) = h
  BY <1>6 DEF h
<1>. QED BY <1>10, <1>11 DEF x

\* A name of a type of PDN, as a parameter.
LEMMA PdnTypeIs ==
  ASSUME NEW type \in DOMAIN PdnTypes
  PROVE  Param(PdnTypes[type]) /\ Lacks(PdnTypes[type], Quote)
<1>1. \A w \in {"IP", "IPV6", "IPV4V6"} : Param(<<w>>) /\ Lacks(<<w>>, Quote)
  <2>. TAKE w \in {"IP", "IPV6", "IPV4V6"}
  <2>1. w \in Symbols
    BY SymbolsAre DEF Literals
  <2>2. w # "," /\ w # Quote
    BY DEF Quote
  <2>. HIDE DEF Quote
  <2>3. <<w>> \in Texts /\ Len(<<w>>) = 1 /\ <<w>>[1] = w
    BY <2>1, Single
  <2>4. \A i \in 1 .. 1 : i = 1
    OBVIOUS
  <2>. QED BY <2>2, <2>3, <2>4 DEF Param, Lacks
<1>2. type \in {1, 2, 3} /\ PdnTypes[1] = <<"IP">> /\ PdnTypes[2] = <<"IPV6">> /\ PdnTypes[3] = <<"IPV4V6">>
  BY DEF PdnTypes
<1>3. \E w \in {"IP", "IPV6", "IPV4V6"} : PdnTypes[type] = <<w>>
  BY <1>2
<1>. QED BY <1>1, <1>3

IsPdnArg(cid, type, apn) ==
  /\ cid \in 0 .. 99 /\ type \in DOMAIN PdnTypes
  /\ apn \in Text /\ Lacks(apn, Quote) /\ Lacks(apn, ",")

LEMMA PdnCommandHeard ==
  ASSUME NEW cid, NEW type, NEW apn, IsPdnArg(cid, type, apn)
  PROVE  LET c == PdnCommand(cid, type, apn)
             f == Fields(Tail(c))
         IN  /\ c[1] = "AT+CGDCONT="
             /\ ValueOf(f[1], 10) = cid /\ Unquoted(f[2]) = PdnTypes[type] /\ Unquoted(f[3]) = apn
<1>. DEFINE m == DecDigits[cid]
            y == PdnTypes[type]
            r == Quoted(y)
            v == Quoted(apn)
            s == Comma(m, Comma(r, v))
            c == PdnCommand(cid, type, apn)
            f == Fields(s)
<1>1. Param(m) /\ ValueOf(m, 10) = cid
  BY NumberParam DEF IsPdnArg
<1>2. Param(r) /\ Unquoted(r) = y
  <2>1. Param(y) /\ Lacks(y, Quote)
    BY PdnTypeIs DEF IsPdnArg
  <2>. HIDE DEF y
  <2>. QED BY <2>1, QuotedParam
<1>3. Param(v) /\ Unquoted(v) = apn
  <2>1. Param(apn)
    BY TextIs DEF Param, IsPdnArg
  <2>. QED BY <2>1, QuotedParam DEF IsPdnArg
<1>. HIDE DEF y
<1>5. f[1] = m /\ f[2] = r /\ f[3] = v
  <2>1. Param(m) /\ Param(r) /\ Param(v)
    BY <1>1, <1>2, <1>3
  <2>. HIDE DEF m, r, v, c
  <2>2. LET g == Fields(Comma(m, Comma(r, v))) IN
        g[1] = m /\ g[2] = r /\ g[3] = v /\ g[4] = <<>> /\ g[5] = <<>>
    BY <2>1, FieldsOfThree
  <2>. QED BY <2>2
<1>6. c[1] = "AT+CGDCONT=" /\ Tail(c) = s
  <2>. DEFINE w == "AT+CGDCONT="
  <2>1. c = <<w>> \o s
    BY DEF PdnCommand, y
  <2>2. s \in Texts
    <3>. HIDE DEF m, r, v
    <3>1. Comma(r, v) \in Texts
      BY <1>2, <1>3, CommaIs DEF Param
    <3>. QED BY <1>1, <3>1, CommaIs DEF Param
  <2>. HIDE DEF s, w, c
  <2>3. c[1] = w /\ Tail(c) = s
    BY <2>1, <2>2, Command
  <2>. QED BY <2>3 DEF w
<1>. HIDE DEF m, r, v, s, c
<1>7. Fields(Tail(c)) = f
  BY <1>6
<1>8. LET g == Fields(Tail(c)) IN
      ValueOf(g[1], 10) = cid /\ Unquoted(g[2]) = y /\ Unquoted(g[3]) = apn
  <2>. HIDE DEF f
  <2>. QED BY <1>1, <1>2, <1>3, <1>5, <1>7
<1>. QED BY <1>6, <1>8 DEF c, y

\* The format a command asks for.
LEMMA FormatHeard ==
  ASSUME NEW c \in FormatCommands
  PROVE  c[1] = "AT+COPS=" /\ ValueOf(Fields(Tail(c))[2], 10) \in 0 .. 2
<1>1. PICK k \in 0 .. 2 : c = <<"AT+COPS=", "3", ",", Decimals[k + 1]>>
  <2>1. PICK d \in {"0", "1", "2"} : c = <<"AT+COPS=", "3", ",", d>>
    BY DEF FormatCommands
  <2>2. d = Decimals[0 + 1] \/ d = Decimals[1 + 1] \/ d = Decimals[2 + 1]
    BY DecimalsAre
  <2>3. 0 \in 0 .. 2 /\ 1 \in 0 .. 2 /\ 2 \in 0 .. 2
    OBVIOUS
  <2>. QED BY <2>1, <2>2, <2>3
<1>. DEFINE d == Decimals[k + 1]
            x == "3"
            y == ","
            w == "AT+COPS="
<1>2. x \in Symbols /\ y \in Symbols /\ d \in Symbols
  <2>1. x \in Symbols /\ y \in Symbols
    BY SymbolsAre DEF Literals
  <2>2. k \in 0 .. 9
    OBVIOUS
  <2>3. d \in Literals
    BY <2>2, DigitsSymbols
  <2>. QED BY <2>1, <2>3, SymbolsAre
<1>3. DecDigits[k] = <<d>> /\ DecDigits[3] = <<x>>
  BY DecimalsAre DEF DecDigits
<1>4. k \in 0 .. 99 /\ 3 \in 0 .. 99
  OBVIOUS
<1>5. Param(<<d>>) /\ ValueOf(<<d>>, 10) = k /\ Param(<<x>>)
  BY <1>3, <1>4, NumberParam
<1>6. c = <<w, x, y, d>>
  BY <1>1
<1>6a. y = ","
  OBVIOUS
<1>. HIDE DEF d, x, y, w
<1>7. c[1] = w /\ Tail(c) = <<x, y, d>>
  BY <1>6
<1>8. <<x, y, d>> = Comma(<<x>>, <<d>>)
  <2>1. <<x>> \o <<y>> = <<x, y>>
    BY <1>2, Pair
  <2>2. <<x, y>> \o <<d>> = <<x, y, d>>
    BY <1>2, Triple
  <2>. QED BY <1>6a, <2>1, <2>2 DEF Comma
<1>. DEFINE a == <<x>>
            b == <<d>>
<1>9. Param(a) /\ Param(b) /\ ValueOf(b, 10) = k
  BY <1>5
<1>10. Tail(c) = Comma(a, b)
  BY <1>7, <1>8
<1>. HIDE DEF a, b
<1>11. First(Rest(Comma(a, b))) = b
  <2>1. Rest(Comma(a, b)) = b
    BY <1>9, ParamFirst DEF Param
  <2>. QED BY <1>9, <2>1, ParamLast
<1>12. Fields(Tail(c))[2] = b
  BY <1>10, <1>11 DEF Fields
<1>. QED BY <1>7, <1>9, <1>12 DEF w

-----------------------------------------------------------------------------
(* The commands of the calls.                                                  *)

LEMMA QueryOf ==
  ASSUME NEW r, ~r.null
  PROVE  /\ r.op = "GetModemInfo" => Query(r) = GetModemInfo
         /\ r.op = "GetSimCardInfo" => Query(r) = GetSimCardInfo
         /\ r.op = "GetSimCardLockStatus" => Query(r) = GetSimCardLockStatus
         /\ r.op \in CopsOps => Query(r) = GetRegisteredNetwork
         /\ r.op = "GetNetworkTime" => Query(r) = GetNetworkTime
         /\ r.op = "GetIPAddress" => Query(r) = GetIPAddress(r.arg.cid)
         /\ r.op = "SetPdnConfig" => Query(r) = SetPdnConfig(r.arg)
         /\ r.op = "GetPsmSettings" => Query(r) = GetPsmSettings
         /\ r.op = "SetPsmSettings" => Query(r) = SetPsmSettings(r.arg)
         /\ r.op = "GetEidrxSettings" => Query(r) = GetEidrxSettings
         /\ r.op = "SetEidrxSettings" => Query(r) = SetEidrxSettings(r.arg)
         /\ r.op = "RfOn" => Query(r) = RfOn
         /\ r.op = "RfOff" => Query(r) = RfOff
         /\ r.op = "ATCommandRaw" => Query(r) = ATCommandRaw(r.arg.cmd)
<1>1. r.op = "GetModemInfo" => Query(r) = GetModemInfo
  BY DEF Query, CopsOps
<1>2. r.op = "GetSimCardInfo" => Query(r) = GetSimCardInfo
  BY DEF Query, CopsOps
<1>3. r.op = "GetSimCardLockStatus" => Query(r) = GetSimCardLockStatus
  BY DEF Query, CopsOps
<1>4. r.op \in CopsOps => Query(r) = GetRegisteredNetwork
  BY DEF Query, CopsOps
<1>5. r.op = "GetNetworkTime" => Query(r) = GetNetworkTime
  BY DEF Query, CopsOps
<1>6. r.op = "GetIPAddress" => Query(r) = GetIPAddress(r.arg.cid)
  BY DEF Query, CopsOps
<1>7. r.op = "SetPdnConfig" => Query(r) = SetPdnConfig(r.arg)
  BY DEF Query, CopsOps
<1>8. r.op = "GetPsmSettings" => Query(r) = GetPsmSettings
  BY DEF Query, CopsOps
<1>9. r.op = "SetPsmSettings" => Query(r) = SetPsmSettings(r.arg)
  BY DEF Query, CopsOps
<1>10. r.op = "GetEidrxSettings" => Query(r) = GetEidrxSettings
  BY DEF Query, CopsOps
<1>11. r.op = "SetEidrxSettings" => Query(r) = SetEidrxSettings(r.arg)
  BY DEF Query, CopsOps
<1>12. r.op = "RfOn" => Query(r) = RfOn
  BY DEF Query, CopsOps
<1>13. r.op = "RfOff" => Query(r) = RfOff
  BY DEF Query, CopsOps
<1>14. r.op = "ATCommandRaw" => Query(r) = ATCommandRaw(r.arg.cmd)
  BY DEF Query, CopsOps
<1>. QED BY <1>1, <1>2, <1>3, <1>4, <1>5, <1>6, <1>7, <1>8, <1>9, <1>10, <1>11, <1>12, <1>13, <1>14

\* A command of r that changes a setting the getters read changes it to a good value.
GoodCommand(c, r) ==
  /\ c[1] = "AT+COPS=" => c \in FormatCommands
  /\ c[1] = "AT+CPSMS=" => IsPsmArg(r.arg) /\ c = PsmCommand(r.arg)
  /\ c[1] = "AT+CEDRXS=" => IsEidrxArg(r.arg) /\ c = EidrxCommand(r.arg)

\* No name twice, and nothing but good commands.
GoodCall(cs, r) ==
  /\ \A i \in 1 .. Len(cs) : GoodCommand(cs[i], r)
  /\ \A i, j \in 1 .. Len(cs) : i # j => cs[i][1] # cs[j][1]

LEMMA GoodSingle == ASSUME NEW c, NEW r, GoodCommand(c, r) PROVE GoodCall(<<c>>, r)
<1>1. Len(<<c>>) = 1 /\ <<c>>[1] = c
  OBVIOUS
<1>2. \A i \in 1 .. 1 : i = 1
  OBVIOUS
<1>. QED BY <1>1, <1>2 DEF GoodCall

\* A command of another name asks for nothing.
LEMMA GoodOther ==
  ASSUME NEW c, NEW r, c[1] \notin {"AT+COPS=", "AT+CPSMS=", "AT+CEDRXS="}
  PROVE  GoodCommand(c, r)
BY DEF GoodCommand

LEMMA PdnInBytes == \A cid \in PdnMin .. PdnMax : cid \in 0 .. 99
BY QueryAssumption

LEMMA CallsAreGood ==
  ASSUME NEW r, IsRequest(r), Query(r).refusal = "no"
  PROVE  GoodCall(Query(r).commands, r) /\ ~r.null
<1>1. ~r.null
  BY DEF Query, Refused
<1>. DEFINE cs == Query(r).commands
<1>2. \A w : w \notin {"AT+COPS=", "AT+CPSMS=", "AT+CEDRXS="} => GoodCall(<< <<w>> >>, r)
  <2>. TAKE w
  <2>1. ASSUME w \notin {"AT+COPS=", "AT+CPSMS=", "AT+CEDRXS="} PROVE GoodCall(<< <<w>> >>, r)
    <3>. DEFINE c == <<w>>
    <3>1. c[1] = w
      OBVIOUS
    <3>. HIDE DEF c
    <3>2. GoodCommand(c, r)
      BY <2>1, <3>1, GoodOther
    <3>3. GoodCall(<<c>>, r)
      BY <3>2, GoodSingle
    <3>. QED BY <3>3 DEF c
  <2>. QED BY <2>1
<1>3. CASE r.op = "GetModemInfo"
  <2>1. cs = << <<"AT+CGMR">>, <<"AT+CGSN">>, <<"AT+CGMM">>, <<"AT+CGMI">> >>
    BY <1>1, <1>3, QueryOf DEF GetModemInfo, Sends
  <2>2. Len(cs) = 4 /\ cs[1][1] = "AT+CGMR" /\ cs[2][1] = "AT+CGSN" /\ cs[3][1] = "AT+CGMM"
        /\ cs[4][1] = "AT+CGMI"
    BY <2>1
  <2>. HIDE DEF cs
  <2>3. \A i \in 1 .. 4 : i = 1 \/ i = 2 \/ i = 3 \/ i = 4
    OBVIOUS
  <2>4. ASSUME NEW i \in 1 .. Len(cs) PROVE GoodCommand(cs[i], r)
    <3>1. cs[i][1] \notin {"AT+COPS=", "AT+CPSMS=", "AT+CEDRXS="}
      BY <2>2, <2>3
    <3>. QED BY <3>1, GoodOther
  <2>5. \A i, j \in 1 .. Len(cs) : i # j => cs[i][1] # cs[j][1]
    BY <2>2, <2>3
  <2>. QED BY <1>1, <2>4, <2>5 DEF GoodCall, cs
<1>4. CASE r.op = "GetSimCardInfo"
  <2>1. cs = << <<"AT+CIMI">>, <<"AT+CRSM">>, <<"AT+CCID">> >>
    BY <1>1, <1>4, QueryOf DEF GetSimCardInfo, Sends
  <2>2. Len(cs) = 3 /\ cs[1][1] = "AT+CIMI" /\ cs[2][1] = "AT+CRSM" /\ cs[3][1] = "AT+CCID"
    BY <2>1
  <2>. HIDE DEF cs
  <2>3. \A i \in 1 .. 3 : i = 1 \/ i = 2 \/ i = 3
    OBVIOUS
  <2>4. ASSUME NEW i \in 1 .. Len(cs) PROVE GoodCommand(cs[i], r)
    <3>1. cs[i][1] \notin {"AT+COPS=", "AT+CPSMS=", "AT+CEDRXS="}
      BY <2>2, <2>3
    <3>. QED BY <3>1, GoodOther
  <2>5. \A i, j \in 1 .. Len(cs) : i # j => cs[i][1] # cs[j][1]
    BY <2>2, <2>3
  <2>. QED BY <1>1, <2>4, <2>5 DEF GoodCall, cs
<1>5. CASE r.op \in CopsOps
  <2>1. cs = << <<"AT+COPS=", "3", ",", "2">>, <<"AT+COPS?">> >>
    <3>1. Query(r) = GetRegisteredNetwork
      BY <1>1, <1>5, QueryOf
    <3>2. GetRegisteredNetwork.commands = CopsCommands
      BY DEF GetRegisteredNetwork, Sends
    <3>. QED BY <3>1, <3>2 DEF CopsCommands
  <2>2. Len(cs) = 2 /\ cs[1] \in FormatCommands /\ cs[1][1] = "AT+COPS=" /\ cs[2][1] = "AT+COPS?"
    <3>. DEFINE c == <<"AT+COPS=", "3", ",", "2">>
                d == <<"AT+COPS?">>
    <3>0. c[1] = "AT+COPS=" /\ d[1] = "AT+COPS?"
      OBVIOUS
    <3>0a. cs = <<c, d>>
      BY <2>1
    <3>. HIDE DEF c, d
    <3>1. /\ Len(cs) = 2 /\ cs[1] = c /\ cs[1][1] = "AT+COPS=" /\ cs[2][1] = "AT+COPS?"
      BY <3>0, <3>0a
    <3>2. c \in FormatCommands
      <4>1. "2" \in {"0", "1", "2"}
        OBVIOUS
      <4>. QED BY <4>1, Zenon DEF FormatCommands, c
    <3>. QED BY <3>1, <3>2
  <2>. HIDE DEF cs
  <2>3. \A i \in 1 .. 2 : i = 1 \/ i = 2
    OBVIOUS
  <2>4. GoodCommand(cs[1], r) /\ GoodCommand(cs[2], r)
    BY <2>2 DEF GoodCommand
  <2>5. \A i, j \in 1 .. Len(cs) : i # j => cs[i][1] # cs[j][1]
    BY <2>2, <2>3
  <2>. QED BY <1>1, <2>2, <2>3, <2>4, <2>5 DEF GoodCall, cs
<1>6. CASE r.op = "GetIPAddress"
  <2>1. IsValidPdn(r.arg.cid) /\ cs = << <<"AT+CGPADDR=">> \o DecDigits[r.arg.cid] >>
    BY <1>1, <1>6, QueryOf DEF GetIPAddress, Sends, Refused
  <2>. DEFINE w == "AT+CGPADDR="
              d == DecDigits[r.arg.cid]
              c == <<w>> \o d
  <2>2. r.arg.cid \in 0 .. 99
    BY <2>1, PdnInBytes DEF IsValidPdn
  <2>3. d \in Texts
    BY <2>2, NumberParam DEF Param
  <2>4. c[1] = w
    <3>. HIDE DEF w, d
    <3>. QED BY <2>3, Command
  <2>5. cs = <<c>>
    BY <2>1
  <2>. HIDE DEF c
  <2>6. GoodCommand(c, r)
    BY <2>4, GoodOther
  <2>7. GoodCall(<<c>>, r)
    BY <2>6, GoodSingle
  <2>. QED BY <1>1, <2>5, <2>7
<1>7. CASE r.op = "SetPdnConfig"
  <2>. DEFINE p == r.arg
              c == PdnCommand(p.cid, p.type, p.apn)
  <2>1. p.type \in DOMAIN PdnTypes /\ IsValidPdn(p.cid) /\ cs = <<c>>
    BY <1>1, <1>7, QueryOf DEF SetPdnConfig, Sets, Sends, Refused
  <2>2. p.cid \in 0 .. 99
    BY <2>1, PdnInBytes DEF IsValidPdn
  <2>3. IsPdnArg(p.cid, p.type, p.apn)
    BY <1>7, <2>1, <2>2 DEF IsRequest, IsPdnArg
  <2>4. c[1] = "AT+CGDCONT="
    BY <2>3, PdnCommandHeard
  <2>. HIDE DEF c
  <2>5. GoodCommand(c, r)
    BY <2>4, GoodOther
  <2>6. GoodCall(<<c>>, r)
    BY <2>5, GoodSingle
  <2>. QED BY <1>1, <2>1, <2>6
<1>8. CASE r.op = "SetPsmSettings"
  <2>. DEFINE c == PsmCommand(r.arg)
  <2>1. cs = <<c>>
    BY <1>1, <1>8, QueryOf DEF SetPsmSettings, Sets, Sends
  <2>2. IsPsmArg(r.arg)
    BY <1>8 DEF IsRequest, IsPsmArg
  <2>3. c[1] = "AT+CPSMS="
    BY <2>2, PsmCommandHeard
  <2>4. GoodCommand(c, r)
    BY <2>2, <2>3 DEF GoodCommand
  <2>. HIDE DEF c
  <2>5. GoodCall(<<c>>, r)
    BY <2>4, GoodSingle
  <2>. QED BY <1>1, <2>1, <2>5
<1>9. CASE r.op = "SetEidrxSettings"
  <2>. DEFINE c == EidrxCommand(r.arg)
  <2>1. cs = <<c>>
    BY <1>1, <1>9, QueryOf DEF SetEidrxSettings, Sets, Sends
  <2>2. IsEidrxArg(r.arg)
    BY <1>9 DEF IsRequest, IsEidrxArg
  <2>3. c[1] = "AT+CEDRXS="
    <3>1. <<>> \in Seq(Entries)
      OBVIOUS
    <3>. QED BY <2>2, <3>1, EidrxCommandHeard
  <2>4. GoodCommand(c, r)
    BY <2>2, <2>3 DEF GoodCommand
  <2>. HIDE DEF c
  <2>5. GoodCall(<<c>>, r)
    BY <2>4, GoodSingle
  <2>. QED BY <1>1, <2>1, <2>5
<1>10. CASE r.op = "ATCommandRaw"
  <2>. DEFINE c == r.arg.cmd
  <2>1. cs = <<c>>
    BY <1>1, <1>10, QueryOf DEF ATCommandRaw, Sets, Sends
  <2>2. IsRawCommand(c)
    BY <1>10 DEF IsRequest
  <2>. HIDE DEF c
  <2>3. GoodCommand(c, r)
    <3>1. CASE c \in FormatCommands
      BY <3>1, FormatHeard DEF GoodCommand
    <3>2. CASE c \notin FormatCommands
      BY <2>2, <3>2 DEF IsRawCommand, GoodCommand
    <3>. QED BY <3>1, <3>2
  <2>4. GoodCall(<<c>>, r)
    BY <2>3, GoodSingle
  <2>. QED BY <1>1, <2>1, <2>4
<1>11. CASE r.op \in {"RfOn", "RfOff"}
  <2>1. \A x : GoodCall(<< <<"AT+CFUN=", x>> >>, r)
    <3>. TAKE x
    <3>. DEFINE c == <<"AT+CFUN=", x>>
    <3>1. c[1] = "AT+CFUN="
      OBVIOUS
    <3>. HIDE DEF c
    <3>2. GoodCommand(c, r)
      BY <3>1, GoodOther
    <3>3. GoodCall(<<c>>, r)
      BY <3>2, GoodSingle
    <3>. QED BY <3>3 DEF c
  <2>2. cs = << <<"AT+CFUN=", "1">> >> \/ cs = << <<"AT+CFUN=", "4">> >>
    BY <1>1, <1>11, QueryOf DEF RfOn, RfOff, Sets, Sends
  <2>. HIDE DEF cs
  <2>3. GoodCall(cs, r)
    BY <2>1, <2>2
  <2>. QED BY <1>1, <2>3 DEF cs
<1>12. CASE r.op \in {"GetSimCardLockStatus", "GetNetworkTime", "GetPsmSettings", "GetEidrxSettings"}
  <2>1. \E w \in {"AT+CPIN?", "AT+CCLK?", "AT+CPSMS?", "AT+CEDRXS?"} : cs = << <<w>> >>
    BY <1>1, <1>12, QueryOf DEF GetSimCardLockStatus, GetNetworkTime, GetPsmSettings, GetEidrxSettings, Sends
  <2>. HIDE DEF cs
  <2>2. GoodCall(cs, r)
    BY <1>2, <2>1
  <2>. QED BY <1>1, <2>2 DEF cs
<1>. QED BY <1>3, <1>4, <1>5, <1>6, <1>7, <1>8, <1>9, <1>10, <1>11, <1>12 DEF IsRequest, Ops, CopsOps

-----------------------------------------------------------------------------
(* What the modem is, after any command.                                       *)

Fine(m) == DOMAIN m = ModemFields /\ IsModem(m)

\* g is m but for one field.
Set(g, m, field, v) ==
  /\ DOMAIN g = ModemFields /\ g[field] = v
  /\ \A x \in ModemFields \ {field} : g[x] = m[x]

LEMMA SetWhen ==
  ASSUME NEW m, DOMAIN m = ModemFields, NEW field \in ModemFields, NEW v, NEW g,
         g = [m EXCEPT ![field] = v]
  PROVE  Set(g, m, field, v)
BY DEF Set

Settings == {"psm", "edrx", "pdn", "rf", "format"}

LEMMA Unchanged ==
  ASSUME NEW m, NEW field \in Settings, NEW v, NEW g, Set(g, m, field, v), NEW x \in ModemFields \ Settings
  PROVE  g[x] = m[x]
BY DEF Set

LEMMA SettingIs ==
  ASSUME NEW m, Fine(m), NEW field \in Settings, NEW v, NEW g, Set(g, m, field, v),
         field = "psm" => IsPsm(v), field = "edrx" => v \in Seq(Entries),
         field = "format" => v \in 0 .. 2
  PROVE  Fine(g)
<1>1. \A x \in ModemFields \ Settings : g[x] = m[x]
  BY Unchanged
<1>2. /\ g.version = m.version /\ g.model = m.model /\ g.maker = m.maker /\ g.imei = m.imei
      /\ g.imsi = m.imsi /\ g.iccid = m.iccid /\ g.crsm = m.crsm /\ g.hplmn = m.hplmn
      /\ g.oper = m.oper /\ g.mode = m.mode /\ g.clock = m.clock /\ g.ip = m.ip
  BY <1>1 DEF ModemFields, Settings
<1>3. IsPsm(g.psm)
  <2>1. CASE field = "psm"
    BY <2>1 DEF Set
  <2>2. CASE field # "psm"
    BY <2>2 DEF Set, ModemFields, Fine, IsModem
  <2>. QED BY <2>1, <2>2
<1>4. g.edrx \in Seq(Entries)
  <2>1. CASE field = "edrx"
    BY <2>1 DEF Set
  <2>2. CASE field # "edrx"
    BY <2>2 DEF Set, ModemFields, Fine, IsModem, Entries
  <2>. QED BY <2>1, <2>2
<1>5. g.format \in 0 .. 2
  <2>1. CASE field = "format"
    BY <2>1 DEF Set
  <2>2. CASE field # "format"
    BY <2>2 DEF Set, ModemFields, Fine, IsModem
  <2>. QED BY <2>1, <2>2
<1>6. IsModem(m)
  BY DEF Fine
<1>7. /\ IsName(g.version) /\ IsName(g.model) /\ IsName(g.maker)
      /\ IsNumber(g.imei) /\ Len(g.imei) <= Sizes.imei
      /\ IsNumber(g.imsi) /\ IsNumber(g.iccid)
      /\ g.crsm \in {"good", "memory", "empty", "error"} /\ IsPlmn(g.hplmn)
      /\ \A o \in g.oper : IsOperator(o)
  BY <1>2, <1>6 DEF IsModem
<1>8. /\ g.mode \in 0 .. 4 /\ IsClock(g.clock)
      /\ g.ip \in Text /\ Lacks(g.ip, Quote) /\ Len(g.ip) + 2 <= Sizes.ip
  BY <1>2, <1>6 DEF IsModem
<1>9. IsModem(g)
  BY <1>3, <1>4, <1>5, <1>7, <1>8 DEF IsModem, Entries
<1>10. DOMAIN g = ModemFields
  BY DEF Set
<1>. QED BY <1>9, <1>10 DEF Fine

LEMMA PsmOfHeard ==
  ASSUME NEW h, NEW psm, NEW p, PsmHeard(h, psm, p), IsPsmArg(p), IsPsm(psm)
  PROVE  IsPsm(h)
<1>1. h.mode \in {0, 1}
  BY DEF PsmHeard, IsPsmArg
<1>2. ASSUME NEW f \in TimerFields PROVE h[f] = {} \/ \E v \in 0 .. 255 : h[f] = {v}
  <2>1. h[f] = IF p[f] = 0 THEN psm[f] ELSE {p[f] % 256}
    BY DEF PsmHeard
  <2>2. p[f] \in Nat
    BY DEF IsPsmArg
  <2>3. \A n \in Nat : n % 256 \in 0 .. 255
    OBVIOUS
  <2>4. psm[f] = {} \/ \E v \in 0 .. 255 : psm[f] = {v}
    BY DEF IsPsm
  <2>5. p[f] % 256 \in 0 .. 255
    BY <2>2, <2>3
  <2>. QED BY <2>1, <2>4, <2>5, Zenon
<1>. QED BY <1>1, <1>2 DEF IsPsm

\* What a good command sets.
LEMMA HeardIs ==
  ASSUME NEW m, DOMAIN m = ModemFields, NEW c
  PROVE  LET g == Heard(m, c)
             f == Fields(Tail(c))
         IN  /\ c[1] = "AT+CPSMS=" => Set(g, m, "psm", HeardPsm(m.psm, f))
             /\ c[1] = "AT+CEDRXS=" => Set(g, m, "edrx", HeardEdrx(m.edrx, f))
             /\ c[1] = "AT+COPS=" => Set(g, m, "format", ValueOf(f[2], 10))
             /\ c[1] = "AT+CGDCONT=" =>
                  LET p == [cid |-> ValueOf(f[1], 10), type |-> Unquoted(f[2]), apn |-> Unquoted(f[3])]
                  IN  Set(g, m, "pdn", {p} \cup {x \in m.pdn : x.cid # p.cid})
             /\ c[1] = "AT+CFUN=" => Set(g, m, "rf", f[1])
             /\ c[1] \notin {"AT+CPSMS=", "AT+CEDRXS=", "AT+COPS=", "AT+CGDCONT=", "AT+CFUN="} => g = m
<1>. DEFINE f == Fields(Tail(c))
            g == Heard(m, c)
            w == c[1]
            p == [cid |-> ValueOf(f[1], 10), type |-> Unquoted(f[2]), apn |-> Unquoted(f[3])]
            v == {p} \cup {x \in m.pdn : x.cid # p.cid}
            a == HeardPsm(m.psm, f)
            b == HeardEdrx(m.edrx, f)
            d == ValueOf(f[2], 10)
            e == f[1]
<1>1. g = CASE w = "AT+CPSMS=" -> [m EXCEPT !.psm = a]
            [] w = "AT+CEDRXS=" -> [m EXCEPT !.edrx = b]
            [] w = "AT+CGDCONT=" -> [m EXCEPT !.pdn = v]
            [] w = "AT+CFUN=" -> [m EXCEPT !.rf = e]
            [] w = "AT+COPS=" -> [m EXCEPT !.format = d]
            [] OTHER -> m
  BY DEF Heard
<1>2. /\ "psm" \in ModemFields /\ "edrx" \in ModemFields /\ "pdn" \in ModemFields /\ "rf" \in ModemFields
      /\ "format" \in ModemFields
  BY DEF ModemFields
<1>. HIDE DEF g, f, w, v, a, b, d, e
<1>3. w = "AT+CPSMS=" => Set(g, m, "psm", a)
  <2>1. w = "AT+CPSMS=" => g = [m EXCEPT !.psm = a]
    BY <1>1
  <2>. QED BY <1>2, <2>1, SetWhen
<1>4. w = "AT+CEDRXS=" => Set(g, m, "edrx", b)
  <2>1. w = "AT+CEDRXS=" => g = [m EXCEPT !.edrx = b]
    BY <1>1
  <2>. QED BY <1>2, <2>1, SetWhen
<1>5. w = "AT+CGDCONT=" => Set(g, m, "pdn", v)
  <2>1. w = "AT+CGDCONT=" => g = [m EXCEPT !.pdn = v]
    BY <1>1
  <2>. QED BY <1>2, <2>1, SetWhen
<1>6. w = "AT+CFUN=" => Set(g, m, "rf", e)
  <2>1. w = "AT+CFUN=" => g = [m EXCEPT !.rf = e]
    BY <1>1
  <2>. QED BY <1>2, <2>1, SetWhen
<1>7. w = "AT+COPS=" => Set(g, m, "format", d)
  <2>1. w = "AT+COPS=" => g = [m EXCEPT !.format = d]
    BY <1>1
  <2>. QED BY <1>2, <2>1, SetWhen
<1>8. w \notin {"AT+CPSMS=", "AT+CEDRXS=", "AT+COPS=", "AT+CGDCONT=", "AT+CFUN="} => g = m
  BY <1>1
<1>. QED BY <1>3, <1>4, <1>5, <1>6, <1>7, <1>8 DEF g, f, w, v, a, b, d, e

LEMMA HeardFine ==
  ASSUME NEW m, Fine(m), NEW r, NEW c, GoodCommand(c, r)
  PROVE  Fine(Heard(m, c))
<1>. DEFINE g == Heard(m, c)
            f == Fields(Tail(c))
<1>1. DOMAIN m = ModemFields /\ IsModem(m)
  BY DEF Fine
<1>2. "psm" \in Settings /\ "edrx" \in Settings /\ "pdn" \in Settings /\ "rf" \in Settings
      /\ "format" \in Settings
  BY DEF Settings
<1>3. CASE c[1] = "AT+CPSMS="
  <2>. DEFINE v == HeardPsm(m.psm, f)
  <2>1. Set(g, m, "psm", v)
    BY <1>1, <1>3, HeardIs
  <2>2. IsPsmArg(r.arg) /\ c = PsmCommand(r.arg)
    BY <1>3 DEF GoodCommand
  <2>3. PsmHeard(v, m.psm, r.arg)
    BY <2>2, PsmCommandHeard
  <2>4. IsPsm(v)
    BY <1>1, <2>2, <2>3, PsmOfHeard DEF IsModem
  <2>. HIDE DEF g, v
  <2>5. Fine(g)
    BY <1>2, <2>1, <2>4, SettingIs
  <2>. QED BY <2>5 DEF g
<1>4. CASE c[1] = "AT+CEDRXS="
  <2>. DEFINE v == HeardEdrx(m.edrx, f)
  <2>1. Set(g, m, "edrx", v)
    BY <1>1, <1>4, HeardIs
  <2>2. IsEidrxArg(r.arg) /\ c = EidrxCommand(r.arg)
    BY <1>4 DEF GoodCommand
  <2>3. v \in Seq(Entries)
    <3>1. m.edrx \in Seq(Entries)
      BY <1>1 DEF IsModem, Entries
    <3>. QED BY <2>2, <3>1, EidrxCommandHeard
  <2>. HIDE DEF g, v
  <2>5. Fine(g)
    BY <1>2, <2>1, <2>3, SettingIs
  <2>. QED BY <2>5 DEF g
<1>5. CASE c[1] = "AT+COPS="
  <2>. DEFINE v == ValueOf(f[2], 10)
  <2>1. Set(g, m, "format", v)
    BY <1>1, <1>5, HeardIs
  <2>2. v \in 0 .. 2
    BY <1>5, FormatHeard DEF GoodCommand
  <2>. HIDE DEF g, v
  <2>5. Fine(g)
    BY <1>2, <2>1, <2>2, SettingIs
  <2>. QED BY <2>5 DEF g
<1>6. CASE c[1] \in {"AT+CGDCONT=", "AT+CFUN="}
  <2>1. \E field \in {"pdn", "rf"} : \E v : Set(g, m, field, v)
    BY <1>1, <1>6, HeardIs
  <2>. HIDE DEF g
  <2>2. Fine(g)
    <3>1. PICK field \in {"pdn", "rf"} : \E v : Set(g, m, field, v)
      BY <2>1
    <3>1a. PICK v : Set(g, m, field, v)
      BY <3>1
    <3>2. field \in Settings /\ field # "psm" /\ field # "edrx" /\ field # "format"
      BY DEF Settings
    <3>. QED BY <3>1a, <3>2, SettingIs
  <2>. QED BY <2>2 DEF g
<1>7. CASE c[1] \notin {"AT+CPSMS=", "AT+CEDRXS=", "AT+COPS=", "AT+CGDCONT=", "AT+CFUN="}
  <2>1. g = m
    BY <1>1, <1>7, HeardIs
  <2>. QED BY <2>1
<1>. QED BY <1>3, <1>4, <1>5, <1>6, <1>7

\* The names of the first n commands of a call.
Asked(cs, n) == {cs[i][1] : i \in 1 .. n}

\* Of a call's commands cs, those from the n-th on are still to be sent.
Sent(cs, n, rest, names) ==
  /\ n \in 0 .. Len(cs) - 1
  /\ rest = SubSeq(cs, n + 1, Len(cs))
  /\ names = Asked(cs, n)

\* The calls under way: every command before those a call still has was answered.
UnderWay(t) ==
  LET cs == Query(req[t]).commands IN
  /\ cs \in Seq(ToSet(cs))
  /\ \E n \in 0 .. Len(cs) - 1 : Sent(cs, n, todo[t], DOMAIN told[t])

Missed(t) ==
  /\ pc[t] = "returned" /\ status[t] = "SUCCESS" /\ req[t].op # "GetServiceStatus"
  /\ DOMAIN told[t] # {cmd[1] : cmd \in ToSet(Query(req[t]).commands)}

CallsInv ==
  /\ DOMAIN pc = Tasks /\ DOMAIN req = Tasks /\ DOMAIN todo = Tasks
  /\ DOMAIN told = Tasks /\ DOMAIN status = Tasks
  /\ \A t \in Tasks : pc[t] = "sending" => UnderWay(t)
  /\ \A t \in Tasks : ~Missed(t)

\* NothingMissed speaks of the same calls.
LEMMA MissedIsNothing == NothingMissed <=> \A t \in Tasks : ~Missed(t)
BY DEF NothingMissed, Missed, Op

\* A tuple is a sequence of what is in it.
LEMMA Tuples ==
  /\ \A a : <<a>> \in Seq(ToSet(<<a>>)) /\ Len(<<a>>) = 1
  /\ \A a, b : <<a, b>> \in Seq(ToSet(<<a, b>>)) /\ Len(<<a, b>>) = 2
  /\ \A a, b, c : <<a, b, c>> \in Seq(ToSet(<<a, b, c>>)) /\ Len(<<a, b, c>>) = 3
  /\ \A a, b, c, d : <<a, b, c, d>> \in Seq(ToSet(<<a, b, c, d>>)) /\ Len(<<a, b, c, d>>) = 4
BY DEF ToSet

IsCall(q) ==
  \/ q.refusal = "BAD_PARAMETER"
  \/ q.refusal = "no" /\ q.commands \in Seq(ToSet(q.commands)) /\ Len(q.commands) > 0

\* A call is refused, or has a sequence of commands to send.
LEMMA SendsCommands ==
  /\ IsCall(Refused)
  /\ \A a, f : IsCall(Sends(<<a>>, f))
  /\ \A a, b, f : IsCall(Sends(<<a, b>>, f))
  /\ \A a, b, c, f : IsCall(Sends(<<a, b, c>>, f))
  /\ \A a, b, c, d, f : IsCall(Sends(<<a, b, c, d>>, f))
<1>1. IsCall(Refused)
  BY DEF IsCall, Refused
<1>2. \A cs, f : Sends(cs, f).refusal = "no" /\ Sends(cs, f).commands = cs
  BY DEF Sends
<1>3. \A cs, f : cs \in Seq(ToSet(cs)) /\ Len(cs) > 0 => IsCall(Sends(cs, f))
  BY <1>2 DEF IsCall
<1>4. \A a, f : IsCall(Sends(<<a>>, f))
  <2>1. 1 > 0
    OBVIOUS
  <2>. QED BY <1>3, <2>1, Tuples
<1>5. \A a, b, f : IsCall(Sends(<<a, b>>, f))
  <2>1. 2 > 0
    OBVIOUS
  <2>. QED BY <1>3, <2>1, Tuples
<1>6. \A a, b, c, f : IsCall(Sends(<<a, b, c>>, f))
  <2>1. 3 > 0
    OBVIOUS
  <2>. QED BY <1>3, <2>1, Tuples
<1>7. \A a, b, c, d, f : IsCall(Sends(<<a, b, c, d>>, f))
  <2>1. 4 > 0
    OBVIOUS
  <2>. QED BY <1>3, <2>1, Tuples
<1>. QED BY <1>1, <1>4, <1>5, <1>6, <1>7

\* Every call of the interface is one.
LEMMA CallsAre == ASSUME NEW r, r.op \in Ops PROVE IsCall(Query(r))
<1>. USE SendsCommands DEF Query, Sets
<1>1. CASE r.null
  BY <1>1
<1>2. CASE ~r.null /\ r.op = "GetModemInfo"
  BY <1>2 DEF GetModemInfo, CopsOps
<1>3. CASE ~r.null /\ r.op = "GetSimCardInfo"
  BY <1>3 DEF GetSimCardInfo, CopsOps
<1>4. CASE ~r.null /\ r.op = "GetSimCardLockStatus"
  BY <1>4 DEF GetSimCardLockStatus, CopsOps
<1>5. CASE ~r.null /\ r.op \in CopsOps
  BY <1>5 DEF GetRegisteredNetwork, CopsCommands, CopsOps
<1>6. CASE ~r.null /\ r.op = "GetNetworkTime"
  BY <1>6 DEF GetNetworkTime, CopsOps
<1>7. CASE ~r.null /\ r.op = "GetIPAddress"
  BY <1>7 DEF GetIPAddress, CopsOps
<1>8. CASE ~r.null /\ r.op = "SetPdnConfig"
  BY <1>8 DEF SetPdnConfig, CopsOps
<1>9. CASE ~r.null /\ r.op = "GetPsmSettings"
  BY <1>9 DEF GetPsmSettings, CopsOps
<1>10. CASE ~r.null /\ r.op = "SetPsmSettings"
  BY <1>10 DEF SetPsmSettings, CopsOps
<1>11. CASE ~r.null /\ r.op = "GetEidrxSettings"
  BY <1>11 DEF GetEidrxSettings, CopsOps
<1>12. CASE ~r.null /\ r.op = "SetEidrxSettings"
  BY <1>12 DEF SetEidrxSettings, CopsOps
<1>13. CASE ~r.null /\ r.op \in {"RfOn", "RfOff"}
  BY <1>13 DEF RfOn, RfOff, CopsOps
<1>14. CASE ~r.null /\ r.op = "ATCommandRaw"
  BY <1>14 DEF ATCommandRaw, CopsOps
<1>. QED BY <1>1, <1>2, <1>3, <1>4, <1>5, <1>6, <1>7, <1>8, <1>9, <1>10, <1>11, <1>12, <1>13, <1>14
         DEF Ops, CopsOps

\* The name of the next command is one more that was asked.
LEMMA OneMoreAsked ==
  ASSUME NEW cs, NEW n \in Nat
  PROVE  Asked(cs, n + 1) = Asked(cs, n) \cup {cs[n + 1][1]}
<1>1. 1 .. n + 1 = (1 .. n) \cup {n + 1}
  OBVIOUS
<1>. QED BY <1>1 DEF Asked

\* The first of the commands still to be sent, and what is left after it.
LEMMA NextCommand ==
  ASSUME NEW S, NEW cs \in Seq(S), NEW n \in 0 .. Len(cs) - 1, NEW rest,
         rest = SubSeq(cs, n + 1, Len(cs))
  PROVE  /\ Head(rest) = cs[n + 1] /\ Len(rest) = Len(cs) - n
         /\ n + 1 < Len(cs) => Tail(rest) = SubSeq(cs, n + 2, Len(cs))
<1>1. Len(cs) \in Nat
  OBVIOUS
<1>2. n + 1 \in 1 .. Len(cs) + 1 /\ Len(cs) \in n .. Len(cs) /\ n + 1 + 1 = n + 2
  BY <1>1
<1>3. /\ rest \in Seq(S) /\ Len(rest) = Len(cs) - n
      /\ \A i \in 1 .. Len(cs) - n : rest[i] = cs[n + i]
  BY <1>1
<1>4. Head(rest) = cs[n + 1]
  BY <1>1, <1>3
<1>5. ASSUME n + 1 < Len(cs) PROVE Tail(rest) = SubSeq(cs, n + 2, Len(cs))
  <2>1. /\ Tail(rest) \in Seq(S) /\ Len(Tail(rest)) = Len(cs) - n - 1
        /\ \A i \in 1 .. Len(cs) - n - 1 : Tail(rest)[i] = rest[i + 1]
    <3>1. Len(rest) # 0
      <4>1. Len(rest) = Len(cs) - n
        BY <1>3
      <4>2. n \in Int /\ Len(cs) \in Int
        BY <1>1
      <4>3. \A j, l \in Int : j + 1 < l => l - j # 0
        OBVIOUS
      <4>4. Len(cs) - n # 0
        BY <1>5, <4>2, <4>3
      <4>. QED BY <4>1, <4>4, Zenon
    <3>2. rest # <<>>
      BY <3>1
    <3>. QED BY <1>3, <3>2, HeadTailProperties
  <2>2. /\ SubSeq(cs, n + 2, Len(cs)) \in Seq(S)
        /\ Len(SubSeq(cs, n + 2, Len(cs))) = Len(cs) - n - 1
        /\ \A i \in 1 .. Len(cs) - n - 1 : SubSeq(cs, n + 2, Len(cs))[i] = cs[n + 1 + i]
    BY <1>1, <1>5
  <2>3. \A i \in 1 .. Len(cs) - n - 1 : rest[i + 1] = cs[n + 1 + i]
    <3>1. \A i \in 1 .. Len(cs) - n - 1 : i + 1 \in 1 .. Len(cs) - n /\ n + (i + 1) = n + 1 + i
      BY <1>1
    <3>2. \A i \in 1 .. Len(cs) - n - 1 : rest[i + 1] = cs[n + (i + 1)]
      BY <1>3, <3>1
    <3>3. ASSUME NEW i \in 1 .. Len(cs) - n - 1 PROVE rest[i + 1] = cs[n + 1 + i]
      <4>1. n + (i + 1) = n + 1 + i
        BY <3>1
      <4>2. rest[i + 1] = cs[n + (i + 1)]
        BY <3>2
      <4>. QED BY <4>1, <4>2
    <3>. QED BY <3>3
  <2>. DEFINE m == Len(cs) - n - 1
              cs2 == SubSeq(cs, n + 2, Len(cs))
              tl == Tail(rest)
  <2>4. Len(tl) = Len(cs2) /\ tl \in Seq(S) /\ cs2 \in Seq(S) /\ Len(tl) = m
    BY <2>1, <2>2, Zenon
  <2>5. \A i \in 1 .. m : tl[i] = cs2[i]
    <3>1. ASSUME NEW i \in 1 .. m PROVE tl[i] = cs2[i]
      <4>1. tl[i] = rest[i + 1]
        BY <2>1
      <4>2. cs2[i] = cs[n + 1 + i]
        BY <2>2
      <4>3. rest[i + 1] = cs[n + 1 + i]
        BY <2>3
      <4>. QED BY <4>1, <4>2, <4>3
    <3>. QED BY <3>1
  <2>6. tl = cs2
    <3>. HIDE DEF m, cs2, tl
    <3>. QED BY <2>4, <2>5, SeqEqual
  <2>. QED BY <2>6
<1>. QED BY <1>3, <1>4, <1>5

\* A call that begins has all its commands before it and has asked nothing.
LEMMA BeginStep ==
  ASSUME CallsInv, NEW t \in Tasks, Begin(t)
  PROVE  CallsInv'
<1>1. PICK r \in Requests[t] :
        /\ Query(r).refusal = "no" /\ req' = [req EXCEPT ![t] = r]
        /\ todo' = [todo EXCEPT ![t] = Query(r).commands]
  BY DEF Begin
<1>2. /\ told' = [told EXCEPT ![t] = <<>>] /\ pc' = [pc EXCEPT ![t] = "sending"]
      /\ UNCHANGED status
  BY DEF Begin
<1>. DEFINE cs == Query(r).commands
<1>3. cs \in Seq(ToSet(cs)) /\ Len(cs) > 0 /\ Len(cs) \in Nat
  <2>1. IsCall(Query(r))
    BY QueryAssumption, CallsAre DEF IsRequest
  <2>. QED BY <1>1, <2>1 DEF IsCall
<1>4. req'[t] = r /\ todo'[t] = cs /\ told'[t] = <<>> /\ pc'[t] = "sending"
  BY <1>1, <1>2 DEF CallsInv
<1>5. \A u \in Tasks \ {t} : /\ req'[u] = req[u] /\ todo'[u] = todo[u] /\ told'[u] = told[u]
                             /\ pc'[u] = pc[u] /\ status'[u] = status[u]
  BY <1>1, <1>2
<1>6. Sent(cs, 0, cs, DOMAIN told'[t])
  <2>1. 0 \in 0 .. Len(cs) - 1
    BY <1>3
  <2>2. cs = SubSeq(cs, 0 + 1, Len(cs))
    <3>. HIDE DEF cs
    <3>. QED BY <1>3, SubSeqFull
  <2>3. DOMAIN told'[t] = Asked(cs, 0)
    BY <1>4 DEF Asked
  <2>. QED BY <2>1, <2>2, <2>3 DEF Sent
<1>7. UnderWay(t)'
  <2>1. 0 \in 0 .. Len(cs) - 1
    BY <1>3
  <2>. QED BY <1>3, <1>4, <1>6, <2>1 DEF UnderWay
<1>8. \A u \in Tasks \ {t} : (UnderWay(u)' <=> UnderWay(u)) /\ (Missed(u)' <=> Missed(u))
  BY <1>5 DEF UnderWay, Missed
<1>9. ~Missed(t)'
  BY <1>4 DEF Missed
<1>10. DOMAIN pc' = Tasks /\ DOMAIN req' = Tasks /\ DOMAIN todo' = Tasks
       /\ DOMAIN told' = Tasks /\ DOMAIN status' = Tasks
  BY <1>1, <1>2 DEF CallsInv
<1>. QED BY <1>5, <1>7, <1>8, <1>9, <1>10 DEF CallsInv

\* A call that goes on has asked one more; one that ends well had no more to ask.
LEMMA ExchangeStep ==
  ASSUME CallsInv, NEW t \in Tasks, Exchange(t)
  PROVE  CallsInv'
<1>. DEFINE cs == Query(req[t]).commands
            cmd == Head(todo[t])
<1>1. PICK r :
        /\ pc[t] = "sending" /\ req' = req
        /\ Continue(t, r.pkt, r.out)
        /\ told' = [told EXCEPT ![t] = Remember(@, cmd[1], modem')]
  BY DEF Exchange, Answered
<1>2. DOMAIN told'[t] = DOMAIN told[t] \cup {cmd[1]}
  <2>1. told'[t] = Remember(told[t], cmd[1], modem')
    BY <1>1 DEF CallsInv
  <2>. HIDE DEF cmd
  <2>. QED BY <2>1 DEF Remember
<1>3. UnderWay(t)
  BY <1>1 DEF CallsInv
<1>4. PICK n \in 0 .. Len(cs) - 1 : Sent(cs, n, todo[t], DOMAIN told[t])
  BY <1>3 DEF UnderWay
<1>5. cs \in Seq(ToSet(cs)) /\ Len(cs) \in Nat
  BY <1>3 DEF UnderWay
<1>6. /\ cmd = cs[n + 1] /\ Len(todo[t]) = Len(cs) - n
      /\ n + 1 < Len(cs) => Tail(todo[t]) = SubSeq(cs, n + 2, Len(cs))
  <2>1. todo[t] = SubSeq(cs, n + 1, Len(cs))
    BY <1>4 DEF Sent
  <2>. HIDE DEF cs
  <2>. QED BY <1>5, <2>1, NextCommand
<1>7. DOMAIN told'[t] = Asked(cs, n + 1)
  <2>1. n \in Nat
    OBVIOUS
  <2>2. DOMAIN told[t] = Asked(cs, n)
    BY <1>4 DEF Sent
  <2>3. Asked(cs, n + 1) = Asked(cs, n) \cup {cs[n + 1][1]}
    BY <2>1, OneMoreAsked
  <2>. QED BY <1>2, <1>6, <2>2, <2>3
<1>8. /\ DOMAIN pc' = Tasks /\ DOMAIN req' = Tasks /\ DOMAIN todo' = Tasks
      /\ DOMAIN told' = Tasks /\ DOMAIN status' = Tasks
  BY <1>1 DEF CallsInv, Continue
<1>9. \A u \in Tasks \ {t} : (UnderWay(u)' <=> UnderWay(u)) /\ (Missed(u)' <=> Missed(u)) /\ pc'[u] = pc[u]
  <2>1. \A u \in Tasks \ {t} : /\ req'[u] = req[u] /\ todo'[u] = todo[u] /\ told'[u] = told[u]
                               /\ pc'[u] = pc[u] /\ status'[u] = status[u]
    BY <1>1 DEF Continue, CallsInv
  <2>. QED BY <2>1 DEF UnderWay, Missed
<1>10. (pc'[t] = "sending" => UnderWay(t)') /\ ~Missed(t)'
  <2>1. CASE r.pkt = "OK" /\ Len(todo[t]) > 1
    <3>1. todo'[t] = Tail(todo[t]) /\ pc'[t] = "sending"
      BY <1>1, <2>1 DEF Continue, CallsInv
    <3>2. n + 1 \in 0 .. Len(cs) - 1 /\ n + 1 < Len(cs) /\ n + 1 + 1 = n + 2
      <4>. HIDE DEF cs
      <4>. QED BY <1>5, <1>6, <2>1
    <3>3. Sent(cs, n + 1, todo'[t], DOMAIN told'[t])
      BY <1>6, <1>7, <3>1, <3>2 DEF Sent
    <3>4. req'[t] = req[t]
      BY <1>1
    <3>5. UnderWay(t)'
      BY <1>5, <3>2, <3>3, <3>4 DEF UnderWay
    <3>. QED BY <3>1, <3>5 DEF Missed
  <2>2. CASE ~(r.pkt = "OK" /\ Len(todo[t]) > 1)
    <3>1. pc'[t] = "returned" /\ status'[t] = Returns(req[t], r.pkt, r.out)
      BY <1>1, <2>2 DEF Continue, CallsInv
    <3>2. ASSUME r.pkt = "OK" PROVE n + 1 = Len(cs)
      <4>. HIDE DEF cs
      <4>. QED BY <1>5, <1>6, <2>2, <3>2
    <3>3. Asked(cs, Len(cs)) = {c[1] : c \in ToSet(cs)}
      <4>. HIDE DEF cs
      <4>1. DOMAIN cs = 1 .. Len(cs)
        BY <1>5
      <4>. QED BY <4>1 DEF Asked, ToSet
    <3>4. ASSUME status'[t] = "SUCCESS", req[t].op # "GetServiceStatus" PROVE r.pkt = "OK"
      BY <3>1, <3>4 DEF Returns, TranslatePktStatus
    <3>5. ASSUME Missed(t)' PROVE FALSE
      <4>1. /\ status'[t] = "SUCCESS" /\ req[t].op # "GetServiceStatus"
            /\ DOMAIN told'[t] # {c[1] : c \in ToSet(cs)}
        BY <1>1, <3>5 DEF Missed
      <4>. QED BY <1>7, <3>2, <3>3, <3>4, <4>1
    <3>. QED BY <3>1, <3>5
  <2>. QED BY <2>1, <2>2
<1>. QED BY <1>8, <1>9, <1>10 DEF CallsInv

\* The other steps of a call ask nothing: a refused one or one that fails has no success.
LEMMA OtherStep ==
  ASSUME CallsInv, NEW t \in Tasks, Refuse(t) \/ FailedExchange(t) \/ QueryReturn(t)
  PROVE  CallsInv'
<1>1. /\ DOMAIN pc' = Tasks /\ DOMAIN req' = Tasks /\ DOMAIN todo' = Tasks
      /\ DOMAIN told' = Tasks /\ DOMAIN status' = Tasks
  BY DEF CallsInv, Refuse, FailedExchange, QueryReturn, Continue
<1>2. \A u \in Tasks \ {t} : /\ req'[u] = req[u] /\ todo'[u] = todo[u] /\ told'[u] = told[u]
                             /\ pc'[u] = pc[u] /\ status'[u] = status[u]
  BY DEF Refuse, FailedExchange, QueryReturn, Continue, CallsInv
<1>3. \A u \in Tasks \ {t} : (UnderWay(u)' <=> UnderWay(u)) /\ (Missed(u)' <=> Missed(u))
  BY <1>2 DEF UnderWay, Missed
<1>4. pc'[t] # "sending" /\ ~Missed(t)'
  <2>1. CASE Refuse(t)
    <3>1. PICK r \in Requests[t] :
            \/ Query(r).refusal # "no" /\ status' = [status EXCEPT ![t] = Query(r).refusal]
            \/ status' = [status EXCEPT ![t] = "NO_MEMORY"]
      BY <2>1 DEF Refuse
    <3>2. IsCall(Query(r))
      BY QueryAssumption, CallsAre DEF IsRequest
    <3>3. status'[t] \in {"BAD_PARAMETER", "NO_MEMORY"}
      BY <3>1, <3>2 DEF IsCall, CallsInv
    <3>4. pc'[t] = "returned"
      BY <2>1 DEF Refuse, CallsInv
    <3>. QED BY <3>3, <3>4 DEF Missed
  <2>2. CASE FailedExchange(t)
    <3>1. PICK pkt \in {"FAILURE", "TIMED_OUT"} : Continue(t, pkt, out[t])
      BY <2>2 DEF FailedExchange
    <3>2. pc'[t] = "returned" /\ status'[t] = Returns(req[t], pkt, out[t]) /\ req'[t] = req[t]
      BY <2>2, <3>1 DEF Continue, CallsInv, FailedExchange
    <3>3. req[t].op = "GetServiceStatus" \/ status'[t] # "SUCCESS"
      BY <3>2 DEF Returns, TranslatePktStatus
    <3>. QED BY <3>2, <3>3 DEF Missed
  <2>3. CASE QueryReturn(t)
    BY <2>3 DEF QueryReturn, CallsInv, Missed
  <2>. QED BY <2>1, <2>2, <2>3
<1>. QED BY <1>1, <1>2, <1>3, <1>4 DEF CallsInv

\* Whatever the modem answers or refuses and the other tasks ask meanwhile: a call succeeds
\* only if every one of its commands was answered, in turn.
THEOREM NothingIsMissed == QuerySpec => []NothingMissed
<1>1. QueryInit => CallsInv
  BY DEF QueryInit, CallsInv, Missed
<1>2. CallsInv /\ [QueryNext]_queryVars => CallsInv'
  <2>. SUFFICES ASSUME CallsInv, [QueryNext]_queryVars PROVE CallsInv'
    OBVIOUS
  <2>1. CASE AllAsked \/ UNCHANGED queryVars
    <3>1. UNCHANGED <<pc, req, todo, told, status>>
      BY <2>1 DEF AllAsked, queryVars
    <3>. QED BY <3>1 DEF CallsInv, UnderWay, Missed
  <2>. QED BY <2>1, BeginStep, ExchangeStep, OtherStep DEF QueryNext
<1>3. CallsInv => NothingMissed
  BY MissedIsNothing DEF CallsInv
<1>. QED BY <1>1, <1>2, <1>3, PTL DEF QuerySpec

-----------------------------------------------------------------------------
(* What a call has: the outcome of its receive functions, one after the other, on what *)
(* the modem answered to each command.                                                 *)

\* after is what the receive function of a command makes of what was there before, for
\* an answer of m.
Given(m, cmd, op, before, after) ==
  \E lines \in Answers(m, cmd[1]) \cup { <<>> } :
    after = IF op = "ATCommandRaw" THEN [pkt |-> "OK", out |-> before] ELSE Receive(cmd[1], lines, before)

\* The first n commands of the call q: the modem h[i] answered the i-th, r[i] is what it
\* left, and mem is what is remembered.
Chain(q, op, n, h, r, mem) ==
  /\ r[0].out = q.fresh
  /\ \A i \in 1 .. n : /\ Fine(h[i])
                       /\ mem[q.commands[i][1]] = Heard(h[i], q.commands[i])
                       /\ Given(h[i], q.commands[i], op, r[i - 1].out, r[i])

\* f with x after its n-th value.
And(f, n, x) == [i \in 0 .. n + 1 |-> IF i = n + 1 THEN x ELSE f[i]]

LEMMA AndIs ==
  ASSUME NEW f, NEW k \in Nat, NEW v
  PROVE  And(f, k, v)[k + 1] = v /\ \A i \in 0 .. k : And(f, k, v)[i] = f[i]
BY DEF And

LEMMA ChainNext ==
  ASSUME NEW q, NEW op, NEW n \in Nat, NEW h, NEW r, NEW mem, NEW m, NEW x,
         NEW c, c = q.commands[n + 1],
         Chain(q, op, n, h, r, mem), Fine(m), Given(m, c, op, r[n].out, x),
         DOMAIN mem = Asked(q.commands, n),
         \A i \in 1 .. n : q.commands[i][1] # c[1]
  PROVE  Chain(q, op, n + 1, And(h, n, m), And(r, n, x), Remember(mem, c[1], Heard(m, c)))
<1>. DEFINE h2 == And(h, n, m)
            r2 == And(r, n, x)
            mem2 == Remember(mem, c[1], Heard(m, c))
<1>1. r2[n + 1] = x /\ \A i \in 0 .. n : r2[i] = r[i]
  <2>1. And(r, n, x)[n + 1] = x /\ \A i \in 0 .. n : And(r, n, x)[i] = r[i]
    BY AndIs
  <2>. QED BY <2>1
<1>2. h2[n + 1] = m /\ \A i \in 1 .. n : h2[i] = h[i]
  <2>1. h2[n + 1] = m /\ \A i \in 0 .. n : h2[i] = h[i]
    BY AndIs
  <2>2. \A i \in 1 .. n : i \in 0 .. n
    OBVIOUS
  <2>. HIDE DEF h2
  <2>. QED BY <2>1, <2>2
<1>. HIDE DEF h2, r2
<1>3. \A w \in Asked(q.commands, n) : mem2[w] = mem[w]
  BY DEF Remember
<1>4. c[1] \notin Asked(q.commands, n)
  BY DEF Asked
<1>5. mem2[c[1]] = Heard(m, c)
  BY <1>4 DEF Remember
<1>. HIDE DEF mem2
<1>6. ASSUME NEW i \in 1 .. n
      PROVE  /\ Fine(h2[i]) /\ mem2[q.commands[i][1]] = Heard(h2[i], q.commands[i])
             /\ Given(h2[i], q.commands[i], op, r2[i - 1].out, r2[i])
  <2>1. /\ Fine(h[i]) /\ mem[q.commands[i][1]] = Heard(h[i], q.commands[i])
        /\ Given(h[i], q.commands[i], op, r[i - 1].out, r[i])
    BY DEF Chain
  <2>2. q.commands[i][1] \in Asked(q.commands, n)
    BY DEF Asked
  <2>3. mem2[q.commands[i][1]] = mem[q.commands[i][1]]
    BY <1>3, <2>2
  <2>4. i - 1 \in 0 .. n /\ i \in 0 .. n
    OBVIOUS
  <2>5. h2[i] = h[i] /\ r2[i] = r[i] /\ r2[i - 1] = r[i - 1]
    BY <1>1, <1>2, <2>4
  <2>. QED BY <2>1, <2>3, <2>5
<1>7. /\ Fine(h2[n + 1]) /\ mem2[q.commands[n + 1][1]] = Heard(h2[n + 1], q.commands[n + 1])
      /\ Given(h2[n + 1], q.commands[n + 1], op, r2[n].out, r2[n + 1])
  <2>1. n \in 0 .. n
    OBVIOUS
  <2>. QED BY <1>1, <1>2, <1>5, <2>1
<1>8. r2[0].out = q.fresh
  <2>1. 0 \in 0 .. n
    OBVIOUS
  <2>. QED BY <1>1, <2>1 DEF Chain
<1>9. \A i \in 1 .. n + 1 : i \in 1 .. n \/ i = n + 1
  OBVIOUS
<1>10. n + 1 - 1 = n
  OBVIOUS
<1>11. ASSUME NEW i \in 1 .. n + 1
       PROVE  /\ Fine(h2[i]) /\ mem2[q.commands[i][1]] = Heard(h2[i], q.commands[i])
              /\ Given(h2[i], q.commands[i], op, r2[i - 1].out, r2[i])
  <2>1. CASE i \in 1 .. n
    BY <1>6, <2>1
  <2>2. CASE i = n + 1
    BY <1>7, <1>10, <2>2
  <2>. QED BY <1>9, <2>1, <2>2
<1>12. Chain(q, op, n + 1, h2, r2, mem2)
  BY <1>8, <1>11 DEF Chain
<1>. QED BY <1>12 DEF h2, r2, mem2

\* The call of t has gone through its first n commands.
Went(t, n, h, r) ==
  LET q == Query(req[t]) IN
  /\ Chain(q, req[t].op, n, h, r, told[t])
  /\ DOMAIN told[t] = Asked(q.commands, n)
  /\ out[t] = r[n].out
  /\ \A i \in 1 .. n - 1 : r[i].pkt = "OK"

IsCalled(t) == IsRequest(req[t]) /\ Query(req[t]).refusal = "no"

Sending(t) ==
  LET cs == Query(req[t]).commands IN
  \E n \in 0 .. Len(cs) - 1 : \E h, r :
    /\ Sent(cs, n, todo[t], DOMAIN told[t])
    /\ Went(t, n, h, r) /\ (n > 0 => r[n].pkt = "OK")

\* A call that has succeeded went through all of them, the service status excepted.
Done(t) ==
  LET cs == Query(req[t]).commands IN
  \E n \in 0 .. Len(cs) : \E h, r :
    /\ Went(t, n, h, r)
    /\ req[t].op # "GetServiceStatus" => n = Len(cs) /\ r[n].pkt = "OK"

AnswersInv ==
  /\ CallsInv /\ DOMAIN out = Tasks /\ Fine(modem)
  /\ \A t \in Tasks : pc[t] = "sending" => IsCalled(t) /\ Sending(t)
  /\ \A t \in Tasks : pc[t] = "returned" /\ status[t] = "SUCCESS" => IsCalled(t) /\ Done(t)

\* What another task's step leaves.
LEMMA Others ==
  ASSUME AnswersInv, NEW t \in Tasks, NEW u \in Tasks,
         req'[u] = req[u], todo'[u] = todo[u], told'[u] = told[u], pc'[u] = pc[u],
         status'[u] = status[u], out'[u] = out[u]
  PROVE  /\ (pc[u] = "sending" => IsCalled(u) /\ Sending(u))'
         /\ (pc[u] = "returned" /\ status[u] = "SUCCESS" => IsCalled(u) /\ Done(u))'
<1>1. /\ pc[u] = "sending" => IsCalled(u) /\ Sending(u)
      /\ pc[u] = "returned" /\ status[u] = "SUCCESS" => IsCalled(u) /\ Done(u)
  BY DEF AnswersInv
<1>2. IsCalled(u)' <=> IsCalled(u)
  BY DEF IsCalled
<1>3. Sending(u)' <=> Sending(u)
  BY DEF Sending, Went
<1>4. Done(u)' <=> Done(u)
  BY DEF Done, Went
<1>. QED BY <1>1, <1>2, <1>3, <1>4

LEMMA AnswersBegin ==
  ASSUME AnswersInv, NEW t \in Tasks, Begin(t)
  PROVE  AnswersInv'
<1>0. CallsInv'
  BY BeginStep DEF AnswersInv
<1>1. PICK x \in Requests[t] :
        /\ Query(x).refusal = "no" /\ req' = [req EXCEPT ![t] = x]
        /\ todo' = [todo EXCEPT ![t] = Query(x).commands]
        /\ out' = [out EXCEPT ![t] = Query(x).fresh]
  BY DEF Begin
<1>2. /\ told' = [told EXCEPT ![t] = <<>>] /\ pc' = [pc EXCEPT ![t] = "sending"]
      /\ UNCHANGED <<status, modem>>
  BY DEF Begin
<1>3. IsRequest(x)
  BY QueryAssumption
<1>4. /\ DOMAIN pc = Tasks /\ DOMAIN req = Tasks /\ DOMAIN todo = Tasks /\ DOMAIN told = Tasks
      /\ DOMAIN out = Tasks
  BY DEF AnswersInv, CallsInv
<1>. DEFINE q == Query(x)
            cs == q.commands
            r == [i \in 0 .. 0 |-> [pkt |-> "OK", out |-> q.fresh]]
<1>5. req'[t] = x /\ todo'[t] = cs /\ told'[t] = <<>> /\ pc'[t] = "sending" /\ out'[t] = q.fresh
  BY <1>1, <1>2, <1>4
<1>6. cs \in Seq(ToSet(cs)) /\ Len(cs) > 0 /\ Len(cs) \in Nat
  <2>1. IsCall(Query(x))
    BY <1>3, CallsAre DEF IsRequest
  <2>. QED BY <1>1, <2>1 DEF IsCall
<1>7. 0 \in 0 .. Len(cs) - 1 /\ DOMAIN told'[t] = Asked(cs, 0)
  BY <1>5, <1>6 DEF Asked
<1>8. Sent(cs, 0, cs, DOMAIN told'[t])
  <2>2. cs = SubSeq(cs, 0 + 1, Len(cs))
    <3>. HIDE DEF cs
    <3>. QED BY <1>6, SubSeqFull
  <2>. QED BY <1>7, <2>2 DEF Sent
<1>9. r[0].out = q.fresh
  OBVIOUS
<1>10. Chain(q, x.op, 0, r, r, told'[t])
  <2>. HIDE DEF r, q
  <2>. QED BY <1>9 DEF Chain
<1>11. Went(t, 0, r, r)'
  <2>. HIDE DEF r
  <2>. QED BY <1>5, <1>7, <1>9, <1>10 DEF Went
<1>12. Sending(t)' /\ IsCalled(t)'
  <2>1. IsCalled(t)'
    BY <1>1, <1>3, <1>5 DEF IsCalled
  <2>. HIDE DEF r
  <2>2. ~(0 > 0)
    OBVIOUS
  <2>3. Query(req'[t]).commands = cs /\ todo'[t] = cs
    BY <1>5
  <2>. HIDE DEF cs
  <2>4. Sending(t)'
    BY <1>7, <1>8, <1>11, <2>2, <2>3 DEF Sending
  <2>. QED BY <2>1, <2>4
<1>13. ASSUME NEW u \in Tasks \ {t}
       PROVE  /\ (pc[u] = "sending" => IsCalled(u) /\ Sending(u))'
              /\ (pc[u] = "returned" /\ status[u] = "SUCCESS" => IsCalled(u) /\ Done(u))'
  <2>1. /\ req'[u] = req[u] /\ todo'[u] = todo[u] /\ told'[u] = told[u] /\ pc'[u] = pc[u]
        /\ status'[u] = status[u] /\ out'[u] = out[u]
    BY <1>1, <1>2
  <2>. QED BY <2>1, Others
<1>14. DOMAIN out' = Tasks /\ Fine(modem)'
  BY <1>1, <1>2, <1>4 DEF AnswersInv
<1>. QED BY <1>0, <1>5, <1>12, <1>13, <1>14 DEF AnswersInv

LEMMA AnswersExchange ==
  ASSUME AnswersInv, NEW t \in Tasks, Exchange(t)
  PROVE  AnswersInv'
<1>0. CallsInv'
  BY ExchangeStep DEF AnswersInv
<1>. DEFINE q == Query(req[t])
            cs == q.commands
            cmd == Head(todo[t])
            op == req[t].op
<1>1. /\ pc[t] = "sending" /\ req' = req
      /\ modem' = Heard(modem, cmd)
      /\ told' = [told EXCEPT ![t] = Remember(@, cmd[1], modem')]
      /\ \E lines \in Answers(modem, cmd[1]) \cup IF "mute" \in Faults THEN { <<>> } ELSE {} :
           Answered(t, IF op = "ATCommandRaw" THEN [pkt |-> "OK", out |-> out[t]]
                       ELSE Receive(cmd[1], lines, out[t]))
  BY DEF Exchange
<1>2. PICK x :
        /\ Given(modem, cmd, op, out[t], x)
        /\ out' = [out EXCEPT ![t] = x.out] /\ Continue(t, x.pkt, x.out)
  <2>1. PICK lines \in Answers(modem, cmd[1]) \cup { <<>> } :
          Answered(t, IF op = "ATCommandRaw" THEN [pkt |-> "OK", out |-> out[t]] ELSE Receive(cmd[1], lines, out[t]))
    BY <1>1
  <2>. DEFINE x == IF op = "ATCommandRaw" THEN [pkt |-> "OK", out |-> out[t]] ELSE Receive(cmd[1], lines, out[t])
  <2>2. Given(modem, cmd, op, out[t], x)
    BY DEF Given
  <2>3. Answered(t, x)
    BY <2>1
  <2>. HIDE DEF x
  <2>4. out' = [out EXCEPT ![t] = x.out] /\ Continue(t, x.pkt, x.out)
    BY <2>3 DEF Answered
  <2>. QED BY <2>2, <2>4
<1>3. IsCalled(t) /\ Sending(t)
  BY <1>1 DEF AnswersInv
<1>4a. PICK n \in 0 .. Len(cs) - 1 : \E h, r :
        Sent(cs, n, todo[t], DOMAIN told[t]) /\ Went(t, n, h, r) /\ (n > 0 => r[n].pkt = "OK")
  BY <1>3 DEF Sending
<1>4. PICK h, r :
        Sent(cs, n, todo[t], DOMAIN told[t]) /\ Went(t, n, h, r) /\ (n > 0 => r[n].pkt = "OK")
  BY <1>4a
<1>5. cs \in Seq(ToSet(cs)) /\ Len(cs) \in Nat /\ n \in Nat /\ n + 1 \in 1 .. Len(cs)
  <2>1. IsCall(q)
    BY <1>3, CallsAre DEF IsRequest, IsCalled
  <2>2. cs \in Seq(ToSet(cs))
    BY <1>3, <2>1 DEF IsCall, IsCalled
  <2>. HIDE DEF cs
  <2>3. Len(cs) \in Nat
    BY <2>2
  <2>. QED BY <2>2, <2>3
<1>6. /\ cmd = cs[n + 1] /\ Len(todo[t]) = Len(cs) - n
      /\ n + 1 < Len(cs) => Tail(todo[t]) = SubSeq(cs, n + 2, Len(cs))
  <2>1. todo[t] = SubSeq(cs, n + 1, Len(cs))
    BY <1>4 DEF Sent
  <2>. HIDE DEF cs
  <2>. QED BY <1>5, <2>1, NextCommand
<1>7. GoodCall(cs, req[t])
  BY <1>3, CallsAreGood DEF IsCalled
<1>8. \A i \in 1 .. n : cs[i][1] # cmd[1]
  <2>1. \A i \in 1 .. n : i \in 1 .. Len(cs) /\ i # n + 1
    BY <1>5
  <2>. HIDE DEF cs, cmd
  <2>. QED BY <1>5, <1>6, <1>7, <2>1 DEF GoodCall
<1>9. Fine(modem) /\ Fine(modem')
  <2>1. Fine(modem)
    BY DEF AnswersInv
  <2>2. GoodCommand(cmd, req[t])
    BY <1>5, <1>6, <1>7 DEF GoodCall
  <2>. HIDE DEF cmd
  <2>3. Fine(Heard(modem, cmd))
    BY <2>1, <2>2, HeardFine
  <2>. QED BY <1>1, <2>1, <2>3
<1>10. /\ DOMAIN pc = Tasks /\ DOMAIN req = Tasks /\ DOMAIN todo = Tasks /\ DOMAIN told = Tasks
       /\ DOMAIN out = Tasks /\ DOMAIN status = Tasks
  BY DEF AnswersInv, CallsInv
<1>10a. PICK m : m = modem
  OBVIOUS
<1>. DEFINE h2 == And(h, n, m)
            r2 == And(r, n, x)
            mem2 == Remember(told[t], cmd[1], Heard(modem, cmd))
<1>11. told'[t] = mem2 /\ out'[t] = x.out /\ req'[t] = req[t]
  BY <1>1, <1>2, <1>10
<1>12. /\ Chain(q, op, n, h, r, told[t]) /\ DOMAIN told[t] = Asked(cs, n) /\ out[t] = r[n].out
       /\ \A i \in 1 .. n - 1 : r[i].pkt = "OK"
  BY <1>4 DEF Went
<1>13. Chain(q, op, n + 1, h2, r2, mem2) /\ r2[n + 1] = x /\ \A i \in 0 .. n : r2[i] = r[i]
  <2>1. cmd = q.commands[n + 1] /\ Given(modem, cmd, op, r[n].out, x) /\ \A i \in 1 .. n : q.commands[i][1] # cmd[1]
    BY <1>2, <1>6, <1>8, <1>12
  <2>2. DOMAIN told[t] = Asked(q.commands, n) /\ n \in Nat
    BY <1>5, <1>12
  <2>3. r2[n + 1] = x /\ \A i \in 0 .. n : r2[i] = r[i]
    <3>. HIDE DEF q, cs, cmd, op
    <3>. QED BY <1>5, AndIs
  <2>4. Fine(m) /\ Chain(q, op, n, h, r, told[t]) /\ Given(m, cmd, op, r[n].out, x)
    BY <1>9, <1>10a, <1>12, <2>1
  <2>4a. mem2 = Remember(told[t], cmd[1], Heard(m, cmd))
    BY <1>10a
  <2>. HIDE DEF q, cmd, op
  <2>5. Chain(q, op, n + 1, h2, r2, mem2)
    BY <2>1, <2>2, <2>4, <2>4a, ChainNext
  <2>. QED BY <2>3, <2>5
<1>. HIDE DEF h2, r2
<1>14. DOMAIN mem2 = Asked(cs, n + 1)
  <2>1. Asked(cs, n + 1) = Asked(cs, n) \cup {cs[n + 1][1]}
    BY <1>5, OneMoreAsked
  <2>2. DOMAIN mem2 = DOMAIN told[t] \cup {cmd[1]}
    <3>. HIDE DEF cmd
    <3>. QED BY DEF Remember
  <2>. QED BY <1>6, <1>12, <2>1, <2>2
<1>. HIDE DEF mem2
<1>15. \A i \in 1 .. n : r2[i].pkt = "OK"
  <2>1. ASSUME NEW i \in 1 .. n PROVE r2[i].pkt = "OK"
    <3>1. i \in 0 .. n /\ (i \in 1 .. n - 1 \/ (i = n /\ n > 0))
      BY <1>5
    <3>. QED BY <1>4, <1>12, <1>13, <3>1
  <2>. QED BY <2>1
<1>16. Went(t, n + 1, h2, r2)'
  <2>1. n + 1 - 1 = n
    BY <1>5
  <2>2. Chain(q, op, n + 1, h2, r2, told'[t]) /\ DOMAIN told'[t] = Asked(cs, n + 1)
        /\ out'[t] = r2[n + 1].out /\ \A i \in 1 .. n + 1 - 1 : r2[i].pkt = "OK"
    BY <1>11, <1>13, <1>14, <1>15, <2>1
  <2>3. LET p == Query(req'[t]) IN
        /\ Chain(p, req'[t].op, n + 1, h2, r2, told'[t]) /\ DOMAIN told'[t] = Asked(p.commands, n + 1)
        /\ out'[t] = r2[n + 1].out /\ \A i \in 1 .. n + 1 - 1 : r2[i].pkt = "OK"
    BY <1>11, <2>2
  <2>. QED BY <2>3 DEF Went
<1>17. IsCalled(t)'
  BY <1>3, <1>11 DEF IsCalled
<1>18. (pc'[t] = "sending" => Sending(t)') /\ (pc'[t] = "returned" /\ status'[t] = "SUCCESS" => Done(t)')
  <2>1. CASE x.pkt = "OK" /\ Len(todo[t]) > 1
    <3>1. todo'[t] = Tail(todo[t]) /\ pc'[t] = "sending"
      BY <1>1, <1>2, <1>10, <2>1 DEF Continue
    <3>2. n + 1 \in 0 .. Len(cs) - 1 /\ n + 1 < Len(cs) /\ n + 1 + 1 = n + 2
      <4>. HIDE DEF cs
      <4>. QED BY <1>5, <1>6, <2>1
    <3>3. Sent(cs, n + 1, todo'[t], DOMAIN told'[t])
      BY <1>6, <1>11, <1>14, <3>1, <3>2 DEF Sent
    <3>4. Sending(t)'
      <4>1. r2[n + 1].pkt = "OK" /\ Query(req'[t]).commands = cs
        BY <1>11, <1>13, <2>1
      <4>. HIDE DEF cs
      <4>. QED BY <1>16, <3>2, <3>3, <4>1 DEF Sending
    <3>. QED BY <3>1, <3>4
  <2>2. CASE ~(x.pkt = "OK" /\ Len(todo[t]) > 1)
    <3>1. pc'[t] = "returned" /\ status'[t] = Returns(req[t], x.pkt, x.out)
      BY <1>2, <1>10, <2>2 DEF Continue
    <3>2. ASSUME x.pkt = "OK" PROVE n + 1 = Len(cs)
      <4>. HIDE DEF cs
      <4>. QED BY <1>5, <1>6, <2>2, <3>2
    <3>3. ASSUME status'[t] = "SUCCESS", req[t].op # "GetServiceStatus" PROVE x.pkt = "OK"
      BY <3>1, <3>3 DEF Returns, TranslatePktStatus
    <3>4. ASSUME status'[t] = "SUCCESS" PROVE Done(t)'
      <4>1. n + 1 \in 0 .. Len(cs) /\ Query(req'[t]).commands = cs
        BY <1>5, <1>11
      <4>2. req'[t].op # "GetServiceStatus" => n + 1 = Len(cs) /\ r2[n + 1].pkt = "OK"
        BY <1>11, <1>13, <3>2, <3>3, <3>4
      <4>. HIDE DEF cs
      <4>. QED BY <1>16, <4>1, <4>2 DEF Done
    <3>. QED BY <3>1, <3>4
  <2>. QED BY <2>1, <2>2
<1>19. ASSUME NEW u \in Tasks \ {t}
       PROVE  /\ (pc[u] = "sending" => IsCalled(u) /\ Sending(u))'
              /\ (pc[u] = "returned" /\ status[u] = "SUCCESS" => IsCalled(u) /\ Done(u))'
  <2>1. /\ req'[u] = req[u] /\ told'[u] = told[u] /\ out'[u] = out[u]
    BY <1>1, <1>2
  <2>2. todo'[u] = todo[u] /\ pc'[u] = pc[u] /\ status'[u] = status[u]
    BY <1>2, <1>10 DEF Continue
  <2>. QED BY <2>1, <2>2, Others
<1>20. DOMAIN out' = Tasks
  BY <1>2, <1>10
<1>. QED BY <1>0, <1>9, <1>17, <1>18, <1>19, <1>20 DEF AnswersInv

LEMMA AnswersFailed ==
  ASSUME AnswersInv, NEW t \in Tasks, FailedExchange(t)
  PROVE  AnswersInv'
<1>0. CallsInv'
  BY OtherStep DEF AnswersInv
<1>. DEFINE q == Query(req[t])
            cs == q.commands
<1>1. PICK pkt \in {"FAILURE", "TIMED_OUT"} : Continue(t, pkt, out[t])
  BY DEF FailedExchange
<1>2. pc[t] = "sending" /\ UNCHANGED <<modem, req, out, told>>
  BY DEF FailedExchange
<1>3. /\ DOMAIN pc = Tasks /\ DOMAIN req = Tasks /\ DOMAIN todo = Tasks /\ DOMAIN told = Tasks
      /\ DOMAIN out = Tasks /\ DOMAIN status = Tasks
  BY DEF AnswersInv, CallsInv
<1>4. pc'[t] = "returned" /\ status'[t] = Returns(req[t], pkt, out[t])
  BY <1>1, <1>3 DEF Continue
<1>5. status'[t] = "SUCCESS" => req[t].op = "GetServiceStatus"
  BY <1>4 DEF Returns, TranslatePktStatus
<1>6. IsCalled(t) /\ Sending(t)
  BY <1>2 DEF AnswersInv
<1>7a. PICK n \in 0 .. Len(cs) - 1 : \E h, r : Went(t, n, h, r)
  BY <1>6 DEF Sending
<1>7. PICK h, r : Went(t, n, h, r)
  BY <1>7a
<1>8. ASSUME status'[t] = "SUCCESS" PROVE Done(t)'
  <2>1. Went(t, n, h, r)'
    BY <1>2, <1>7 DEF Went
  <2>2. n \in 0 .. Len(cs)
    <3>1. Len(cs) \in Nat
      <4>1. IsCall(q)
        BY <1>6, CallsAre DEF IsRequest, IsCalled
      <4>2. cs \in Seq(ToSet(cs))
        BY <1>6, <4>1 DEF IsCall, IsCalled
      <4>. HIDE DEF cs
      <4>. QED BY <4>2
    <3>. HIDE DEF cs
    <3>. QED BY <3>1
  <2>3. req'[t].op = "GetServiceStatus" /\ Query(req'[t]).commands = cs
    BY <1>2, <1>5, <1>8
  <2>. HIDE DEF cs
  <2>. QED BY <2>1, <2>2, <2>3 DEF Done
<1>9. IsCalled(t)'
  BY <1>2, <1>6 DEF IsCalled
<1>10. ASSUME NEW u \in Tasks \ {t}
       PROVE  /\ (pc[u] = "sending" => IsCalled(u) /\ Sending(u))'
              /\ (pc[u] = "returned" /\ status[u] = "SUCCESS" => IsCalled(u) /\ Done(u))'
  <2>1. todo'[u] = todo[u] /\ pc'[u] = pc[u] /\ status'[u] = status[u]
    BY <1>1, <1>3 DEF Continue
  <2>. QED BY <1>2, <2>1, Others
<1>11. DOMAIN out' = Tasks /\ Fine(modem')
  BY <1>2, <1>3 DEF AnswersInv
<1>. QED BY <1>0, <1>4, <1>8, <1>9, <1>10, <1>11 DEF AnswersInv

LEMMA AnswersOther ==
  ASSUME AnswersInv, NEW t \in Tasks, Refuse(t) \/ QueryReturn(t)
  PROVE  AnswersInv'
<1>0. CallsInv'
  BY OtherStep DEF AnswersInv
<1>1. /\ DOMAIN pc = Tasks /\ DOMAIN req = Tasks /\ DOMAIN todo = Tasks /\ DOMAIN told = Tasks
      /\ DOMAIN out = Tasks /\ DOMAIN status = Tasks
  BY DEF AnswersInv, CallsInv
<1>2. pc'[t] # "sending" /\ (pc'[t] = "returned" => status'[t] # "SUCCESS")
  <2>1. CASE Refuse(t)
    <3>1. PICK r \in Requests[t] :
            \/ Query(r).refusal # "no" /\ status' = [status EXCEPT ![t] = Query(r).refusal]
            \/ status' = [status EXCEPT ![t] = "NO_MEMORY"]
      BY <2>1 DEF Refuse
    <3>2. IsCall(Query(r))
      BY QueryAssumption, CallsAre DEF IsRequest
    <3>3. status'[t] \in {"BAD_PARAMETER", "NO_MEMORY"}
      BY <1>1, <3>1, <3>2 DEF IsCall
    <3>4. pc'[t] = "returned"
      BY <1>1, <2>1 DEF Refuse
    <3>. QED BY <3>3, <3>4
  <2>2. CASE QueryReturn(t)
    BY <1>1, <2>2 DEF QueryReturn
  <2>. QED BY <2>1, <2>2
<1>3. ASSUME NEW u \in Tasks \ {t}
      PROVE  /\ (pc[u] = "sending" => IsCalled(u) /\ Sending(u))'
             /\ (pc[u] = "returned" /\ status[u] = "SUCCESS" => IsCalled(u) /\ Done(u))'
  <2>1. /\ req'[u] = req[u] /\ todo'[u] = todo[u] /\ told'[u] = told[u] /\ pc'[u] = pc[u]
        /\ status'[u] = status[u] /\ out'[u] = out[u]
    BY <1>1 DEF Refuse, QueryReturn
  <2>. QED BY <2>1, Others
<1>4. DOMAIN out' = Tasks /\ Fine(modem')
  <2>1. DOMAIN out' = Tasks /\ modem' = modem
    BY <1>1 DEF Refuse, QueryReturn
  <2>. QED BY <2>1 DEF AnswersInv
<1>. QED BY <1>0, <1>2, <1>3, <1>4 DEF AnswersInv

LEMMA AnswersStart == QueryInit => AnswersInv
<1>. SUFFICES ASSUME QueryInit PROVE AnswersInv
  OBVIOUS
<1>1. CallsInv
  BY DEF QueryInit, CallsInv, Missed
<1>2. Fine(modem)
  BY QueryAssumption DEF QueryInit, Fine
<1>3. DOMAIN out = Tasks /\ \A t \in Tasks : pc[t] = "idle"
  BY DEF QueryInit
<1>. QED BY <1>1, <1>2, <1>3 DEF AnswersInv

LEMMA AnswersStep ==
  ASSUME AnswersInv, [QueryNext]_queryVars
  PROVE  AnswersInv'
<1>1. CASE AllAsked \/ UNCHANGED queryVars
  <2>1. UNCHANGED <<modem, pc, req, todo, out, told, status>>
    BY <1>1 DEF AllAsked, queryVars
  <2>2. CallsInv'
    BY <2>1 DEF CallsInv, UnderWay, Missed, AnswersInv
  <2>3. DOMAIN out' = Tasks /\ Fine(modem') /\ pc' = pc /\ status' = status
    BY <2>1 DEF AnswersInv
  <2>4. \A u \in Tasks : /\ (pc[u] = "sending" => IsCalled(u) /\ Sending(u))'
                         /\ (pc[u] = "returned" /\ status[u] = "SUCCESS" => IsCalled(u) /\ Done(u))'
    BY <2>1, Others
  <2>. QED BY <2>2, <2>3, <2>4 DEF AnswersInv
<1>. QED BY <1>1, AnswersBegin, AnswersExchange, AnswersFailed, AnswersOther DEF QueryNext

\* What a call has done when it has succeeded: it is a call of the interface, and its
\* structure is what its receive functions made of it, answer by answer.
THEOREM AnswersAreGiven == QuerySpec => []AnswersInv
BY AnswersStart, AnswersStep, PTL DEF QuerySpec

-----------------------------------------------------------------------------
(* The operator's PLMN.                                                        *)

NoComma(c) == c \in Symbols /\ c # ","

LEMMA CommaOut ==
  ASSUME NEW a \in Texts, NEW b \in Texts, NEW c, NoComma(c),
         NEW v, Without(a, c) = v, NEW w, Without(b, c) = w
  PROVE  Comma(a, b) \in Texts /\ Without(Comma(a, b), c) = Comma(v, w)
<1>1. Comma(a, b) \in Texts
  BY CommaIs
<1>2. Without(Comma(a, b), c) = Comma(Without(a, c), Without(b, c))
  BY WithoutComma DEF NoComma
<1>. QED BY <1>1, <1>2

LEMMA SeqWithin == ASSUME NEW S, NEW T, S \subseteq T, NEW s \in Seq(S) PROVE s \in Seq(T)
OBVIOUS

\* An answer of four parts, as it is after the quotes and the spaces are gone.
LEMMA LineOfFour ==
  ASSUME NEW a, Param(a), NEW b, Param(b), NEW x \in Texts, NEW d, Param(d),
         Lacks(a, Quote), Lacks(a, Space), Lacks(b, Quote), Lacks(b, Space), Lacks(d, Quote), Lacks(d, Space),
         Len(a) >= 1
  PROVE  LET s == Comma(a, Comma(b, Comma(Quoted(x), d)))
             y == Without(Without(x, Quote), Space)
             z == Comma(a, Comma(b, Comma(y, d)))
         IN  /\ s \in Texts /\ Len(s) = Len(a) + Len(b) + Len(x) + Len(d) + 5
             /\ Without(Without(s, Quote), Space) = z /\ Without(s, Quote) \in Texts
             /\ y \in Texts /\ Len(y) <= Len(x) /\ z # <<>>
<1>. DEFINE qx == Quoted(x)
            x1 == Without(x, Quote)
            y == Without(x1, Space)
            w(u) == Comma(a, Comma(b, Comma(u, d)))
<1>0. a \in Texts /\ b \in Texts /\ d \in Texts
  BY DEF Param
<1>1. Quote \in Symbols /\ Space \in Symbols /\ Quote # "," /\ Space # ","
  BY Commas DEF Quote, Space
<1>2. qx \in Texts /\ Len(qx) = Len(x) + 2 /\ Len(x) \in Nat /\ Without(qx, Quote) = x1
  BY QuotedIs
<1>3. x1 \in Texts /\ Len(x1) <= Len(x)
  BY <1>1, WithoutLacks
<1>. HIDE DEF qx, x1
<1>4. y \in Texts /\ Len(y) <= Len(x1)
  BY <1>1, <1>3, WithoutLacks
<1>. HIDE DEF y
<1>5. ASSUME NEW u \in Texts
      PROVE  w(u) \in Texts /\ Len(w(u)) = Len(a) + 1 + (Len(b) + 1 + (Len(u) + 1 + Len(d)))
             /\ Len(u) \in Nat /\ Len(a) \in Nat /\ Len(b) \in Nat /\ Len(d) \in Nat
  <2>. DEFINE u1 == Comma(u, d)
              u2 == Comma(b, u1)
  <2>1. u1 \in Texts /\ Len(u1) = Len(u) + 1 + Len(d) /\ Len(u) \in Nat /\ Len(d) \in Nat
    BY <1>0, CommaIs
  <2>. HIDE DEF u1
  <2>2. u2 \in Texts /\ Len(u2) = Len(b) + 1 + Len(u1) /\ Len(b) \in Nat
    BY <1>0, <2>1, CommaIs
  <2>. HIDE DEF u2
  <2>3. Comma(a, u2) \in Texts /\ Len(Comma(a, u2)) = Len(a) + 1 + Len(u2) /\ Len(a) \in Nat
    BY <1>0, <2>2, CommaIs
  <2>4. w(u) = Comma(a, u2)
    BY DEF u1, u2
  <2>. HIDE DEF w
  <2>. QED BY <2>1, <2>2, <2>3, <2>4
<1>6. ASSUME NEW u \in Texts, NEW c \in {Quote, Space}
      PROVE  Without(w(u), c) = w(Without(u, c))
  <2>. DEFINE u1 == Comma(u, d)
              u2 == Comma(b, u1)
              v == Without(u, c)
              v1 == Comma(v, d)
              v2 == Comma(b, v1)
  <2>0. c \in Symbols /\ c # ","
    BY <1>1
  <2>0a. Without(a, c) = a /\ Without(b, c) = b /\ Without(d, c) = d
    <3>1. Lacks(a, c) /\ Lacks(b, c) /\ Lacks(d, c)
      OBVIOUS
    <3>. HIDE DEF u1, u2, v, v1, v2, w
    <3>2. Without(a, c) = a
      BY <1>0, <2>0, <3>1, WithoutSame
    <3>3. Without(b, c) = b
      BY <1>0, <2>0, <3>1, WithoutSame
    <3>4. Without(d, c) = d
      BY <1>0, <2>0, <3>1, WithoutSame
    <3>. QED BY <3>2, <3>3, <3>4
  <2>0b. Without(u, c) = v
    OBVIOUS
  <2>. HIDE DEF v, w
  <2>0c. NoComma(c)
    BY <2>0 DEF NoComma
  <2>1. Comma(u, d) \in Texts /\ Without(Comma(u, d), c) = Comma(v, d)
    BY <1>0, <2>0c, <2>0a, <2>0b, CommaOut
  <2>1a. u1 \in Texts /\ Without(u1, c) = v1
    BY <2>1
  <2>. HIDE DEF u1, v1
  <2>2. Comma(b, u1) \in Texts /\ Without(Comma(b, u1), c) = Comma(b, v1)
    BY <1>0, <2>0c, <2>0a, <2>1a, CommaOut
  <2>2a. u2 \in Texts /\ Without(u2, c) = v2
    BY <2>2
  <2>. HIDE DEF u2, v2
  <2>3. Without(Comma(a, u2), c) = Comma(a, v2)
    BY <1>0, <2>0c, <2>0a, <2>2a, CommaOut
  <2>. QED BY <2>3 DEF u1, u2, v1, v2, v, w
<1>7. Quote \in {Quote, Space} /\ Space \in {Quote, Space}
  OBVIOUS
<1>8. Without(w(qx), Quote) = w(x1) /\ Without(w(x1), Space) = w(y)
  <2>1. Without(w(qx), Quote) = w(Without(qx, Quote))
    BY <1>2, <1>6, <1>7
  <2>2. Without(w(x1), Space) = w(Without(x1, Space))
    BY <1>3, <1>6, <1>7
  <2>. QED BY <1>2, <2>1, <2>2 DEF y
<1>9. w(qx) \in Texts /\ w(x1) \in Texts /\ w(y) \in Texts
  BY <1>2, <1>3, <1>4, <1>5
<1>10. Len(w(qx)) = Len(a) + Len(b) + Len(x) + Len(d) + 5
  <2>1. Len(w(qx)) = Len(a) + 1 + (Len(b) + 1 + (Len(qx) + 1 + Len(d)))
        /\ Len(a) \in Nat /\ Len(b) \in Nat /\ Len(d) \in Nat
    BY <1>2, <1>5
  <2>. HIDE DEF w
  <2>. QED BY <1>2, <2>1
<1>11. w(y) # <<>>
  <2>1. Len(w(y)) = Len(a) + 1 + (Len(b) + 1 + (Len(y) + 1 + Len(d)))
        /\ Len(a) \in Nat /\ Len(b) \in Nat /\ Len(d) \in Nat /\ Len(y) \in Nat
    BY <1>4, <1>5
  <2>. HIDE DEF w
  <2>2. Len(w(y)) >= 1
    BY <2>1
  <2>. QED BY <1>9, <2>2, Longer
<1>12. Len(y) <= Len(x)
  BY <1>2, <1>3, <1>4, <1>5
<1>13. Without(Without(w(qx), Quote), Space) = w(y) /\ Without(w(qx), Quote) \in Texts
  BY <1>8, <1>9
<1>. QED BY <1>4, <1>9, <1>10, <1>11, <1>12, <1>13 DEF w, qx, y, x1

\* The digits of a PLMN.
LEMMA PlmnDigits ==
  ASSUME NEW p, IsPlmn(p)
  PROVE  LET s == p.mcc \o p.mnc IN
         /\ s \in Texts /\ (Len(s) = 5 \/ Len(s) = 6)
         /\ Lacks(s, Quote) /\ Lacks(s, Space) /\ Lacks(s, ",")
         /\ SubSeq(s, 1, 3) = p.mcc /\ From(s, 4) = p.mnc /\ p = [mcc |-> p.mcc, mnc |-> p.mnc]
         /\ p # NoPlmn
<1>. DEFINE a == p.mcc
            b == p.mnc
            s == a \o b
            D == ToSet(Decimals)
<1>1. /\ a \in Seq(D) /\ Len(a) = 3 /\ b \in Seq(D) /\ (Len(b) = 2 \/ Len(b) = 3)
      /\ p = [mcc |-> a, mnc |-> b]
  <2>1. a \in Digits({3}) /\ b \in Digits({2, 3}) /\ p = [mcc |-> a, mnc |-> b]
    BY DEF IsPlmn
  <2>2. a \in Seq(D) /\ Len(a) \in {3} /\ b \in Seq(D) /\ Len(b) \in {2, 3}
    BY <2>1 DEF Digits
  <2>. QED BY <2>1, <2>2
<1>2. D \subseteq Symbols /\ \A c \in D : c # Quote /\ c # Space /\ c # ","
  <2>1. D = {"0", "1", "2", "3", "4", "5", "6", "7", "8", "9"}
    BY DecimalsAre
  <2>2. \A c \in {"0", "1", "2", "3", "4", "5", "6", "7", "8", "9"} : c # Quote /\ c # Space /\ c # ","
    BY DEF Quote, Space
  <2>3. {"0", "1", "2", "3", "4", "5", "6", "7", "8", "9"} \subseteq Literals
    BY DEF Literals
  <2>. QED BY <2>1, <2>2, <2>3, SymbolsAre
<1>. HIDE DEF D, a, b
<1>3. a \in Texts /\ b \in Texts
  BY <1>1, <1>2, SeqWithin DEF Texts
<1>4. \A i \in 1 .. Len(a) : a[i] \in D
  BY <1>1, ElementOfSeq
<1>5. \A i \in 1 .. Len(b) : b[i] \in D
  BY <1>1
<1>6. ASSUME NEW c \in {Quote, Space, ","}
      PROVE  Lacks(s, c)
  <2>1. Lacks(a, c) /\ Lacks(b, c)
    BY <1>2, <1>4, <1>5 DEF Lacks
  <2>2. c \in Symbols
    BY Commas
  <2>. QED BY <1>3, <2>1, <2>2, LacksJoined
<1>7. /\ s \in Texts /\ Len(s) = Len(a) + Len(b)
      /\ \A i \in 1 .. Len(a) : s[i] = a[i]
      /\ \A i \in 1 .. Len(b) : s[Len(a) + i] = b[i]
  BY <1>3, Joined
<1>. HIDE DEF s
<1>8. (Len(s) = 5 \/ Len(s) = 6) /\ Len(s) \in Nat
  <2>1. Len(s) = 3 + Len(b) /\ (Len(b) = 2 \/ Len(b) = 3)
    BY <1>1, <1>7
  <2>2. \A k : k = 2 \/ k = 3 => 3 + k = 5 \/ 3 + k = 6
    OBVIOUS
  <2>3. 5 \in Nat /\ 6 \in Nat
    OBVIOUS
  <2>4. Len(s) = 5 \/ Len(s) = 6
    BY <2>1, <2>2
  <2>. QED BY <2>3, <2>4
<1>9. SubSeq(s, 1, 3) = a
  <2>1. /\ SubSeq(s, 1, 3) \in Seq(Symbols) /\ Len(SubSeq(s, 1, 3)) = 3
        /\ \A i \in 1 .. 3 : SubSeq(s, 1, 3)[i] = s[i]
    BY <1>7, <1>8 DEF Texts
  <2>2. \A i \in 1 .. 3 : SubSeq(s, 1, 3)[i] = a[i]
    BY <1>1, <1>7, <2>1
  <2>. DEFINE v == SubSeq(s, 1, 3)
  <2>. HIDE DEF v
  <2>3. v \in Seq(Symbols) /\ a \in Seq(Symbols) /\ Len(v) = Len(a) /\ \A i \in 1 .. Len(a) : v[i] = a[i]
    BY <1>1, <1>3, <2>1, <2>2 DEF v, Texts
  <2>4. v = a
    BY <2>3, SeqEqual
  <2>. QED BY <2>4 DEF v
<1>10. From(s, 4) = b
  <2>. DEFINE v == SubSeq(s, 4, Len(s))
  <2>1. v \in Seq(Symbols) /\ Len(v) = Len(b) /\ \A i \in 1 .. Len(b) : v[i] = s[4 + i - 1]
    <3>1. s \in Seq(Symbols) /\ 4 \in 1 .. Len(s) + 1 /\ Len(s) \in Nat /\ Len(s) - 4 + 1 = Len(b)
      BY <1>1, <1>7, <1>8 DEF Texts
    <3>. QED BY <3>1, SubSeqProperties
  <2>. HIDE DEF v
  <2>2. \A i \in 1 .. Len(b) : v[i] = b[i]
    <3>1. \A i \in 1 .. Len(b) : 4 + i - 1 = Len(a) + i
      BY <1>1
    <3>. QED BY <1>7, <2>1, <3>1
  <2>3. v = b
    BY <1>3, <2>1, <2>2, SeqEqual DEF Texts
  <2>. QED BY <2>3 DEF v, From
<1>11. p # NoPlmn
  <2>1. NoPlmn.mcc = <<>>
    BY DEF NoPlmn
  <2>2. a # <<>>
    BY <1>1
  <2>. QED BY <2>1, <2>2 DEF a
<1>12. Lacks(s, Quote) /\ Lacks(s, Space) /\ Lacks(s, ",")
  BY <1>6
<1>. QED BY <1>1, <1>7, <1>8, <1>9, <1>10, <1>11, <1>12 DEF s, a, b

\* The line of an answer about the operator, and what comes out of it.
CopsLine(m) == Plus("+COPS") \o CopsText(m)
Stripped(l) == Then(Then(ATRemovePrefix(l), ATRemoveAllDoubleQuote), ATRemoveAllWhiteSpaces)

LEMMA CopsOut ==
  ASSUME NEW l, NEW o
  PROVE  RecvFuncUpdateMccMnc(l, o).out = IF Stripped(l).st = "SUCCESS" THEN ParseCops(Stripped(l).s, o).info ELSE o
BY DEF RecvFuncUpdateMccMnc, Stripped

LEMMA StrippedIs ==
  ASSUME NEW c \in Texts, NEW z, Without(Without(c, Quote), Space) = z, z # <<>>
  PROVE  LET l == Plus("+COPS") \o c IN
         /\ Len(c) + 3 <= MaxString => Stripped(l) = Ok(z)
         /\ ~(Len(c) + 3 <= MaxString) => Stripped(l) = Fail("BAD_PARAMETER", l)
<1>0. "+COPS" \in Names
  BY DEF Names
<1>1. CASE Len(c) + 3 <= MaxString
  <2>1. Without(Without(c, Quote), Space) # <<>>
    OBVIOUS
  <2>2. Stripped(Plus("+COPS") \o c) = Ok(Without(Without(c, Quote), Space))
    BY <1>0, <1>1, <2>1, QuotesOff DEF Stripped
  <2>. QED BY <1>1, <2>2
<1>2. CASE ~(Len(c) + 3 <= MaxString)
  <2>1. Stripped(Plus("+COPS") \o c) = Fail("BAD_PARAMETER", Plus("+COPS") \o c)
    BY <1>0, <1>2, LineTooLong DEF Stripped
  <2>. QED BY <1>2, <2>1
<1>. QED BY <1>1, <1>2

LEMMA OkIs == ASSUME NEW s PROVE Ok(s).st = "SUCCESS" /\ Ok(s).s = s /\ Fail("BAD_PARAMETER", s).st # "SUCCESS"
BY DEF Ok, Fail

LEMMA NoOperatorIs == IsInfo(NoOperator) /\ NoOperator.plmn = NoPlmn
BY DEF IsInfo, NoOperator, CopsFields

LEMMA CopsNobody ==
  ASSUME NEW m, IsModem(m), m.oper = {}
  PROVE  RecvFuncUpdateMccMnc(CopsLine(m), NoOperator).out.plmn = NoPlmn
<1>. DEFINE n == m.mode
            c == DecDigits[n]
            l == Plus("+COPS") \o c
<1>1. n \in 0 .. 4 /\ CopsLine(m) = l
  BY DEF IsModem, CopsLine, CopsText
<1>. HIDE DEF n
<1>2. n \in 0 .. 99
  BY <1>1
<1>3. Numeral(c, 10) /\ 10 \in Bases
  BY <1>2, DecDigitsAre DEF Bases
<1>. HIDE DEF c
<1>4. c \in Texts /\ c # <<>> /\ Len(c) \in Nat /\ Lacks(c, Quote) /\ Lacks(c, Space)
  BY <1>3, NumeralIs DEF Numeral
<1>5. Without(c, Quote) = c /\ Without(c, Space) = c
  <2>1. Quote \in Symbols /\ Space \in Symbols
    BY Commas
  <2>2. Without(c, Quote) = c
    BY <1>4, <2>1, WithoutSame
  <2>3. Without(c, Space) = c
    BY <1>4, <2>1, WithoutSame
  <2>. QED BY <2>2, <2>3
<1>6. Without(Without(c, Quote), Space) = c
  BY <1>5
<1>. HIDE DEF l
<1>7. CASE Len(c) + 3 <= MaxString
  <2>1. Stripped(l) = Ok(c)
    BY <1>4, <1>6, <1>7, StrippedIs DEF l
  <2>2. RecvFuncUpdateMccMnc(l, NoOperator).out = ParseCops(c, NoOperator).info
    BY <2>1, CopsOut, OkIs
  <2>3. 1 <= MaxString
    BY TextAssumption
  <2>4. Keeps(ParseCops(c, NoOperator).info, NoOperator)
    BY <1>1, <2>3, NoOperatorIs, CopsOfNobody DEF c
  <2>. QED BY <1>1, <2>2, <2>4, NoOperatorIs DEF Keeps
<1>8. CASE ~(Len(c) + 3 <= MaxString)
  <2>1. Stripped(l) = Fail("BAD_PARAMETER", l)
    BY <1>4, <1>6, <1>8, StrippedIs DEF l
  <2>2. RecvFuncUpdateMccMnc(l, NoOperator).out = NoOperator
    BY <2>1, CopsOut, OkIs
  <2>. QED BY <1>1, <2>2, NoOperatorIs
<1>. QED BY <1>7, <1>8

\* One digit.
LEMMA OneDigit ==
  ASSUME NEW n \in 0 .. 9
  PROVE  LET a == DecDigits[n] IN
         Param(a) /\ Lacks(a, Quote) /\ Lacks(a, Space) /\ Len(a) = 1 /\ a \in Texts
<1>. DEFINE a == DecDigits[n]
<1>1. n \in 0 .. 99 /\ n < 10
  OBVIOUS
<1>2. Numeral(a, 10) /\ 10 \in Bases /\ Len(a) = 1
  BY <1>1, DecDigitsAre DEF Bases
<1>3. Param(a)
  BY <1>1, NumberParam
<1>. HIDE DEF a
<1>4. Lacks(a, Quote) /\ Lacks(a, Space)
  BY <1>2, NumeralIs DEF Quote, Space
<1>. QED BY <1>2, <1>3, <1>4 DEF Numeral, a

\* What the name of an operator is in the answer.
IsShown(m, o, x) ==
  /\ o \in m.oper /\ IsOperator(o)
  /\ x = IF m.format = 2 THEN o.plmn.mcc \o o.plmn.mnc ELSE o.name

LEMMA ShownIs ==
  ASSUME NEW m, NEW o, NEW x, IsShown(m, o, x), m.format \in 0 .. 2
  PROVE  /\ x \in Texts
         /\ m.format = 2 => /\ Len(x) \in {5, 6} /\ Lacks(x, Quote) /\ Lacks(x, Space) /\ Lacks(x, ",")
                            /\ [mcc |-> SubSeq(x, 1, 3), mnc |-> From(x, 4)] = o.plmn
                            /\ o.plmn # NoPlmn
<1>1. CASE m.format = 2
  <2>. DEFINE p == o.plmn
  <2>1. IsPlmn(p)
    BY DEF IsShown, IsOperator
  <2>2. x = p.mcc \o p.mnc
    BY <1>1 DEF IsShown
  <2>. HIDE DEF p
  <2>3. /\ x \in Texts /\ (Len(x) = 5 \/ Len(x) = 6)
        /\ Lacks(x, Quote) /\ Lacks(x, Space) /\ Lacks(x, ",")
        /\ SubSeq(x, 1, 3) = p.mcc /\ From(x, 4) = p.mnc /\ p = [mcc |-> p.mcc, mnc |-> p.mnc]
        /\ p # NoPlmn
    BY <2>1, <2>2, PlmnDigits
  <2>4. Len(x) \in {5, 6}
    BY <2>3
  <2>. QED BY <2>3, <2>4 DEF p
<1>2. CASE m.format # 2
  <2>1. x = o.name /\ o.name \in Text
    BY <1>2 DEF IsShown, IsOperator
  <2>. QED BY <1>2, <2>1, TextIs
<1>. QED BY <1>1, <1>2

LEMMA CopsShown ==
  ASSUME NEW m, IsModem(m), m.oper # {}
  PROVE  \E o, x : /\ IsShown(m, o, x) /\ o.rat \in 0 .. 9
                   /\ CopsText(m) = Comma(DecDigits[m.mode], Comma(DecDigits[m.format], Comma(Quoted(x), DecDigits[o.rat])))
<1>. DEFINE o == CHOOSE x \in m.oper : TRUE
            x == IF m.format = 2 THEN o.plmn.mcc \o o.plmn.mnc ELSE o.name
<1>1. o \in m.oper
  OBVIOUS
<1>2. IsOperator(o)
  BY <1>1 DEF IsModem
<1>3. CopsText(m) = Comma(DecDigits[m.mode], Comma(DecDigits[m.format], Comma(Quoted(x), DecDigits[o.rat])))
  BY DEF CopsText
<1>4. o.rat \in 0 .. 9
  BY <1>2 DEF IsOperator
<1>. HIDE DEF o
<1>5. IsShown(m, o, x)
  BY <1>1, <1>2 DEF IsShown
<1>. HIDE DEF x
<1>. QED BY <1>3, <1>4, <1>5

\* CopsOfOperator, for a text that is named.
LEMMA OperatorRead ==
  ASSUME NEW n \in 0 .. 4, NEW k \in 0 .. 2, NEW y \in Texts, NEW d \in Texts,
         Len(y) + Len(d) + 5 <= MaxString,
         NEW z, z = Comma(DecDigits[n], Comma(DecDigits[k], Comma(y, d))),
         NEW r, r = ParseCops(z, NoOperator).info
  PROVE  /\ k = 0 \/ k = 1 => Keeps(r, NoOperator)
         /\ k = 2 /\ Numeric(y) => r.plmn = PlmnOf(y)
<1>1. IsInfo(NoOperator)
  BY NoOperatorIs
<1>. QED BY <1>1, CopsOfOperator

LEMMA CopsOperator ==
  ASSUME NEW m, IsModem(m), m.oper # {}
  PROVE  LET g == RecvFuncUpdateMccMnc(CopsLine(m), NoOperator).out IN
         /\ g.plmn = NoPlmn \/ \E o \in m.oper : g.plmn = o.plmn
         /\ m.format = 2 /\ MaxString >= 17 => g.plmn # NoPlmn
<1>1. PICK o, x : /\ IsShown(m, o, x) /\ o.rat \in 0 .. 9
                  /\ CopsText(m) = Comma(DecDigits[m.mode], Comma(DecDigits[m.format], Comma(Quoted(x), DecDigits[o.rat])))
  BY CopsShown
<1>. DEFINE n == m.mode
            k == m.format
            j == o.rat
            a == DecDigits[n]
            b == DecDigits[k]
            d == DecDigits[j]
            c == Comma(a, Comma(b, Comma(Quoted(x), d)))
            y == Without(Without(x, Quote), Space)
            z == Comma(a, Comma(b, Comma(y, d)))
            l == Plus("+COPS") \o c
            g == RecvFuncUpdateMccMnc(l, NoOperator).out
<1>2. n \in 0 .. 4 /\ k \in 0 .. 2 /\ j \in 0 .. 9
  BY <1>1 DEF IsModem
<1>3. CopsLine(m) = l
  BY <1>1 DEF CopsLine
<1>. HIDE DEF n, k, j
<1>4. n \in 0 .. 9 /\ k \in 0 .. 9
  BY <1>2
<1>5. Param(a) /\ Lacks(a, Quote) /\ Lacks(a, Space) /\ Len(a) = 1
  BY <1>4, OneDigit
<1>6. Param(b) /\ Lacks(b, Quote) /\ Lacks(b, Space) /\ Len(b) = 1
  BY <1>4, OneDigit
<1>7. Param(d) /\ Lacks(d, Quote) /\ Lacks(d, Space) /\ Len(d) = 1 /\ d \in Texts
  BY <1>2, OneDigit
<1>8. /\ x \in Texts
      /\ k = 2 => /\ Len(x) \in {5, 6} /\ Lacks(x, Quote) /\ Lacks(x, Space) /\ Lacks(x, ",")
                  /\ [mcc |-> SubSeq(x, 1, 3), mnc |-> From(x, 4)] = o.plmn
                  /\ o.plmn # NoPlmn
  <2>1. m.format \in 0 .. 2
    BY <1>2 DEF k
  <2>. QED BY <1>1, <2>1, ShownIs DEF k
<1>9. k = 2 => y = x
  <2>1. ASSUME k = 2 PROVE y = x
    <3>1. Quote \in Symbols /\ Space \in Symbols /\ Lacks(x, Quote) /\ Lacks(x, Space) /\ x \in Texts
      BY <1>8, <2>1, Commas
    <3>2. Without(x, Quote) = x
      BY <3>1, WithoutSame
    <3>3. Without(x, Space) = x
      BY <3>1, WithoutSame
    <3>. QED BY <3>2, <3>3
  <2>. QED BY <2>1
<1>. HIDE DEF a, b, d
<1>10. /\ c \in Texts /\ Len(c) = Len(a) + Len(b) + Len(x) + Len(d) + 5
       /\ Without(Without(c, Quote), Space) = z
       /\ y \in Texts /\ Len(y) <= Len(x) /\ z # <<>>
  <2>1. Len(a) >= 1
    BY <1>5
  <2>2. x \in Texts
    BY <1>8
  <2>3. /\ Param(a) /\ Lacks(a, Quote) /\ Lacks(a, Space)
        /\ Param(b) /\ Lacks(b, Quote) /\ Lacks(b, Space)
        /\ Param(d) /\ Lacks(d, Quote) /\ Lacks(d, Space)
    BY <1>5, <1>6, <1>7
  <2>. QED BY <2>1, <2>2, <2>3, LineOfFour
<1>. HIDE DEF y, c
<1>11. Len(x) \in Nat /\ Len(y) \in Nat
  <2>1. x \in Seq(Symbols) /\ y \in Seq(Symbols)
    BY <1>8, <1>10 DEF Texts
  <2>. QED BY <2>1
<1>12. Len(c) = Len(x) + 8
  BY <1>5, <1>6, <1>7, <1>10, <1>11
<1>. HIDE DEF z, l
<1>13. CASE Len(c) + 3 <= MaxString
  <2>1. Stripped(l) = Ok(z)
    BY <1>10, <1>13, StrippedIs DEF l
  <2>2. g = ParseCops(z, NoOperator).info
    BY <2>1, CopsOut, OkIs
  <2>3. Len(y) + Len(d) + 5 <= MaxString
    BY <1>7, <1>10, <1>11, <1>12, <1>13, TextAssumption
  <2>. HIDE DEF g
  <2>4. /\ k \in {0, 1} => Keeps(g, NoOperator)
        /\ k = 2 /\ Numeric(y) => g.plmn = PlmnOf(y)
    <3>1. d \in Texts /\ y \in Texts /\ z = Comma(DecDigits[n], Comma(DecDigits[k], Comma(y, d)))
      BY <1>7, <1>10 DEF z, a, b
    <3>2. /\ k = 0 \/ k = 1 => Keeps(g, NoOperator)
          /\ k = 2 /\ Numeric(y) => g.plmn = PlmnOf(y)
      BY <1>2, <2>2, <2>3, <3>1, OperatorRead
    <3>. QED BY <3>2
  <2>5. CASE k = 2
    <3>1. g.plmn = o.plmn /\ o.plmn # NoPlmn
      <4>1. Numeric(y)
        BY <1>8, <1>9, <2>5 DEF Numeric
      <4>2. g.plmn = PlmnOf(y)
        BY <2>4, <2>5, <4>1
      <4>3. g.plmn = [mcc |-> SubSeq(x, 1, 3), mnc |-> From(x, 4)]
        BY <1>9, <2>5, <4>2 DEF PlmnOf
      <4>. QED BY <1>8, <2>5, <4>3
    <3>2. o \in m.oper
      BY <1>1 DEF IsShown
    <3>. QED BY <1>3, <3>1, <3>2 DEF g
  <2>6. CASE k # 2
    <3>1. k \in {0, 1}
      BY <1>2, <2>6
    <3>2. g.plmn = NoPlmn /\ m.format # 2
      BY <2>4, <2>6, <3>1, NoOperatorIs DEF Keeps, k
    <3>. QED BY <1>3, <3>2 DEF g
  <2>. QED BY <2>5, <2>6
<1>14. CASE ~(Len(c) + 3 <= MaxString)
  <2>1. Stripped(l) = Fail("BAD_PARAMETER", l)
    BY <1>10, <1>14, StrippedIs DEF l
  <2>2. g = NoOperator
    BY <2>1, CopsOut, OkIs
  <2>3. ASSUME m.format = 2, MaxString >= 17 PROVE FALSE
    <3>1. Len(x) \in {5, 6}
      BY <1>8, <2>3 DEF k
    <3>2. Len(x) = 5 \/ Len(x) = 6
      BY <3>1
    <3>. DEFINE nx == Len(x)
    <3>. HIDE DEF nx
    <3>3. Len(c) = nx + 8 /\ (nx = 5 \/ nx = 6)
      BY <1>12, <3>2 DEF nx
    <3>. QED BY <1>14, <2>3, <3>3, TextAssumption
  <2>4. g.plmn = NoPlmn
    BY <2>2, NoOperatorIs
  <2>. HIDE DEF g
  <2>. QED BY <1>3, <2>3, <2>4 DEF g
<1>. QED BY <1>13, <1>14

SetCommands == {"AT+CPSMS=", "AT+CEDRXS=", "AT+COPS=", "AT+CGDCONT=", "AT+CFUN="}

\* A command of a call that asks for something: m answers it, and is what is remembered.
AskedFor(w, m, before, after) ==
  /\ Fine(m)
  /\ \E lines \in Answers(m, w) \cup { <<>> } : after = Receive(w, lines, before)

LEMMA Asking ==
  ASSUME NEW q, NEW op, op # "ATCommandRaw", NEW n, NEW h, NEW r, NEW mem, Chain(q, op, n, h, r, mem),
         NEW i \in 1 .. n, NEW w, w = q.commands[i][1], w \notin SetCommands
  PROVE  AskedFor(w, mem[w], r[i - 1].out, r[i])
<1>. DEFINE c == q.commands[i]
            m == h[i]
<1>1. Fine(m) /\ mem[w] = Heard(m, c) /\ Given(m, c, op, r[i - 1].out, r[i])
  BY DEF Chain
<1>. HIDE DEF m, c
<1>2. c[1] = w
  BY DEF c
<1>3. Heard(m, c) = m
  <2>1. DOMAIN m = ModemFields /\ c[1] \notin {"AT+CPSMS=", "AT+CEDRXS=", "AT+COPS=", "AT+CGDCONT=", "AT+CFUN="}
    BY <1>1, <1>2 DEF Fine, SetCommands
  <2>. QED BY <2>1, HeardIs
<1>4. \E lines \in Answers(m, w) \cup { <<>> } : r[i] = Receive(w, lines, r[i - 1].out)
  BY <1>1, <1>2 DEF Given
<1>. QED BY <1>1, <1>3, <1>4 DEF AskedFor

\* A call that has succeeded, as AnswersInv has it.
LEMMA CallOf ==
  ASSUME AnswersInv, NEW t \in Tasks, NEW ops, Succeeded(t, ops)
  PROVE  /\ req[t].op \in ops /\ ~req[t].null /\ IsRequest(req[t]) /\ Query(req[t]).refusal = "no"
         /\ GoodCall(Query(req[t]).commands, req[t]) /\ Done(t)
<1>1. IsCalled(t) /\ Done(t)
  BY DEF AnswersInv, Succeeded
<1>2. IsRequest(req[t]) /\ Query(req[t]).refusal = "no"
  BY <1>1 DEF IsCalled
<1>3. GoodCall(Query(req[t]).commands, req[t]) /\ ~req[t].null
  BY <1>2, CallsAreGood
<1>. QED BY <1>1, <1>2, <1>3 DEF Succeeded

LEMMA CopsCommandsAre ==
  /\ Len(CopsCommands) = 2 /\ CopsCommands[1][1] = "AT+COPS=" /\ CopsCommands[2][1] = "AT+COPS?"
  /\ CopsCommands[1] = <<"AT+COPS=", "3", ",", "2">> /\ CopsCommands[2] = <<"AT+COPS?">>
BY DEF CopsCommands

\* What the question for the operator gives.
LEMMA CopsAsked ==
  ASSUME NEW m, NEW r, AskedFor("AT+COPS?", m, NoOperator, r)
  PROVE  /\ r.out.plmn = NoPlmn \/ \E o \in m.oper : r.out.plmn = o.plmn
         /\ MaxString >= 17 /\ m.oper # {} /\ m.format = 2 /\ r.out.plmn = NoPlmn =>
              r.pkt # "OK" /\ r.out.mode = 0
<1>1. PICK lines \in Answers(m, "AT+COPS?") \cup { <<>> } : r = Receive("AT+COPS?", lines, NoOperator)
  BY DEF AskedFor
<1>2. Answers(m, "AT+COPS?") = { << CopsLine(m) >> } /\ IsModem(m)
  BY DEF Answers, CopsLine, AskedFor, Fine
<1>3. CASE lines = <<>>
  <2>1. r = [pkt |-> "FAILURE", out |-> NoOperator]
    BY <1>1, <1>3 DEF Receive
  <2>2. NoOperator.mode = 0
    BY DEF NoOperator
  <2>. QED BY <2>1, <2>2, NoOperatorIs
<1>4. CASE lines # <<>>
  <2>. DEFINE l == CopsLine(m)
  <2>1. lines = <<l>>
    BY <1>1, <1>2, <1>4
  <2>. HIDE DEF l
  <2>2. r = RecvFuncUpdateMccMnc(l, NoOperator)
    <3>1. Head(lines) = l
      BY <2>1
    <3>2. r = RecvFuncUpdateMccMnc(Head(lines), NoOperator)
      BY <1>1, <1>4 DEF Receive
    <3>. QED BY <3>1, <3>2
  <2>3. CASE m.oper = {}
    <3>1. r.out.plmn = NoPlmn
      BY <1>2, <2>2, <2>3, CopsNobody DEF l
    <3>. QED BY <2>3, <3>1
  <2>4. CASE m.oper # {}
    <3>. DEFINE g == RecvFuncUpdateMccMnc(CopsLine(m), NoOperator).out
    <3>1. /\ g.plmn = NoPlmn \/ \E o \in m.oper : g.plmn = o.plmn
          /\ m.format = 2 /\ MaxString >= 17 => g.plmn # NoPlmn
      BY <1>2, <2>4, CopsOperator
    <3>2. r.out = g
      BY <2>2 DEF l
    <3>. HIDE DEF g
    <3>. QED BY <3>1, <3>2
  <2>. QED BY <2>3, <2>4
<1>. QED BY <1>3, <1>4

LEMMA PlmnFollows ==
  ASSUME MaxString >= 17, AnswersInv
  PROVE  PlmnRight
<1>. SUFFICES ASSUME NEW t \in Tasks, Succeeded(t, CopsOps)
              PROVE  LET asked == "AT+COPS?" \in DOMAIN told[t]
                         m == told[t]["AT+COPS?"]
                     IN  /\ out[t].plmn # NoPlmn => asked /\ \E o \in m.oper : out[t].plmn = o.plmn
                         /\ asked /\ m.oper # {} /\ m.format = 2 /\ out[t].plmn = NoPlmn =>
                              Op(t) = "GetServiceStatus" /\ out[t].mode = 0
  BY DEF PlmnRight
<1>. DEFINE q == Query(req[t])
            cs == q.commands
            op == req[t].op
<1>1. op \in CopsOps /\ ~req[t].null /\ Done(t)
  BY CallOf
<1>2. q = GetRegisteredNetwork
  BY <1>1, QueryOf
<1>3. cs = CopsCommands /\ q.fresh = NoOperator
  BY <1>2 DEF GetRegisteredNetwork, Sends
<1>4a. PICK n \in 0 .. Len(cs) : \E h, r :
        Went(t, n, h, r) /\ (op # "GetServiceStatus" => n = Len(cs) /\ r[n].pkt = "OK")
  BY <1>1 DEF Done
<1>4. PICK h, r :
        Went(t, n, h, r) /\ (op # "GetServiceStatus" => n = Len(cs) /\ r[n].pkt = "OK")
  BY <1>4a
<1>5. Chain(q, op, n, h, r, told[t]) /\ DOMAIN told[t] = Asked(cs, n) /\ out[t] = r[n].out
  BY <1>4 DEF Went
<1>6. op # "ATCommandRaw" /\ op \in {"GetRegisteredNetwork", "GetServiceStatus"}
  BY <1>1 DEF CopsOps
<1>. HIDE DEF q, cs, op
<1>7. n = 0 \/ n = 1 \/ n = 2
  <2>1. Len(cs) = 2
    BY <1>3, CopsCommandsAre
  <2>2. n \in 0 .. 2
    BY <2>1
  <2>. QED BY <2>2
<1>8. q.commands = CopsCommands
  BY <1>3 DEF cs
<1>9. r[0].out = NoOperator
  BY <1>3, <1>5 DEF Chain
<1>10. n >= 1 => r[1].out = NoOperator
  <2>1. ASSUME n >= 1 PROVE r[1].out = NoOperator
    <3>0. 1 \in 1 .. n /\ 1 - 1 = 0
      BY <1>7, <2>1
    <3>1. Given(h[1], q.commands[1], op, r[0].out, r[1])
      BY <1>5, <3>0 DEF Chain
    <3>2. q.commands[1][1] = "AT+COPS="
      BY <1>8, CopsCommandsAre
    <3>3. \E lines : r[1] = Receive("AT+COPS=", lines, NoOperator)
      BY <1>6, <1>9, <3>1, <3>2 DEF Given
    <3>. QED BY <3>3 DEF Receive
  <2>. QED BY <2>1
<1>11. CASE n = 0 \/ n = 1
  <2>1. out[t] = NoOperator
    BY <1>5, <1>9, <1>10, <1>11
  <2>2. "AT+COPS?" \notin DOMAIN told[t]
    <3>1. \A i \in 1 .. n : i = 1
      BY <1>11
    <3>2. \A i \in 1 .. n : cs[i][1] # "AT+COPS?"
      BY <1>3, <3>1, CopsCommandsAre
    <3>. QED BY <1>5, <3>2 DEF Asked
  <2>. QED BY <2>1, <2>2, NoOperatorIs
<1>12. CASE n = 2
  <2>0. 2 \in 1 .. n /\ 2 - 1 = 1
    BY <1>12
  <2>. DEFINE m == told[t]["AT+COPS?"]
  <2>1. AskedFor("AT+COPS?", m, r[1].out, r[2])
    <3>1. "AT+COPS?" = q.commands[2][1] /\ "AT+COPS?" \notin SetCommands
      BY <1>8, CopsCommandsAre DEF SetCommands
    <3>. QED BY <1>5, <1>6, <2>0, <3>1, Asking
  <2>. HIDE DEF m
  <2>2. AskedFor("AT+COPS?", m, NoOperator, r[2]) /\ out[t] = r[2].out
    BY <1>5, <1>10, <1>12, <2>1
  <2>3. /\ out[t].plmn = NoPlmn \/ \E o \in m.oper : out[t].plmn = o.plmn
        /\ m.oper # {} /\ m.format = 2 /\ out[t].plmn = NoPlmn =>
              r[2].pkt # "OK" /\ out[t].mode = 0
    BY <2>2, CopsAsked
  <2>4. "AT+COPS?" \in DOMAIN told[t]
    BY <1>3, <1>5, <2>0, CopsCommandsAre DEF Asked
  <2>5. r[2].pkt # "OK" => Op(t) = "GetServiceStatus"
    BY <1>4, <1>12 DEF Op, op
  <2>. QED BY <2>3, <2>4, <2>5 DEF m
<1>. QED BY <1>7, <1>11, <1>12

\* PlmnRight, for every modem, every answer and every interleaving: whatever another task does
\* to the format of names between AT+COPS=3,2 and AT+COPS?, the PLMN a caller gets is the
\* modem's or none (atcmdUpdateMccMnc, _parseCops).
THEOREM PlmnIsRight ==
  ASSUME MaxString >= 17
  PROVE  QuerySpec => []PlmnRight
<1>1. AnswersInv => PlmnRight
  BY PlmnFollows
<1>. QED BY <1>1, AnswersAreGiven, PTL

\* A call of one command: it has been heard.
LEMMA OneCommand ==
  ASSUME AnswersInv, NEW t \in Tasks, NEW op, op # "GetServiceStatus", req[t].op = op,
         pc[t] = "returned", status[t] = "SUCCESS",
         NEW c, Query(req[t]).commands = <<c>>
  PROVE  \E m : Fine(m) /\ told[t][c[1]] = Heard(m, c)
<1>. DEFINE q == Query(req[t])
            cs == q.commands
<1>1. Done(t)
  BY DEF AnswersInv
<1>2a. PICK n \in 0 .. Len(cs) : \E h, r :
        Went(t, n, h, r) /\ n = Len(cs)
  BY <1>1 DEF Done
<1>2. PICK h, r :
        Went(t, n, h, r) /\ n = Len(cs)
  BY <1>2a
<1>3. Chain(q, op, n, h, r, told[t])
  BY <1>2 DEF Went
<1>4. Len(cs) = 1 /\ cs[1] = c
  OBVIOUS
<1>. HIDE DEF q
<1>5. 1 \in 1 .. n
  BY <1>2, <1>4
<1>6. Fine(h[1]) /\ told[t][cs[1][1]] = Heard(h[1], cs[1])
  BY <1>3, <1>5 DEF Chain
<1>. QED BY <1>4, <1>6

LEMMA SetterCall ==
  ASSUME AnswersInv, NEW t \in Tasks, NEW op, Succeeded(t, {op})
  PROVE  /\ req[t].op = op /\ ~req[t].null /\ IsRequest(req[t]) /\ Query(req[t]).refusal = "no"
         /\ pc[t] = "returned" /\ status[t] = "SUCCESS"
<1>1. Succeeded(t, {op}) /\ req[t].op \in {op}
  BY DEF Succeeded
<1>2. ~req[t].null /\ IsRequest(req[t]) /\ Query(req[t]).refusal = "no"
  BY <1>1, CallOf
<1>. QED BY <1>1, <1>2 DEF Succeeded

LEMMA PsmSet ==
  ASSUME AnswersInv, NEW t \in Tasks, Succeeded(t, {"SetPsmSettings"})
  PROVE  LET a == req[t].arg
             psm == told[t]["AT+CPSMS="].psm
         IN  psm.mode = a.mode /\ \A f \in ToSet(PsmFields) : a[f] # 0 => psm[f] = {a[f] % 256}
<1>. DEFINE a == req[t].arg
            c == PsmCommand(a)
            g == told[t]["AT+CPSMS="]
<1>1. /\ req[t].op = "SetPsmSettings" /\ ~req[t].null /\ IsRequest(req[t]) /\ Query(req[t]).refusal = "no"
      /\ pc[t] = "returned" /\ status[t] = "SUCCESS"
  BY SetterCall
<1>2. Query(req[t]).commands = <<c>>
  <2>1. Query(req[t]) = SetPsmSettings(a)
    BY <1>1, QueryOf
  <2>. QED BY <2>1 DEF SetPsmSettings, Sets, Sends
<1>3. IsPsmArg(a)
  BY <1>1 DEF IsRequest, IsPsmArg
<1>. HIDE DEF a
<1>4. c[1] = "AT+CPSMS=" /\ \A psm : PsmHeard(HeardPsm(psm, Fields(Tail(c))), psm, a)
  BY <1>3, PsmCommandHeard
<1>. HIDE DEF c
<1>5. PICK m : Fine(m) /\ told[t][c[1]] = Heard(m, c)
  <2>. DEFINE op == "SetPsmSettings"
  <2>1. op # "GetServiceStatus" /\ req[t].op = op /\ pc[t] = "returned" /\ status[t] = "SUCCESS"
    BY <1>1
  <2>. HIDE DEF op
  <2>. QED BY <1>2, <2>1, OneCommand
<1>. DEFINE new == HeardPsm(m.psm, Fields(Tail(c)))
<1>6. g = Heard(m, c)
  BY <1>4, <1>5
<1>7. Set(g, m, "psm", new)
  <2>1. DOMAIN m = ModemFields
    BY <1>5 DEF Fine
  <2>. QED BY <1>4, <1>6, <2>1, HeardIs
<1>. HIDE DEF new, g
<1>8. g.psm = new
  BY <1>7 DEF Set
<1>9. PsmHeard(new, m.psm, a)
  BY <1>4 DEF new
<1>10. ToSet(PsmFields) = TimerFields
  BY DEF ToSet, PsmFields, TimerFields
<1>11. \A f \in ToSet(PsmFields) : a[f] # 0 => g.psm[f] = {a[f] % 256}
  BY <1>8, <1>9, <1>10 DEF PsmHeard
<1>12. g.psm.mode = a.mode
  BY <1>8, <1>9 DEF PsmHeard
<1>. QED BY <1>11, <1>12 DEF g, a

LEMMA EidrxSet ==
  ASSUME AnswersInv, NEW t \in Tasks, Succeeded(t, {"SetEidrxSettings"})
  PROVE  LET a == req[t].arg IN
         [rat |-> a.rat, value |-> a.value] \in ToSet(told[t]["AT+CEDRXS="].edrx)
<1>. DEFINE a == req[t].arg
            c == EidrxCommand(a)
            g == told[t]["AT+CEDRXS="]
<1>1. /\ req[t].op = "SetEidrxSettings" /\ ~req[t].null /\ IsRequest(req[t]) /\ Query(req[t]).refusal = "no"
      /\ pc[t] = "returned" /\ status[t] = "SUCCESS"
  BY SetterCall
<1>2. Query(req[t]).commands = <<c>>
  <2>1. Query(req[t]) = SetEidrxSettings(a)
    BY <1>1, QueryOf
  <2>. QED BY <2>1 DEF SetEidrxSettings, Sets, Sends
<1>3. IsEidrxArg(a)
  BY <1>1 DEF IsRequest, IsEidrxArg
<1>. HIDE DEF a, c
<1>4. c[1] = "AT+CEDRXS="
      /\ \A list \in Seq(Entries) : [rat |-> a.rat, value |-> a.value] \in ToSet(HeardEdrx(list, Fields(Tail(c))))
  <2>1. ASSUME NEW l \in Seq(Entries)
        PROVE  c[1] = "AT+CEDRXS=" /\ [rat |-> a.rat, value |-> a.value] \in ToSet(HeardEdrx(l, Fields(Tail(c))))
    BY <1>3, EidrxCommandHeard DEF c
  <2>2. <<>> \in Seq(Entries)
    OBVIOUS
  <2>. QED BY <2>1, <2>2
<1>5. PICK m : Fine(m) /\ told[t][c[1]] = Heard(m, c)
  <2>. DEFINE op == "SetEidrxSettings"
  <2>1. op # "GetServiceStatus" /\ req[t].op = op /\ pc[t] = "returned" /\ status[t] = "SUCCESS"
    BY <1>1
  <2>. HIDE DEF op
  <2>. QED BY <1>2, <2>1, OneCommand
<1>. DEFINE new == HeardEdrx(m.edrx, Fields(Tail(c)))
<1>6. g = Heard(m, c)
  BY <1>4, <1>5
<1>7. Set(g, m, "edrx", new)
  <2>1. DOMAIN m = ModemFields
    BY <1>5 DEF Fine
  <2>. QED BY <1>4, <1>6, <2>1, HeardIs
<1>8. [rat |-> a.rat, value |-> a.value] \in ToSet(new)
  <2>1. m.edrx \in Seq(Entries)
    BY <1>5 DEF Fine, IsModem, Entries
  <2>. QED BY <1>4, <2>1
<1>. HIDE DEF new, g
<1>9. g.edrx = new
  BY <1>7 DEF Set
<1>. QED BY <1>8, <1>9 DEF g, a

LEMMA PdnSet ==
  ASSUME AnswersInv, NEW t \in Tasks, Succeeded(t, {"SetPdnConfig"})
  PROVE  LET a == req[t].arg IN
         [cid |-> a.cid, type |-> PdnTypes[a.type], apn |-> a.apn] \in told[t]["AT+CGDCONT="].pdn
<1>. DEFINE a == req[t].arg
            c == PdnCommand(a.cid, a.type, a.apn)
            g == told[t]["AT+CGDCONT="]
            f == Fields(Tail(c))
<1>1. /\ req[t].op = "SetPdnConfig" /\ ~req[t].null /\ IsRequest(req[t]) /\ Query(req[t]).refusal = "no"
      /\ pc[t] = "returned" /\ status[t] = "SUCCESS"
  BY SetterCall
<1>2. Query(req[t]).commands = <<c>> /\ a.type \in DOMAIN PdnTypes /\ IsValidPdn(a.cid)
  <2>1. Query(req[t]) = SetPdnConfig(a)
    BY <1>1, QueryOf
  <2>2. Refused.refusal = "BAD_PARAMETER"
    BY DEF Refused
  <2>3. a.type \in DOMAIN PdnTypes /\ IsValidPdn(a.cid) /\ Query(req[t]) = Sets(c)
    <3>. HIDE DEF c, a
    <3>. QED BY <1>1, <2>1, <2>2 DEF SetPdnConfig, c
  <2>. QED BY <2>3 DEF Sets, Sends
<1>3. IsPdnArg(a.cid, a.type, a.apn)
  <2>1. a.apn \in Text /\ Lacks(a.apn, Quote) /\ Lacks(a.apn, ",")
    BY <1>1 DEF IsRequest
  <2>2. a.cid \in 0 .. 99
    BY <1>2, PdnInBytes DEF IsValidPdn
  <2>. QED BY <1>2, <2>1, <2>2 DEF IsPdnArg
<1>. HIDE DEF a, f, c
<1>4. /\ c[1] = "AT+CGDCONT="
      /\ ValueOf(f[1], 10) = a.cid /\ Unquoted(f[2]) = PdnTypes[a.type] /\ Unquoted(f[3]) = a.apn
  BY <1>3, PdnCommandHeard DEF c, f
<1>5. PICK m : Fine(m) /\ told[t][c[1]] = Heard(m, c)
  <2>. DEFINE op == "SetPdnConfig"
  <2>1. op # "GetServiceStatus" /\ req[t].op = op /\ pc[t] = "returned" /\ status[t] = "SUCCESS"
    BY <1>1
  <2>. HIDE DEF op
  <2>. QED BY <1>2, <2>1, OneCommand
<1>6. g = Heard(m, c)
  BY <1>4, <1>5
<1>. DEFINE p == [cid |-> ValueOf(f[1], 10), type |-> Unquoted(f[2]), apn |-> Unquoted(f[3])]
            new == {p} \cup {x \in m.pdn : x.cid # p.cid}
<1>7. Set(g, m, "pdn", new)
  <2>1. DOMAIN m = ModemFields
    BY <1>5 DEF Fine
  <2>. QED BY <1>4, <1>6, <2>1, HeardIs DEF f
<1>8. p = [cid |-> a.cid, type |-> PdnTypes[a.type], apn |-> a.apn] /\ p \in new
  BY <1>4
<1>. HIDE DEF new, g, p
<1>9. g.pdn = new
  BY <1>7 DEF Set
<1>. QED BY <1>8, <1>9 DEF g, a

\* SettersHeard: the modem has read each value of an accepted setting in the parameter it
\* belongs to, through PRINTF_BINARY_PATTERN, the quotes and the empty parameters.
THEOREM SettersAreHeard == QuerySpec => []SettersHeard
<1>1. AnswersInv => SettersHeard
  BY PsmSet, EidrxSet, PdnSet DEF SettersHeard
<1>. QED BY <1>1, AnswersAreGiven, PTL

-----------------------------------------------------------------------------
(* The loop over the tokens of an answer.                                      *)

At(s, toks) == [s |-> s, toks |-> toks]
NextTok(f) ==
  LET r == ATGetNextTok(f.s) IN
  IF r.st = "SUCCESS" THEN [s |-> r.s, toks |-> Append(f.toks, r.tok)] ELSE f

\* The loop is the one function that starts at the start and goes on step by step.
LEMMA TokensAre ==
  ASSUME NEW s, NEW n \in Nat, NEW e, e = [i \in 0 .. n |-> e[i]], e[0] = At(s, <<>>),
         \A i \in 1 .. n : e[i] = NextTok(e[i - 1])
  PROVE  Tokens(s, n) = e[n].toks
<1>. DEFINE start == [s |-> s, toks |-> <<>>]
            up(g) == [i \in 0 .. n |-> IF i = 0 THEN start ELSE NextTok(g[i - 1])]
            h == CHOOSE g : g = up(g)
<1>1. Tokens(s, n) = h[n].toks
  BY DEF Tokens, NextTok
<1>2. e = up(e)
  <2>1. ASSUME NEW i \in 0 .. n PROVE e[i] = IF i = 0 THEN start ELSE NextTok(e[i - 1])
    <3>1. i = 0 \/ i \in 1 .. n
      OBVIOUS
    <3>2. ~(0 \in 1 .. n)
      OBVIOUS
    <3>. QED BY <3>1, <3>2 DEF At
  <2>. HIDE DEF start
  <2>. QED BY <2>1
<1>3. h = up(h)
  <2>. HIDE DEF up
  <2>. QED BY <1>2
<1>. HIDE DEF h, start
<1>4. h[0] = start /\ \A i \in 1 .. n : h[i] = NextTok(h[i - 1])
  <2>1. \A i \in 0 .. n : h[i] = IF i = 0 THEN start ELSE NextTok(h[i - 1])
    BY <1>3
  <2>2. 0 \in 0 .. n /\ \A i \in 1 .. n : i \in 0 .. n /\ i # 0
    OBVIOUS
  <2>. QED BY <2>1, <2>2
<1>. DEFINE G == {i \in 0 .. n : h[i] = e[i]}
<1>5. 0 \in G
  BY <1>4 DEF At, start
<1>6. ASSUME NEW i \in 1 .. n, i - 1 \in G PROVE i \in G
  <2>1. h[i - 1] = e[i - 1] /\ i \in 0 .. n
    BY <1>6
  <2>. QED BY <1>4, <2>1
<1>7. n \in G
  <2>. HIDE DEF G
  <2>1. \A i \in 0 .. n : i \in G
    BY <1>5, <1>6, UpTo
  <2>. QED BY <2>1
<1>. QED BY <1>1, <1>7

LEMMA NextIs ==
  ASSUME NEW a, Param(a), NEW b \in Texts, Len(a) + 1 + Len(b) <= MaxString, NEW toks
  PROVE  NextTok(At(Comma(a, b), toks)) = At(b, Append(toks, a))
<1>. DEFINE z == ","
            s == a \o <<z>> \o b
            r == ATGetNextTok(s)
<1>1. a \in Texts /\ Lacks(a, z) /\ z \in Symbols
  BY Commas DEF Param
<1>2. r = [st |-> "SUCCESS", tok |-> a, s |-> b]
  <2>. HIDE DEF z
  <2>1. ATGetSpecificNextTok(a \o <<z>> \o b, z) = [st |-> "SUCCESS", tok |-> a, s |-> b]
    BY <1>1, FirstToken
  <2>. QED BY <2>1 DEF ATGetNextTok, z
<1>3. s = Comma(a, b)
  BY DEF Comma
<1>. HIDE DEF s
<1>4. NextTok(At(s, toks)) = At(b, Append(toks, a))
  BY <1>2 DEF NextTok, At
<1>. QED BY <1>3, <1>4

LEMMA NextLast ==
  ASSUME NEW a, Param(a), a # <<>>, Len(a) <= MaxString, NEW toks
  PROVE  NextTok(At(a, toks)) = At(<<>>, Append(toks, a))
<1>. DEFINE z == ","
            r == ATGetNextTok(a)
<1>1. a \in Texts /\ Lacks(a, z) /\ z \in Symbols
  BY Commas DEF Param
<1>2. r = [st |-> "SUCCESS", tok |-> a, s |-> <<>>]
  <2>. HIDE DEF z
  <2>1. ATGetSpecificNextTok(a, z) = [st |-> "SUCCESS", tok |-> a, s |-> <<>>]
    BY <1>1, LastToken
  <2>. QED BY <2>1 DEF ATGetNextTok, z
<1>. QED BY <1>2 DEF NextTok, At

LEMMA NextNone ==
  ASSUME NEW toks
  PROVE  NextTok(At(<<>>, toks)) = At(<<>>, toks)
<1>1. ATGetNextTok(<<>>) = [st |-> "BAD_PARAMETER", tok |-> <<>>, s |-> <<>>]
  BY Commas, NoToken DEF ATGetNextTok
<1>. QED BY <1>1 DEF NextTok, At

\* A loop that has nothing left after k steps.
LEMMA TokensEnd ==
  ASSUME NEW s, NEW n \in Nat, NEW k \in 0 .. n, NEW f, f[0] = At(s, <<>>),
         \A i \in 1 .. k : f[i] = NextTok(f[i - 1]), NEW toks, f[k] = At(<<>>, toks)
  PROVE  Tokens(s, n) = toks
<1>. DEFINE e == [i \in 0 .. n |-> IF i <= k THEN f[i] ELSE f[k]]
<1>1. e[0] = At(s, <<>>) /\ e[n].toks = toks
  <2>1. e[0] = f[0] /\ e[n] = f[k]
    OBVIOUS
  <2>. HIDE DEF e
  <2>. QED BY <2>1 DEF At
<1>2. ASSUME NEW i \in 1 .. n PROVE e[i] = NextTok(e[i - 1])
  <2>1. CASE i <= k
    <3>1. i \in 1 .. k /\ e[i] = f[i] /\ e[i - 1] = f[i - 1]
      BY <2>1
    <3>. HIDE DEF e
    <3>. QED BY <3>1
  <2>2. CASE ~(i <= k)
    <3>1. e[i] = f[k] /\ e[i - 1] = f[k]
      <4>1. i \in 0 .. n /\ i - 1 \in 0 .. n
        OBVIOUS
      <4>2. i - 1 <= k => i - 1 = k
        BY <2>2
      <4>. QED BY <2>2, <4>1, <4>2
    <3>. HIDE DEF e
    <3>. QED BY <3>1, NextNone
  <2>. QED BY <2>1, <2>2
<1>3. e = [i \in 0 .. n |-> e[i]]
  OBVIOUS
<1>. HIDE DEF e
<1>. QED BY <1>1, <1>2, <1>3, TokensAre

LEMMA Appended2 ==
  ASSUME NEW x, NEW y
  PROVE  Append(<<x>>, y) = <<x, y>>
<1>. DEFINE S == {x, y}
            a == Append(<<x>>, y)
            b == <<x, y>>
<1>0. x \in S /\ y \in S
  OBVIOUS
<1>. HIDE DEF S
<1>1. a \in Seq(S) /\ b \in Seq(S) /\ Len(a) = 2 /\ Len(b) = 2
  BY <1>0
<1>2. a[1] = x /\ a[2] = y
  BY <1>0
<1>3. b[1] = x /\ b[2] = y
  OBVIOUS
<1>. HIDE DEF a, b
<1>4. \A i \in 1 .. 2 : i = 1 \/ i = 2
  OBVIOUS
<1>5. \A i \in 1 .. 2 : a[i] = b[i]
  BY <1>2, <1>3, <1>4
<1>6. a = b
  BY <1>1, <1>5, SeqEqual
<1>. QED BY <1>6 DEF a, b

LEMMA Appended3 ==
  ASSUME NEW x, NEW y, NEW z
  PROVE  Append(<<x, y>>, z) = <<x, y, z>>
<1>. DEFINE S == {x, y, z}
            a == Append(<<x, y>>, z)
            b == <<x, y, z>>
<1>0. x \in S /\ y \in S /\ z \in S
  OBVIOUS
<1>. HIDE DEF S
<1>1. a \in Seq(S) /\ b \in Seq(S) /\ Len(a) = 3 /\ Len(b) = 3
  BY <1>0
<1>2. a[1] = x /\ a[2] = y /\ a[3] = z
  BY <1>0
<1>3. b[1] = x /\ b[2] = y /\ b[3] = z
  OBVIOUS
<1>. HIDE DEF a, b
<1>4. \A i \in 1 .. 3 : i = 1 \/ i = 2 \/ i = 3
  OBVIOUS
<1>5. \A i \in 1 .. 3 : a[i] = b[i]
  BY <1>2, <1>3, <1>4
<1>6. a = b
  BY <1>1, <1>5, SeqEqual
<1>. QED BY <1>6 DEF a, b

LEMMA Appended4 ==
  ASSUME NEW x, NEW y, NEW z, NEW u
  PROVE  Append(<<x, y, z>>, u) = <<x, y, z, u>>
<1>. DEFINE S == {x, y, z, u}
            a == Append(<<x, y, z>>, u)
            b == <<x, y, z, u>>
<1>0. x \in S /\ y \in S /\ z \in S /\ u \in S
  OBVIOUS
<1>. HIDE DEF S
<1>1. a \in Seq(S) /\ b \in Seq(S) /\ Len(a) = 4 /\ Len(b) = 4
  BY <1>0
<1>2. a[1] = x /\ a[2] = y /\ a[3] = z /\ a[4] = u
  BY <1>0
<1>3. b[1] = x /\ b[2] = y /\ b[3] = z /\ b[4] = u
  OBVIOUS
<1>. HIDE DEF a, b
<1>4. \A i \in 1 .. 4 : i = 1 \/ i = 2 \/ i = 3 \/ i = 4
  OBVIOUS
<1>5. \A i \in 1 .. 4 : a[i] = b[i]
  BY <1>2, <1>3, <1>4
<1>6. a = b
  BY <1>1, <1>5, SeqEqual
<1>. QED BY <1>6 DEF a, b

LEMMA Appended5 ==
  ASSUME NEW x, NEW y, NEW z, NEW u, NEW v
  PROVE  Append(<<x, y, z, u>>, v) = <<x, y, z, u, v>>
<1>. DEFINE S == {x, y, z, u, v}
            a == Append(<<x, y, z, u>>, v)
            b == <<x, y, z, u, v>>
<1>0. x \in S /\ y \in S /\ z \in S /\ u \in S /\ v \in S
  OBVIOUS
<1>. HIDE DEF S
<1>1. a \in Seq(S) /\ b \in Seq(S) /\ Len(a) = 5 /\ Len(b) = 5
  BY <1>0
<1>2. a[1] = x /\ a[2] = y /\ a[3] = z /\ a[4] = u /\ a[5] = v
  BY <1>0
<1>3. b[1] = x /\ b[2] = y /\ b[3] = z /\ b[4] = u /\ b[5] = v
  OBVIOUS
<1>. HIDE DEF a, b
<1>4. \A i \in 1 .. 5 : i = 1 \/ i = 2 \/ i = 3 \/ i = 4 \/ i = 5
  OBVIOUS
<1>5. \A i \in 1 .. 5 : a[i] = b[i]
  BY <1>2, <1>3, <1>4
<1>6. a = b
  BY <1>1, <1>5, SeqEqual
<1>. QED BY <1>6 DEF a, b

LEMMA Appended ==
  /\ \A x : Append(<<>>, x) = <<x>>
  /\ \A x, y : Append(<<x>>, y) = <<x, y>>
  /\ \A x, y, z : Append(<<x, y>>, z) = <<x, y, z>>
  /\ \A x, y, z, u : Append(<<x, y, z>>, u) = <<x, y, z, u>>
  /\ \A x, y, z, u, v : Append(<<x, y, z, u>>, v) = <<x, y, z, u, v>>
<1>1. \A x : Append(<<>>, x) = <<x>>
  OBVIOUS
<1>. QED BY <1>1, Appended2, Appended3, Appended4, Appended5

\* Values one after the other.
Row(x0, x1, x2, x3, x4, x5) ==
  [i \in 0 .. 5 |-> IF i = 0 THEN x0 ELSE IF i = 1 THEN x1 ELSE IF i = 2 THEN x2
                    ELSE IF i = 3 THEN x3 ELSE IF i = 4 THEN x4 ELSE x5]

LEMMA RowIs ==
  ASSUME NEW y0, NEW y1, NEW y2, NEW y3, NEW y4, NEW y5
  PROVE  LET g == Row(y0, y1, y2, y3, y4, y5) IN
         g[0] = y0 /\ g[1] = y1 /\ g[2] = y2 /\ g[3] = y3 /\ g[4] = y4 /\ g[5] = y5
BY DEF Row

\* The tokens of an answer of three parts, the last not empty,
LEMMA TokensOfThree ==
  ASSUME NEW a, Param(a), NEW b, Param(b), NEW c, Param(c), c # <<>>,
         Len(a) + Len(b) + Len(c) + 2 <= MaxString, NEW n \in Nat, n >= 3
  PROVE  Tokens(Comma(a, Comma(b, c)), n) = <<a, b, c>>
<1>. DEFINE s1 == Comma(b, c)
            s == Comma(a, s1)
<1>0. a \in Texts /\ b \in Texts /\ c \in Texts
  BY DEF Param
<1>1. s1 \in Texts /\ Len(s1) = Len(b) + 1 + Len(c) /\ Len(b) \in Nat /\ Len(c) \in Nat
  BY <1>0, CommaIs
<1>. HIDE DEF s1
<1>2. Len(a) \in Nat
  BY <1>0 DEF Texts
<1>3. Len(a) + 1 + Len(s1) <= MaxString /\ Len(b) + 1 + Len(c) <= MaxString /\ Len(c) <= MaxString
  BY <1>1, <1>2, TextAssumption
<1>4. NextTok(At(s, <<>>)) = At(s1, <<a>>)
  <2>1. NextTok(At(s, <<>>)) = At(s1, Append(<<>>, a))
    BY <1>1, <1>3, NextIs
  <2>. QED BY <2>1, Appended
<1>5. NextTok(At(s1, <<a>>)) = At(c, <<a, b>>)
  <2>. DEFINE t == <<a>>
  <2>0. Append(t, b) = <<a, b>>
    BY Appended
  <2>. HIDE DEF t
  <2>1. NextTok(At(Comma(b, c), t)) = At(c, Append(t, b))
    BY <1>0, <1>3, NextIs
  <2>. QED BY <2>0, <2>1 DEF t, s1
<1>6. NextTok(At(c, <<a, b>>)) = At(<<>>, <<a, b, c>>)
  <2>. DEFINE t == <<a, b>>
  <2>0. Append(t, c) = <<a, b, c>>
    BY Appended
  <2>. HIDE DEF t
  <2>1. NextTok(At(c, t)) = At(<<>>, Append(t, c))
    BY <1>3, NextLast
  <2>. QED BY <2>0, <2>1 DEF t
<1>. DEFINE x0 == At(s, <<>>)
            x1 == At(s1, <<a>>)
            x2 == At(c, <<a, b>>)
            x3 == At(<<>>, <<a, b, c>>)
            f == Row(x0, x1, x2, x3, x3, x3)
<1>. HIDE DEF s, x0, x1, x2, x3
<1>7. f[0] = x0 /\ f[1] = x1 /\ f[2] = x2 /\ f[3] = x3
  BY RowIs
<1>. HIDE DEF f
<1>8. \A i \in 1 .. 3 : f[i] = NextTok(f[i - 1])
  <2>1. 1 - 1 = 0 /\ 2 - 1 = 1 /\ 3 - 1 = 2 /\ \A i \in 1 .. 3 : i = 1 \/ i = 2 \/ i = 3
    OBVIOUS
  <2>2. f[1] = NextTok(f[0]) /\ f[2] = NextTok(f[1]) /\ f[3] = NextTok(f[2])
    BY <1>4, <1>5, <1>6, <1>7 DEF x0, x1, x2, x3
  <2>. QED BY <2>1, <2>2
<1>. DEFINE w == <<a, b, c>>
<1>9. f[3] = At(<<>>, w) /\ 3 \in 0 .. n /\ f[0] = At(s, <<>>)
  BY <1>7 DEF x0, x3
<1>. HIDE DEF w
<1>10. Tokens(s, n) = w
  BY <1>8, <1>9, TokensEnd
<1>. QED BY <1>10 DEF s, s1, w

\* and of one of five parts: an empty last one is not returned.
LEMMA TokensOfFive ==
  ASSUME NEW a, Param(a), NEW b, Param(b), NEW c, Param(c), NEW d, Param(d), NEW e, Param(e),
         Len(a) + Len(b) + Len(c) + Len(d) + Len(e) + 4 <= MaxString, NEW n \in Nat, n >= 5
  PROVE  Tokens(Comma(a, Comma(b, Comma(c, Comma(d, e)))), n) =
           IF e = <<>> THEN <<a, b, c, d>> ELSE <<a, b, c, d, e>>
<1>. DEFINE s3 == Comma(d, e)
            s2 == Comma(c, s3)
            s1 == Comma(b, s2)
            s == Comma(a, s1)
            w == IF e = <<>> THEN <<a, b, c, d>> ELSE <<a, b, c, d, e>>
            x0 == At(s, <<>>)
            x1 == At(s1, <<a>>)
            x2 == At(s2, <<a, b>>)
            x3 == At(s3, <<a, b, c>>)
            x4 == At(e, <<a, b, c, d>>)
            x5 == At(<<>>, w)
<1>0. a \in Texts /\ b \in Texts /\ c \in Texts /\ d \in Texts /\ e \in Texts
  BY DEF Param
<1>1. s3 \in Texts /\ Len(s3) = Len(d) + 1 + Len(e) /\ Len(d) \in Nat /\ Len(e) \in Nat
  BY <1>0, CommaIs
<1>. HIDE DEF s3
<1>2. s2 \in Texts /\ Len(s2) = Len(c) + 1 + Len(s3) /\ Len(c) \in Nat
  BY <1>0, <1>1, CommaIs
<1>. HIDE DEF s2
<1>3. s1 \in Texts /\ Len(s1) = Len(b) + 1 + Len(s2) /\ Len(b) \in Nat
  BY <1>0, <1>2, CommaIs
<1>. HIDE DEF s1
<1>4. Len(a) \in Nat
  BY <1>0 DEF Texts
<1>5. /\ Len(a) + 1 + Len(s1) <= MaxString /\ Len(b) + 1 + Len(s2) <= MaxString
      /\ Len(c) + 1 + Len(s3) <= MaxString /\ Len(d) + 1 + Len(e) <= MaxString
      /\ Len(e) <= MaxString
  BY <1>1, <1>2, <1>3, <1>4, TextAssumption
<1>. HIDE DEF s
<1>6. NextTok(x0) = x1
  <2>1. NextTok(At(Comma(a, s1), <<>>)) = At(s1, Append(<<>>, a))
    BY <1>3, <1>5, NextIs
  <2>. QED BY <2>1, Appended DEF s
<1>7. NextTok(x1) = x2
  <2>. DEFINE t == <<a>>
  <2>0. Append(t, b) = <<a, b>>
    BY Appended
  <2>. HIDE DEF t
  <2>1. NextTok(At(Comma(b, s2), t)) = At(s2, Append(t, b))
    BY <1>2, <1>5, NextIs
  <2>. QED BY <2>0, <2>1 DEF t, s1
<1>8. NextTok(x2) = x3
  <2>. DEFINE t == <<a, b>>
  <2>0. Append(t, c) = <<a, b, c>>
    BY Appended
  <2>. HIDE DEF t
  <2>1. NextTok(At(Comma(c, s3), t)) = At(s3, Append(t, c))
    BY <1>1, <1>5, NextIs
  <2>. QED BY <2>0, <2>1 DEF t, s2
<1>9. NextTok(x3) = x4
  <2>. DEFINE t == <<a, b, c>>
  <2>0. Append(t, d) = <<a, b, c, d>>
    BY Appended
  <2>. HIDE DEF t
  <2>1. NextTok(At(Comma(d, e), t)) = At(e, Append(t, d))
    BY <1>0, <1>5, NextIs
  <2>. QED BY <2>0, <2>1 DEF t, s3
<1>10. NextTok(x4) = x5
  <2>. DEFINE t == <<a, b, c, d>>
  <2>0. Append(t, e) = <<a, b, c, d, e>>
    BY Appended
  <2>. HIDE DEF t
  <2>1. CASE e = <<>>
    <3>1. NextTok(At(<<>>, t)) = At(<<>>, t)
      BY NextNone
    <3>. QED BY <2>1, <3>1 DEF t
  <2>2. CASE e # <<>>
    <3>1. NextTok(At(e, t)) = At(<<>>, Append(t, e))
      BY <1>5, <2>2, NextLast
    <3>. QED BY <2>0, <2>2, <3>1 DEF t
  <2>. QED BY <2>1, <2>2
<1>11. x0 = At(s, <<>>) /\ x5 = At(<<>>, w)
  OBVIOUS
<1>. HIDE DEF x0, x1, x2, x3, x4, x5, w
<1>. DEFINE f == Row(x0, x1, x2, x3, x4, x5)
<1>12. f[0] = x0 /\ f[1] = x1 /\ f[2] = x2 /\ f[3] = x3 /\ f[4] = x4 /\ f[5] = x5
  BY RowIs
<1>. HIDE DEF f
<1>13. \A i \in 1 .. 5 : f[i] = NextTok(f[i - 1])
  <2>1. 1 - 1 = 0 /\ 2 - 1 = 1 /\ 3 - 1 = 2 /\ 4 - 1 = 3 /\ 5 - 1 = 4
        /\ \A i \in 1 .. 5 : i = 1 \/ i = 2 \/ i = 3 \/ i = 4 \/ i = 5
    OBVIOUS
  <2>2. f[1] = NextTok(f[0]) /\ f[2] = NextTok(f[1]) /\ f[3] = NextTok(f[2])
        /\ f[4] = NextTok(f[3]) /\ f[5] = NextTok(f[4])
    BY <1>6, <1>7, <1>8, <1>9, <1>10, <1>12
  <2>. QED BY <2>1, <2>2
<1>14. 5 \in 0 .. n
  OBVIOUS
<1>15. Tokens(s, n) = w
  BY <1>11, <1>12, <1>13, <1>14, TokensEnd
<1>. QED BY <1>15 DEF s, s1, s2, s3, w

-----------------------------------------------------------------------------
(* Power saving.                                                               *)

PsmOutFields == {"mode", "rau", "ready", "tau", "active"}
IsPsmOut(o) == o = [x \in PsmOutFields |-> o[x]]
\* g is o with a field stored.
Stored(g, o, field, v) ==
  IsPsmOut(g) /\ g[field] = v /\ \A x \in PsmOutFields \ {field} : g[x] = o[x]

LEMMA StoredWhen ==
  ASSUME NEW o, IsPsmOut(o), NEW field \in PsmOutFields, NEW v, NEW g, g = [o EXCEPT ![field] = v]
  PROVE  Stored(g, o, field, v)
<1>1. DOMAIN o = PsmOutFields
  BY DEF IsPsmOut
<1>2. g = [x \in PsmOutFields |-> IF x = field THEN v ELSE o[x]]
  BY <1>1
<1>3. g[field] = v /\ \A x \in PsmOutFields \ {field} : g[x] = o[x]
  BY <1>2
<1>4. IsPsmOut(g)
  BY <1>2 DEF IsPsmOut
<1>. QED BY <1>3, <1>4 DEF Stored

LEMMA StoredSame ==
  ASSUME NEW o, IsPsmOut(o), NEW field \in PsmOutFields, NEW v, o[field] = v
  PROVE  Stored(o, o, field, v)
BY DEF Stored

\* The timers: a byte, or none.
IsTimer(V) == V = {} \/ \E v \in 0 .. 255 : V = {v}
TimerText(V) == IF V = {} THEN <<>> ELSE Bits(CHOOSE v \in V : TRUE, 8)
Worth(V, units) == IF V = {} THEN 0 ELSE Seconds(CHOOSE v \in V : TRUE, units)

LEMMA UnitsAre ==
  /\ T3412Units = TauMultiples /\ T3324Units = ActiveMultiples
  /\ Len(T3412Units) = 6 /\ Len(T3324Units) = 3
BY DEF T3412Units, T3324Units, TauMultiples, ActiveMultiples

LEMMA UnitOf == ASSUME NEW v \in 0 .. 255
                PROVE  (v \div 32) % 8 = v \div 32 /\ v \div 32 \in 0 .. 7 /\ v % 256 = v /\ v \in Nat
OBVIOUS

AnyOf(S) == CHOOSE x \in S : TRUE

LEMMA TimerRead ==
  ASSUME NEW o, IsPsmOut(o), NEW field \in PsmOutFields, o[field] = 0, NEW V, IsTimer(V),
         NEW units, Len(units) = 3 \/ Len(units) = 6, NEW p, p = ParseTimer(TimerText(V), units, field, o)
  PROVE  Stored(p.out, o, field, Worth(V, units))
<1>1. CASE V = {}
  <2>1. ~ATStrtoi(<<>>, 2).ok
    BY StrtoiNothing
  <2>2. p.out = o
    BY <1>1, <2>1 DEF ParseTimer, TimerText
  <2>. QED BY <1>1, <2>2, StoredSame DEF Worth
<1>2. CASE V # {}
  <2>1. PICK v \in 0 .. 255 : V = {v}
    BY <1>2 DEF IsTimer
  <2>2. (CHOOSE x \in V : TRUE) = v
    BY <2>1
  <2>. DEFINE s == Bits(v, 8)
              u == v \div 32
              w == v % 32
  <2>3. TimerText(V) = s /\ Worth(V, units) = Seconds(v, units)
    BY <1>2, <2>2 DEF TimerText, Worth
  <2>4. (v \div 32) % 8 = v \div 32 /\ v \div 32 \in 0 .. 7 /\ v % 256 = v /\ v \in Nat
    BY UnitOf
  <2>5. Numeral(s, 2) /\ ValueOf(s, 2) = v
    BY <2>4, BitsText, BitsValue
  <2>. HIDE DEF s
  <2>6. ATStrtoi(s, 2) = [ok |-> TRUE, value |-> v]
    BY <2>5, StrtoiNumeral DEF Bases
  <2>7. TimerValue(v, units) = IF u = 7 THEN {-1} ELSE IF u < Len(units) THEN {w * units[u + 1]} ELSE {}
    BY <2>4 DEF TimerValue
  <2>8. Seconds(v, units) = IF u = 7 THEN -1 ELSE IF u < Len(units) THEN w * units[u + 1] ELSE 0
    BY DEF Seconds
  <2>. DEFINE T == TimerValue(v, units)
  <2>9. p.out = IF T = {} THEN o ELSE [o EXCEPT ![field] = CHOOSE x \in T : TRUE]
    <3>1. ~(v < 0)
      BY <2>4
    <3>. DEFINE n == ATStrtoi(s, 2)
    <3>2. p = ParseTimer(s, units, field, o)
      BY <2>3
    <3>. HIDE DEF T
    <3>3. p.out = IF ~n.ok \/ n.value < 0 \/ TimerValue(n.value, units) = {} THEN o
                  ELSE [o EXCEPT ![field] = AnyOf(TimerValue(n.value, units))]
      <4>. DEFINE W == TimerValue(n.value, units)
                  c == ~n.ok \/ n.value < 0 \/ W = {}
                  g == [o EXCEPT ![field] = CHOOSE x \in W : TRUE]
      <4>1. p = IF c THEN [st |-> "ERROR", out |-> o] ELSE [st |-> "SUCCESS", out |-> g]
        BY <3>2 DEF ParseTimer
      <4>2. g = [o EXCEPT ![field] = AnyOf(W)]
        BY DEF AnyOf
      <4>. HIDE DEF c, g
      <4>3. p.out = IF c THEN o ELSE g
        BY <4>1
      <4>. QED BY <4>2, <4>3 DEF c
    <3>4. n.ok /\ n.value = v
      BY <2>6
    <3>. HIDE DEF n
    <3>5. p.out = IF T = {} THEN o ELSE [o EXCEPT ![field] = AnyOf(T)]
      BY <3>1, <3>3, <3>4 DEF T
    <3>. QED BY <3>5 DEF AnyOf
  <2>. HIDE DEF u, w
  <2>10. (T = {} /\ Seconds(v, units) = 0) \/ T = {Seconds(v, units)}
    BY <2>7, <2>8
  <2>. HIDE DEF T
  <2>. DEFINE y == Seconds(v, units)
  <2>. HIDE DEF y
  <2>11. CASE T = {} /\ y = 0
    <3>1. p.out = o
      BY <2>9, <2>11
    <3>. QED BY <2>3, <2>11, <3>1, StoredSame DEF y
  <2>12. CASE T = {y}
    <3>1. T # {} /\ (CHOOSE x \in T : TRUE) = y
      BY <2>12
    <3>2. p.out = [o EXCEPT ![field] = y]
      BY <2>9, <3>1
    <3>3. Stored(p.out, o, field, y)
      BY <3>2, StoredWhen
    <3>. QED BY <2>3, <3>3 DEF y
  <2>. QED BY <2>10, <2>11, <2>12 DEF y
<1>. QED BY <1>1, <1>2

\* The mode, which is read as a binary number.
LEMMA OneBit ==
  ASSUME NEW n \in {0, 1}
  PROVE  Numeral(DecDigits[n], 2) /\ ValueOf(DecDigits[n], 2) = n
<1>. DEFINE s == DecDigits[n]
<1>1. n \in 0 .. 99 /\ n < 10 /\ n \in 0 .. 9 /\ n \in 0 .. 2 - 1
  OBVIOUS
<1>2. Numeral(s, 10) /\ Len(s) = 1
  BY <1>1, DecDigitsAre
<1>3. s[1] = Decimals[n + 1]
  <2>1. s = <<Decimals[n + 1]>>
    BY <1>1 DEF DecDigits
  <2>. HIDE DEF s
  <2>. QED BY <2>1
<1>. HIDE DEF s
<1>4. s \in Texts /\ s # <<>>
  BY <1>2 DEF Numeral
<1>5. Numeral(s, 2)
  <2>1. \A i \in 1 .. Len(s) : i = 1
    BY <1>2
  <2>2. \A i \in 1 .. Len(s) : \E k \in 0 .. 2 - 1 : s[i] = Decimals[k + 1]
    BY <1>1, <1>3, <2>1
  <2>. QED BY <1>4, <2>2 DEF Numeral
<1>6. ValueOf(s, 2) = n
  <2>1. ValueOf(s, 2) = CharToNibble(s[1])
    BY <1>2, <1>4, ValueNext
  <2>2. CharToNibble(Decimals[n + 1]) = n
    BY <1>1, DigitOf
  <2>. QED BY <1>3, <2>1, <2>2
<1>. QED BY <1>5, <1>6 DEF s

LEMMA ModeRead ==
  ASSUME NEW o, IsPsmOut(o), NEW n \in {0, 1}, NEW p, p = ParseCpsmsMode(<<Space>> \o DecDigits[n], o)
  PROVE  Stored(p.out, o, "mode", n)
<1>. DEFINE tok == <<Space>> \o DecDigits[n]
<1>1. ATStrtoi(tok, 2) = [ok |-> TRUE, value |-> n]
  BY OneBit, StrtoiNumeral DEF Bases
<1>. HIDE DEF tok
<1>2. n \in 0 .. 255
  OBVIOUS
<1>3. StoreNumber(tok, 2, 255) = [st |-> "SUCCESS", n |-> n]
  BY <1>1, <1>2 DEF StoreNumber
<1>4. p.out = [o EXCEPT !.mode = n]
  BY <1>3 DEF ParseCpsmsMode, tok
<1>. DEFINE field == "mode"
<1>5. field \in PsmOutFields /\ p.out = [o EXCEPT ![field] = n]
  BY <1>4 DEF PsmOutFields
<1>. HIDE DEF field
<1>6. Stored(p.out, o, field, n)
  BY <1>5, StoredWhen
<1>. QED BY <1>6 DEF field

\* The loop over the tokens is the one function that starts at the start and goes on
\* token by token.
LEMMA PsmTokensAre ==
  ASSUME NEW toks, Len(toks) \in 0 .. 5, NEW o, NEW f, f[0] = [st |-> "BAD_PARAMETER", out |-> o],
         \A i \in 1 .. Len(toks) : f[i] = ParseGetPsmToken(toks[i], i, f[i - 1].out)
  PROVE  ParsePsmTokens(toks, o).out = f[Len(toks)].out
<1>. DEFINE N == Len(toks)
            start == [st |-> "BAD_PARAMETER", out |-> o]
            up(g) == [i \in 0 .. Len(toks) |-> IF i = 0 THEN start ELSE ParseGetPsmToken(toks[i], i, g[i - 1].out)]
            h == CHOOSE g : g = up(g)
            e == [i \in 0 .. N |-> f[i]]
<1>1. ParsePsmTokens(toks, o).out = h[N].out
  <2>1. ParsePsmTokens(toks, o) = Parsed(h[N].st, h[N].out)
    BY DEF ParsePsmTokens
  <2>. HIDE DEF h, N
  <2>. QED BY <2>1 DEF Parsed
<1>2. N \in Nat
  OBVIOUS
<1>2a. N = Len(toks)
  OBVIOUS
<1>3. e = up(e)
  <2>1. ASSUME NEW i \in 0 .. N
        PROVE  e[i] = IF i = 0 THEN start ELSE ParseGetPsmToken(toks[i], i, e[i - 1].out)
    <3>1. i = 0 \/ i \in 1 .. N
      BY <1>2
    <3>2. CASE i = 0
      <4>1. e[i] = f[0]
        BY <3>2
      <4>. HIDE DEF e
      <4>. QED BY <3>2, <4>1
    <3>3. CASE i # 0
      <4>1. i \in 1 .. N /\ i - 1 \in 0 .. N
        BY <1>2, <3>1, <3>3
      <4>2. e[i] = f[i] /\ e[i - 1] = f[i - 1]
        BY <4>1
      <4>. HIDE DEF e
      <4>. QED BY <3>3, <4>1, <4>2
    <3>. QED BY <3>2, <3>3
  <2>. HIDE DEF start
  <2>. QED BY <2>1
<1>4. h = up(h)
  <2>. HIDE DEF up
  <2>. QED BY <1>3
<1>. HIDE DEF h, start
<1>5. h[0] = start /\ \A i \in 1 .. N : h[i] = ParseGetPsmToken(toks[i], i, h[i - 1].out)
  <2>1. \A i \in 0 .. N : h[i] = IF i = 0 THEN start ELSE ParseGetPsmToken(toks[i], i, h[i - 1].out)
    BY <1>4
  <2>2. 0 \in 0 .. N /\ \A i \in 1 .. N : i \in 0 .. N /\ i # 0
    BY <1>2
  <2>. HIDE DEF N
  <2>. QED BY <2>1, <2>2
<1>. DEFINE G == {i \in 0 .. N : h[i] = f[i]}
<1>6. 0 \in G
  BY <1>2, <1>5 DEF start
<1>7. ASSUME NEW i \in 1 .. N, i - 1 \in G PROVE i \in G
  <2>1. h[i - 1] = f[i - 1] /\ i \in 0 .. N
    BY <1>2, <1>7
  <2>2. h[i] = ParseGetPsmToken(toks[i], i, h[i - 1].out)
    BY <1>5
  <2>3. f[i] = ParseGetPsmToken(toks[i], i, f[i - 1].out)
    OBVIOUS
  <2>. QED BY <2>1, <2>2, <2>3
<1>8. h[N] = f[N]
  <2>. HIDE DEF G, N
  <2>1. \A i \in 0 .. N : i \in G
    BY <1>2, <1>6, <1>7, UpTo
  <2>2. N \in G
    BY <1>2, <2>1
  <2>. QED BY <2>2 DEF G
<1>. QED BY <1>1, <1>8

LEMMA PsmParsers ==
  ASSUME NEW tok, NEW o
  PROVE  /\ ParseGetPsmToken(tok, 1, o) = ParseCpsmsMode(tok, o)
         /\ ParseGetPsmToken(tok, 2, o) = ParseTimer(tok, T3412Units, "rau", o)
         /\ ParseGetPsmToken(tok, 3, o) = ParseTimer(tok, T3324Units, "ready", o)
         /\ ParseGetPsmToken(tok, 4, o) = ParseTimer(tok, T3412Units, "tau", o)
         /\ ParseGetPsmToken(tok, 5, o) = ParseTimer(tok, T3324Units, "active", o)
<1>1. /\ PsmTokenFields[2] = "rau" /\ PsmTokenFields[3] = "ready" /\ PsmTokenFields[4] = "tau"
      /\ PsmTokenFields[5] = "active"
  BY DEF PsmTokenFields
<1>2. ParseGetPsmToken(tok, 1, o) = ParseCpsmsMode(tok, o)
  BY DEF ParseGetPsmToken
<1>3. ParseGetPsmToken(tok, 2, o) = ParseT3412TimerValue(tok, PsmTokenFields[2], o)
  BY DEF ParseGetPsmToken
<1>4. ParseGetPsmToken(tok, 3, o) = ParseT3324TimerValue(tok, PsmTokenFields[3], o)
  BY DEF ParseGetPsmToken
<1>5. ParseGetPsmToken(tok, 4, o) = ParseT3412TimerValue(tok, PsmTokenFields[4], o)
  BY DEF ParseGetPsmToken
<1>6. ParseGetPsmToken(tok, 5, o) = ParseT3324TimerValue(tok, PsmTokenFields[5], o)
  BY DEF ParseGetPsmToken
<1>. QED BY <1>1, <1>2, <1>3, <1>4, <1>5, <1>6 DEF ParseT3412TimerValue, ParseT3324TimerValue

\* The caller's structure as it is prepared, and as it must be.
IsFreshPsm(o) == IsPsmOut(o) /\ o["rau"] = 0 /\ o["ready"] = 0 /\ o["tau"] = 0 /\ o["active"] = 0
PsmRead(o, psm) ==
  /\ o["mode"] = psm.mode
  /\ o["rau"] = Worth(psm.rau, TauMultiples) /\ o["tau"] = Worth(psm.tau, TauMultiples)
  /\ o["ready"] = Worth(psm.ready, ActiveMultiples) /\ o["active"] = Worth(psm.active, ActiveMultiples)
IsPsmSetting(p) ==
  p.mode \in {0, 1} /\ IsTimer(p.rau) /\ IsTimer(p.ready) /\ IsTimer(p.tau) /\ IsTimer(p.active)

LEMMA TimerOf ==
  ASSUME NEW o, IsPsmOut(o), NEW field \in PsmOutFields, o[field] = 0, NEW V, IsTimer(V),
         NEW units \in {T3412Units, T3324Units}
  PROVE  Stored(ParseTimer(TimerText(V), units, field, o).out, o, field, Worth(V, units))
<1>1. Len(units) = 3 \/ Len(units) = 6
  BY UnitsAre
<1>. QED BY <1>1, TimerRead

\* The parameters of an answer, and the tokens they are.
ArePsmTexts(psm, a, b, c, d, e) ==
  /\ a = <<Space>> \o DecDigits[psm.mode]
  /\ b = TimerText(psm.rau) /\ c = TimerText(psm.ready)
  /\ d = TimerText(psm.tau) /\ e = TimerText(psm.active)
PsmTokens(a, b, c, d, e) == IF e = <<>> THEN <<a, b, c, d>> ELSE <<a, b, c, d, e>>

LEMMA PsmParsed ==
  ASSUME NEW psm, IsPsmSetting(psm), NEW o, IsFreshPsm(o),
         NEW a, NEW b, NEW c, NEW d, NEW e, ArePsmTexts(psm, a, b, c, d, e),
         NEW toks, toks = PsmTokens(a, b, c, d, e)
  PROVE  PsmRead(ParsePsmTokens(toks, o).out, psm)
<1>. DEFINE p0 == [st |-> "BAD_PARAMETER", out |-> o]
            p1 == ParseGetPsmToken(a, 1, p0.out)
            p2 == ParseGetPsmToken(b, 2, p1.out)
            p3 == ParseGetPsmToken(c, 3, p2.out)
            p4 == ParseGetPsmToken(d, 4, p3.out)
            p5 == ParseGetPsmToken(e, 5, p4.out)
            f == Row(p0, p1, p2, p3, p4, p5)
            o1 == p1.out
            o2 == p2.out
            o3 == p3.out
            o4 == p4.out
            o5 == p5.out
<1>0. /\ psm.mode \in {0, 1} /\ IsTimer(psm.rau) /\ IsTimer(psm.ready) /\ IsTimer(psm.tau)
      /\ IsTimer(psm.active)
  BY DEF IsPsmSetting
<1>0a. "mode" \in PsmOutFields /\ "rau" \in PsmOutFields /\ "ready" \in PsmOutFields
       /\ "tau" \in PsmOutFields /\ "active" \in PsmOutFields
  BY DEF PsmOutFields
<1>0b. p0.out = o
  OBVIOUS
<1>0c. T3412Units \in {T3412Units, T3324Units} /\ T3324Units \in {T3412Units, T3324Units}
  OBVIOUS
<1>0d. /\ b = TimerText(psm.rau) /\ c = TimerText(psm.ready)
       /\ d = TimerText(psm.tau) /\ e = TimerText(psm.active)
  BY DEF ArePsmTexts
<1>1. Stored(o1, o, "mode", psm.mode)
  <2>1. p1 = ParseCpsmsMode(<<Space>> \o DecDigits[psm.mode], o)
    <3>1. p1 = ParseCpsmsMode(a, o)
      BY <1>0b, PsmParsers
    <3>. HIDE DEF p1
    <3>. QED BY <3>1 DEF ArePsmTexts
  <2>2. IsPsmOut(o)
    BY DEF IsFreshPsm
  <2>. HIDE DEF p1
  <2>. QED BY <1>0, <2>1, <2>2, ModeRead
<1>1a. IsPsmOut(o1) /\ o1["rau"] = 0 /\ o1["ready"] = 0 /\ o1["tau"] = 0 /\ o1["active"] = 0
       /\ o1["mode"] = psm.mode
  <2>. HIDE DEF o1
  <2>. QED BY <1>1 DEF IsFreshPsm, Stored, PsmOutFields
<1>. HIDE DEF o1
<1>2. Stored(o2, o1, "rau", Worth(psm.rau, T3412Units))
  <2>1. p2 = ParseTimer(TimerText(psm.rau), T3412Units, "rau", o1)
    BY <1>0d, PsmParsers DEF o1
  <2>2. Stored(ParseTimer(TimerText(psm.rau), T3412Units, "rau", o1).out, o1, "rau", Worth(psm.rau, T3412Units))
    <3>. DEFINE y == "rau"
    <3>. HIDE DEF y, p2
    <3>1. Stored(ParseTimer(TimerText(psm.rau), T3412Units, y, o1).out, o1, y, Worth(psm.rau, T3412Units))
      BY <1>0, <1>0a, <1>0c, <1>1a, TimerOf DEF y
    <3>. QED BY <3>1 DEF y
  <2>. HIDE DEF p2
  <2>. QED BY <2>1, <2>2
<1>. DEFINE x2 == Worth(psm.rau, T3412Units)
<1>2a. /\ IsPsmOut(o2) /\ o2["ready"] = 0 /\ o2["tau"] = 0 /\ o2["active"] = 0
       /\ o2["mode"] = psm.mode /\ o2["rau"] = x2
  <2>. HIDE DEF o2, x2
  <2>. QED BY <1>1a, <1>2 DEF Stored, PsmOutFields, x2
<1>. HIDE DEF o2, x2
<1>. DEFINE x3 == Worth(psm.ready, T3324Units)
<1>3. Stored(o3, o2, "ready", x3)
  <2>1. p3 = ParseTimer(TimerText(psm.ready), T3324Units, "ready", o2)
    BY <1>0d, PsmParsers DEF o2
  <2>2. Stored(ParseTimer(TimerText(psm.ready), T3324Units, "ready", o2).out, o2, "ready", x3)
    <3>. DEFINE y == "ready"
    <3>. HIDE DEF y, p3
    <3>1. Stored(ParseTimer(TimerText(psm.ready), T3324Units, y, o2).out, o2, y, x3)
      BY <1>0, <1>0a, <1>0c, <1>2a, TimerOf DEF y
    <3>. QED BY <3>1 DEF y
  <2>. HIDE DEF p3, x3
  <2>. QED BY <2>1, <2>2
<1>3a. /\ IsPsmOut(o3) /\ o3["tau"] = 0 /\ o3["active"] = 0
       /\ o3["mode"] = psm.mode /\ o3["rau"] = x2 /\ o3["ready"] = x3
  <2>. HIDE DEF o3, x3
  <2>. QED BY <1>2a, <1>3 DEF Stored, PsmOutFields
<1>. HIDE DEF o3, x3
<1>. DEFINE x4 == Worth(psm.tau, T3412Units)
<1>4. Stored(o4, o3, "tau", x4)
  <2>1. p4 = ParseTimer(TimerText(psm.tau), T3412Units, "tau", o3)
    BY <1>0d, PsmParsers DEF o3
  <2>2. Stored(ParseTimer(TimerText(psm.tau), T3412Units, "tau", o3).out, o3, "tau", x4)
    <3>. DEFINE y == "tau"
    <3>. HIDE DEF y, p4
    <3>1. Stored(ParseTimer(TimerText(psm.tau), T3412Units, y, o3).out, o3, y, x4)
      BY <1>0, <1>0a, <1>0c, <1>3a, TimerOf DEF y
    <3>. QED BY <3>1 DEF y
  <2>. HIDE DEF p4, x4
  <2>. QED BY <2>1, <2>2
<1>4a. /\ IsPsmOut(o4) /\ o4["active"] = 0
       /\ o4["mode"] = psm.mode /\ o4["rau"] = x2 /\ o4["ready"] = x3 /\ o4["tau"] = x4
  <2>. HIDE DEF o4, x4
  <2>. QED BY <1>3a, <1>4 DEF Stored, PsmOutFields
<1>. HIDE DEF o4, x4
<1>. DEFINE x5 == Worth(psm.active, T3324Units)
<1>5. Stored(o5, o4, "active", x5)
  <2>1. p5 = ParseTimer(TimerText(psm.active), T3324Units, "active", o4)
    BY <1>0d, PsmParsers DEF o4
  <2>2. Stored(ParseTimer(TimerText(psm.active), T3324Units, "active", o4).out, o4, "active", x5)
    <3>. DEFINE y == "active"
    <3>. HIDE DEF y, p5
    <3>1. Stored(ParseTimer(TimerText(psm.active), T3324Units, y, o4).out, o4, y, x5)
      BY <1>0, <1>0a, <1>0c, <1>4a, TimerOf DEF y
    <3>. QED BY <3>1 DEF y
  <2>. HIDE DEF p5, x5
  <2>. QED BY <2>1, <2>2
<1>5a. /\ o5["mode"] = psm.mode /\ o5["rau"] = x2 /\ o5["ready"] = x3 /\ o5["tau"] = x4
       /\ o5["active"] = x5
  <2>. HIDE DEF o5, x5
  <2>. QED BY <1>4a, <1>5 DEF Stored, PsmOutFields
<1>. HIDE DEF o5, x5
<1>6. e = <<>> => x5 = 0
  <2>1. ASSUME e = <<>> PROVE psm.active = {}
    <3>1. \A v \in 0 .. 255 : Bits(v, 8) # <<>>
      <4>1. \A v \in 0 .. 255 : v \in Nat
        OBVIOUS
      <4>. QED BY <4>1, BitsText DEF Numeral
    <3>2. ASSUME NEW v \in 0 .. 255, psm.active = {v} PROVE FALSE
      <4>1. (CHOOSE x \in psm.active : TRUE) = v
        BY <3>2
      <4>2. TimerText(psm.active) = Bits(v, 8)
        BY <3>2, <4>1 DEF TimerText
      <4>. QED BY <1>0d, <2>1, <3>1, <4>2
    <3>. QED BY <1>0, <3>2, Zenon DEF IsTimer
  <2>. QED BY <2>1 DEF x5, Worth
<1>7. f[0] = p0 /\ f[1] = p1 /\ f[2] = p2 /\ f[3] = p3 /\ f[4] = p4 /\ f[5] = p5
  <2>. HIDE DEF p0, p1, p2, p3, p4, p5
  <2>. QED BY RowIs
<1>. HIDE DEF f
<1>8. /\ f[1] = ParseGetPsmToken(a, 1, f[0].out) /\ f[2] = ParseGetPsmToken(b, 2, f[1].out)
      /\ f[3] = ParseGetPsmToken(c, 3, f[2].out) /\ f[4] = ParseGetPsmToken(d, 4, f[3].out)
      /\ f[5] = ParseGetPsmToken(e, 5, f[4].out)
  BY <1>7
<1>9. f[0] = [st |-> "BAD_PARAMETER", out |-> o] /\ f[4].out = o4 /\ f[5].out = o5
  BY <1>7 DEF o4, o5
<1>. HIDE DEF p0, p1, p2, p3, p4, p5
<1>10. 1 - 1 = 0 /\ 2 - 1 = 1 /\ 3 - 1 = 2 /\ 4 - 1 = 3 /\ 5 - 1 = 4
  OBVIOUS
<1>11. CASE e = <<>>
  <2>1. Len(toks) = 4 /\ toks[1] = a /\ toks[2] = b /\ toks[3] = c /\ toks[4] = d
    BY <1>11 DEF PsmTokens
  <2>2. \A i \in 1 .. 4 : i = 1 \/ i = 2 \/ i = 3 \/ i = 4
    OBVIOUS
  <2>3. \A i \in 1 .. 4 : f[i] = ParseGetPsmToken(toks[i], i, f[i - 1].out)
    BY <1>8, <1>10, <2>1, <2>2
  <2>4. ParsePsmTokens(toks, o).out = f[4].out
    <3>1. Len(toks) \in 0 .. 5 /\ \A i \in 1 .. Len(toks) : f[i] = ParseGetPsmToken(toks[i], i, f[i - 1].out)
      BY <2>1, <2>3
    <3>2. ParsePsmTokens(toks, o).out = f[Len(toks)].out
      BY <1>9, <3>1, PsmTokensAre
    <3>. QED BY <2>1, <3>2
  <2>. QED BY <1>4a, <1>6, <1>9, <1>11, <2>4, UnitsAre DEF PsmRead, x2, x3, x4, x5
<1>12. CASE e # <<>>
  <2>1. Len(toks) = 5 /\ toks[1] = a /\ toks[2] = b /\ toks[3] = c /\ toks[4] = d /\ toks[5] = e
    BY <1>12 DEF PsmTokens
  <2>2. \A i \in 1 .. 5 : i = 1 \/ i = 2 \/ i = 3 \/ i = 4 \/ i = 5
    OBVIOUS
  <2>3. \A i \in 1 .. 5 : f[i] = ParseGetPsmToken(toks[i], i, f[i - 1].out)
    BY <1>8, <1>10, <2>1, <2>2
  <2>4. ParsePsmTokens(toks, o).out = f[5].out
    <3>1. Len(toks) \in 0 .. 5 /\ \A i \in 1 .. Len(toks) : f[i] = ParseGetPsmToken(toks[i], i, f[i - 1].out)
      BY <2>1, <2>3
    <3>2. ParsePsmTokens(toks, o).out = f[Len(toks)].out
      BY <1>9, <3>1, PsmTokensAre
    <3>. QED BY <2>1, <3>2
  <2>. QED BY <1>5a, <1>9, <2>4, UnitsAre DEF PsmRead, x2, x3, x4, x5
<1>. QED BY <1>11, <1>12

\* A line with five parameters.
Five(a, b, c, d, e) == Comma(a, Comma(b, Comma(c, Comma(d, e))))

LEMMA FiveTokens ==
  ASSUME NEW a, Param(a), NEW b, Param(b), NEW c, Param(c), NEW d, Param(d), NEW e, Param(e),
         Len(a) >= 1, NEW s, s = Five(a, b, c, d, e)
  PROVE  /\ s \in Texts
         /\ Len(s) <= MaxString => AllTokens(s) = PsmTokens(a, b, c, d, e)
<1>. DEFINE s1 == Comma(d, e)
            s2 == Comma(c, s1)
            s3 == Comma(b, s2)
            s4 == Comma(a, s3)
<1>0. a \in Texts /\ b \in Texts /\ c \in Texts /\ d \in Texts /\ e \in Texts
  BY DEF Param
<1>1. s1 \in Texts /\ Len(s1) = Len(d) + 1 + Len(e) /\ Len(d) \in Nat /\ Len(e) \in Nat
  BY <1>0, CommaIs
<1>. HIDE DEF s1
<1>2. s2 \in Texts /\ Len(s2) = Len(c) + 1 + Len(s1) /\ Len(c) \in Nat
  BY <1>0, <1>1, CommaIs
<1>. HIDE DEF s2
<1>3. s3 \in Texts /\ Len(s3) = Len(b) + 1 + Len(s2) /\ Len(b) \in Nat
  BY <1>0, <1>2, CommaIs
<1>. HIDE DEF s3
<1>4. s4 \in Texts /\ Len(s4) = Len(a) + 1 + Len(s3) /\ Len(a) \in Nat
  BY <1>0, <1>3, CommaIs
<1>. HIDE DEF s4
<1>5. s = s4
  BY DEF Five, s4, s3, s2, s1
<1>6. Len(s4) = Len(a) + Len(b) + Len(c) + Len(d) + Len(e) + 4 /\ Len(s4) \in Nat /\ Len(s4) >= 5
  BY <1>1, <1>2, <1>3, <1>4
<1>7. ASSUME Len(s) <= MaxString PROVE AllTokens(s) = PsmTokens(a, b, c, d, e)
  <2>. DEFINE n == Len(s)
  <2>1. n \in Nat /\ n >= 5 /\ Len(a) + Len(b) + Len(c) + Len(d) + Len(e) + 4 <= MaxString
    BY <1>5, <1>6, <1>7
  <2>2. AllTokens(s) = Tokens(s, n)
    BY DEF AllTokens
  <2>. HIDE DEF n
  <2>3. Tokens(Comma(a, Comma(b, Comma(c, Comma(d, e)))), n) =
          IF e = <<>> THEN <<a, b, c, d>> ELSE <<a, b, c, d, e>>
    BY <2>1, TokensOfFive
  <2>4. s = Comma(a, Comma(b, Comma(c, Comma(d, e))))
    BY DEF Five
  <2>. QED BY <2>2, <2>3, <2>4 DEF PsmTokens
<1>. QED BY <1>4, <1>5, <1>7

\* A timer in the answer, with its quotes.
ShownTimer(V) == IF V = {} THEN <<>> ELSE Quoted(Bits(CHOOSE v \in V : TRUE, 8))

LEMMA TimerShown ==
  ASSUME NEW V, IsTimer(V)
  PROVE  ShownTimer(V) \in Texts /\ Without(ShownTimer(V), Quote) = TimerText(V) /\ Param(TimerText(V))
<1>1. CASE V = {}
  <2>1. ShownTimer(V) = <<>> /\ TimerText(V) = <<>>
    BY <1>1 DEF ShownTimer, TimerText
  <2>2. Without(<<>>, Quote) = <<>>
    BY Commas, WithoutNothing
  <2>. QED BY <2>1, <2>2, ParamNone
<1>2. CASE V # {}
  <2>1. PICK v \in 0 .. 255 : V = {v}
    BY <1>2 DEF IsTimer
  <2>2. (CHOOSE x \in V : TRUE) = v /\ v \in Nat
    BY <2>1
  <2>. DEFINE s == Bits(v, 8)
  <2>3. ShownTimer(V) = Quoted(s) /\ TimerText(V) = s
    BY <1>2, <2>2 DEF ShownTimer, TimerText
  <2>4. Numeral(s, 2)
    BY <2>2, BitsText
  <2>. HIDE DEF s
  <2>5. s \in Texts /\ Lacks(s, Quote) /\ Lacks(s, ",")
    BY <2>4, NumeralIs DEF Numeral, Bases, Quote
  <2>6. Quoted(s) \in Texts /\ Without(Quoted(s), Quote) = Without(s, Quote)
    BY <2>5, QuotedIs
  <2>7. Without(s, Quote) = s
    BY <2>5, Commas, WithoutSame
  <2>. QED BY <2>3, <2>5, <2>6, <2>7 DEF Param
<1>. QED BY <1>1, <1>2

LEMMA PsmTextShown ==
  ASSUME NEW psm
  PROVE  PsmText(psm) = Five(DecDigits[psm.mode], ShownTimer(psm.rau), ShownTimer(psm.ready),
                             ShownTimer(psm.tau), ShownTimer(psm.active))
BY DEF PsmText, Five, ShownTimer

LEMMA FiveWithout ==
  ASSUME NEW a \in Texts, NEW b \in Texts, NEW c \in Texts, NEW d \in Texts, NEW e \in Texts,
         NEW q, NoComma(q), NEW v, Without(a, q) = v, NEW w, Without(b, q) = w,
         NEW x, Without(c, q) = x, NEW y, Without(d, q) = y, NEW z, Without(e, q) = z
  PROVE  Five(a, b, c, d, e) \in Texts /\ Without(Five(a, b, c, d, e), q) = Five(v, w, x, y, z)
<1>. DEFINE s1 == Comma(d, e)
            s2 == Comma(c, s1)
            s3 == Comma(b, s2)
            s4 == Comma(a, s3)
            t1 == Comma(y, z)
            t2 == Comma(x, t1)
            t3 == Comma(w, t2)
            t4 == Comma(v, t3)
<1>1. s1 \in Texts /\ Without(s1, q) = t1
  BY CommaOut
<1>. HIDE DEF s1, t1
<1>2. s2 \in Texts /\ Without(s2, q) = t2
  BY <1>1, CommaOut
<1>. HIDE DEF s2, t2
<1>3. s3 \in Texts /\ Without(s3, q) = t3
  BY <1>2, CommaOut
<1>. HIDE DEF s3, t3
<1>4. s4 \in Texts /\ Without(s4, q) = t4
  BY <1>3, CommaOut
<1>. HIDE DEF s4, t4
<1>5. Five(a, b, c, d, e) = s4 /\ Five(v, w, x, y, z) = t4
  BY DEF Five, s4, s3, s2, s1, t4, t3, t2, t1
<1>. QED BY <1>4, <1>5

\* A space before the first parameter is part of it.
LEMMA SpaceBefore ==
  ASSUME NEW a \in Texts, NEW b \in Texts
  PROVE  Cat(<<Space>>, Comma(a, b)) = Comma(Cat(<<Space>>, a), b)
<1>. DEFINE q == <<",">>
            g == <<Space>>
            u == Cat(q, b)
<1>1. g \in Texts /\ q \in Texts
  BY Commas, Single
<1>. HIDE DEF q, g
<1>2. u \in Texts
  BY <1>1, CatIs
<1>. HIDE DEF u
<1>3. Cat(Cat(g, a), u) = Cat(g, Cat(a, u))
  BY <1>1, <1>2, Grouped DEF Cat
<1>4. Comma(a, b) = Cat(a, u)
  <2>1. a \in Texts /\ b \in Texts /\ q \in Texts
    BY <1>1
  <2>2. (a \o q) \o b = a \o (q \o b)
    BY <2>1, Grouped
  <2>3. Comma(a, b) = a \o q \o b
    BY DEF Comma, q
  <2>. QED BY <2>2, <2>3 DEF Cat, u
<1>5. Comma(Cat(g, a), b) = Cat(Cat(g, a), u)
  <2>. DEFINE k == Cat(g, a)
  <2>1. k \in Texts
    BY <1>1, CatIs
  <2>. HIDE DEF k
  <2>2. (k \o q) \o b = k \o (q \o b)
    BY <1>1, <2>1, Grouped
  <2>3. Comma(k, b) = k \o q \o b
    BY DEF Comma, q
  <2>. QED BY <2>2, <2>3 DEF Cat, u, k
<1>. QED BY <1>3, <1>4, <1>5 DEF g

LEMMA FiveSpaced ==
  ASSUME NEW a \in Texts, NEW b, Param(b), NEW c, Param(c), NEW d, Param(d), NEW e, Param(e)
  PROVE  Cat(<<Space>>, Five(a, b, c, d, e)) = Five(Cat(<<Space>>, a), b, c, d, e)
<1>. DEFINE s1 == Comma(d, e)
            s2 == Comma(c, s1)
            s3 == Comma(b, s2)
<1>0. a \in Texts /\ b \in Texts /\ c \in Texts /\ d \in Texts /\ e \in Texts
  BY DEF Param
<1>1. s1 \in Texts
  BY <1>0, CommaIs
<1>. HIDE DEF s1
<1>2. s2 \in Texts
  BY <1>0, <1>1, CommaIs
<1>. HIDE DEF s2
<1>3. s3 \in Texts
  BY <1>0, <1>2, CommaIs
<1>. HIDE DEF s3
<1>4. Cat(<<Space>>, Comma(a, s3)) = Comma(Cat(<<Space>>, a), s3)
  BY <1>0, <1>3, SpaceBefore
<1>. QED BY <1>4 DEF Five, s3, s2, s1

LEMMA SpacedNumber ==
  ASSUME NEW n \in 0 .. 99
  PROVE  LET a == Cat(<<Space>>, DecDigits[n]) IN Param(a) /\ Len(a) >= 1
<1>. DEFINE d == DecDigits[n]
            g == <<Space>>
            z == ","
<1>1. Param(d)
  BY NumberParam
<1>. HIDE DEF d
<1>2. g \in Texts /\ Len(g) = 1 /\ g[1] = Space
  BY Commas, Single
<1>3. Lacks(g, z)
  <2>. HIDE DEF g
  <2>1. Space # z
    BY DEF Space
  <2>. HIDE DEF z
  <2>2. \A i \in 1 .. 1 : i = 1
    OBVIOUS
  <2>3. \A i \in 1 .. Len(g) : g[i] = Space
    BY <1>2, <2>2
  <2>. QED BY <2>1, <2>3 DEF Lacks
<1>4. d \in Texts /\ Lacks(d, z) /\ z \in Symbols
  BY <1>1, Commas DEF Param
<1>. HIDE DEF g
<1>5. g \o d \in Texts /\ Len(g \o d) = Len(g) + Len(d) /\ Len(d) \in Nat
  BY <1>2, <1>4, Joined
<1>. HIDE DEF z
<1>6. Lacks(g \o d, z)
  BY <1>2, <1>3, <1>4, LacksJoined
<1>7. Param(g \o d) /\ Len(g \o d) >= 1
  <2>. DEFINE y == g \o d
  <2>1. y \in Texts /\ Lacks(y, z) /\ Len(y) = 1 + Len(d) /\ Len(d) \in Nat
    BY <1>2, <1>5, <1>6
  <2>. HIDE DEF y
  <2>2. Param(y)
    BY <2>1 DEF Param, z
  <2>3. Len(y) >= 1
    <3>. HIDE DEF d
    <3>. QED BY <2>1
  <2>. QED BY <2>2, <2>3 DEF y
<1>. QED BY <1>7 DEF Cat, g, d

LEMMA PsmLine ==
  ASSUME NEW psm, IsPsmSetting(psm), NEW o, IsFreshPsm(o),
         NEW l, l = Plus("+CPSMS") \o PsmText(psm),
         NEW p, p = RecvFuncGetPsmSettings(l, o), p.pkt = "OK"
  PROVE  PsmRead(p.out, psm)
<1>. DEFINE k == DecDigits[psm.mode]
            b == ShownTimer(psm.rau)
            c == ShownTimer(psm.ready)
            d == ShownTimer(psm.tau)
            e == ShownTimer(psm.active)
            bb == TimerText(psm.rau)
            cc == TimerText(psm.ready)
            dd == TimerText(psm.tau)
            ee == TimerText(psm.active)
            s == Five(k, b, c, d, e)
            q == Five(k, bb, cc, dd, ee)
            a == Cat(<<Space>>, k)
            u == Five(a, bb, cc, dd, ee)
<1>0. /\ psm.mode \in {0, 1} /\ IsTimer(psm.rau) /\ IsTimer(psm.ready) /\ IsTimer(psm.tau)
      /\ IsTimer(psm.active)
  BY DEF IsPsmSetting
<1>0a. psm.mode \in 0 .. 99 /\ psm.mode \in 0 .. 9
  BY <1>0
<1>1. k \in Texts /\ Without(k, Quote) = k
  <2>1. k \in Texts /\ Lacks(k, Quote)
    BY <1>0a, OneDigit
  <2>. HIDE DEF k
  <2>. QED BY <2>1, Commas, WithoutSame
<1>1a. Param(a) /\ Len(a) >= 1
  BY <1>0a, SpacedNumber
<1>2. b \in Texts /\ Without(b, Quote) = bb /\ Param(bb)
  BY <1>0, TimerShown
<1>3. c \in Texts /\ Without(c, Quote) = cc /\ Param(cc)
  BY <1>0, TimerShown
<1>4. d \in Texts /\ Without(d, Quote) = dd /\ Param(dd)
  BY <1>0, TimerShown
<1>5. e \in Texts /\ Without(e, Quote) = ee /\ Param(ee)
  BY <1>0, TimerShown
<1>6. PsmText(psm) = s
  BY PsmTextShown
<1>7. ArePsmTexts(psm, a, bb, cc, dd, ee)
  BY DEF ArePsmTexts, Cat
<1>. HIDE DEF a, bb, cc, dd, ee, b, c, d, e, k
<1>8. s \in Texts /\ Without(s, Quote) = q
  <2>1. NoComma(Quote)
    BY Commas DEF NoComma, Quote
  <2>. QED BY <1>1, <1>2, <1>3, <1>4, <1>5, <2>1, FiveWithout
<1>9. Cat(<<Space>>, q) = u
  BY <1>1, <1>2, <1>3, <1>4, <1>5, FiveSpaced DEF a
<1>10. /\ u \in Texts
       /\ Len(u) <= MaxString => AllTokens(u) = PsmTokens(a, bb, cc, dd, ee)
  BY <1>1a, <1>2, <1>3, <1>4, <1>5, FiveTokens
<1>. HIDE DEF s, q, u
<1>11. l = Plus("+CPSMS") \o s
  BY <1>6
<1>. DEFINE r == Then(ATRemovePrefix(Plus("+CPSMS") \o s), ATRemoveAllDoubleQuote)
<1>12. p = IF r.st # "SUCCESS" THEN Parsed(r.st, o) ELSE ParsePsmTokens(AllTokens(r.s), o)
  BY <1>11 DEF RecvFuncGetPsmSettings
<1>13. "+CPSMS" \in Names
  BY DEF Names
<1>14. CASE Len(s) + 3 <= MaxString
  <2>1. q \in Texts /\ Len(q) <= Len(s) /\ r = Ok(<<Space>> \o q)
    BY <1>8, <1>13, <1>14, QuotesOff
  <2>2. r = Ok(u)
    BY <1>9, <2>1 DEF Cat
  <2>. HIDE DEF r
  <2>3. p = ParsePsmTokens(AllTokens(u), o)
    BY <1>12, <2>2, OkIs
  <2>4. Len(u) <= MaxString
    <3>1. <<Space>> \in Texts /\ Len(<<Space>>) = 1
      BY Commas, Single
    <3>2. Len(<<Space>> \o q) = Len(<<Space>>) + Len(q) /\ Len(q) \in Nat
      BY <2>1, <3>1, Joined
    <3>3. Len(u) = 1 + Len(q)
      BY <1>9, <3>1, <3>2 DEF Cat
    <3>4. Len(s) \in Nat
      BY <1>8 DEF Texts
    <3>. QED BY <1>14, <2>1, <3>2, <3>3, <3>4, TextAssumption
  <2>5. p = ParsePsmTokens(PsmTokens(a, bb, cc, dd, ee), o)
    BY <1>10, <2>3, <2>4
  <2>. DEFINE toks == PsmTokens(a, bb, cc, dd, ee)
  <2>. HIDE DEF toks
  <2>6. PsmRead(ParsePsmTokens(toks, o).out, psm)
    BY <1>7, PsmParsed DEF toks
  <2>. QED BY <2>5, <2>6 DEF toks
<1>15. CASE ~(Len(s) + 3 <= MaxString)
  <2>. DEFINE x == Plus("+CPSMS") \o s
  <2>1. r = Fail("BAD_PARAMETER", x)
    BY <1>8, <1>13, <1>15, LineTooLong
  <2>. HIDE DEF x
  <2>2. r.st = "BAD_PARAMETER"
    BY <2>1 DEF Fail
  <2>. HIDE DEF r
  <2>3. p = Parsed("BAD_PARAMETER", o)
    BY <1>12, <2>2
  <2>4. p.pkt = "BAD_PARAM"
    BY <2>3 DEF Parsed, TranslateAtCoreStatus
  <2>. QED BY <2>4
<1>. QED BY <1>14, <1>15

\* A call with one command, which asks for something: the answer, read into the caller's
\* structure as it was prepared, is what the caller gets.
LEMMA GetterCall ==
  ASSUME AnswersInv, NEW t \in Tasks, NEW op, op # "GetServiceStatus", op # "ATCommandRaw",
         Succeeded(t, {op}), NEW c, NEW f, Query(req[t]) = Sends(<<c>>, f), NEW w, w = c[1], w \notin SetCommands
  PROVE  \E r : AskedFor(w, told[t][w], f, r) /\ r.pkt = "OK" /\ out[t] = r.out
<1>. DEFINE q == Query(req[t])
            cs == q.commands
<1>1. req[t].op = op /\ Done(t)
  BY CallOf
<1>2. cs = <<c>> /\ q.fresh = f
  BY DEF Sends
<1>3a. PICK n \in 0 .. Len(cs) : \E h, r :
        Went(t, n, h, r) /\ (op # "GetServiceStatus" => n = Len(cs) /\ r[n].pkt = "OK")
  BY <1>1 DEF Done
<1>3. PICK h, r :
        Went(t, n, h, r) /\ (op # "GetServiceStatus" => n = Len(cs) /\ r[n].pkt = "OK")
  BY <1>3a
<1>4. Chain(q, op, n, h, r, told[t]) /\ out[t] = r[n].out
  BY <1>1, <1>3 DEF Went
<1>5. n = 1 /\ r[n].pkt = "OK" /\ cs[1] = c /\ q.commands = cs
  <2>. HIDE DEF q
  <2>1. q.commands = cs
    OBVIOUS
  <2>. HIDE DEF cs
  <2>2. Len(cs) = 1 /\ cs[1] = c
    BY <1>2
  <2>. QED BY <1>3, <2>1, <2>2
<1>. HIDE DEF q, cs
<1>6. 1 \in 1 .. n /\ 1 - 1 = 0
  BY <1>5
<1>7. w = q.commands[1][1]
  BY <1>5
<1>8. AskedFor(w, told[t][w], r[1 - 1].out, r[1])
  BY <1>4, <1>6, <1>7, Asking
<1>9. r[0].out = f
  BY <1>2, <1>4 DEF Chain
<1>10. AskedFor(w, told[t][w], f, r[1])
  BY <1>6, <1>8, <1>9
<1>. QED BY <1>4, <1>5, <1>10

LEMMA PsmFresh ==
  LET o == [mode |-> 255, rau |-> 0, ready |-> 0, tau |-> 0, active |-> 0] IN IsFreshPsm(o)
BY DEF IsFreshPsm, IsPsmOut, PsmOutFields

LEMMA PsmAsked ==
  ASSUME NEW m, NEW o, IsFreshPsm(o), NEW r, AskedFor("AT+CPSMS?", m, o, r), r.pkt = "OK"
  PROVE  PsmRead(r.out, m.psm)
<1>. DEFINE l == Plus("+CPSMS") \o PsmText(m.psm)
<1>1. PICK lines \in Answers(m, "AT+CPSMS?") \cup { <<>> } : r = Receive("AT+CPSMS?", lines, o)
  BY DEF AskedFor
<1>2. Answers(m, "AT+CPSMS?") = { <<l>> } /\ IsModem(m)
  BY DEF Answers, AskedFor, Fine
<1>. HIDE DEF l
<1>3. lines # <<>>
  <2>1. ASSUME lines = <<>> PROVE r.pkt = "BAD_PARAM"
    BY <1>1, <2>1 DEF Receive
  <2>. QED BY <2>1
<1>4. lines = <<l>>
  BY <1>1, <1>2, <1>3
<1>5. r = RecvFuncGetPsmSettings(l, o)
  <2>1. Head(lines) = l
    BY <1>4
  <2>2. r = RecvFuncGetPsmSettings(Head(lines), o)
    BY <1>1, <1>3 DEF Receive
  <2>. QED BY <2>1, <2>2
<1>6. IsPsmSetting(m.psm)
  <2>1. IsPsm(m.psm)
    BY <1>2 DEF IsModem
  <2>. QED BY <2>1, Zenon DEF IsPsm, IsPsmSetting, IsTimer, TimerFields
<1>. DEFINE psm == m.psm
<1>7. l = Plus("+CPSMS") \o PsmText(psm)
  BY DEF l
<1>. HIDE DEF psm
<1>8. PsmRead(r.out, psm)
  <2>1. IsPsmSetting(psm)
    BY <1>6 DEF psm
  <2>. QED BY <1>5, <1>7, <2>1, PsmLine
<1>. QED BY <1>8 DEF psm

LEMMA PsmFollows ==
  ASSUME AnswersInv
  PROVE  PsmRight
<1>. SUFFICES ASSUME NEW t \in Tasks, Succeeded(t, {"GetPsmSettings"})
              PROVE  PsmRead(out[t], told[t]["AT+CPSMS?"].psm)
  <2>1. ASSUME NEW t \in Tasks, PsmRead(out[t], told[t]["AT+CPSMS?"].psm)
        PROVE  LET psm == told[t]["AT+CPSMS?"].psm IN
               /\ out[t].mode = psm.mode
               /\ TimerRight(t, "rau", TauMultiples) /\ TimerRight(t, "tau", TauMultiples)
               /\ TimerRight(t, "active", ActiveMultiples)
               /\ psm.ready = {} => out[t].ready = 0
    BY <2>1 DEF PsmRead, Worth, TimerRight
  <2>. QED BY <2>1 DEF PsmRight
<1>. DEFINE o == [mode |-> 255, rau |-> 0, ready |-> 0, tau |-> 0, active |-> 0]
            op == "GetPsmSettings"
            w == "AT+CPSMS?"
            c == <<w>>
<1>1. req[t].op = "GetPsmSettings" /\ ~req[t].null
  BY CallOf
<1>2. Query(req[t]) = GetPsmSettings
  BY <1>1, QueryOf
<1>3. GetPsmSettings = Sends(<<c>>, o)
  BY DEF GetPsmSettings
<1>4. IsFreshPsm(o)
  BY PsmFresh
<1>5. w = c[1] /\ w \notin SetCommands /\ op # "GetServiceStatus" /\ op # "ATCommandRaw"
  BY DEF SetCommands
<1>. HIDE DEF o, c, w, op
<1>6. \E r : AskedFor(w, told[t][w], o, r) /\ r.pkt = "OK" /\ out[t] = r.out
  <2>1. Succeeded(t, {op})
    BY DEF op
  <2>2. Query(req[t]) = Sends(<<c>>, o)
    BY <1>2, <1>3
  <2>. QED BY <1>5, <2>1, <2>2, GetterCall
<1>. QED BY <1>4, <1>6, PsmAsked DEF w

\* PsmRight: whatever other tasks set and whichever timers the modem leaves out, every field
\* has its own timer in seconds (_Cellular_RecvFuncGetPsmSettings).  (Of gprsReadyTimer
\* PsmRead says more: it is in the units of the active time.)
THEOREM PsmIsRight == QuerySpec => []PsmRight
<1>1. AnswersInv => PsmRight
  BY PsmFollows
<1>. QED BY <1>1, AnswersAreGiven, PTL

-----------------------------------------------------------------------------
(* Names and numbers.                                                          *)

LEMMA MostIs ==
  ASSUME NEW T \in SUBSET Nat, NEW m \in T, \A n \in T : n <= m
  PROVE  Max(T) = m
<1>1. ASSUME NEW x \in T, \A n \in T : x >= n PROVE x = m
  <2>1. x <= m /\ x >= m /\ x \in Nat /\ m \in Nat
    BY <1>1
  <2>. QED BY <2>1
<1>2. \A n \in T : m >= n
  OBVIOUS
<1>3. \A x \in T : (\A n \in T : x >= n) => x = m
  BY <1>1
<1>. QED BY <1>2, <1>3 DEF Max

\* A text with a symbol after it.
LEMMA OneAfter ==
  ASSUME NEW v \in Texts, NEW c \in Symbols
  PROVE  LET s == v \o <<c>> IN
         /\ s \in Texts /\ Len(s) = Len(v) + 1 /\ Len(v) \in Nat /\ s[Len(v) + 1] = c
         /\ \A i \in 1 .. Len(v) : s[i] = v[i]
         /\ SubSeq(s, 1, Len(v)) = v
<1>. DEFINE q == <<c>>
            s == v \o q
<1>1. q \in Texts /\ Len(q) = 1 /\ q[1] = c
  BY Single
<1>. HIDE DEF q
<1>2. /\ s \in Texts /\ Len(s) = Len(v) + 1 /\ Len(v) \in Nat
      /\ \A i \in 1 .. Len(v) : s[i] = v[i]
      /\ \A i \in 1 .. 1 : s[Len(v) + i] = q[i]
  <2>1. /\ v \o q \in Texts /\ Len(v \o q) = Len(v) + Len(q) /\ Len(v) \in Nat
        /\ \A i \in 1 .. Len(v) : (v \o q)[i] = v[i]
        /\ \A i \in 1 .. Len(q) : (v \o q)[Len(v) + i] = q[i]
    BY <1>1, Joined
  <2>. QED BY <1>1, <2>1
<1>3. s[Len(v) + 1] = c
  <2>1. 1 \in 1 .. 1
    OBVIOUS
  <2>. HIDE DEF s
  <2>. QED BY <1>1, <1>2, <2>1
<1>4. SubSeq(s, 1, Len(v)) = v
  <2>. DEFINE k == Len(v)
              r == SubSeq(s, 1, k)
  <2>. HIDE DEF s
  <2>1. k \in 0 .. Len(s) /\ k \in Nat
    BY <1>2
  <2>2. r \in Texts /\ Len(r) = k /\ \A i \in 1 .. k : r[i] = s[i]
    BY <1>2, <2>1 DEF Texts
  <2>3. \A i \in 1 .. k : r[i] = v[i]
    BY <1>2, <2>2
  <2>4. r = v
    <3>. HIDE DEF r
    <3>1. Len(r) = Len(v) /\ r \in Seq(Symbols) /\ v \in Seq(Symbols)
      BY <2>2 DEF Texts
    <3>. QED BY <2>2, <2>3, <3>1, SeqEqual
  <2>. QED BY <2>4
<1>. QED BY <1>2, <1>3, <1>4 DEF q

LEMMA SpaceAfter ==
  ASSUME NEW v \in Texts
  PROVE  LET s == v \o <<Space>> IN
         /\ s \in Texts /\ Len(s) = Len(v) + 1 /\ Len(v) \in Nat /\ s[Len(v) + 1] = Space
         /\ \A i \in 1 .. Len(v) : s[i] = v[i]
         /\ SubSeq(s, 1, Len(v)) = v
BY Commas, OneAfter

Trimmed(s) == IF Len(s) <= 2 THEN s ELSE SubSeq(s, 1, Max({i \in 1 .. Len(s) : s[i] # Space} \cup {1}))

LEMMA TrimsAre ==
  ASSUME NEW s
  PROVE  /\ ATRemoveLeadingWhiteSpaces(s) = IF Valid(s) THEN Ok(Skipped(s)) ELSE Fail("BAD_PARAMETER", s)
         /\ ATRemoveTrailingWhiteSpaces(s) = IF Valid(s) THEN Ok(Trimmed(s)) ELSE Fail("BAD_PARAMETER", s)
         /\ ATRemoveAllWhiteSpaces(s) = IF Valid(s) THEN Ok(Without(s, Space)) ELSE Fail("BAD_PARAMETER", s)
BY DEF ATRemoveLeadingWhiteSpaces, ATRemoveTrailingWhiteSpaces, ATRemoveAllWhiteSpaces, OfValid, Skipped, Trimmed

LEMMA TrimmedAt ==
  ASSUME NEW s \in Texts, Len(s) > 2, NEW k \in 1 .. Len(s), s[k] # Space, \A i \in k + 1 .. Len(s) : s[i] = Space
  PROVE  Trimmed(s) = SubSeq(s, 1, k)
<1>. DEFINE T == {i \in 1 .. Len(s) : s[i] # Space} \cup {1}
<1>1. Len(s) \in Nat
  BY DEF Texts
<1>2. T \in SUBSET Nat /\ k \in T
  BY <1>1
<1>3. \A n \in T : n <= k
  BY <1>1
<1>4. Max(T) = k
  <2>. HIDE DEF T
  <2>. QED BY <1>2, <1>3, MostIs
<1>5. ~(Len(s) <= 2)
  BY <1>1
<1>. HIDE DEF T
<1>. QED BY <1>4, <1>5 DEF Trimmed, T

LEMMA NameIs ==
  ASSUME NEW v, IsName(v)
  PROVE  /\ v \in Texts /\ Len(v) \in Nat /\ Len(v) >= 2 /\ v # <<>> /\ v[1] # Space /\ v[Len(v)] # Space
<1>1. v \in Texts /\ Len(v) >= 2 /\ v[1] # Space /\ v[Len(v)] # Space
  BY TextIs DEF IsName
<1>2. Len(v) \in Nat
  BY <1>1 DEF Texts
<1>3. v # <<>>
  BY <1>1, <1>2, Longer
<1>. QED BY <1>1, <1>2, <1>3

LEMMA TrimmedName ==
  ASSUME NEW v, IsName(v)
  PROVE  Trimmed(v) = v /\ Trimmed(v \o <<Space>>) = v
<1>1. v \in Texts /\ Len(v) \in Nat /\ Len(v) >= 2 /\ v # <<>> /\ v[Len(v)] # Space
  BY NameIs
<1>. DEFINE n == Len(v)
<1>2. Trimmed(v) = v
  <2>1. CASE n <= 2
    BY <2>1 DEF Trimmed
  <2>2. CASE ~(n <= 2)
    <3>1. n > 2 /\ n \in 1 .. n /\ \A i \in n + 1 .. n : v[i] = Space
      BY <1>1, <2>2
    <3>2. Trimmed(v) = SubSeq(v, 1, n)
      BY <1>1, <3>1, TrimmedAt
    <3>3. SubSeq(v, 1, n) = v
      BY <1>1, SubSeqFull DEF Texts
    <3>. QED BY <3>2, <3>3
  <2>. QED BY <2>1, <2>2
<1>3. Trimmed(v \o <<Space>>) = v
  <2>. DEFINE s == v \o <<Space>>
  <2>1. /\ s \in Texts /\ Len(s) = n + 1 /\ s[n + 1] = Space
        /\ \A i \in 1 .. n : s[i] = v[i]
        /\ SubSeq(s, 1, n) = v
    BY <1>1, SpaceAfter
  <2>. HIDE DEF s, n
  <2>2. n \in Nat /\ n >= 2 /\ v[n] # Space
    BY <1>1 DEF n
  <2>3. Len(s) > 2 /\ n \in 1 .. Len(s) /\ n \in 1 .. n
    BY <2>1, <2>2
  <2>4. s[n] # Space
    BY <2>1, <2>2, <2>3
  <2>5. \A i \in n + 1 .. Len(s) : i = n + 1
    BY <2>1, <2>2
  <2>6. \A i \in n + 1 .. Len(s) : s[i] = Space
    BY <2>1, <2>5
  <2>7. Trimmed(s) = SubSeq(s, 1, n)
    BY <2>1, <2>3, <2>4, <2>6, TrimmedAt
  <2>. QED BY <2>1, <2>7 DEF s
<1>. QED BY <1>2, <1>3

\* What is left of a padded text when the spaces before it are gone.
LEMMA PaddedSkipped ==
  ASSUME NEW v \in Texts, v # <<>>, v[1] # Space, NEW l \in Padded(v)
  PROVE  l \in Texts /\ (Skipped(l) = v \/ Skipped(l) = v \o <<Space>>)
<1>1. Skipped(v) = v
  BY SkippedIs
<1>. DEFINE g == <<Space>>
            s == v \o g
<1>2. g \in Texts
  BY Commas, Single
<1>3. s \in Texts /\ Len(s) = Len(v) + 1 /\ Len(v) \in Nat /\ \A i \in 1 .. Len(v) : s[i] = v[i]
  BY SpaceAfter
<1>4. Len(v) # 0
  BY DEF Texts
<1>5. CASE l = v
  BY <1>1, <1>5
<1>6. CASE l = <<Space>> \o v \o <<Space>>
  <2>. HIDE DEF g
  <2>1. (g \o v) \o g = g \o (v \o g)
    BY <1>2, Grouped
  <2>2. l = g \o s
    BY <1>6, <2>1 DEF g
  <2>. HIDE DEF s
  <2>3. g \o s \in Texts
    BY <1>2, <1>3, Joined
  <2>4. s # <<>>
    BY <1>3, Longer
  <2>5. s[1] # Space
    <3>1. 1 \in 1 .. Len(v)
      BY <1>3, <1>4
    <3>. QED BY <1>3, <3>1
  <2>6. Skipped(<<Space>> \o s) = s
    BY <1>3, <2>4, <2>5, SkippedIs
  <2>. QED BY <2>2, <2>3, <2>6 DEF g, s
<1>. QED BY <1>5, <1>6 DEF Padded

Trim(line) == Then(ATRemoveLeadingWhiteSpaces(line), ATRemoveTrailingWhiteSpaces)

LEMMA NameRead ==
  ASSUME NEW v, IsName(v), NEW l \in Padded(v), NEW r, r = Trim(l), r.st = "SUCCESS"
  PROVE  r.s = v
<1>1. v \in Texts /\ v # <<>> /\ v[1] # Space
  BY NameIs
<1>2. Skipped(l) = v \/ Skipped(l) = v \o <<Space>>
  BY <1>1, PaddedSkipped
<1>. DEFINE s == Skipped(l)
            b == ATRemoveLeadingWhiteSpaces(l)
            e == ATRemoveTrailingWhiteSpaces(s)
<1>3. Trimmed(s) = v
  BY <1>2, TrimmedName
<1>4. r = IF b.st = "SUCCESS" THEN ATRemoveTrailingWhiteSpaces(b.s) ELSE b
  BY DEF Trim, Then
<1>5. b = IF Valid(l) THEN Ok(s) ELSE Fail("BAD_PARAMETER", l)
  BY TrimsAre
<1>6. e = IF Valid(s) THEN Ok(Trimmed(s)) ELSE Fail("BAD_PARAMETER", s)
  BY TrimsAre
<1>. HIDE DEF s, b
<1>7. b.st = "SUCCESS" /\ b = Ok(s)
  BY <1>4, <1>5, OkIs
<1>8. r = e
  BY <1>4, <1>7, OkIs
<1>. HIDE DEF e
<1>9. r = Ok(v)
  BY <1>3, <1>6, <1>8, OkIs
<1>. QED BY <1>9, OkIs

\* A number, from a line with spaces around it or none.
LEMMA NumberRead ==
  ASSUME NEW v, IsNumber(v), NEW l \in Padded(v)
  PROVE  /\ \A r : r = Then(ATRemoveLeadingWhiteSpaces(l), ATRemoveAllWhiteSpaces) /\ r.st = "SUCCESS" => r.s = v
         /\ \A r : r = ATRemoveAllWhiteSpaces(l) /\ r.st = "SUCCESS" => r.s = v
<1>. DEFINE g == <<Space>>
            s == v \o g
            u == Skipped(l)
<1>0. v \in Texts /\ Lacks(v, Space)
  BY TextIs DEF IsNumber
<1>1. g \in Texts /\ Space \in Symbols
  BY Commas, Single
<1>2. Without(v, Space) = v
  BY <1>0, <1>1, WithoutSame
<1>3. s \in Texts /\ Without(s, Space) = v
  <2>1. s \in Texts
    BY <1>0, SpaceAfter
  <2>2. Without(g, Space) = <<>>
    BY <1>1, WithoutOne
  <2>. HIDE DEF g
  <2>3. Without(s, Space) = Without(v, Space) \o Without(g, Space)
    BY <1>0, <1>1, WithoutJoined
  <2>4. v \o <<>> = v
    BY <1>0 DEF Texts
  <2>. QED BY <1>2, <2>1, <2>2, <2>3, <2>4
<1>4. Without(l, Space) = v
  <2>1. CASE l = v
    BY <1>2, <2>1
  <2>2. CASE l = <<Space>> \o v \o <<Space>>
    <3>. HIDE DEF g
    <3>1. (g \o v) \o g = g \o (v \o g)
      BY <1>0, <1>1, Grouped
    <3>2. l = g \o s
      BY <2>2, <3>1 DEF g
    <3>. HIDE DEF s
    <3>3. Without(<<Space>> \o s, Space) = Without(s, Space)
      BY <1>1, <1>3, WithoutLeading
    <3>. QED BY <1>3, <3>2, <3>3 DEF g
  <2>. QED BY <2>1, <2>2 DEF Padded
<1>. HIDE DEF s
<1>5. ASSUME NEW r, r = ATRemoveAllWhiteSpaces(l), r.st = "SUCCESS" PROVE r.s = v
  <2>1. r = IF Valid(l) THEN Ok(Without(l, Space)) ELSE Fail("BAD_PARAMETER", l)
    BY <1>5, TrimsAre
  <2>2. r = Ok(v)
    BY <1>4, <1>5, <2>1, OkIs
  <2>. QED BY <2>2, OkIs
<1>6. ASSUME NEW r, r = Then(ATRemoveLeadingWhiteSpaces(l), ATRemoveAllWhiteSpaces), r.st = "SUCCESS"
      PROVE  r.s = v
  <2>. DEFINE b == ATRemoveLeadingWhiteSpaces(l)
              e == ATRemoveAllWhiteSpaces(u)
  <2>1. r = IF b.st = "SUCCESS" THEN ATRemoveAllWhiteSpaces(b.s) ELSE b
    BY <1>6 DEF Then
  <2>2. b = IF Valid(l) THEN Ok(u) ELSE Fail("BAD_PARAMETER", l)
    BY TrimsAre
  <2>3. e = IF Valid(u) THEN Ok(Without(u, Space)) ELSE Fail("BAD_PARAMETER", u)
    BY TrimsAre
  <2>. HIDE DEF u, b
  <2>4. b.st = "SUCCESS" /\ b = Ok(u)
    BY <1>6, <2>1, <2>2, OkIs
  <2>5. r = e
    BY <2>1, <2>4, OkIs
  <2>. HIDE DEF e
  <2>6. Valid(u) /\ r = Ok(Without(u, Space))
    BY <1>6, <2>3, <2>5, OkIs
  <2>7. CASE v # <<>>
    <3>1. v[1] # Space
      <4>1. 1 \in 1 .. Len(v)
        <5>1. Len(v) \in Nat /\ Len(v) # 0
          BY <1>0, <2>7 DEF Texts
        <5>. QED BY <5>1
      <4>. QED BY <1>0, <4>1 DEF Lacks
    <3>2. u = v \/ u = s
      BY <1>0, <2>7, <3>1, PaddedSkipped DEF u, s
    <3>3. Without(u, Space) = v
      BY <1>2, <1>3, <3>2
    <3>. QED BY <2>6, <3>3, OkIs
  <2>8. CASE v = <<>>
    <3>1. l = <<>> \/ l = <<Space, Space>>
      <4>1. l = v \/ l = <<Space>> \o v \o <<Space>>
        BY DEF Padded
      <4>2. <<Space>> \o <<>> = <<Space>>
        OBVIOUS
      <4>3. <<Space>> \o <<Space>> = <<Space, Space>>
        BY <1>1, Pair
      <4>. QED BY <2>8, <4>1, <4>2, <4>3
    <3>2. Skipped(l) = <<>>
      <4>. DEFINE T == {i \in 1 .. Len(l) : l[i] # Space} \cup {Len(l) + 1}
      <4>1. Len(l) \in Nat /\ \A i \in 1 .. Len(l) : l[i] = Space
        <5>. DEFINE y == Space
        <5>. HIDE DEF y
        <5>1. Len(<<y, y>>) = 2 /\ \A i \in 1 .. 2 : <<y, y>>[i] = y
          OBVIOUS
        <5>. QED BY <3>1, <5>1, Nothing DEF y
      <4>2. T = {Len(l) + 1}
        BY <4>1
      <4>3. Min(T) = Len(l) + 1
        BY <4>1, <4>2, LeastOf
      <4>4. Skipped(l) = SubSeq(l, Len(l) + 1, Len(l))
        BY <4>3 DEF Skipped, From
      <4>. QED BY <4>1, <4>4
    <3>. QED BY <2>6, <3>2 DEF u, Valid
  <2>. QED BY <2>7, <2>8
<1>. QED BY <1>5, <1>6

LEMMA Translated == ASSUME NEW st, NEW o PROVE Parsed(st, o).pkt = "OK" <=> st = "SUCCESS"
BY DEF Parsed, TranslateAtCoreStatus

\* A good answer has a line.
LEMMA AskedLine ==
  ASSUME NEW w, w \notin SetCommands, NEW m, NEW o, NEW r, AskedFor(w, m, o, r), r.pkt = "OK"
  PROVE  Fine(m) /\ \E lines \in Answers(m, w) : lines # <<>> /\ r = Receive(w, lines, o)
<1>1. PICK lines \in Answers(m, w) \cup { <<>> } : r = Receive(w, lines, o)
  BY DEF AskedFor
<1>2. lines # <<>>
  <2>1. ASSUME lines = <<>> PROVE r.pkt \in {"FAILURE", "BAD_PARAM"}
    BY <1>1, <2>1 DEF Receive, SetCommands
  <2>. QED BY <2>1
<1>3. lines \in Answers(m, w)
  BY <1>2
<1>. QED BY <1>1, <1>2, <1>3 DEF AskedFor

\* Answers that have one line each, and what is made of one of them.
Lines(S) == { <<s>> : s \in S }
FromLine(l, w, o, r) == Head(<<l>>) = l /\ <<l>> # <<>> /\ r = Receive(w, <<l>>, o)
Put(o, field, v) == [o EXCEPT ![field] = v]

LEMMA LineOf ==
  ASSUME NEW S, NEW w, w \notin SetCommands, NEW m, Answers(m, w) = Lines(S),
         NEW o, NEW r, AskedFor(w, m, o, r), r.pkt = "OK"
  PROVE  Fine(m) /\ \E l \in S : FromLine(l, w, o, r)
<1>1. Fine(m) /\ \E lines \in Answers(m, w) : lines # <<>> /\ r = Receive(w, lines, o)
  BY AskedLine
<1>2. PICK lines \in Answers(m, w) : lines # <<>> /\ r = Receive(w, lines, o)
  BY <1>1
<1>3. PICK l \in S : lines = <<l>>
  BY <1>2 DEF Lines
<1>4. Head(<<l>>) = l /\ <<l>> # <<>>
  OBVIOUS
<1>. QED BY <1>1, <1>2, <1>3, <1>4 DEF FromLine

LEMMA NameLine ==
  ASSUME NEW v, IsName(v), NEW l \in Padded(v), NEW field, NEW o, NEW p, p = RecvName(l, field, o), p.pkt = "OK"
  PROVE  p.out = Put(o, field, Cut(v, Sizes[field]))
<1>. DEFINE r == Trim(l)
            g == IF r.st = "SUCCESS" THEN [o EXCEPT ![field] = Cut(r.s, Sizes[field])] ELSE o
<1>1. p = Parsed(r.st, g)
  BY DEF RecvName, Trim
<1>. HIDE DEF r
<1>2. r.st = "SUCCESS"
  BY <1>1, Translated
<1>3. r.s = v
  BY <1>2, NameRead DEF r
<1>4. p.out = g
  BY <1>1 DEF Parsed
<1>. QED BY <1>2, <1>3, <1>4 DEF Put

LEMMA VersionAsked ==
  ASSUME NEW m, NEW o, NEW r, AskedFor("AT+CGMR", m, o, r), r.pkt = "OK"
  PROVE  r.out = Put(o, "version", Cut(m.version, Sizes.version))
<1>. DEFINE w == "AT+CGMR"
            S == Padded(m.version)
            y == "version"
<1>1. w \notin SetCommands /\ Answers(m, w) = Lines(S)
  BY DEF SetCommands, Answers, Lines
<1>. HIDE DEF S, w, y
<1>2. Fine(m) /\ \E l \in S : FromLine(l, w, o, r)
  BY <1>1, LineOf DEF w
<1>3. PICK l \in S : FromLine(l, w, o, r)
  BY <1>2
<1>4. r = RecvName(l, y, o)
  BY <1>3 DEF FromLine, Receive, RecvFuncGetFirmwareVersion, w, y
<1>5. IsName(m.version)
  BY <1>2 DEF Fine, IsModem
<1>6. r.out = Put(o, y, Cut(m.version, Sizes[y]))
  BY <1>3, <1>4, <1>5, NameLine DEF S
<1>. QED BY <1>6 DEF y

LEMMA ModelAsked ==
  ASSUME NEW m, NEW o, NEW r, AskedFor("AT+CGMM", m, o, r), r.pkt = "OK"
  PROVE  r.out = Put(o, "model", Cut(m.model, Sizes.model))
<1>. DEFINE w == "AT+CGMM"
            S == Padded(m.model)
            y == "model"
<1>1. w \notin SetCommands /\ Answers(m, w) = Lines(S)
  BY DEF SetCommands, Answers, Lines
<1>. HIDE DEF S, w, y
<1>2. Fine(m) /\ \E l \in S : FromLine(l, w, o, r)
  BY <1>1, LineOf DEF w
<1>3. PICK l \in S : FromLine(l, w, o, r)
  BY <1>2
<1>4. r = RecvName(l, y, o)
  BY <1>3 DEF FromLine, Receive, RecvFuncGetModelId, w, y
<1>5. IsName(m.model)
  BY <1>2 DEF Fine, IsModem
<1>6. r.out = Put(o, y, Cut(m.model, Sizes[y]))
  BY <1>3, <1>4, <1>5, NameLine DEF S
<1>. QED BY <1>6 DEF y

LEMMA MakerAsked ==
  ASSUME NEW m, NEW o, NEW r, AskedFor("AT+CGMI", m, o, r), r.pkt = "OK"
  PROVE  r.out = Put(o, "maker", Cut(m.maker, Sizes.maker))
<1>. DEFINE w == "AT+CGMI"
            S == Padded(m.maker)
            y == "maker"
<1>1. w \notin SetCommands /\ Answers(m, w) = Lines(S)
  BY DEF SetCommands, Answers, Lines
<1>. HIDE DEF S, w, y
<1>2. Fine(m) /\ \E l \in S : FromLine(l, w, o, r)
  BY <1>1, LineOf DEF w
<1>3. PICK l \in S : FromLine(l, w, o, r)
  BY <1>2
<1>4. r = RecvName(l, y, o)
  BY <1>3 DEF FromLine, Receive, RecvFuncGetManufactureId, w, y
<1>5. IsName(m.maker)
  BY <1>2 DEF Fine, IsModem
<1>6. r.out = Put(o, y, Cut(m.maker, Sizes[y]))
  BY <1>3, <1>4, <1>5, NameLine DEF S
<1>. QED BY <1>6 DEF y

LEMMA CutWhole ==
  ASSUME NEW s, s \in Texts, NEW size \in Nat, Len(s) <= size
  PROVE  Cut(s, size) = s
<1>. DEFINE T == {size, Len(s)}
<1>1. Len(s) \in Nat
  BY DEF Texts
<1>2. Min(T) = Len(s)
  <2>. DEFINE n == Len(s)
  <2>1. T \in SUBSET Nat /\ n \in T /\ \A x \in T : n <= x
    BY <1>1
  <2>. HIDE DEF T, n
  <2>2. Min(T) = n
    BY <2>1, LeastOf
  <2>. QED BY <2>2 DEF n
<1>. QED BY <1>2, SubSeqFull DEF Cut, Texts

LEMMA ImeiAsked ==
  ASSUME NEW m, NEW o, NEW r, AskedFor("AT+CGSN", m, o, r), r.pkt = "OK"
  PROVE  r.out = Put(o, "imei", m.imei)
<1>. DEFINE w == "AT+CGSN"
            v == m.imei
            S == Padded(v)
<1>1. w \notin SetCommands /\ Answers(m, w) = Lines(S)
  BY DEF SetCommands, Answers, Lines
<1>. HIDE DEF S, w
<1>2. Fine(m) /\ \E l \in S : FromLine(l, w, o, r)
  BY <1>1, LineOf DEF w
<1>3. PICK l \in S : FromLine(l, w, o, r)
  BY <1>2
<1>4. r = RecvFuncGetImei(l, o)
  BY <1>3 DEF FromLine, Receive, w
<1>5. IsNumber(v) /\ Len(v) <= Sizes.imei
  BY <1>2 DEF Fine, IsModem
<1>. DEFINE a == Then(ATRemoveLeadingWhiteSpaces(l), ATRemoveAllWhiteSpaces)
            g == IF a.st = "SUCCESS" THEN [o EXCEPT !.imei = Cut(a.s, Sizes.imei)] ELSE o
<1>. HIDE DEF v
<1>6. r = Parsed(a.st, g)
  BY <1>4 DEF RecvFuncGetImei
<1>7. \A x : x = a /\ x.st = "SUCCESS" => x.s = v
  BY <1>3, <1>5, NumberRead DEF S
<1>. HIDE DEF a
<1>8. a.st = "SUCCESS"
  BY <1>6, Translated
<1>9. a.s = v
  BY <1>7, <1>8
<1>10. Cut(v, Sizes.imei) = v
  <2>1. Sizes.imei \in Nat
    BY SizeAssumption
  <2>2. v \in Texts
    BY <1>5, TextIs DEF IsNumber
  <2>. QED BY <1>5, <2>1, <2>2, CutWhole
<1>11. r.out = g
  BY <1>6 DEF Parsed
<1>. QED BY <1>8, <1>9, <1>10, <1>11 DEF v, Put

\* The prefix of a line.
Prefixed(w, t) == <<w>> \o <<":">> \o t

LEMMA PrefixOff ==
  ASSUME NEW w \in Names, NEW t \in Texts, NEW r, r = ATRemovePrefix(Prefixed(w, t)), r.st = "SUCCESS"
  PROVE  r.s = t
<1>. DEFINE q == <<w>>
            d == ":"
            z == q \o <<d>> \o t
<1>1. w \in Symbols /\ d \in Symbols /\ w # d
  BY Commas, SymbolsAre DEF Names
<1>2. q \in Texts /\ Lacks(q, d) /\ Len(q) = 1
  <2>1. q \in Texts /\ q[1] = w /\ Len(q) = 1
    BY <1>1, Single
  <2>. HIDE DEF q
  <2>2. \A i \in 1 .. 1 : i = 1
    OBVIOUS
  <2>. QED BY <1>1, <2>1, <2>2 DEF Lacks
<1>3. Prefixed(w, t) = z
  BY DEF Prefixed
<1>. HIDE DEF q, d
<1>4. /\ z \in Texts /\ Len(z) = Len(q) + 1 + Len(t) /\ FirstOf(z, d) = Len(q) + 1
      /\ From(z, FirstOf(z, d) + 1) = t
  BY <1>1, <1>2, CutAt
<1>. HIDE DEF z
<1>5. FirstOf(z, d) <= Len(z)
  <2>1. Len(t) \in Nat
    BY DEF Texts
  <2>. QED BY <1>2, <1>4, <2>1
<1>6. r = IF Valid(z) THEN Ok(t) ELSE Fail("BAD_PARAMETER", z)
  <2>. DEFINE f == FirstOf(z, d)
  <2>1. ATRemovePrefix(z) = IF Valid(z) THEN IF f <= Len(z) THEN Ok(From(z, f + 1)) ELSE Fail("BAD_PARAMETER", z)
                            ELSE Fail("BAD_PARAMETER", z)
    BY DEF ATRemovePrefix, OfValid, d
  <2>. HIDE DEF f
  <2>2. From(z, f + 1) = t /\ f <= Len(z)
    BY <1>4, <1>5 DEF f
  <2>. QED BY <1>3, <2>1, <2>2
<1>7. r = Ok(t)
  BY <1>6, OkIs
<1>. QED BY <1>7, OkIs

LEMMA SpacesOff ==
  ASSUME NEW w \in Names, NEW b \in Texts, NEW r,
         r = Then(ATRemoveAllWhiteSpaces(Plus(w) \o b), ATRemovePrefix), r.st = "SUCCESS"
  PROVE  r.s = Without(b, Space) /\ Without(b, Space) \in Texts
<1>. DEFINE l == Plus(w) \o b
            t == <<Space>> \o b
            h == <<w>> \o <<":">>
            u == Without(b, Space)
            a == ATRemoveAllWhiteSpaces(l)
<1>1. w \in Symbols /\ ":" \in Symbols /\ Space \in Symbols /\ w # Space /\ ":" # Space
  BY Commas, SymbolsAre DEF Names, Space
<1>2. <<w>> \in Texts /\ <<":">> \in Texts
  BY <1>1, Single
<1>3. l = h \o t
  BY <1>1, Three DEF Plus, Space
<1>4. t \in Texts /\ Without(t, Space) = u
  BY <1>1, WithoutLeading
<1>5. u \in Texts
  BY <1>1, WithoutJoined
<1>6. h \in Texts /\ Without(h, Space) = h
  <2>1. Without(<<w>>, Space) = <<w>> /\ Without(<<":">>, Space) = <<":">>
    BY <1>1, WithoutOne
  <2>. DEFINE x == <<w>>
              y == <<":">>
  <2>2. x \in Texts /\ y \in Texts /\ Without(x, Space) = x /\ Without(y, Space) = y
    BY <1>2, <2>1
  <2>. HIDE DEF x, y
  <2>3. x \o y \in Texts
    BY <2>2, Joined
  <2>4. Without(x \o y, Space) = Without(x, Space) \o Without(y, Space)
    BY <1>1, <2>2, WithoutJoined
  <2>5. h = x \o y
    BY DEF x, y
  <2>. HIDE DEF h
  <2>. QED BY <2>2, <2>3, <2>4, <2>5
<1>7. Prefixed(w, u) = h \o u
  BY DEF Prefixed
<1>. HIDE DEF h, t, u
<1>8. Without(l, Space) = Prefixed(w, u)
  <2>1. Without(h \o t, Space) = Without(h, Space) \o Without(t, Space)
    BY <1>1, <1>4, <1>6, WithoutJoined
  <2>. QED BY <1>3, <1>4, <1>6, <1>7, <2>1
<1>9. a = IF Valid(l) THEN Ok(Prefixed(w, u)) ELSE Fail("BAD_PARAMETER", l)
  BY <1>8, TrimsAre
<1>10. r = IF a.st = "SUCCESS" THEN ATRemovePrefix(a.s) ELSE a
  BY DEF Then
<1>. HIDE DEF a
<1>11. a = Ok(Prefixed(w, u)) /\ a.st = "SUCCESS"
  BY <1>9, <1>10, OkIs
<1>12. r = ATRemovePrefix(Prefixed(w, u))
  BY <1>10, <1>11, OkIs
<1>13. r.s = u
  BY <1>5, <1>12, PrefixOff
<1>. QED BY <1>5, <1>13 DEF u

LEMMA ImsiAsked ==
  ASSUME NEW m, NEW o, NEW r, AskedFor("AT+CIMI", m, o, r), r.pkt = "OK"
  PROVE  r.out = Put(o, "imsi", m.imsi)
<1>. DEFINE w == "AT+CIMI"
            v == m.imsi
            S == Padded(v)
<1>1. w \notin SetCommands /\ Answers(m, w) = Lines(S)
  BY DEF SetCommands, Answers, Lines
<1>. HIDE DEF S, w
<1>2. Fine(m) /\ \E l \in S : FromLine(l, w, o, r)
  BY <1>1, LineOf DEF w
<1>3. PICK l \in S : FromLine(l, w, o, r)
  BY <1>2
<1>4. r = RecvFuncGetImsi(l, o)
  BY <1>3 DEF FromLine, Receive, w
<1>5. IsNumber(v)
  BY <1>2 DEF Fine, IsModem
<1>. DEFINE a == ATRemoveAllWhiteSpaces(l)
<1>. HIDE DEF v
<1>6. r = IF a.st # "SUCCESS" THEN Parsed(a.st, o)
          ELSE IF Len(a.s) <= Sizes.imsi THEN Parsed("SUCCESS", [o EXCEPT !.imsi = a.s]) ELSE Parsed("ERROR", o)
  BY <1>4 DEF RecvFuncGetImsi
<1>7. \A x : x = a /\ x.st = "SUCCESS" => x.s = v
  BY <1>3, <1>5, NumberRead DEF S
<1>. HIDE DEF a
<1>8. a.st = "SUCCESS" /\ r = Parsed("SUCCESS", [o EXCEPT !.imsi = a.s])
  <2>1. Parsed("ERROR", o).pkt # "OK"
    BY Translated
  <2>. QED BY <1>6, <2>1, Translated
<1>9. a.s = v
  BY <1>7, <1>8
<1>. QED BY <1>8, <1>9 DEF v, Put, Parsed

LEMMA IccidAsked ==
  ASSUME NEW m, NEW o, NEW r, AskedFor("AT+CCID", m, o, r), r.pkt = "OK"
  PROVE  r.out = Put(o, "iccid", m.iccid)
<1>. DEFINE w == "AT+CCID"
            v == m.iccid
            k == Plus("+CCID") \o v
            S == {k}
<1>1. w \notin SetCommands /\ Answers(m, w) = Lines(S)
  BY DEF SetCommands, Answers, Lines
<1>. HIDE DEF S, w
<1>2. Fine(m) /\ \E l \in S : FromLine(l, w, o, r)
  BY <1>1, LineOf DEF w
<1>3. FromLine(k, w, o, r)
  BY <1>2 DEF S
<1>4. r = RecvFuncGetIccid(k, o)
  <2>. HIDE DEF k
  <2>. QED BY <1>3 DEF FromLine, Receive, w
<1>5. v \in Texts /\ Lacks(v, Space)
  BY <1>2, TextIs DEF Fine, IsModem, IsNumber
<1>. DEFINE a == Then(ATRemoveAllWhiteSpaces(k), ATRemovePrefix)
<1>. HIDE DEF v
<1>6. r = IF a.st # "SUCCESS" THEN Parsed(a.st, o)
          ELSE IF Len(a.s) <= Sizes.iccid THEN Parsed("SUCCESS", [o EXCEPT !.iccid = a.s])
          ELSE Parsed("BAD_PARAMETER", o)
  <2>. HIDE DEF k
  <2>. QED BY <1>4 DEF RecvFuncGetIccid
<1>7. a.st = "SUCCESS" => a.s = v
  <2>1. ASSUME a.st = "SUCCESS" PROVE a.s = v
    <3>1. "+CCID" \in Names
      BY DEF Names
    <3>2. a.s = Without(v, Space)
      BY <1>5, <2>1, <3>1, SpacesOff
    <3>3. Without(v, Space) = v
      BY <1>5, Commas, WithoutSame
    <3>. QED BY <3>2, <3>3
  <2>. QED BY <2>1
<1>. HIDE DEF a
<1>8. a.st = "SUCCESS" /\ r = Parsed("SUCCESS", [o EXCEPT !.iccid = a.s])
  <2>1. Parsed("BAD_PARAMETER", o).pkt # "OK"
    BY Translated
  <2>. QED BY <1>6, <2>1, Translated
<1>9. a.s = v
  BY <1>7, <1>8
<1>. QED BY <1>8, <1>9 DEF v, Put, Parsed

-----------------------------------------------------------------------------
(* The card.                                                                   *)

\* Digits and F, as they are on the card.
CardDigits == ToSet(Decimals) \cup {"F"}
Plain(s) == s \in Texts /\ Lacks(s, Space) /\ Lacks(s, Quote) /\ Lacks(s, ",")

LEMMA CardDigitsAre ==
  /\ CardDigits \subseteq Symbols
  /\ \A c \in CardDigits : c # Space /\ c # Quote /\ c # ","
  /\ "0" \in CardDigits /\ "1" \in CardDigits /\ "3" \in CardDigits /\ "4" \in CardDigits
  /\ "6" \in CardDigits /\ "F" \in CardDigits
<1>1. CardDigits = {"0", "1", "2", "3", "4", "5", "6", "7", "8", "9"} \cup {"F"}
  BY DecimalsAre DEF CardDigits
<1>2. CardDigits \subseteq Literals
  BY <1>1 DEF Literals
<1>3. CardDigits \subseteq Symbols
  BY <1>2, SymbolsAre
<1>4. \A c \in CardDigits : c # Space /\ c # Quote /\ c # ","
  BY <1>1 DEF Space, Quote
<1>. QED BY <1>1, <1>3, <1>4

LEMMA PlainIs ==
  ASSUME NEW s \in Seq(CardDigits)
  PROVE  Plain(s) /\ Param(s)
<1>1. \A i \in 1 .. Len(s) : s[i] \in CardDigits
  BY ElementOfSeq
<1>2. s \in Texts
  BY CardDigitsAre, SeqWithin DEF Texts
<1>3. Lacks(s, Space) /\ Lacks(s, Quote) /\ Lacks(s, ",")
  BY <1>1, CardDigitsAre DEF Lacks
<1>. QED BY <1>2, <1>3 DEF Plain, Param

LEMMA PlainSame ==
  ASSUME NEW s, Plain(s)
  PROVE  /\ Without(s, Space) = s /\ Without(s, Quote) = s
         /\ Quoted(s) \in Texts /\ Without(Quoted(s), Space) = Quoted(s)
         /\ Without(Quoted(s), Quote) = s /\ Len(Quoted(s)) = Len(s) + 2 /\ Len(s) \in Nat
<1>0. s \in Texts /\ Lacks(s, Space) /\ Lacks(s, Quote) /\ Space \in Symbols /\ Quote \in Symbols
  BY Commas DEF Plain
<1>1. Without(s, Space) = s
  BY <1>0, WithoutSame
<1>2. Without(s, Quote) = s
  BY <1>0, WithoutSame
<1>3. /\ Quoted(s) \in Texts /\ Len(Quoted(s)) = Len(s) + 2 /\ Len(s) \in Nat
      /\ Without(Quoted(s), Quote) = Without(s, Quote)
      /\ \A d \in Symbols : d # Quote /\ Lacks(s, d) => Lacks(Quoted(s), d)
  BY <1>0, QuotedIs
<1>. DEFINE q == Quoted(s)
<1>. HIDE DEF q
<1>4. Lacks(q, Space)
  <2>1. Space # Quote
    BY DEF Space, Quote
  <2>. QED BY <1>0, <1>3, <2>1 DEF q
<1>5. Without(q, Space) = q
  BY <1>0, <1>3, <1>4, WithoutSame DEF q
<1>. QED BY <1>1, <1>2, <1>3, <1>5 DEF q

\* What the parser of the card's answer works on.
CardText(l) == Then(Then(ATRemoveAllWhiteSpaces(l), ATRemovePrefix), ATRemoveAllDoubleQuote)

\* A line without spaces, and then without quotes.
LEMMA CardTextIs ==
  ASSUME NEW b \in Texts, NEW u, Without(b, Space) = u, NEW v, Without(u, Quote) = v,
         NEW r, r = CardText(Plus("+CRSM") \o b), r.st = "SUCCESS"
  PROVE  r.s = v /\ Len(u) <= MaxString
<1>. DEFINE w == "+CRSM"
            l == Plus(w) \o b
            a == Then(ATRemoveAllWhiteSpaces(l), ATRemovePrefix)
<1>1. w \in Names
  BY DEF Names
<1>. HIDE DEF w
<1>2. r = IF a.st = "SUCCESS" THEN ATRemoveAllDoubleQuote(a.s) ELSE a
  BY DEF CardText, Then, w
<1>3. a.st = "SUCCESS" => a.s = u
  <2>1. ASSUME a.st = "SUCCESS" PROVE a.s = Without(b, Space)
    BY <1>1, <2>1, SpacesOff
  <2>. QED BY <2>1
<1>. HIDE DEF a
<1>4. r = ATRemoveAllDoubleQuote(u)
  BY <1>2, <1>3
<1>5. r = IF Valid(u) THEN Ok(v) ELSE Fail("BAD_PARAMETER", u)
  BY <1>4 DEF ATRemoveAllDoubleQuote, OfValid
<1>6. Valid(u) /\ r = Ok(v)
  BY <1>5, OkIs
<1>. QED BY <1>6, OkIs DEF Valid

\* The three parts of an answer, and the two of an error's.
LEMMA CardTokens ==
  ASSUME NEW a, Plain(a), NEW b, Plain(b), NEW c, Plain(c), c # <<>>,
         NEW r, r = CardText(Plus("+CRSM") \o Comma(a, Comma(b, Quoted(c)))), r.st = "SUCCESS"
  PROVE  Tokens(r.s, 3) = <<a, b, c>>
<1>. DEFINE q == Quoted(c)
            s1 == Comma(b, q)
            s == Comma(a, s1)
            t1 == Comma(b, c)
            t == Comma(a, t1)
<1>0. a \in Texts /\ b \in Texts /\ c \in Texts /\ Param(a) /\ Param(b) /\ Param(c)
  BY DEF Plain, Param
<1>1. Without(a, Space) = a /\ Without(a, Quote) = a /\ Len(a) \in Nat
  BY PlainSame
<1>2. Without(b, Space) = b /\ Without(b, Quote) = b /\ Len(b) \in Nat
  BY PlainSame
<1>3. q \in Texts /\ Without(q, Space) = q /\ Without(q, Quote) = c /\ Len(q) = Len(c) + 2 /\ Len(c) \in Nat
  BY PlainSame
<1>4. NoComma(Space) /\ NoComma(Quote)
  BY Commas DEF NoComma, Space, Quote
<1>. HIDE DEF q
<1>5. s1 \in Texts /\ Without(s1, Space) = s1
  BY <1>0, <1>2, <1>3, <1>4, CommaOut
<1>6. Without(s1, Quote) = t1
  BY <1>0, <1>2, <1>3, <1>4, CommaOut
<1>7. Len(s1) = Len(b) + 1 + Len(q)
  BY <1>0, <1>3, CommaIs
<1>. HIDE DEF s1, t1
<1>8. s \in Texts /\ Without(s, Space) = s
  BY <1>0, <1>1, <1>4, <1>5, CommaOut
<1>9. Without(s, Quote) = t
  BY <1>0, <1>1, <1>4, <1>5, <1>6, CommaOut
<1>10. Len(s) = Len(a) + 1 + Len(s1)
  BY <1>0, <1>5, CommaIs
<1>11. r = CardText(Plus("+CRSM") \o s)
  BY DEF s, s1, q
<1>. HIDE DEF s, t
<1>12. r.s = t /\ Len(s) <= MaxString
  BY <1>8, <1>9, <1>11, CardTextIs
<1>13. Len(a) + Len(b) + Len(c) + 2 <= MaxString
  BY <1>1, <1>2, <1>3, <1>7, <1>10, <1>12, TextAssumption
<1>14. 3 \in Nat /\ 3 >= 3
  OBVIOUS
<1>. DEFINE n == 3
<1>. HIDE DEF n
<1>15. Tokens(Comma(a, Comma(b, c)), n) = <<a, b, c>>
  BY <1>0, <1>13, <1>14, TokensOfThree DEF n
<1>. QED BY <1>12, <1>15 DEF t, t1, n

LEMMA ErrorTokens ==
  ASSUME NEW a, Plain(a), NEW b, Plain(b), b # <<>>,
         NEW r, r = CardText(Plus("+CRSM") \o Comma(a, b)), r.st = "SUCCESS"
  PROVE  Tokens(r.s, 3) = <<a, b>>
<1>. DEFINE s == Comma(a, b)
<1>0. a \in Texts /\ b \in Texts /\ Param(a) /\ Param(b)
  BY DEF Plain, Param
<1>1. Without(a, Space) = a /\ Without(a, Quote) = a /\ Len(a) \in Nat
  BY PlainSame
<1>2. Without(b, Space) = b /\ Without(b, Quote) = b /\ Len(b) \in Nat
  BY PlainSame
<1>4. NoComma(Space) /\ NoComma(Quote)
  BY Commas DEF NoComma, Space, Quote
<1>5. s \in Texts /\ Without(s, Space) = s
  BY <1>0, <1>1, <1>2, <1>4, CommaOut
<1>6. Without(s, Quote) = s
  BY <1>0, <1>1, <1>2, <1>4, CommaOut
<1>7. Len(s) = Len(a) + 1 + Len(b)
  BY <1>0, CommaIs
<1>. HIDE DEF s
<1>8. r = CardText(Plus("+CRSM") \o s)
  BY DEF s
<1>9. r.s = s /\ Len(s) <= MaxString
  BY <1>5, <1>6, <1>8, CardTextIs
<1>10. Len(a) + 1 + Len(b) <= MaxString /\ Len(b) <= MaxString
  BY <1>1, <1>2, <1>7, <1>9, TextAssumption
<1>11. NextTok(At(s, <<>>)) = At(b, <<a>>)
  <2>1. NextTok(At(Comma(a, b), <<>>)) = At(b, Append(<<>>, a))
    BY <1>0, <1>10, NextIs
  <2>. QED BY <2>1, Appended DEF s
<1>12. NextTok(At(b, <<a>>)) = At(<<>>, <<a, b>>)
  <2>. DEFINE t == <<a>>
  <2>0. Append(t, b) = <<a, b>>
    BY Appended
  <2>. HIDE DEF t
  <2>1. NextTok(At(b, t)) = At(<<>>, Append(t, b))
    BY <1>0, <1>10, NextLast
  <2>. QED BY <2>0, <2>1 DEF t
<1>. DEFINE x0 == At(s, <<>>)
            x1 == At(b, <<a>>)
            x2 == At(<<>>, <<a, b>>)
            f == Row(x0, x1, x2, x2, x2, x2)
            w == <<a, b>>
<1>. HIDE DEF x0, x1, x2
<1>13. f[0] = x0 /\ f[1] = x1 /\ f[2] = x2
  BY RowIs
<1>. HIDE DEF f
<1>14. \A i \in 1 .. 2 : f[i] = NextTok(f[i - 1])
  <2>1. 1 - 1 = 0 /\ 2 - 1 = 1 /\ \A i \in 1 .. 2 : i = 1 \/ i = 2
    OBVIOUS
  <2>2. f[1] = NextTok(f[0]) /\ f[2] = NextTok(f[1])
    BY <1>11, <1>12, <1>13 DEF x0, x1, x2
  <2>. QED BY <2>1, <2>2
<1>. DEFINE n == 3
<1>15. f[2] = At(<<>>, w) /\ 2 \in 0 .. n /\ n \in Nat /\ f[0] = At(s, <<>>)
  BY <1>13 DEF x0, x2
<1>. HIDE DEF w, n
<1>16. Tokens(s, n) = w
  BY <1>14, <1>15, TokensEnd
<1>. QED BY <1>9, <1>16 DEF w, n

LEMMA SeqOfTwo ==
  ASSUME NEW S, NEW s \in Seq(S), Len(s) = 2
  PROVE  s = <<s[1], s[2]>>
<1>. DEFINE x == s[1]
            y == s[2]
            t == <<x, y>>
<1>1. x \in S /\ y \in S
  <2>1. 1 \in 1 .. Len(s) /\ 2 \in 1 .. Len(s)
    OBVIOUS
  <2>2. s[1] \in S
    BY <2>1, ElementOfSeq
  <2>3. s[2] \in S
    BY <2>1, ElementOfSeq
  <2>. QED BY <2>2, <2>3
<1>. HIDE DEF x, y
<1>2. t \in Seq(S) /\ Len(t) = 2 /\ t[1] = x /\ t[2] = y
  BY <1>1
<1>. HIDE DEF t
<1>3. \A i \in 1 .. Len(s) : s[i] = t[i]
  <2>1. \A i \in 1 .. 2 : i = 1 \/ i = 2
    OBVIOUS
  <2>. QED BY <1>2, <2>1 DEF x, y
<1>4. s = t
  BY <1>2, <1>3, SeqEqual
<1>. QED BY <1>4 DEF t, x, y

LEMMA SeqOfThree ==
  ASSUME NEW S, NEW s \in Seq(S), Len(s) = 3
  PROVE  s = <<s[1], s[2], s[3]>>
<1>. DEFINE x == s[1]
            y == s[2]
            z == s[3]
            t == <<x, y, z>>
<1>1. x \in S /\ y \in S /\ z \in S
  <2>1. 1 \in 1 .. Len(s) /\ 2 \in 1 .. Len(s) /\ 3 \in 1 .. Len(s)
    OBVIOUS
  <2>2. s[1] \in S
    BY <2>1, ElementOfSeq
  <2>3. s[2] \in S
    BY <2>1, ElementOfSeq
  <2>4. s[3] \in S
    BY <2>1, ElementOfSeq
  <2>. QED BY <2>2, <2>3, <2>4
<1>. HIDE DEF x, y, z
<1>2. t \in Seq(S) /\ Len(t) = 3 /\ t[1] = x /\ t[2] = y /\ t[3] = z
  BY <1>1
<1>. HIDE DEF t
<1>3. \A i \in 1 .. Len(s) : s[i] = t[i]
  <2>1. \A i \in 1 .. 3 : i = 1 \/ i = 2 \/ i = 3
    OBVIOUS
  <2>. QED BY <1>2, <2>1 DEF x, y, z
<1>4. s = t
  BY <1>2, <1>3, SeqEqual
<1>. QED BY <1>4 DEF t, x, y, z

\* The symbols of the PLMN on the card.
Ten(x1, x2, x3, x4, x5, x6, x7, x8, x9, x10) == <<x1, x2, x3, x4, x5, x6, x7, x8, x9, x10>>

TenHas(s, y1, y2, y3, y4, y5, y6) ==
  /\ s \in Seq(CardDigits) /\ Len(s) = 10
  /\ s[1] = y1 /\ s[2] = y2 /\ s[3] = y3 /\ s[4] = y4 /\ s[5] = y5 /\ s[6] = y6

LEMMA TenIs ==
  ASSUME NEW y1 \in CardDigits, NEW y2 \in CardDigits, NEW y3 \in CardDigits, NEW y4 \in CardDigits,
         NEW y5 \in CardDigits, NEW y6 \in CardDigits, NEW y7 \in CardDigits, NEW y8 \in CardDigits,
         NEW y9 \in CardDigits, NEW y10 \in CardDigits
  PROVE  TenHas(Ten(y1, y2, y3, y4, y5, y6, y7, y8, y9, y10), y1, y2, y3, y4, y5, y6)
BY DEF Ten, TenHas

SixF == <<"F", "F", "F", "F", "F", "F">>

\* The PLMN as the card has it is read as it is.
LEMMA HplmnRead ==
  ASSUME NEW p, IsPlmn(p)
  PROVE  /\ HplmnText(p) \in Seq(CardDigits) /\ HplmnText(p) # <<>>
         /\ ParseHplmn(HplmnText(p)) = <<p>>
<1>. DEFINE a == p.mcc
            b == p.mnc
            D == ToSet(Decimals)
            k == IF Len(b) = 3 THEN b[3] ELSE "F"
            s == Ten(a[2], a[1], k, a[3], b[2], b[1], "4", "0", "0", "0")
<1>1. /\ a \in Seq(D) /\ Len(a) = 3 /\ b \in Seq(D) /\ (Len(b) = 2 \/ Len(b) = 3)
      /\ p = [mcc |-> a, mnc |-> b]
  <2>1. a \in Digits({3}) /\ b \in Digits({2, 3}) /\ p = [mcc |-> a, mnc |-> b]
    BY DEF IsPlmn
  <2>. HIDE DEF a, b, D
  <2>2. \A L, x : x \in Digits(L) => x \in Seq(D) /\ Len(x) \in L
    BY DEF Digits, D
  <2>. DEFINE L3 == {3}
              L23 == {2, 3}
  <2>. HIDE DEF L3, L23
  <2>3. a \in Seq(D) /\ Len(a) \in L3
    BY <2>1, <2>2 DEF L3
  <2>4. b \in Seq(D) /\ Len(b) \in L23
    BY <2>1, <2>2 DEF L23
  <2>5. Len(a) = 3
    BY <2>3 DEF L3
  <2>6. Len(b) = 2 \/ Len(b) = 3
    BY <2>4 DEF L23
  <2>. QED BY <2>1, <2>3, <2>4, <2>5, <2>6
<1>2. D \subseteq CardDigits /\ "F" \in CardDigits /\ \A c \in D : c # "F"
  <2>1. D = {"0", "1", "2", "3", "4", "5", "6", "7", "8", "9"}
    BY DecimalsAre
  <2>2. \A c \in {"0", "1", "2", "3", "4", "5", "6", "7", "8", "9"} : c # "F"
    OBVIOUS
  <2>. QED BY <2>1, <2>2 DEF CardDigits
<1>3. HplmnText(p) = s
  BY DEF HplmnText, Ten
<1>. HIDE DEF D, a, b
<1>4. a[1] \in D /\ a[2] \in D /\ a[3] \in D /\ b[1] \in D /\ b[2] \in D /\ (Len(b) = 3 => b[3] \in D)
  <2>1. 1 \in 1 .. Len(a) /\ 2 \in 1 .. Len(a) /\ 3 \in 1 .. Len(a)
    BY <1>1
  <2>. DEFINE n == Len(b)
  <2>a. n = 2 \/ n = 3
    BY <1>1
  <2>. HIDE DEF n
  <2>b. 1 \in 1 .. n /\ 2 \in 1 .. n /\ (n = 3 => 3 \in 1 .. n)
    BY <2>a
  <2>2. 1 \in 1 .. Len(b) /\ 2 \in 1 .. Len(b) /\ (Len(b) = 3 => 3 \in 1 .. Len(b))
    BY <2>b DEF n
  <2>3. a[1] \in D /\ a[2] \in D /\ a[3] \in D
    BY <1>1, <2>1, ElementOfSeq
  <2>4. b[1] \in D /\ b[2] \in D
    BY <1>1, <2>2, ElementOfSeq
  <2>5. Len(b) = 3 => b[3] \in D
    BY <1>1, <2>2, ElementOfSeq
  <2>. QED BY <2>3, <2>4, <2>5
<1>5. k \in CardDigits
  BY <1>2, <1>4
<1>. HIDE DEF k
<1>6. /\ s \in Seq(CardDigits) /\ Len(s) = 10
      /\ s[1] = a[2] /\ s[2] = a[1] /\ s[3] = k /\ s[4] = a[3] /\ s[5] = b[2] /\ s[6] = b[1]
  <2>1. "4" \in CardDigits /\ "0" \in CardDigits
    BY CardDigitsAre
  <2>2. a[1] \in CardDigits /\ a[2] \in CardDigits /\ a[3] \in CardDigits /\ b[1] \in CardDigits
        /\ b[2] \in CardDigits
    BY <1>2, <1>4
  <2>3. \E a1, a2, a3, b1, b2 \in CardDigits :
           a1 = a[1] /\ a2 = a[2] /\ a3 = a[3] /\ b1 = b[1] /\ b2 = b[2]
    BY <2>2
  <2>4. PICK a1, a2, a3, b1, b2 \in CardDigits :
           a1 = a[1] /\ a2 = a[2] /\ a3 = a[3] /\ b1 = b[1] /\ b2 = b[2]
    BY <2>3
  <2>. DEFINE c4 == "4"
              c0 == "0"
  <2>5. c4 \in CardDigits /\ c0 \in CardDigits
    BY <2>1
  <2>. HIDE DEF c4, c0
  <2>6. TenHas(Ten(a2, a1, k, a3, b2, b1, c4, c0, c0, c0), a2, a1, k, a3, b2, b1)
    BY <1>5, <2>5, TenIs
  <2>7. TenHas(s, a2, a1, k, a3, b2, b1)
    BY <2>4, <2>6 DEF c4, c0
  <2>. QED BY <2>4, <2>7 DEF TenHas
<1>. HIDE DEF s
<1>7. SubSeq(s, 1, 6) # SixF
  <2>1. SubSeq(s, 1, 6)[1] = s[1]
    BY <1>6
  <2>2. SixF[1] = "F"
    BY DEF SixF
  <2>. QED BY <1>2, <1>4, <1>6, <2>1, <2>2
<1>8. ~(Len(s) < HplmnRatLength)
  BY <1>6 DEF HplmnRatLength
<1>. DEFINE u == <<s[6], s[5]>>
            x == <<s[2], s[1], s[4]>>
            y == IF s[3] # "F" THEN Append(u, s[3]) ELSE u
<1>9. ParseHplmn(s) = << [mcc |-> x, mnc |-> y] >>
  BY <1>7, <1>8 DEF ParseHplmn, SixF
<1>10. x = a
  BY <1>1, <1>6, SeqOfThree
<1>11. y = b
  <2>1. u = <<b[1], b[2]>>
    BY <1>6
  <2>2. CASE Len(b) = 3
    <3>1. s[3] = b[3] /\ s[3] # "F"
      BY <1>2, <1>4, <1>6, <2>2 DEF k
    <3>2. b = <<b[1], b[2], b[3]>>
      BY <1>1, <2>2, SeqOfThree
    <3>. DEFINE b1 == b[1]
                b2 == b[2]
                b3 == b[3]
    <3>. HIDE DEF b1, b2, b3
    <3>3. Append(<<b1, b2>>, b3) = <<b1, b2, b3>>
      BY Appended
    <3>4. y = Append(u, s[3])
      BY <3>1
    <3>. QED BY <2>1, <3>1, <3>2, <3>3, <3>4 DEF b1, b2, b3
  <2>3. CASE Len(b) = 2
    <3>0. ~(Len(b) = 3)
      BY <2>3
    <3>1. s[3] = "F"
      BY <1>6, <3>0 DEF k
    <3>2. b = <<b[1], b[2]>>
      BY <1>1, <2>3, SeqOfTwo
    <3>. QED BY <2>1, <3>1, <3>2
  <2>. QED BY <1>1, <2>2, <2>3
<1>. HIDE DEF x, y
<1>12. ParseHplmn(s) = <<p>>
  BY <1>1, <1>9, <1>10, <1>11
<1>13. s # <<>>
  <2>1. Plain(s)
    BY <1>6, PlainIs
  <2>2. s \in Texts
    BY <2>1 DEF Plain
  <2>3. Len(s) >= 1
    BY <1>6
  <2>. QED BY <2>2, <2>3, Longer
<1>. QED BY <1>3, <1>6, <1>12, <1>13

\* A card with no PLMN.
TenF == [i \in 1 .. 10 |-> "F"]

LEMMA NoHplmn ==
  TenF \in Seq(CardDigits) /\ TenF # <<>> /\ ParseHplmn(TenF) = <<>>
<1>. DEFINE s == TenF
<1>1. s \in Seq(CardDigits) /\ Len(s) = 10 /\ \A i \in 1 .. 10 : s[i] = "F"
  <2>. DEFINE C == CardDigits
              F == "F"
              u == [i \in 1 .. 10 |-> F]
  <2>1. F \in C
    BY CardDigitsAre
  <2>. HIDE DEF C, F
  <2>2. u \in Seq(C) /\ Len(u) = 10 /\ \A i \in 1 .. 10 : u[i] = F
    BY <2>1
  <2>3. s = u
    BY DEF TenF, F
  <2>. HIDE DEF u, s
  <2>4. s \in Seq(C) /\ Len(s) = 10 /\ \A i \in 1 .. 10 : s[i] = F
    BY <2>2, <2>3
  <2>. QED BY <2>4 DEF C, F
<1>. HIDE DEF s
<1>2. s # <<>>
  <2>1. Plain(s)
    BY <1>1, PlainIs
  <2>2. s \in Texts
    BY <2>1 DEF Plain
  <2>3. Len(s) >= 1
    BY <1>1
  <2>. QED BY <2>2, <2>3, Longer
<1>3. SubSeq(s, 1, 6) = SixF
  <2>. DEFINE v == SubSeq(s, 1, 6)
              C == CardDigits
  <2>1. v \in Seq(C) /\ Len(v) = 6 /\ \A i \in 1 .. 6 : v[i] = s[i]
    BY <1>1
  <2>2. \A i \in 1 .. 6 : v[i] = "F"
    BY <1>1, <2>1
  <2>3. SixF \in Seq(C) /\ Len(SixF) = 6 /\ \A i \in 1 .. 6 : SixF[i] = "F"
    <3>1. "F" \in C
      BY CardDigitsAre
    <3>. QED BY <3>1 DEF SixF
  <2>. HIDE DEF v, C
  <2>4. v = SixF
    BY <2>1, <2>2, <2>3, SeqEqual
  <2>. QED BY <2>4 DEF v
<1>4. ParseHplmn(s) = <<>>
  BY <1>3 DEF ParseHplmn, SixF
<1>. QED BY <1>1, <1>2, <1>4 DEF s

\* What a good answer of the card has, and what becomes of it.
CardRead(k, o, r) ==
  /\ k[2] # <<"6", "4">> /\ ~(Len(k) < 3) /\ ParseHplmn(k[3]) # <<>>
  /\ r.out = Put(o, "plmn", ParseHplmn(k[3])[1])

LEMMA CardReadIs ==
  ASSUME NEW l, NEW o, NEW r, r = RecvFuncGetHplmn(l, o), r.pkt = "OK"
  PROVE  CardText(l).st = "SUCCESS" /\ \A k : k = Tokens(CardText(l).s, 3) /\ Len(k) \in Nat => CardRead(k, o, r)
<1>. DEFINE c == CardText(l)
            k == Tokens(c.s, 3)
            h == ParseHplmn(k[3])
            g == [o EXCEPT !.plmn = h[1]]
<1>1. r = IF c.st # "SUCCESS" THEN Parsed(c.st, o)
          ELSE IF Len(k) >= 1 /\ ~CheckCrsmReadStatus(k[1]) THEN Parsed("ERROR", o)
          ELSE IF Len(k) >= 2 /\ ~CheckCrsmMemoryStatus(k[2]) THEN Parsed("ERROR", o)
          ELSE IF Len(k) < 3 THEN Parsed("BAD_PARAMETER", o)
          ELSE IF h = <<>> THEN Parsed("ERROR", o)
          ELSE Parsed("SUCCESS", g)
  BY DEF RecvFuncGetHplmn, CardText
<1>. HIDE DEF g, h, k, c
<1>2. Parsed("ERROR", o).pkt # "OK" /\ Parsed("BAD_PARAMETER", o).pkt # "OK"
  BY Translated
<1>3. c.st = "SUCCESS"
  BY <1>1, Translated
<1>4. /\ ~(Len(k) >= 2 /\ ~CheckCrsmMemoryStatus(k[2])) /\ ~(Len(k) < 3) /\ h # <<>>
      /\ r = Parsed("SUCCESS", g)
  BY <1>1, <1>2, <1>3
<1>5. r.out = g
  BY <1>4 DEF Parsed
<1>6. Len(k) \in Nat => CheckCrsmMemoryStatus(k[2])
  BY <1>4
<1>7. Len(k) \in Nat => CardRead(k, o, r)
  <2>1. Len(k) \in Nat => k[2] # <<"6", "4">>
    BY <1>6 DEF CheckCrsmMemoryStatus
  <2>2. g = Put(o, "plmn", ParseHplmn(k[3])[1])
    BY DEF g, Put, h
  <2>3. ~(Len(k) < 3) /\ ParseHplmn(k[3]) # <<>>
    BY <1>4 DEF h
  <2>. QED BY <1>5, <2>1, <2>2, <2>3 DEF CardRead
<1>. QED BY <1>3, <1>7 DEF k, c

\* The answers of a card that has a PLMN, of one that could not be read and of one with none.
LEMMA CrsmOf ==
  ASSUME NEW a \in Seq(CardDigits), NEW b \in Seq(CardDigits), NEW c \in Seq(CardDigits), c # <<>>, NEW o,
         NEW r, r = RecvFuncGetHplmn(Plus("+CRSM") \o Comma(a, Comma(b, Quoted(c))), o), r.pkt = "OK"
  PROVE  b # <<"6", "4">> /\ ParseHplmn(c) # <<>> /\ r.out = Put(o, "plmn", ParseHplmn(c)[1])
<1>. DEFINE l == Plus("+CRSM") \o Comma(a, Comma(b, Quoted(c)))
            d == CardText(l)
            k == <<a, b, c>>
<1>1. d.st = "SUCCESS" /\ \A x : x = Tokens(d.s, 3) /\ Len(x) \in Nat => CardRead(x, o, r)
  <2>. HIDE DEF l
  <2>1. r = RecvFuncGetHplmn(l, o)
    BY DEF l
  <2>. QED BY <2>1, CardReadIs
<1>2. Tokens(d.s, 3) = k
  <2>1. Plain(a) /\ Plain(b) /\ Plain(c)
    BY PlainIs
  <2>. HIDE DEF d
  <2>2. d = CardText(Plus("+CRSM") \o Comma(a, Comma(b, Quoted(c))))
    BY DEF d
  <2>. QED BY <1>1, <2>1, <2>2, CardTokens
<1>. HIDE DEF d, l
<1>3. Len(k) \in Nat /\ k[2] = b /\ k[3] = c
  OBVIOUS
<1>. HIDE DEF k
<1>4. CardRead(k, o, r)
  BY <1>1, <1>2, <1>3
<1>. QED BY <1>3, <1>4 DEF CardRead

\* The answer of a card that has an error to tell.
LEMMA CrsmError ==
  ASSUME NEW a \in Seq(CardDigits), NEW b \in Seq(CardDigits), b # <<>>, NEW o,
         NEW r, r = RecvFuncGetHplmn(Plus("+CRSM") \o Comma(a, b), o), r.pkt = "OK"
  PROVE  FALSE
<1>. DEFINE l == Plus("+CRSM") \o Comma(a, b)
            d == CardText(l)
            k == <<a, b>>
<1>1. d.st = "SUCCESS" /\ \A x : x = Tokens(d.s, 3) /\ Len(x) \in Nat => CardRead(x, o, r)
  <2>. HIDE DEF l
  <2>1. r = RecvFuncGetHplmn(l, o)
    BY DEF l
  <2>. QED BY <2>1, CardReadIs
<1>2. Tokens(d.s, 3) = k
  <2>1. Plain(a) /\ Plain(b)
    BY PlainIs
  <2>. HIDE DEF d
  <2>2. d = CardText(Plus("+CRSM") \o Comma(a, b))
    BY DEF d
  <2>. QED BY <1>1, <2>1, <2>2, ErrorTokens
<1>. HIDE DEF d, l
<1>3. Len(k) = 2
  OBVIOUS
<1>. HIDE DEF k
<1>4. CardRead(k, o, r)
  BY <1>1, <1>2, <1>3
<1>. QED BY <1>3, <1>4 DEF CardRead

\* Short numbers of the card's answers.
LEMMA CardNumbers ==
  /\ <<"1", "4", "4">> \in Seq(CardDigits) /\ <<"1", "4", "6">> \in Seq(CardDigits)
  /\ <<"1", "0", "6">> \in Seq(CardDigits) /\ <<"1", "3", "0">> \in Seq(CardDigits)
  /\ <<"6", "4">> \in Seq(CardDigits) /\ <<"0">> \in Seq(CardDigits)
<1>. DEFINE C == CardDigits
<1>1. "0" \in C /\ "1" \in C /\ "3" \in C /\ "4" \in C /\ "6" \in C
  BY CardDigitsAre
<1>. HIDE DEF C
<1>2. /\ <<"1", "4", "4">> \in Seq(C) /\ <<"1", "4", "6">> \in Seq(C) /\ <<"1", "0", "6">> \in Seq(C)
      /\ <<"1", "3", "0">> \in Seq(C) /\ <<"6", "4">> \in Seq(C) /\ <<"0">> \in Seq(C)
  BY <1>1
<1>. QED BY <1>2 DEF C

LEMMA CrsmAsked ==
  ASSUME NEW m, NEW o, NEW r, AskedFor("AT+CRSM", m, o, r), r.pkt = "OK"
  PROVE  m.crsm = "good" /\ r.out = Put(o, "plmn", m.hplmn)
<1>. DEFINE w == "AT+CRSM"
            p == m.hplmn
            k == Plus("+CRSM") \o CrsmText(m)
            S == {k}
<1>1. w \notin SetCommands /\ Answers(m, w) = Lines(S)
  BY DEF SetCommands, Answers, Lines
<1>. HIDE DEF S, w
<1>2. Fine(m) /\ \E l \in S : FromLine(l, w, o, r)
  BY <1>1, LineOf DEF w
<1>3. FromLine(k, w, o, r)
  BY <1>2 DEF S
<1>4. r = RecvFuncGetHplmn(k, o)
  <2>. HIDE DEF k
  <2>. QED BY <1>3 DEF FromLine, Receive, w
<1>5. IsPlmn(p) /\ m.crsm \in {"good", "memory", "empty", "error"}
  BY <1>2 DEF Fine, IsModem
<1>. HIDE DEF p
<1>. DEFINE h == HplmnText(p)
            d == <<"1", "4", "4">>
            z == <<"0">>
            e == <<"1", "4", "6">>
            g == <<"6", "4">>
<1>6. h \in Seq(CardDigits) /\ h # <<>> /\ ParseHplmn(h) = <<p>>
  BY <1>5, HplmnRead
<1>7. d \in Seq(CardDigits) /\ z \in Seq(CardDigits) /\ e \in Seq(CardDigits) /\ g \in Seq(CardDigits)
  BY CardNumbers
<1>8. CASE m.crsm = "good"
  <2>1. k = Plus("+CRSM") \o Comma(d, Comma(z, Quoted(h)))
    BY <1>8 DEF CrsmText, p
  <2>. HIDE DEF d, z, h, k
  <2>2. r.out = Put(o, "plmn", ParseHplmn(h)[1])
    BY <1>4, <1>6, <1>7, <2>1, CrsmOf
  <2>3. ParseHplmn(h)[1] = p
    BY <1>6
  <2>. QED BY <1>8, <2>2, <2>3 DEF p
<1>9. CASE m.crsm = "memory"
  <2>1. k = Plus("+CRSM") \o Comma(e, Comma(g, Quoted(h)))
    BY <1>9 DEF CrsmText, p
  <2>. HIDE DEF e, g, h, k
  <2>2. g # <<"6", "4">>
    BY <1>4, <1>6, <1>7, <2>1, CrsmOf
  <2>. QED BY <2>2 DEF g
<1>10. CASE m.crsm = "empty"
  <2>. DEFINE f == TenF
  <2>1. k = Plus("+CRSM") \o Comma(d, Comma(z, Quoted(f)))
    BY <1>10 DEF CrsmText, TenF
  <2>. HIDE DEF d, z, f, k
  <2>2. f \in Seq(CardDigits) /\ f # <<>> /\ ParseHplmn(f) = <<>>
    BY NoHplmn DEF f
  <2>3. ParseHplmn(f) # <<>>
    BY <1>4, <1>7, <2>1, <2>2, CrsmOf
  <2>. QED BY <2>2, <2>3
<1>11. CASE m.crsm = "error"
  <2>. DEFINE x == <<"1", "0", "6">>
              y == <<"1", "3", "0">>
  <2>1. k = Plus("+CRSM") \o Comma(x, y)
    BY <1>11 DEF CrsmText
  <2>2. x \in Seq(CardDigits) /\ y \in Seq(CardDigits) /\ y # <<>>
    BY CardNumbers
  <2>. HIDE DEF x, y, k
  <2>. QED BY <1>4, <2>1, <2>2, CrsmError
<1>. QED BY <1>5, <1>8, <1>9, <1>10, <1>11

-----------------------------------------------------------------------------
(* Calls of several commands.                                                  *)

\* The commands cs were answered one after the other, all of them well: o[i] is the structure
\* after the i-th.
Gone(cs, f, mem, r) ==
  /\ r[0].out = f
  /\ \A i \in 1 .. Len(cs) : AskedFor(cs[i][1], mem[cs[i][1]], r[i - 1].out, r[i]) /\ r[i].pkt = "OK"

LEMMA GetterCalls ==
  ASSUME AnswersInv, NEW t \in Tasks, NEW op, op # "GetServiceStatus", op # "ATCommandRaw",
         Succeeded(t, {op}), NEW cs, NEW f, Query(req[t]) = Sends(cs, f), Len(cs) \in Nat, Len(cs) > 0,
         \A i \in 1 .. Len(cs) : cs[i][1] \notin SetCommands
  PROVE  \E r : Gone(cs, f, told[t], r) /\ out[t] = r[Len(cs)].out
<1>. DEFINE q == Query(req[t])
            k == q.commands
<1>1. req[t].op = op /\ Done(t)
  BY CallOf
<1>2. k = cs /\ q.fresh = f
  BY DEF Sends
<1>3a. PICK n \in 0 .. Len(k) : \E h, r :
        Went(t, n, h, r) /\ (op # "GetServiceStatus" => n = Len(k) /\ r[n].pkt = "OK")
  BY <1>1 DEF Done
<1>3. PICK h, r :
        Went(t, n, h, r) /\ (op # "GetServiceStatus" => n = Len(k) /\ r[n].pkt = "OK")
  BY <1>3a
<1>4. Chain(q, op, n, h, r, told[t]) /\ out[t] = r[n].out /\ \A i \in 1 .. n - 1 : r[i].pkt = "OK"
  BY <1>1, <1>3 DEF Went
<1>5. n = Len(cs) /\ r[n].pkt = "OK" /\ q.commands = cs
  BY <1>2, <1>3
<1>6. r[0].out = f
  BY <1>2, <1>4 DEF Chain
<1>. HIDE DEF q, k
<1>7. ASSUME NEW i \in 1 .. Len(cs)
      PROVE  AskedFor(cs[i][1], told[t][cs[i][1]], r[i - 1].out, r[i]) /\ r[i].pkt = "OK"
  <2>1. i \in 1 .. n /\ (i \in 1 .. n - 1 \/ i = n)
    BY <1>5
  <2>2. r[i].pkt = "OK"
    BY <1>4, <1>5, <2>1
  <2>. DEFINE w == cs[i][1]
  <2>3. w = q.commands[i][1] /\ w \notin SetCommands
    BY <1>5
  <2>. HIDE DEF w
  <2>4. AskedFor(w, told[t][w], r[i - 1].out, r[i])
    BY <1>4, <2>1, <2>3, Asking
  <2>. QED BY <2>2, <2>4 DEF w
<1>8. Gone(cs, f, told[t], r)
  BY <1>6, <1>7 DEF Gone
<1>. QED BY <1>4, <1>5, <1>8

LEMMA PutIs ==
  ASSUME NEW o, NEW x \in DOMAIN o, NEW v
  PROVE  /\ DOMAIN Put(o, x, v) = DOMAIN o /\ Put(o, x, v)[x] = v
         /\ \A y \in DOMAIN o : y # x => Put(o, x, v)[y] = o[y]
BY DEF Put

\* Four fields set one after the other.
LEMMA PutFour ==
  ASSUME NEW f, NEW x1 \in DOMAIN f, NEW x2 \in DOMAIN f, NEW x3 \in DOMAIN f, NEW x4 \in DOMAIN f,
         x1 # x2, x1 # x3, x1 # x4, x2 # x3, x2 # x4, x3 # x4, NEW v1, NEW v2, NEW v3, NEW v4,
         NEW o, o = Put(Put(Put(Put(f, x1, v1), x2, v2), x3, v3), x4, v4)
  PROVE  o[x1] = v1 /\ o[x2] = v2 /\ o[x3] = v3 /\ o[x4] = v4
<1>. DEFINE o1 == Put(f, x1, v1)
            o2 == Put(o1, x2, v2)
            o3 == Put(o2, x3, v3)
<1>1. DOMAIN o1 = DOMAIN f /\ o1[x1] = v1
  BY PutIs
<1>. HIDE DEF o1
<1>2. DOMAIN o2 = DOMAIN f /\ o2[x2] = v2 /\ o2[x1] = v1
  BY <1>1, PutIs
<1>. HIDE DEF o2
<1>3. DOMAIN o3 = DOMAIN f /\ o3[x3] = v3 /\ o3[x2] = v2 /\ o3[x1] = v1
  BY <1>2, PutIs
<1>. HIDE DEF o3
<1>4. o = Put(o3, x4, v4)
  BY DEF o3, o2, o1
<1>5. Put(o3, x4, v4)[x4] = v4 /\ \A y \in DOMAIN f : y # x4 => Put(o3, x4, v4)[y] = o3[y]
  BY <1>3, PutIs
<1>. QED BY <1>3, <1>4, <1>5

LEMMA PutThree ==
  ASSUME NEW f, NEW x1 \in DOMAIN f, NEW x2 \in DOMAIN f, NEW x3 \in DOMAIN f,
         x1 # x2, x1 # x3, x2 # x3, NEW v1, NEW v2, NEW v3,
         NEW o, o = Put(Put(Put(f, x1, v1), x2, v2), x3, v3)
  PROVE  o[x1] = v1 /\ o[x2] = v2 /\ o[x3] = v3
<1>. DEFINE o1 == Put(f, x1, v1)
            o2 == Put(o1, x2, v2)
<1>1. DOMAIN o1 = DOMAIN f /\ o1[x1] = v1
  BY PutIs
<1>. HIDE DEF o1
<1>2. DOMAIN o2 = DOMAIN f /\ o2[x2] = v2 /\ o2[x1] = v1
  BY <1>1, PutIs
<1>. HIDE DEF o2
<1>3. o = Put(o2, x3, v3)
  BY DEF o2, o1
<1>4. Put(o2, x3, v3)[x3] = v3 /\ \A y \in DOMAIN f : y # x3 => Put(o2, x3, v3)[y] = o2[y]
  BY <1>2, PutIs
<1>. QED BY <1>2, <1>3, <1>4

\* The commands of the two calls.
LEMMA FourOf ==
  ASSUME NEW a, NEW b, NEW c, NEW d, NEW cs, cs = <<a, b, c, d>>
  PROVE  Len(cs) = 4 /\ cs[1] = a /\ cs[2] = b /\ cs[3] = c /\ cs[4] = d /\ (\A i \in 1 .. Len(cs) : i \in {1, 2, 3, 4})
OBVIOUS

LEMMA ThreeOf ==
  ASSUME NEW a, NEW b, NEW c, NEW cs, cs = <<a, b, c>>
  PROVE  Len(cs) = 3 /\ cs[1] = a /\ cs[2] = b /\ cs[3] = c /\ (\A i \in 1 .. Len(cs) : i \in {1, 2, 3})
OBVIOUS

\* The names and the number of the modem.
ModemTold(o, m) ==
  /\ o.version = Cut(m["AT+CGMR"].version, Sizes.version)
  /\ o.imei = m["AT+CGSN"].imei
  /\ o.model = Cut(m["AT+CGMM"].model, Sizes.model)
  /\ o.maker = Cut(m["AT+CGMI"].maker, Sizes.maker)

LEMMA ModemFollows ==
  ASSUME AnswersInv, NEW t \in Tasks, Succeeded(t, {"GetModemInfo"})
  PROVE  ModemTold(out[t], told[t])
<1>. DEFINE op == "GetModemInfo"
            f == [version |-> <<>>, imei |-> <<>>, model |-> <<>>, maker |-> <<>>]
            c1 == <<"AT+CGMR">>
            c2 == <<"AT+CGSN">>
            c3 == <<"AT+CGMM">>
            c4 == <<"AT+CGMI">>
            cs == <<c1, c2, c3, c4>>
            m == told[t]
<1>1. req[t].op = "GetModemInfo" /\ ~req[t].null
  BY CallOf
<1>2. Query(req[t]) = GetModemInfo
  BY <1>1, QueryOf
<1>3. GetModemInfo = Sends(cs, f)
  BY DEF GetModemInfo
<1>4. c1[1] = "AT+CGMR" /\ c2[1] = "AT+CGSN" /\ c3[1] = "AT+CGMM" /\ c4[1] = "AT+CGMI"
  OBVIOUS
<1>5. DOMAIN f = {"version", "imei", "model", "maker"}
  OBVIOUS
<1>6. op # "GetServiceStatus" /\ op # "ATCommandRaw"
  OBVIOUS
<1>. HIDE DEF c1, c2, c3, c4, f
<1>7. /\ Len(cs) = 4 /\ cs[1] = c1 /\ cs[2] = c2 /\ cs[3] = c3 /\ cs[4] = c4
      /\ (\A i \in 1 .. Len(cs) : i \in {1, 2, 3, 4})
  BY FourOf
<1>. HIDE DEF cs
<1>8. \A i \in 1 .. Len(cs) : cs[i][1] \notin SetCommands
  <2>1. /\ cs[1][1] \notin SetCommands /\ cs[2][1] \notin SetCommands
        /\ cs[3][1] \notin SetCommands /\ cs[4][1] \notin SetCommands
    BY <1>4, <1>7 DEF SetCommands
  <2>. QED BY <1>7, <2>1
<1>9. Len(cs) \in Nat /\ Len(cs) > 0
  BY <1>7
<1>. HIDE DEF op
<1>10. \E r : Gone(cs, f, m, r) /\ out[t] = r[Len(cs)].out
  <2>1. Succeeded(t, {op})
    BY DEF op
  <2>. HIDE DEF m
  <2>2. Query(req[t]) = Sends(cs, f)
    BY <1>2, <1>3
  <2>3. \E r : Gone(cs, f, told[t], r) /\ out[t] = r[Len(cs)].out
    BY <1>6, <1>8, <1>9, <2>1, <2>2, GetterCalls
  <2>. QED BY <2>3 DEF m
<1>11. PICK r : Gone(cs, f, m, r) /\ out[t] = r[Len(cs)].out
  BY <1>10
<1>. HIDE DEF m
<1>12. /\ 1 \in 1 .. Len(cs) /\ 2 \in 1 .. Len(cs) /\ 3 \in 1 .. Len(cs) /\ 4 \in 1 .. Len(cs)
       /\ 1 - 1 = 0 /\ 2 - 1 = 1 /\ 3 - 1 = 2 /\ 4 - 1 = 3
  BY <1>7
<1>13. \A i \in 1 .. Len(cs) : AskedFor(cs[i][1], m[cs[i][1]], r[i - 1].out, r[i]) /\ r[i].pkt = "OK"
  BY <1>11 DEF Gone
<1>. DEFINE v1 == Cut(m["AT+CGMR"].version, Sizes.version)
            v2 == m["AT+CGSN"].imei
            v3 == Cut(m["AT+CGMM"].model, Sizes.model)
            v4 == Cut(m["AT+CGMI"].maker, Sizes.maker)
<1>14. r[1].out = Put(f, "version", v1)
  <2>1. AskedFor("AT+CGMR", m["AT+CGMR"], f, r[1]) /\ r[1].pkt = "OK"
    BY <1>4, <1>7, <1>11, <1>12, <1>13 DEF Gone
  <2>. QED BY <2>1, VersionAsked
<1>15. r[2].out = Put(r[1].out, "imei", v2)
  <2>1. AskedFor("AT+CGSN", m["AT+CGSN"], r[1].out, r[2]) /\ r[2].pkt = "OK"
    BY <1>4, <1>7, <1>12, <1>13
  <2>. QED BY <2>1, ImeiAsked
<1>16. r[3].out = Put(r[2].out, "model", v3)
  <2>1. AskedFor("AT+CGMM", m["AT+CGMM"], r[2].out, r[3]) /\ r[3].pkt = "OK"
    BY <1>4, <1>7, <1>12, <1>13
  <2>. QED BY <2>1, ModelAsked
<1>17. r[4].out = Put(r[3].out, "maker", v4)
  <2>1. AskedFor("AT+CGMI", m["AT+CGMI"], r[3].out, r[4]) /\ r[4].pkt = "OK"
    BY <1>4, <1>7, <1>12, <1>13
  <2>. QED BY <2>1, MakerAsked
<1>. DEFINE x1 == "version"
            x2 == "imei"
            x3 == "model"
            x4 == "maker"
            o == out[t]
<1>18. /\ x1 \in DOMAIN f /\ x2 \in DOMAIN f /\ x3 \in DOMAIN f /\ x4 \in DOMAIN f
       /\ x1 # x2 /\ x1 # x3 /\ x1 # x4 /\ x2 # x3 /\ x2 # x4 /\ x3 # x4
  BY <1>5
<1>. HIDE DEF v1, v2, v3, v4, x1, x2, x3, x4
<1>19. o = Put(Put(Put(Put(f, x1, v1), x2, v2), x3, v3), x4, v4)
  BY <1>7, <1>11, <1>14, <1>15, <1>16, <1>17 DEF x1, x2, x3, x4
<1>. HIDE DEF o
<1>20. o[x1] = v1 /\ o[x2] = v2 /\ o[x3] = v3 /\ o[x4] = v4
  BY <1>18, <1>19, PutFour
<1>21. ModemTold(o, m)
  BY <1>20 DEF ModemTold, v1, v2, v3, v4, x1, x2, x3, x4
<1>. QED BY <1>21 DEF o, m

\* The numbers of the card, and the PLMN it has.
CardTold(o, m) ==
  /\ o.imsi = m["AT+CIMI"].imsi
  /\ m["AT+CRSM"].crsm = "good" /\ o.plmn = m["AT+CRSM"].hplmn
  /\ o.iccid = m["AT+CCID"].iccid

LEMMA CardFollows ==
  ASSUME AnswersInv, NEW t \in Tasks, Succeeded(t, {"GetSimCardInfo"})
  PROVE  CardTold(out[t], told[t])
<1>. DEFINE op == "GetSimCardInfo"
            f == [imsi |-> <<>>, plmn |-> NoPlmn, iccid |-> <<>>]
            c1 == <<"AT+CIMI">>
            c2 == <<"AT+CRSM">>
            c3 == <<"AT+CCID">>
            cs == <<c1, c2, c3>>
            m == told[t]
<1>1. req[t].op = "GetSimCardInfo" /\ ~req[t].null
  BY CallOf
<1>2. Query(req[t]) = GetSimCardInfo
  BY <1>1, QueryOf
<1>3. GetSimCardInfo = Sends(cs, f)
  BY DEF GetSimCardInfo
<1>4. c1[1] = "AT+CIMI" /\ c2[1] = "AT+CRSM" /\ c3[1] = "AT+CCID"
  OBVIOUS
<1>5. DOMAIN f = {"imsi", "plmn", "iccid"}
  OBVIOUS
<1>6. op # "GetServiceStatus" /\ op # "ATCommandRaw"
  OBVIOUS
<1>. HIDE DEF c1, c2, c3, f
<1>7. /\ Len(cs) = 3 /\ cs[1] = c1 /\ cs[2] = c2 /\ cs[3] = c3
      /\ (\A i \in 1 .. Len(cs) : i \in {1, 2, 3})
  BY ThreeOf
<1>. HIDE DEF cs
<1>8. \A i \in 1 .. Len(cs) : cs[i][1] \notin SetCommands
  <2>1. cs[1][1] \notin SetCommands /\ cs[2][1] \notin SetCommands /\ cs[3][1] \notin SetCommands
    BY <1>4, <1>7 DEF SetCommands
  <2>. QED BY <1>7, <2>1
<1>9. Len(cs) \in Nat /\ Len(cs) > 0
  BY <1>7
<1>. HIDE DEF op
<1>10. \E r : Gone(cs, f, m, r) /\ out[t] = r[Len(cs)].out
  <2>1. Succeeded(t, {op})
    BY DEF op
  <2>. HIDE DEF m
  <2>2. Query(req[t]) = Sends(cs, f)
    BY <1>2, <1>3
  <2>3. \E r : Gone(cs, f, told[t], r) /\ out[t] = r[Len(cs)].out
    BY <1>6, <1>8, <1>9, <2>1, <2>2, GetterCalls
  <2>. QED BY <2>3 DEF m
<1>11. PICK r : Gone(cs, f, m, r) /\ out[t] = r[Len(cs)].out
  BY <1>10
<1>. HIDE DEF m
<1>12. /\ 1 \in 1 .. Len(cs) /\ 2 \in 1 .. Len(cs) /\ 3 \in 1 .. Len(cs)
       /\ 1 - 1 = 0 /\ 2 - 1 = 1 /\ 3 - 1 = 2
  BY <1>7
<1>13. \A i \in 1 .. Len(cs) : AskedFor(cs[i][1], m[cs[i][1]], r[i - 1].out, r[i]) /\ r[i].pkt = "OK"
  BY <1>11 DEF Gone
<1>. DEFINE v1 == m["AT+CIMI"].imsi
            v2 == m["AT+CRSM"].hplmn
            v3 == m["AT+CCID"].iccid
<1>14. r[1].out = Put(f, "imsi", v1)
  <2>1. AskedFor("AT+CIMI", m["AT+CIMI"], f, r[1]) /\ r[1].pkt = "OK"
    BY <1>4, <1>7, <1>11, <1>12, <1>13 DEF Gone
  <2>. QED BY <2>1, ImsiAsked
<1>15. m["AT+CRSM"].crsm = "good" /\ r[2].out = Put(r[1].out, "plmn", v2)
  <2>1. AskedFor("AT+CRSM", m["AT+CRSM"], r[1].out, r[2]) /\ r[2].pkt = "OK"
    BY <1>4, <1>7, <1>12, <1>13
  <2>. QED BY <2>1, CrsmAsked
<1>16. r[3].out = Put(r[2].out, "iccid", v3)
  <2>1. AskedFor("AT+CCID", m["AT+CCID"], r[2].out, r[3]) /\ r[3].pkt = "OK"
    BY <1>4, <1>7, <1>12, <1>13
  <2>. QED BY <2>1, IccidAsked
<1>. DEFINE x1 == "imsi"
            x2 == "plmn"
            x3 == "iccid"
            o == out[t]
<1>17. /\ x1 \in DOMAIN f /\ x2 \in DOMAIN f /\ x3 \in DOMAIN f
       /\ x1 # x2 /\ x1 # x3 /\ x2 # x3
  BY <1>5
<1>. HIDE DEF v1, v2, v3, x1, x2, x3
<1>18. o = Put(Put(Put(f, x1, v1), x2, v2), x3, v3)
  BY <1>7, <1>11, <1>14, <1>15, <1>16 DEF x1, x2, x3
<1>. HIDE DEF o
<1>19. o[x1] = v1 /\ o[x2] = v2 /\ o[x3] = v3
  BY <1>17, <1>18, PutThree
<1>20. CardTold(o, m)
  BY <1>15, <1>19 DEF CardTold, v1, v2, v3, x1, x2, x3
<1>. QED BY <1>20 DEF o, m

-----------------------------------------------------------------------------
(* The address.                                                                *)

LEMMA AddressRead ==
  ASSUME NEW s \in Texts, NEW o, NEW r, r = RecvFuncIpAddress(Plus("+CGPADDR") \o s, o), r.pkt = "OK"
  PROVE  /\ Len(s) + 3 <= MaxString
         /\ r.out = Put(o, "ip", Cut(ATGetNextTok(Cat(<<Space>>, s)).s, Sizes.ip))
<1>. DEFINE w == "+CGPADDR"
            l == Plus(w) \o s
            t == Cat(<<Space>>, s)
            a == ATRemovePrefix(l)
            k == ATGetNextTok(a.s)
            g == [o EXCEPT !.ip = Cut(k.s, Sizes.ip)]
<1>1. w \in Names
  BY DEF Names
<1>2. r = IF a.st # "SUCCESS" THEN Parsed(a.st, o)
          ELSE IF k.st # "SUCCESS" THEN Parsed(k.st, o)
          ELSE Parsed("SUCCESS", g)
  BY DEF RecvFuncIpAddress
<1>. HIDE DEF w
<1>3. a = IF Len(s) + 3 <= MaxString THEN Ok(t) ELSE Fail("BAD_PARAMETER", l)
  BY <1>1, PlusIs DEF Cat
<1>. HIDE DEF l, t, a, k, g
<1>4. a.st = "SUCCESS" /\ r = Parsed("SUCCESS", g)
  BY <1>2, Translated
<1>5. Len(s) + 3 <= MaxString /\ a = Ok(t)
  BY <1>3, <1>4, OkIs
<1>6. r.out = g
  BY <1>4 DEF Parsed
<1>7. g = Put(o, "ip", Cut(ATGetNextTok(t).s, Sizes.ip))
  BY <1>5, OkIs DEF g, k, Put
<1>. QED BY <1>5, <1>6, <1>7 DEF t

\* The number of the context, and the space before it.
One == Cat(<<Space>>, <<"1">>)

LEMMA OneIs == Param(One) /\ Len(One) = 2 /\ One # <<>> /\ <<"1">> \in Texts /\ Len(<<"1">>) = 1
<1>. DEFINE d == "1"
            g == <<d>>
            f == <<Space>>
<1>1. d \in Symbols /\ Space \in Symbols
  BY SymbolsAre DEF Literals, Space
<1>2. DecDigits[1] = g
  BY DEF DecDigits, Decimals
<1>. HIDE DEF d
<1>3. g \in Texts /\ Len(g) = 1 /\ f \in Texts /\ Len(f) = 1
  BY <1>1, Single
<1>4. One = Cat(f, g)
  BY DEF One, d
<1>. HIDE DEF g, f
<1>5. Len(f \o g) = Len(f) + Len(g) /\ f \o g \in Texts
  BY <1>3, Joined
<1>6. Len(One) = 2 /\ One \in Texts
  BY <1>3, <1>4, <1>5 DEF Cat
<1>7. 1 \in 0 .. 99
  OBVIOUS
<1>8. Param(Cat(f, DecDigits[1]))
  BY <1>7, SpacedNumber DEF f
<1>9. Param(One)
  BY <1>2, <1>4, <1>8
<1>10. One # <<>>
  BY <1>6, Longer
<1>. QED BY <1>3, <1>6, <1>9, <1>10 DEF g, d

\* No address, and an address after the number.
LEMMA NoAddress ==
  ASSUME MaxString >= 2
  PROVE  ATGetNextTok(Cat(<<Space>>, <<"1">>)).s = <<>>
<1>. DEFINE z == ","
<1>1. One \in Texts /\ Lacks(One, z) /\ z \in Symbols /\ One # <<>> /\ Len(One) <= MaxString
  BY OneIs, Commas DEF Param
<1>. HIDE DEF z
<1>2. ATGetSpecificNextTok(One, z) = [st |-> "SUCCESS", tok |-> One, s |-> <<>>]
  BY <1>1, LastToken
<1>3. ATGetNextTok(One) = ATGetSpecificNextTok(One, z)
  BY DEF ATGetNextTok, z
<1>4. ATGetNextTok(One).s = <<>>
  BY <1>2, <1>3
<1>. QED BY <1>4 DEF One

LEMMA AddressAfter ==
  ASSUME NEW x \in Texts, Len(x) + 3 <= MaxString
  PROVE  ATGetNextTok(Cat(<<Space>>, Comma(<<"1">>, x))).s = x
<1>. DEFINE z == ","
            q == One \o <<z>> \o x
<1>1. One \in Texts /\ Lacks(One, z) /\ z \in Symbols /\ Len(One) = 2 /\ <<"1">> \in Texts
  BY OneIs, Commas DEF Param
<1>2. Cat(<<Space>>, Comma(<<"1">>, x)) = Comma(One, x)
  BY <1>1, SpaceBefore DEF One
<1>3. Comma(One, x) = q
  BY DEF Comma
<1>4. Len(One) + 1 + Len(x) <= MaxString
  <2>1. Len(x) \in Nat
    BY DEF Texts
  <2>. DEFINE n == Len(One)
              k == Len(x)
  <2>2. n = 2 /\ k \in Nat /\ k + 3 <= MaxString
    BY <1>1, <2>1
  <2>. HIDE DEF n, k
  <2>3. n + 1 + k <= MaxString
    BY <2>2, TextAssumption
  <2>. QED BY <2>3 DEF n, k
<1>. HIDE DEF z
<1>5. ATGetSpecificNextTok(q, z) = [st |-> "SUCCESS", tok |-> One, s |-> x]
  BY <1>1, <1>4, FirstToken
<1>. HIDE DEF q
<1>6a. ATGetNextTok(q) = ATGetSpecificNextTok(q, z)
  BY DEF ATGetNextTok, z
<1>6. ATGetNextTok(q).s = x
  BY <1>5, <1>6a
<1>. QED BY <1>2, <1>3, <1>6

LEMMA AddressAsked ==
  ASSUME NEW m, NEW o, NEW r, AskedFor("AT+CGPADDR=", m, o, r), r.pkt = "OK"
  PROVE  \E v : r.out = Put(o, "ip", v) /\ Unquoted(v) = m.ip
<1>. DEFINE w == "AT+CGPADDR="
            v == m.ip
            e == <<"1">>
            T == IF v = <<>> THEN {e} ELSE { Comma(e, v), Comma(e, Quoted(v)) }
            S == { Plus("+CGPADDR") \o s : s \in T }
<1>1. w \notin SetCommands /\ Answers(m, w) = Lines(S)
  <2>1. w \notin SetCommands
    BY DEF SetCommands
  <2>2. Answers(m, w) = { << Plus("+CGPADDR") \o s >> : s \in T }
    BY DEF Answers
  <2>. HIDE DEF T, w
  <2>3. Lines(S) = { << Plus("+CGPADDR") \o s >> : s \in T }
    <3>. DEFINE F(s) == Plus("+CGPADDR") \o s
    <3>. HIDE DEF F
    <3>1. { <<y>> : y \in { F(s) : s \in T } } = { <<F(s)>> : s \in T }
      OBVIOUS
    <3>. QED BY <3>1 DEF F, Lines
  <2>. QED BY <2>1, <2>2, <2>3
<1>2a. v \in Texts /\ Lacks(v, Quote) /\ Len(v) + 2 <= Sizes.ip
  <2>. HIDE DEF S, w, v
  <2>1. Fine(m) /\ \E l \in S : FromLine(l, w, o, r)
    BY <1>1, LineOf DEF w
  <2>. QED BY <2>1, TextIs DEF Fine, IsModem, v
<1>. HIDE DEF S, w, v, T
<1>2. Fine(m) /\ \E l \in S : FromLine(l, w, o, r)
  BY <1>1, LineOf DEF w
<1>3. PICK l \in S : FromLine(l, w, o, r)
  BY <1>2
<1>4. r = RecvFuncIpAddress(l, o)
  BY <1>3 DEF FromLine, Receive, w
<1>5. PICK s \in T : l = Plus("+CGPADDR") \o s
  BY DEF S
<1>6. e \in Texts /\ Len(e) = 1
  BY OneIs
<1>. HIDE DEF e
<1>. DEFINE q == Quoted(v)
<1>7. q \in Texts /\ Len(q) = Len(v) + 2 /\ Len(v) \in Nat /\ Without(q, Quote) = Without(v, Quote)
  BY <1>2a, QuotedIs
<1>8. Without(v, Quote) = v
  BY <1>2a, Commas, WithoutSame
<1>9. Sizes.ip \in Nat
  BY SizeAssumption
<1>10. T = IF v = <<>> THEN {e} ELSE { Comma(e, v), Comma(e, q) }
  BY DEF T
<1>. HIDE DEF q
<1>11. (s = e /\ v = <<>>) \/ \E x \in {v, q} : s = Comma(e, x)
  BY <1>5, <1>10
<1>12. \A x \in {v, q} : x \in Texts /\ Len(x) <= Sizes.ip /\ Len(x) \in Nat /\ Without(x, Quote) = v
  BY <1>2a, <1>7, <1>8, <1>9
<1>13. CASE s = e /\ v = <<>>
  <2>1. Len(s) + 3 <= MaxString /\ r.out = Put(o, "ip", Cut(ATGetNextTok(Cat(<<Space>>, s)).s, Sizes.ip))
    BY <1>4, <1>5, <1>6, <1>13, AddressRead
  <2>2. MaxString >= 2
    BY <1>6, <1>13, <2>1, TextAssumption
  <2>3. ATGetNextTok(Cat(<<Space>>, s)).s = v
    BY <1>13, <2>2, NoAddress DEF e
  <2>4. Cut(v, Sizes.ip) = v
    BY <1>9, <1>12, CutWhole
  <2>5. r.out = Put(o, "ip", v)
    BY <2>1, <2>3, <2>4
  <2>6. Unquoted(v) = v
    BY <1>8 DEF Unquoted
  <2>. QED BY <2>5, <2>6 DEF v
<1>14. ASSUME NEW x \in {v, q}, s = Comma(e, x)
       PROVE  \E u : r.out = Put(o, "ip", u) /\ Unquoted(u) = v
  <2>0. x \in Texts /\ Len(x) <= Sizes.ip /\ Len(x) \in Nat /\ Without(x, Quote) = v
    BY <1>12
  <2>1. Comma(e, x) \in Texts /\ Len(Comma(e, x)) = 1 + 1 + Len(x)
    BY <1>6, <2>0, CommaIs
  <2>2. Len(s) + 3 <= MaxString /\ r.out = Put(o, "ip", Cut(ATGetNextTok(Cat(<<Space>>, s)).s, Sizes.ip))
    BY <1>4, <1>5, <1>14, <2>1, AddressRead
  <2>3. Len(x) + 3 <= MaxString
    BY <1>14, <2>0, <2>1, <2>2, TextAssumption
  <2>4. ATGetNextTok(Cat(<<Space>>, s)).s = x
    BY <1>14, <2>0, <2>3, AddressAfter DEF e
  <2>5. Cut(x, Sizes.ip) = x
    BY <1>9, <2>0, CutWhole
  <2>. QED BY <2>0, <2>2, <2>4, <2>5 DEF Unquoted
<1>. QED BY <1>11, <1>13, <1>14 DEF v

LEMMA AddressFollows ==
  ASSUME AnswersInv, NEW t \in Tasks, Succeeded(t, {"GetIPAddress"})
  PROVE  Unquoted(out[t].ip) = told[t]["AT+CGPADDR="].ip
<1>. DEFINE op == "GetIPAddress"
            w == "AT+CGPADDR="
            f == [ip |-> <<>>]
            cid == req[t].arg.cid
            c == <<w>> \o DecDigits[cid]
<1>1. req[t].op = "GetIPAddress" /\ ~req[t].null /\ Query(req[t]).refusal = "no"
  BY CallOf
<1>2. Query(req[t]) = GetIPAddress(cid)
  BY <1>1, QueryOf
<1>3. IsValidPdn(cid)
  BY <1>1, <1>2 DEF GetIPAddress, Refused
<1>4. Query(req[t]) = Sends(<<c>>, f)
  BY <1>2, <1>3 DEF GetIPAddress
<1>5. c[1] = w
  <2>1. DecDigits[cid] \in Texts
    <3>1. cid \in 0 .. 99
      BY <1>3, PdnInBytes DEF IsValidPdn
    <3>2. Param(DecDigits[cid])
      BY <3>1, NumberParam
    <3>. QED BY <3>2 DEF Param
  <2>. DEFINE s == DecDigits[cid]
  <2>. HIDE DEF s, w
  <2>2. s \in Texts
    BY <2>1 DEF s
  <2>3. (<<w>> \o s)[1] = w
    BY <2>2, Command
  <2>. QED BY <2>3 DEF s
<1>6. w \notin SetCommands /\ op # "GetServiceStatus" /\ op # "ATCommandRaw"
  BY DEF SetCommands
<1>7. DOMAIN f = {"ip"}
  OBVIOUS
<1>. HIDE DEF c, w, op, f
<1>8. \E r : AskedFor(w, told[t][w], f, r) /\ r.pkt = "OK" /\ out[t] = r.out
  <2>1. Succeeded(t, {op})
    BY DEF op
  <2>. QED BY <1>4, <1>5, <1>6, <2>1, GetterCall
<1>9. PICK r : AskedFor(w, told[t][w], f, r) /\ r.pkt = "OK" /\ out[t] = r.out
  BY <1>8
<1>10. \E v : r.out = Put(f, "ip", v) /\ Unquoted(v) = told[t][w].ip
  BY <1>9, AddressAsked DEF w
<1>11. PICK v : r.out = Put(f, "ip", v) /\ Unquoted(v) = told[t][w].ip
  BY <1>10
<1>12. Put(f, "ip", v)["ip"] = v
  BY <1>7, PutIs
<1>13. out[t].ip = v
  BY <1>9, <1>11, <1>12
<1>. QED BY <1>11, <1>13 DEF w

-----------------------------------------------------------------------------
(* The settings of discontinuous reception.                                    *)

\* The loop over the tokens is the one function that starts at the start and goes on
\* token by token.
LEMMA EdrxTokensAre ==
  ASSUME NEW toks, Len(toks) \in 0 .. 5, NEW f, f[0] = NoEdrx,
         \A i \in 1 .. Len(toks) : f[i] = ParseEidrxToken(toks[i], i, f[i - 1])
  PROVE  ParseEidrxTokens(toks).entry = f[Len(toks)]
<1>. DEFINE N == Len(toks)
            up(g) == [i \in 0 .. Len(toks) |-> IF i = 0 THEN NoEdrx ELSE ParseEidrxToken(toks[i], i, g[i - 1])]
            h == CHOOSE g : g = up(g)
            e == [i \in 0 .. N |-> f[i]]
<1>1. ParseEidrxTokens(toks).entry = h[N]
  BY DEF ParseEidrxTokens
<1>2. N \in Nat
  OBVIOUS
<1>3. e = up(e)
  <2>1. ASSUME NEW i \in 0 .. N
        PROVE  e[i] = IF i = 0 THEN NoEdrx ELSE ParseEidrxToken(toks[i], i, e[i - 1])
    <3>1. i = 0 \/ i \in 1 .. N
      BY <1>2
    <3>2. CASE i = 0
      <4>1. e[i] = f[0]
        BY <3>2
      <4>. HIDE DEF e
      <4>. QED BY <3>2, <4>1
    <3>3. CASE i # 0
      <4>1. i \in 1 .. N /\ i - 1 \in 0 .. N
        BY <1>2, <3>1, <3>3
      <4>2. e[i] = f[i] /\ e[i - 1] = f[i - 1]
        BY <4>1
      <4>. HIDE DEF e
      <4>. QED BY <3>3, <4>1, <4>2
    <3>. QED BY <3>2, <3>3
  <2>. QED BY <2>1
<1>4. h = up(h)
  <2>. HIDE DEF up
  <2>. QED BY <1>3
<1>. HIDE DEF h
<1>5. h[0] = NoEdrx /\ \A i \in 1 .. N : h[i] = ParseEidrxToken(toks[i], i, h[i - 1])
  <2>1. \A i \in 0 .. N : h[i] = IF i = 0 THEN NoEdrx ELSE ParseEidrxToken(toks[i], i, h[i - 1])
    BY <1>4
  <2>2. 0 \in 0 .. N /\ \A i \in 1 .. N : i \in 0 .. N /\ i # 0
    BY <1>2
  <2>. HIDE DEF N
  <2>. QED BY <2>1, <2>2
<1>. DEFINE G == {i \in 0 .. N : h[i] = f[i]}
<1>6. 0 \in G
  BY <1>2, <1>5
<1>7. ASSUME NEW i \in 1 .. N, i - 1 \in G PROVE i \in G
  <2>1. h[i - 1] = f[i - 1] /\ i \in 0 .. N
    BY <1>2, <1>7
  <2>2. h[i] = ParseEidrxToken(toks[i], i, h[i - 1])
    BY <1>5
  <2>3. f[i] = ParseEidrxToken(toks[i], i, f[i - 1])
    OBVIOUS
  <2>. QED BY <2>1, <2>2, <2>3
<1>8. h[N] = f[N]
  <2>. HIDE DEF G, N
  <2>1. \A i \in 0 .. N : i \in G
    BY <1>2, <1>6, <1>7, UpTo
  <2>2. N \in G
    BY <1>2, <2>1
  <2>. QED BY <2>2 DEF G
<1>. QED BY <1>1, <1>8

\* A number within its bounds is stored.
LEMMA StoredNumber ==
  ASSUME NEW s, NEW base, NEW n \in 0 .. 255, ATStrtoi(s, base) = [ok |-> TRUE, value |-> n]
  PROVE  StoreNumber(s, base, 255) = [st |-> "SUCCESS", n |-> n]
BY DEF StoreNumber

LEMMA EdrxRat ==
  ASSUME NEW n \in 0 .. 99, NEW x
  PROVE  ParseEidrxToken(Cat(<<Space>>, DecDigits[n]), 1, x) = [x EXCEPT !["rat"] = n]
<1>. DEFINE tok == Cat(<<Space>>, DecDigits[n])
<1>1. ATStrtoi(tok, 10) = [ok |-> TRUE, value |-> n]
  BY DecDigitsAre, StrtoiNumeral DEF Bases, Cat
<1>. HIDE DEF tok
<1>2. n \in 0 .. 255
  OBVIOUS
<1>3. StoreNumber(tok, 10, 255) = [st |-> "SUCCESS", n |-> n]
  BY <1>1, <1>2, StoredNumber
<1>. DEFINE field == IF 1 = 1 THEN "rat" ELSE "value"
            r == StoreNumber(tok, IF 1 = 1 THEN 10 ELSE 2, 255)
<1>4. ParseEidrxToken(tok, 1, x) = IF 1 \in {1, 2} /\ r.st = "SUCCESS" THEN [x EXCEPT ![field] = r.n] ELSE x
  BY DEF ParseEidrxToken
<1>5. field = "rat" /\ r.st = "SUCCESS" /\ r.n = n /\ 1 \in {1, 2}
  BY <1>3
<1>. HIDE DEF field, r
<1>6. ParseEidrxToken(tok, 1, x) = [x EXCEPT ![field] = n]
  BY <1>4, <1>5
<1>. QED BY <1>5, <1>6 DEF tok

LEMMA EdrxValue ==
  ASSUME NEW n \in 0 .. 15, NEW x
  PROVE  ParseEidrxToken(Bits(n, 4), 2, x) = [x EXCEPT !["value"] = n]
<1>. DEFINE tok == Bits(n, 4)
<1>0. n \in Nat /\ n % 16 = n /\ 4 \in {4, 8}
  OBVIOUS
<1>1. Numeral(tok, 2) /\ ValueOf(tok, 2) = n
  BY <1>0, BitsText, BitsValue
<1>. HIDE DEF tok
<1>1a. ATStrtoi(tok, 2) = [ok |-> TRUE, value |-> n]
  BY <1>1, StrtoiNumeral DEF Bases
<1>2. n \in 0 .. 255
  OBVIOUS
<1>3. StoreNumber(tok, 2, 255) = [st |-> "SUCCESS", n |-> n]
  BY <1>1a, <1>2, StoredNumber
<1>. DEFINE field == IF 2 = 1 THEN "rat" ELSE "value"
            r == StoreNumber(tok, IF 2 = 1 THEN 10 ELSE 2, 255)
<1>4. ParseEidrxToken(tok, 2, x) = IF 2 \in {1, 2} /\ r.st = "SUCCESS" THEN [x EXCEPT ![field] = r.n] ELSE x
  BY DEF ParseEidrxToken
<1>5. field = "value" /\ r.st = "SUCCESS" /\ r.n = n /\ 2 \in {1, 2}
  BY <1>3
<1>. HIDE DEF field, r
<1>6. ParseEidrxToken(tok, 2, x) = [x EXCEPT ![field] = n]
  BY <1>4, <1>5
<1>. QED BY <1>5, <1>6 DEF tok

\* The access technology and the value; the third token is not looked at.
LEMMA EdrxParsed ==
  ASSUME NEW e \in Entries, NEW c,
         NEW toks, toks = <<Cat(<<Space>>, DecDigits[e.rat]), Bits(e.value, 4), c>>
  PROVE  ParseEidrxTokens(toks).entry = e
<1>. DEFINE a == Cat(<<Space>>, DecDigits[e.rat])
            b == Bits(e.value, 4)
            x1 == [rat |-> e.rat, value |-> 0]
            x2 == [rat |-> e.rat, value |-> e.value]
            f == Row(NoEdrx, x1, x2, x2, x2, x2)
<1>1. e.rat \in 0 .. 99 /\ e.value \in 0 .. 15 /\ e = x2
  BY DEF Entries
<1>2. ParseEidrxToken(a, 1, NoEdrx) = x1
  <2>1. ParseEidrxToken(a, 1, NoEdrx) = [NoEdrx EXCEPT !["rat"] = e.rat]
    BY <1>1, EdrxRat
  <2>. HIDE DEF a
  <2>. QED BY <2>1 DEF NoEdrx
<1>3. ParseEidrxToken(b, 2, x1) = x2
  <2>1. ParseEidrxToken(b, 2, x1) = [x1 EXCEPT !["value"] = e.value]
    <3>. HIDE DEF x1
    <3>. QED BY <1>1, EdrxValue
  <2>. HIDE DEF b
  <2>. QED BY <2>1
<1>4. ParseEidrxToken(c, 3, x2) = x2
  BY DEF ParseEidrxToken
<1>5. toks = <<a, b, c>>
  OBVIOUS
<1>. HIDE DEF a, b, x1, x2
<1>6. f[0] = NoEdrx /\ f[1] = x1 /\ f[2] = x2 /\ f[3] = x2
  BY RowIs
<1>. HIDE DEF f
<1>7. Len(toks) = 3 /\ toks[1] = a /\ toks[2] = b /\ toks[3] = c
  BY <1>5
<1>8. \A i \in 1 .. 3 : f[i] = ParseEidrxToken(toks[i], i, f[i - 1])
  <2>1. 1 - 1 = 0 /\ 2 - 1 = 1 /\ 3 - 1 = 2 /\ \A i \in 1 .. 3 : i = 1 \/ i = 2 \/ i = 3
    OBVIOUS
  <2>2. f[1] = ParseEidrxToken(toks[1], 1, f[0]) /\ f[2] = ParseEidrxToken(toks[2], 2, f[1])
        /\ f[3] = ParseEidrxToken(toks[3], 3, f[2])
    BY <1>2, <1>3, <1>4, <1>6, <1>7
  <2>. QED BY <2>1, <2>2
<1>9. Len(toks) \in 0 .. 5 /\ \A i \in 1 .. Len(toks) : f[i] = ParseEidrxToken(toks[i], i, f[i - 1])
  BY <1>7, <1>8
<1>10. ParseEidrxTokens(toks).entry = f[Len(toks)]
  BY <1>6, <1>9, EdrxTokensAre
<1>. QED BY <1>1, <1>6, <1>7, <1>10

\* The texts of a line.
NoSuffix == <<"0", "0", "0", "1">>
LEMMA NoSuffixIs == Plain(NoSuffix) /\ Param(NoSuffix) /\ Len(NoSuffix) = 4 /\ NoSuffix # <<>>
<1>1. NoSuffix \in Seq(CardDigits) /\ Len(NoSuffix) = 4
  <2>. DEFINE x == "0"
              y == "1"
  <2>1. x \in CardDigits /\ y \in CardDigits
    BY CardDigitsAre
  <2>2. NoSuffix = <<x, x, x, y>>
    BY DEF NoSuffix
  <2>. HIDE DEF x, y
  <2>. QED BY <2>1, <2>2
<1>2. NoSuffix # <<>>
  BY DEF NoSuffix
<1>. HIDE DEF NoSuffix
<1>. QED BY <1>1, <1>2, PlainIs

LEMMA EdrxNumbers ==
  ASSUME NEW e \in Entries
  PROVE  /\ Plain(DecDigits[e.rat]) /\ Len(DecDigits[e.rat]) \in 1 .. 2
         /\ Plain(Bits(e.value, 4)) /\ Param(Bits(e.value, 4)) /\ Len(Bits(e.value, 4)) = 4
<1>1. e.rat \in 0 .. 99 /\ e.value \in 0 .. 15
  BY DEF Entries
<1>. DEFINE d == DecDigits[e.rat]
            b == Bits(e.value, 4)
<1>2. Numeral(d, 10) /\ Len(d) \in 1 .. 2
  <2>1. Numeral(d, 10) /\ Len(d) = IF e.rat < 10 THEN 1 ELSE 2
    BY <1>1, DecDigitsAre
  <2>. HIDE DEF d
  <2>. QED BY <2>1
<1>3. Numeral(b, 2) /\ Len(b) = 4
  <2>1. e.value \in Nat /\ 4 \in {4, 8}
    BY <1>1
  <2>. QED BY <2>1, BitsText
<1>. HIDE DEF d, b
<1>4. \A base \in Bases : \A s : Numeral(s, base) => Plain(s) /\ Param(s)
  <2>. SUFFICES ASSUME NEW base \in Bases, NEW s, Numeral(s, base) PROVE Plain(s) /\ Param(s)
    OBVIOUS
  <2>1. s \in Texts
    BY DEF Numeral
  <2>2. Lacks(s, Space) /\ Lacks(s, Quote) /\ Lacks(s, ",")
    BY NumeralIs
  <2>. QED BY <2>1, <2>2 DEF Plain, Param
<1>5. 10 \in Bases /\ 2 \in Bases
  BY DEF Bases
<1>6. Plain(d)
  BY <1>2, <1>4, <1>5
<1>7. Plain(b) /\ Param(b)
  BY <1>3, <1>4, <1>5
<1>. QED BY <1>2, <1>3, <1>6, <1>7 DEF d, b

ThreeText(a, b, c) == Comma(a, Comma(b, c))

LEMMA ThreeTextIs ==
  ASSUME NEW a \in Texts, NEW b \in Texts, NEW c \in Texts
  PROVE  /\ ThreeText(a, b, c) \in Texts /\ Len(ThreeText(a, b, c)) = Len(a) + Len(b) + Len(c) + 2
         /\ Len(a) \in Nat /\ Len(b) \in Nat /\ Len(c) \in Nat
<1>. DEFINE s == Comma(b, c)
<1>1. s \in Texts /\ Len(s) = Len(b) + 1 + Len(c) /\ Len(b) \in Nat /\ Len(c) \in Nat
  BY CommaIs
<1>. HIDE DEF s
<1>2. Comma(a, s) \in Texts /\ Len(Comma(a, s)) = Len(a) + 1 + Len(s) /\ Len(a) \in Nat
  BY <1>1, CommaIs
<1>3. ThreeText(a, b, c) = Comma(a, s)
  BY DEF ThreeText, s
<1>. QED BY <1>1, <1>2, <1>3

LEMMA ThreeTextWithout ==
  ASSUME NEW a, Plain(a), NEW b, Plain(b), NEW c, Plain(c)
  PROVE  Without(ThreeText(a, Quoted(b), Quoted(c)), Quote) = ThreeText(a, b, c)
<1>1. NoComma(Quote)
  BY Commas DEF NoComma, Quote
<1>2. a \in Texts /\ Without(a, Quote) = a
  BY PlainSame DEF Plain
<1>3. Quoted(b) \in Texts /\ Without(Quoted(b), Quote) = b
  BY PlainSame
<1>4. Quoted(c) \in Texts /\ Without(Quoted(c), Quote) = c
  BY PlainSame
<1>. DEFINE x == Quoted(b)
            y == Quoted(c)
            s == Comma(x, y)
            t == Comma(b, c)
<1>. HIDE DEF x, y
<1>5. s \in Texts /\ Without(s, Quote) = t
  BY <1>1, <1>3, <1>4, CommaOut DEF x, y
<1>. HIDE DEF s, t
<1>6. Without(Comma(a, s), Quote) = Comma(a, t)
  BY <1>1, <1>2, <1>5, CommaOut
<1>7. Comma(a, s) = ThreeText(a, Quoted(b), Quoted(c))
  BY DEF ThreeText, s, x, y
<1>8. Comma(a, t) = ThreeText(a, b, c)
  BY DEF ThreeText, t
<1>. QED BY <1>6, <1>7, <1>8

LEMMA ThreeTextSpaced ==
  ASSUME NEW a \in Texts, NEW b \in Texts, NEW c \in Texts
  PROVE  Cat(<<Space>>, ThreeText(a, b, c)) = ThreeText(Cat(<<Space>>, a), b, c)
<1>. DEFINE s == Comma(b, c)
<1>1. s \in Texts
  BY CommaIs
<1>. HIDE DEF s
<1>2. Cat(<<Space>>, Comma(a, s)) = Comma(Cat(<<Space>>, a), s)
  BY <1>1, SpaceBefore
<1>. QED BY <1>2 DEF ThreeText, s

EdrxText(e) == ThreeText(DecDigits[e.rat], Quoted(Bits(e.value, 4)), Quoted(NoSuffix))

LEMMA EdrxTextIs ==
  ASSUME NEW e \in Entries
  PROVE  /\ EdrxText(e) \in Texts /\ Len(EdrxText(e)) >= 15
         /\ EdrxLine(e) = Plus("+CEDRXS") \o EdrxText(e)
         /\ Without(EdrxText(e), Quote) = ThreeText(DecDigits[e.rat], Bits(e.value, 4), NoSuffix)
<1>. DEFINE d == DecDigits[e.rat]
            b == Bits(e.value, 4)
            x == Quoted(b)
            y == Quoted(NoSuffix)
<1>1. Plain(d) /\ Len(d) \in 1 .. 2 /\ Plain(b) /\ Len(b) = 4
  BY EdrxNumbers
<1>2. EdrxLine(e) = Plus("+CEDRXS") \o EdrxText(e)
  BY DEF EdrxLine, EdrxText, ThreeText, NoSuffix
<1>3. EdrxText(e) = ThreeText(d, x, y)
  BY DEF EdrxText
<1>. HIDE DEF d, b
<1>4. x \in Texts /\ Len(x) = 6
  <2>1. Quoted(b) \in Texts /\ Len(Quoted(b)) = Len(b) + 2
    BY <1>1, PlainSame
  <2>. HIDE DEF x
  <2>2. Len(x) = Len(b) + 2
    BY <2>1 DEF x
  <2>3. Len(x) = 6
    BY <1>1, <2>2
  <2>. QED BY <2>1, <2>3 DEF x
<1>5. y \in Texts /\ Len(y) = 6
  <2>1. Quoted(NoSuffix) \in Texts /\ Len(Quoted(NoSuffix)) = Len(NoSuffix) + 2
    BY NoSuffixIs, PlainSame
  <2>. HIDE DEF y
  <2>2. Len(y) = Len(NoSuffix) + 2
    BY <2>1 DEF y
  <2>3. Len(y) = 6
    BY NoSuffixIs, <2>2
  <2>. QED BY <2>1, <2>3 DEF y
<1>6. Without(ThreeText(d, x, y), Quote) = ThreeText(d, b, NoSuffix)
  BY <1>1, NoSuffixIs, ThreeTextWithout
<1>7. d \in Texts
  BY <1>1 DEF Plain
<1>. HIDE DEF x, y
<1>8. ThreeText(d, x, y) \in Texts /\ Len(ThreeText(d, x, y)) = Len(d) + Len(x) + Len(y) + 2
  BY <1>4, <1>5, <1>7, ThreeTextIs
<1>9. Len(ThreeText(d, x, y)) >= 15
  <2>. DEFINE n == Len(d)
              k == Len(ThreeText(d, x, y))
  <2>1. n \in 1 .. 2 /\ k = n + Len(x) + Len(y) + 2
    BY <1>1, <1>8
  <2>2. k = n + 14
    BY <1>4, <1>5, <2>1
  <2>. HIDE DEF n, k
  <2>3. k >= 15
    BY <2>1, <2>2
  <2>. QED BY <2>3 DEF k
<1>. QED BY <1>2, <1>3, <1>6, <1>8, <1>9 DEF d, b

LEMMA EdrxRead ==
  ASSUME NEW e \in Entries, NEW p, p = ParseEidrxLine(EdrxLine(e)), p.st = "SUCCESS"
  PROVE  p.entry = e
<1>. DEFINE d == DecDigits[e.rat]
            b == Bits(e.value, 4)
            c == NoSuffix
            s == EdrxText(e)
            q == ThreeText(d, b, c)
            a == Cat(<<Space>>, d)
            u == ThreeText(a, b, c)
            w == "+CEDRXS"
            r == Then(ATRemovePrefix(Plus(w) \o s), ATRemoveAllDoubleQuote)
<1>1. s \in Texts /\ EdrxLine(e) = Plus(w) \o s /\ Without(s, Quote) = q
  BY EdrxTextIs
<1>2. Plain(d) /\ Plain(b) /\ Param(b) /\ Len(b) = 4
  BY EdrxNumbers
<1>3. Param(a) /\ Len(a) >= 1
  <2>1. e.rat \in 0 .. 99
    BY DEF Entries
  <2>. QED BY <2>1, SpacedNumber
<1>4. Param(c) /\ Len(c) = 4 /\ c # <<>>
  BY NoSuffixIs
<1>5. w \in Names
  BY DEF Names
<1>6. p = IF r.st # "SUCCESS" THEN [st |-> r.st, entry |-> NoEdrx] ELSE ParseEidrxTokens(AllTokens(r.s))
  <2>1. p = ParseEidrxLine(Plus(w) \o s)
    BY <1>1
  <2>. HIDE DEF s, w
  <2>. QED BY <2>1 DEF ParseEidrxLine
<1>. HIDE DEF d, c, s, w, a, b
<1>7. a \in Texts /\ b \in Texts /\ c \in Texts /\ d \in Texts
  BY <1>2, <1>3, <1>4 DEF Param, Plain
<1>8. Cat(<<Space>>, q) = u
  BY <1>7, ThreeTextSpaced DEF a
<1>9. u \in Texts /\ Len(u) = Len(a) + Len(b) + Len(c) + 2 /\ Len(a) \in Nat
  BY <1>7, ThreeTextIs
<1>10. Len(u) <= MaxString => AllTokens(u) = <<a, b, c>>
  <2>. DEFINE n == Len(u)
              k == Len(a)
  <2>1. n = k + 10 /\ k \in Nat
    BY <1>2, <1>4, <1>9
  <2>. HIDE DEF n, k
  <2>2. n \in Nat /\ n >= 3 /\ (n <= MaxString => k + 4 + 4 + 2 <= MaxString)
    BY <2>1, TextAssumption
  <2>3. ASSUME n <= MaxString PROVE Tokens(u, n) = <<a, b, c>>
    <3>1. Len(a) + Len(b) + Len(c) + 2 <= MaxString
      BY <1>2, <1>4, <2>2, <2>3 DEF k
    <3>2. Tokens(Comma(a, Comma(b, c)), n) = <<a, b, c>>
      BY <1>2, <1>3, <1>4, <2>2, <3>1, TokensOfThree
    <3>. QED BY <3>2 DEF ThreeText
  <2>. QED BY <2>3 DEF n, AllTokens
<1>. HIDE DEF q, u
<1>11. CASE Len(s) + 3 <= MaxString
  <2>1. q \in Texts /\ Len(q) <= Len(s) /\ r = Ok(<<Space>> \o q)
    BY <1>1, <1>5, <1>11, QuotesOff
  <2>2. r = Ok(u)
    BY <1>8, <2>1 DEF Cat
  <2>. HIDE DEF r
  <2>3. p = ParseEidrxTokens(AllTokens(u))
    BY <1>6, <2>2, OkIs
  <2>4. Len(u) <= MaxString
    <3>1. <<Space>> \in Texts /\ Len(<<Space>>) = 1
      BY Commas, Single
    <3>2. Len(<<Space>> \o q) = Len(<<Space>>) + Len(q) /\ Len(q) \in Nat
      BY <2>1, <3>1, Joined
    <3>3. Len(u) = 1 + Len(q)
      BY <1>8, <3>1, <3>2 DEF Cat
    <3>4. Len(s) \in Nat
      BY <1>1 DEF Texts
    <3>. QED BY <1>11, <2>1, <3>2, <3>3, <3>4, TextAssumption
  <2>. DEFINE toks == <<a, b, c>>
  <2>5. p = ParseEidrxTokens(toks)
    BY <1>10, <2>3, <2>4
  <2>6. toks = <<Cat(<<Space>>, DecDigits[e.rat]), Bits(e.value, 4), c>>
    BY DEF a, b, d
  <2>. HIDE DEF toks
  <2>7. ParseEidrxTokens(toks).entry = e
    BY <2>6, EdrxParsed
  <2>. QED BY <2>5, <2>7
<1>12. CASE ~(Len(s) + 3 <= MaxString)
  <2>. DEFINE x == Plus(w) \o s
  <2>1. r = Fail("BAD_PARAMETER", x)
    BY <1>1, <1>5, <1>12, LineTooLong
  <2>. HIDE DEF x
  <2>2. r.st = "BAD_PARAMETER"
    BY <2>1 DEF Fail
  <2>. HIDE DEF r
  <2>3. p = [st |-> "BAD_PARAMETER", entry |-> NoEdrx]
    BY <1>6, <2>2
  <2>4. p.st = "BAD_PARAMETER"
    BY <2>3
  <2>. QED BY <2>4
<1>. QED BY <1>11, <1>12

LEMMA EdrxNotEmpty ==
  ASSUME NEW e \in Entries
  PROVE  EdrxLine(e) \notin EmptyEdrx
<1>1. Len(EdrxLine(e)) > 4
  <2>1. EdrxText(e) \in Texts /\ Len(EdrxText(e)) >= 15 /\ EdrxLine(e) = Plus("+CEDRXS") \o EdrxText(e)
    BY EdrxTextIs
  <2>2. "+CEDRXS" \in Names
    BY DEF Names
  <2>. DEFINE s == EdrxText(e)
              w == "+CEDRXS"
  <2>. HIDE DEF s, w
  <2>3. Len(Plus(w) \o s) = Len(s) + 3 /\ Len(s) \in Nat
    BY <2>1, <2>2, PlusIs DEF s, w
  <2>4. Len(EdrxLine(e)) = Len(s) + 3
    BY <2>1, <2>3 DEF s, w
  <2>. DEFINE n == Len(s)
  <2>5. n >= 15
    BY <2>1 DEF s
  <2>. HIDE DEF n
  <2>6. n + 3 > 4
    BY <2>3, <2>5 DEF n
  <2>. QED BY <2>4, <2>6 DEF n
<1>2. \A l \in EmptyEdrx : Len(l) <= 4
  <2>. DEFINE x == <<"+CEDRXS", ":", " ", "0">>
              y == <<"+CEDRXS", ":">>
  <2>1. EmptyEdrx = {x, y}
    BY DEF EmptyEdrx
  <2>2. Len(x) = 4
    OBVIOUS
  <2>3. Len(y) = 2
    OBVIOUS
  <2>. HIDE DEF x, y
  <2>4. \A l \in EmptyEdrx : l = x \/ l = y
    BY <2>1
  <2>. SUFFICES ASSUME NEW l \in EmptyEdrx PROVE Len(l) <= 4
    OBVIOUS
  <2>5. Len(l) = 4 \/ Len(l) = 2
    BY <2>2, <2>3, <2>4
  <2>. DEFINE n == Len(l)
  <2>6. n = 4 \/ n = 2
    BY <2>5
  <2>. HIDE DEF n
  <2>7. n <= 4
    BY <2>6
  <2>. QED BY <2>7 DEF n
<1>. QED BY <1>1, <1>2

\* A line of the answer.
EdrxAdd(f, p) == IF p.st = "SUCCESS" THEN [f EXCEPT !.out.list = Append(@, p.entry)]
                 ELSE [f EXCEPT !.pkt = TranslateAtCoreStatus(p.st)]
EdrxStep(f, line) == IF f.pkt # "OK" \/ line \in EmptyEdrx THEN f ELSE EdrxAdd(f, ParseEidrxLine(line))

\* The loop over the lines is the one function that starts at the start and goes on line
\* by line.
LEMMA EdrxLinesAre ==
  ASSUME NEW lines, Len(lines) \in Nat, NEW o, NEW f, f[0] = [pkt |-> "OK", out |-> o],
         \A i \in 1 .. Len(lines) : f[i] = EdrxStep(f[i - 1], lines[i])
  PROVE  RecvFuncGetEidrxSettings(lines, o) = f[Len(lines)]
<1>. DEFINE N == Len(lines)
            start == [pkt |-> "OK", out |-> o]
            up(g) == [i \in 0 .. Len(lines) |-> IF i = 0 THEN start ELSE EdrxStep(g[i - 1], lines[i])]
            h == CHOOSE g : g = up(g)
            e == [i \in 0 .. N |-> f[i]]
<1>1. RecvFuncGetEidrxSettings(lines, o) = h[N]
  BY DEF RecvFuncGetEidrxSettings, EdrxStep, EdrxAdd
<1>2. N \in Nat
  OBVIOUS
<1>3. e = up(e)
  <2>1. ASSUME NEW i \in 0 .. N
        PROVE  e[i] = IF i = 0 THEN start ELSE EdrxStep(e[i - 1], lines[i])
    <3>1. i = 0 \/ i \in 1 .. N
      BY <1>2
    <3>2. CASE i = 0
      <4>1. e[i] = f[0]
        BY <3>2
      <4>. HIDE DEF e
      <4>. QED BY <3>2, <4>1
    <3>3. CASE i # 0
      <4>1. i \in 1 .. N /\ i - 1 \in 0 .. N
        BY <1>2, <3>1, <3>3
      <4>2. e[i] = f[i] /\ e[i - 1] = f[i - 1]
        BY <4>1
      <4>. HIDE DEF e
      <4>. QED BY <3>3, <4>1, <4>2
    <3>. QED BY <3>2, <3>3
  <2>. HIDE DEF start
  <2>. QED BY <2>1
<1>4. h = up(h)
  <2>. HIDE DEF up
  <2>. QED BY <1>3
<1>. HIDE DEF h, start
<1>5. h[0] = start /\ \A i \in 1 .. N : h[i] = EdrxStep(h[i - 1], lines[i])
  <2>1. \A i \in 0 .. N : h[i] = IF i = 0 THEN start ELSE EdrxStep(h[i - 1], lines[i])
    BY <1>4
  <2>2. 0 \in 0 .. N /\ \A i \in 1 .. N : i \in 0 .. N /\ i # 0
    BY <1>2
  <2>. HIDE DEF N
  <2>. QED BY <2>1, <2>2
<1>. DEFINE G == {i \in 0 .. N : h[i] = f[i]}
<1>6. 0 \in G
  BY <1>2, <1>5 DEF start
<1>7. ASSUME NEW i \in 1 .. N, i - 1 \in G PROVE i \in G
  <2>1. h[i - 1] = f[i - 1] /\ i \in 0 .. N
    BY <1>2, <1>7
  <2>2. h[i] = EdrxStep(h[i - 1], lines[i])
    BY <1>5
  <2>3. f[i] = EdrxStep(f[i - 1], lines[i])
    OBVIOUS
  <2>. QED BY <2>1, <2>2, <2>3
<1>8. h[N] = f[N]
  <2>. HIDE DEF G, N
  <2>1. \A i \in 0 .. N : i \in G
    BY <1>2, <1>6, <1>7, UpTo
  <2>2. N \in G
    BY <1>2, <2>1
  <2>. QED BY <2>2 DEF G
<1>. QED BY <1>1, <1>8

\* The list after some lines, with the status.
EdrxSoFar(b, l) == [pkt |-> b, out |-> [list |-> l]]

LEMMA EdrxSteps ==
  ASSUME NEW e \in Entries, NEW l
  PROVE  LET p == ParseEidrxLine(EdrxLine(e)) IN
         /\ p.st = "SUCCESS" => EdrxStep(EdrxSoFar("OK", l), EdrxLine(e)) = EdrxSoFar("OK", Append(l, e))
         /\ p.st # "SUCCESS" =>
              EdrxStep(EdrxSoFar("OK", l), EdrxLine(e)) = EdrxSoFar(TranslateAtCoreStatus(p.st), l)
         /\ \A b : b # "OK" => EdrxStep(EdrxSoFar(b, l), EdrxLine(e)) = EdrxSoFar(b, l)
<1>. DEFINE line == EdrxLine(e)
            p == ParseEidrxLine(line)
            f == EdrxSoFar("OK", l)
<1>1. line \notin EmptyEdrx
  BY EdrxNotEmpty
<1>2. p.st = "SUCCESS" => p.entry = e
  BY EdrxRead
<1>. HIDE DEF line, p
<1>3. EdrxStep(f, line) = EdrxAdd(f, p)
  BY <1>1 DEF EdrxStep, EdrxSoFar, p
<1>4. p.st = "SUCCESS" => EdrxAdd(f, p) = EdrxSoFar("OK", Append(l, p.entry))
  BY DEF EdrxAdd, EdrxSoFar
<1>5. p.st # "SUCCESS" => EdrxAdd(f, p) = EdrxSoFar(TranslateAtCoreStatus(p.st), l)
  BY DEF EdrxAdd, EdrxSoFar
<1>6. \A b : b # "OK" => EdrxStep(EdrxSoFar(b, l), line) = EdrxSoFar(b, l)
  BY DEF EdrxStep, EdrxSoFar
<1>. HIDE DEF f
<1>. QED BY <1>2, <1>3, <1>4, <1>5, <1>6 DEF line, p, f

LEMMA NotOk == ASSUME NEW st, st # "SUCCESS" PROVE TranslateAtCoreStatus(st) # "OK"
BY DEF TranslateAtCoreStatus

LEMMA OneMore ==
  ASSUME NEW S, NEW s \in Seq(S), NEW i \in 1 .. Len(s)
  PROVE  Append(SubSeq(s, 1, i - 1), s[i]) = SubSeq(s, 1, i)
<1>. DEFINE a == Append(SubSeq(s, 1, i - 1), s[i])
            b == SubSeq(s, 1, i)
            x == SubSeq(s, 1, i - 1)
<1>1. x \in Seq(S) /\ Len(x) = i - 1 /\ \A j \in 1 .. i - 1 : x[j] = s[j]
  OBVIOUS
<1>2. b \in Seq(S) /\ Len(b) = i /\ \A j \in 1 .. i : b[j] = s[j]
  OBVIOUS
<1>3. s[i] \in S
  OBVIOUS
<1>. HIDE DEF x, b
<1>4. a = Append(x, s[i])
  BY DEF x
<1>5. a \in Seq(S) /\ Len(a) = i /\ \A j \in 1 .. i : a[j] = s[j]
  <2>. DEFINE v == s[i]
  <2>. HIDE DEF v, a
  <2>1. a = Append(x, v) /\ v \in S
    BY <1>3, <1>4 DEF v
  <2>2. a \in Seq(S) /\ Len(a) = Len(x) + 1 /\ a[Len(x) + 1] = v /\ \A j \in 1 .. Len(x) : a[j] = x[j]
    BY <1>1, <2>1
  <2>3. a[i] = v /\ Len(a) = i
    BY <1>1, <2>2
  <2>4. \A j \in 1 .. i : j = i \/ j \in 1 .. i - 1
    OBVIOUS
  <2>. QED BY <1>1, <2>2, <2>3, <2>4 DEF v
<1>. HIDE DEF a
<1>6. a = b
  BY <1>2, <1>5, SeqEqual
<1>. QED BY <1>6 DEF a, b

EdrxLines(s) == [i \in DOMAIN s |-> EdrxLine(s[i])]

\* A line for each access technology: an answer that is read well is read whole.
LEMMA EdrxLoop ==
  ASSUME NEW s \in Seq(Entries), NEW r, r = RecvFuncGetEidrxSettings(EdrxLines(s), [list |-> <<>>]), r.pkt = "OK"
  PROVE  r.out.list = s
<1>. DEFINE N == Len(s)
            lines == EdrxLines(s)
            p(i) == ParseEidrxLine(EdrxLine(s[i]))
            bad == {i \in 1 .. N : p(i).st # "SUCCESS"} \cup {N + 1}
            m == Min(bad)
            b == TranslateAtCoreStatus(p(m).st)
            f == [i \in 0 .. N |-> IF i < m THEN EdrxSoFar("OK", SubSeq(s, 1, i)) ELSE EdrxSoFar(b, SubSeq(s, 1, m - 1))]
<1>1. N \in Nat /\ N = Len(s)
  OBVIOUS
<1>1a. \A i \in 1 .. N : s[i] \in Entries
  OBVIOUS
<1>1b. Len(lines) = N /\ \A i \in 1 .. N : lines[i] = EdrxLine(s[i])
  <2>1. DOMAIN s = 1 .. N
    OBVIOUS
  <2>2. lines = [i \in 1 .. N |-> EdrxLine(s[i])]
    BY <2>1 DEF EdrxLines
  <2>. DEFINE E(i) == EdrxLine(s[i])
  <2>. HIDE DEF lines, N, E
  <2>3. lines = [i \in 1 .. N |-> E(i)]
    BY <2>2 DEF E
  <2>4. Len(lines) = N
    BY <1>1, <2>3
  <2>5. \A i \in 1 .. N : lines[i] = E(i)
    BY <2>3
  <2>. QED BY <2>4, <2>5 DEF E
<1>1c. SubSeq(s, 1, 0) = <<>> /\ SubSeq(s, 1, N) = s
  BY SubSeqFull, SubSeqEmpty
<1>1d. \A i \in 1 .. N : Append(SubSeq(s, 1, i - 1), s[i]) = SubSeq(s, 1, i)
  BY OneMore
<1>. HIDE DEF N, lines, p
<1>2. m \in bad /\ (\A i \in bad : m <= i) /\ m \in 1 .. N + 1
  <2>1. bad \in SUBSET Nat /\ bad # {} /\ bad \subseteq 1 .. N + 1
    BY <1>1
  <2>. HIDE DEF bad, m
  <2>2. Min(bad) \in bad /\ \A i \in bad : Min(bad) <= i
    BY <2>1, LeastIs
  <2>. QED BY <2>1, <2>2 DEF m
<1>. HIDE DEF m
<1>3. \A i \in 1 .. N : i < m => p(i).st = "SUCCESS"
  <2>. SUFFICES ASSUME NEW i \in 1 .. N, i < m, p(i).st # "SUCCESS" PROVE FALSE
    OBVIOUS
  <2>1. i \in bad
    OBVIOUS
  <2>2. m <= i
    BY <1>2, <2>1
  <2>. QED BY <1>1, <1>2, <2>2
<1>4. m <= N => p(m).st # "SUCCESS" /\ m \in 1 .. N
  BY <1>1, <1>2
<1>. HIDE DEF bad
<1>5. m <= N => b # "OK"
  BY <1>4, NotOk
<1>6. f[0] = [pkt |-> "OK", out |-> [list |-> <<>>]]
  <2>1. 0 \in 0 .. N /\ 0 < m
    BY <1>1, <1>2
  <2>2. f[0] = EdrxSoFar("OK", SubSeq(s, 1, 0))
    BY <2>1
  <2>. QED BY <1>1c, <2>2 DEF EdrxSoFar
<1>7. ASSUME NEW i \in 1 .. N
      PROVE  f[i] = EdrxStep(f[i - 1], lines[i])
  <2>. DEFINE e == s[i]
              l == SubSeq(s, 1, i - 1)
  <2>0. e \in Entries /\ lines[i] = EdrxLine(e) /\ i \in 0 .. N /\ i - 1 \in 0 .. N /\ p(i) = ParseEidrxLine(EdrxLine(e))
    BY <1>1, <1>1a, <1>1b DEF p
  <2>1. CASE i < m
    <3>1. f[i] = EdrxSoFar("OK", SubSeq(s, 1, i)) /\ f[i - 1] = EdrxSoFar("OK", l)
      BY <1>1, <1>2, <2>0, <2>1
    <3>2. Append(l, e) = SubSeq(s, 1, i)
      BY <1>1d
    <3>3. p(i).st = "SUCCESS"
      BY <1>3, <2>1
    <3>. HIDE DEF f, e, l
    <3>4. EdrxStep(EdrxSoFar("OK", l), EdrxLine(e)) = EdrxSoFar("OK", Append(l, e))
      BY <2>0, <3>3, EdrxSteps
    <3>. QED BY <2>0, <3>1, <3>2, <3>4
  <2>2. CASE i = m
    <3>1. f[i] = EdrxSoFar(b, l) /\ f[i - 1] = EdrxSoFar("OK", l)
      <4>1. ~(i < m) /\ i - 1 < m
        BY <1>1, <1>2, <2>2
      <4>2. f[i] = EdrxSoFar(b, SubSeq(s, 1, m - 1))
        <5>. HIDE DEF b
        <5>. QED BY <2>0, <4>1
      <4>3. f[i - 1] = EdrxSoFar("OK", SubSeq(s, 1, i - 1))
        <5>. HIDE DEF b
        <5>. QED BY <2>0, <4>1
      <4>. HIDE DEF f
      <4>. QED BY <2>2, <4>2, <4>3
    <3>2. p(i).st # "SUCCESS" /\ b = TranslateAtCoreStatus(p(i).st)
      <4>1. m <= N
        BY <1>1, <2>2
      <4>2. p(m).st # "SUCCESS"
        BY <1>4, <4>1
      <4>. QED BY <2>2, <4>2
    <3>. HIDE DEF f, e, l, b
    <3>3. EdrxStep(EdrxSoFar("OK", l), EdrxLine(e)) = EdrxSoFar(TranslateAtCoreStatus(p(i).st), l)
      BY <2>0, <3>2, EdrxSteps
    <3>. QED BY <2>0, <3>1, <3>2, <3>3
  <2>3. CASE i > m
    <3>. DEFINE g == SubSeq(s, 1, m - 1)
    <3>1. f[i] = EdrxSoFar(b, g) /\ f[i - 1] = EdrxSoFar(b, g)
      <4>1. ~(i < m) /\ ~(i - 1 < m)
        BY <1>1, <1>2, <2>3
      <4>. HIDE DEF b, g
      <4>. QED BY <2>0, <4>1 DEF g
    <3>2. b # "OK"
      <4>1. m <= N
        BY <1>1, <1>2, <2>3
      <4>. QED BY <1>5, <4>1
    <3>. HIDE DEF f, e, b, g
    <3>3. EdrxStep(EdrxSoFar(b, g), EdrxLine(e)) = EdrxSoFar(b, g)
      BY <2>0, <3>2, EdrxSteps
    <3>. QED BY <2>0, <3>1, <3>3
  <2>4. i < m \/ i = m \/ i > m
    BY <1>1, <1>2
  <2>. QED BY <2>1, <2>2, <2>3, <2>4
<1>8. N \in 0 .. N
  BY <1>1
<1>9. r = f[N]
  <2>. HIDE DEF f
  <2>. DEFINE o == [list |-> <<>>]
  <2>1. r = RecvFuncGetEidrxSettings(lines, o)
    BY DEF lines
  <2>2. f[0] = [pkt |-> "OK", out |-> o]
    BY <1>6
  <2>. HIDE DEF o
  <2>3. Len(lines) \in Nat /\ \A i \in 1 .. Len(lines) : f[i] = EdrxStep(f[i - 1], lines[i])
    BY <1>1, <1>1b, <1>7
  <2>4. RecvFuncGetEidrxSettings(lines, o) = f[Len(lines)]
    BY <2>2, <2>3, EdrxLinesAre
  <2>. QED BY <1>1b, <2>1, <2>4
<1>10. N < m
  <2>1. ASSUME m <= N PROVE FALSE
    <3>1. ~(N < m)
      BY <1>1, <1>2, <2>1
    <3>2. f[N] = EdrxSoFar(b, SubSeq(s, 1, m - 1))
      <4>. HIDE DEF b
      <4>. QED BY <1>8, <3>1
    <3>. HIDE DEF f, b
    <3>3. r.pkt = b
      BY <1>9, <3>2 DEF EdrxSoFar
    <3>. QED BY <1>5, <2>1, <3>3
  <2>. QED BY <1>1, <1>2, <2>1
<1>11. f[N] = EdrxSoFar("OK", SubSeq(s, 1, N))
  <2>. HIDE DEF b
  <2>. QED BY <1>8, <1>10
<1>. HIDE DEF f
<1>12. r = EdrxSoFar("OK", s)
  BY <1>1c, <1>9, <1>11
<1>. QED BY <1>12 DEF EdrxSoFar

\* An answer without a setting.
LEMMA EdrxNothing ==
  ASSUME NEW l \in EmptyEdrx, NEW r, r = RecvFuncGetEidrxSettings(<<l>>, [list |-> <<>>])
  PROVE  r.out.list = <<>>
<1>. DEFINE o == [list |-> <<>>]
            f == Row([pkt |-> "OK", out |-> o], [pkt |-> "OK", out |-> o], 0, 0, 0, 0)
            lines == <<l>>
            x == [pkt |-> "OK", out |-> o]
<1>1. EdrxStep(x, l) = x
  BY DEF EdrxStep
<1>2. x.out.list = <<>>
  OBVIOUS
<1>3. r = RecvFuncGetEidrxSettings(lines, o) /\ lines = <<l>> /\ x = [pkt |-> "OK", out |-> o]
  OBVIOUS
<1>4. f[0] = x /\ f[1] = x
  BY RowIs
<1>. HIDE DEF f, x, o, lines
<1>4a. f[0] = [pkt |-> "OK", out |-> o]
  BY <1>3, <1>4
<1>5. Len(lines) = 1 /\ lines[1] = l
  BY <1>3
<1>6. \A i \in 1 .. Len(lines) : f[i] = EdrxStep(f[i - 1], lines[i])
  <2>1. \A i \in 1 .. 1 : i = 1 /\ i - 1 = 0
    OBVIOUS
  <2>. QED BY <1>1, <1>4, <1>5, <2>1
<1>7. RecvFuncGetEidrxSettings(lines, o) = f[Len(lines)]
  <2>1. Len(lines) \in Nat
    BY <1>5
  <2>. QED BY <1>4a, <1>6, <2>1, EdrxLinesAre
<1>8. r = x
  BY <1>3, <1>4, <1>5, <1>7
<1>. QED BY <1>2, <1>8

LEMMA EdrxAsked ==
  ASSUME NEW m, NEW o, o = [list |-> <<>>], NEW r, AskedFor("AT+CEDRXS?", m, o, r), r.pkt = "OK"
  PROVE  r.out.list = m.edrx
<1>. DEFINE w == "AT+CEDRXS?"
            s == m.edrx
<1>1. w \notin SetCommands
  BY DEF SetCommands
<1>2. Answers(m, w) = IF s = <<>> THEN { <<x>> : x \in EmptyEdrx } ELSE { EdrxLines(s) }
  BY DEF Answers, EdrxLines
<1>2a. \A lines : lines # <<>> => Receive(w, lines, o) = RecvFuncGetEidrxSettings(lines, o)
  BY DEF Receive
<1>. HIDE DEF w
<1>3. Fine(m) /\ \E lines \in Answers(m, w) : lines # <<>> /\ r = Receive(w, lines, o)
  BY <1>1, AskedLine DEF w
<1>4. PICK lines \in Answers(m, w) : lines # <<>> /\ r = Receive(w, lines, o)
  BY <1>3
<1>5. r = RecvFuncGetEidrxSettings(lines, o)
  BY <1>2a, <1>4
<1>6. s \in Seq(Entries)
  BY <1>3 DEF Fine, IsModem, Entries
<1>. HIDE DEF s
<1>7. CASE s = <<>>
  <2>1. PICK x \in EmptyEdrx : lines = <<x>>
    BY <1>2, <1>4, <1>7
  <2>2. r = RecvFuncGetEidrxSettings(<<x>>, [list |-> <<>>])
    BY <1>5, <2>1
  <2>3. r.out.list = <<>>
    BY <2>2, EdrxNothing
  <2>. QED BY <1>7, <2>3 DEF s
<1>8. CASE s # <<>>
  <2>1. lines = EdrxLines(s)
    BY <1>2, <1>4, <1>8
  <2>2. r = RecvFuncGetEidrxSettings(EdrxLines(s), [list |-> <<>>])
    BY <1>5, <2>1
  <2>3. r.out.list = s
    BY <1>6, <2>2, EdrxLoop
  <2>. QED BY <2>3 DEF s
<1>. QED BY <1>7, <1>8

LEMMA EdrxFollows ==
  ASSUME AnswersInv, NEW t \in Tasks, Succeeded(t, {"GetEidrxSettings"})
  PROVE  out[t].list = told[t]["AT+CEDRXS?"].edrx
<1>. DEFINE op == "GetEidrxSettings"
            w == "AT+CEDRXS?"
            f == [list |-> <<>>]
            c == <<w>>
<1>1. req[t].op = "GetEidrxSettings" /\ ~req[t].null
  BY CallOf
<1>2. Query(req[t]) = GetEidrxSettings
  BY <1>1, QueryOf
<1>3. GetEidrxSettings = Sends(<<c>>, f)
  BY DEF GetEidrxSettings
<1>4. w = c[1] /\ w \notin SetCommands /\ op # "GetServiceStatus" /\ op # "ATCommandRaw"
  BY DEF SetCommands
<1>5. f = [list |-> <<>>]
  OBVIOUS
<1>. HIDE DEF c, w, op, f
<1>6. \E r : AskedFor(w, told[t][w], f, r) /\ r.pkt = "OK" /\ out[t] = r.out
  <2>1. Succeeded(t, {op})
    BY DEF op
  <2>2. Query(req[t]) = Sends(<<c>>, f)
    BY <1>2, <1>3
  <2>. QED BY <1>4, <2>1, <2>2, GetterCall
<1>7. PICK r : AskedFor(w, told[t][w], f, r) /\ r.pkt = "OK" /\ out[t] = r.out
  BY <1>6
<1>8. r.out.list = told[t][w].edrx
  BY <1>5, <1>7, EdrxAsked DEF w
<1>. QED BY <1>7, <1>8 DEF w

-----------------------------------------------------------------------------
(* The network time.                                                           *)

Sep(a, d, b) == a \o <<d>> \o b

LEMMA SepIs ==
  ASSUME NEW a \in Texts, NEW d \in Symbols, NEW b \in Texts
  PROVE  /\ Sep(a, d, b) \in Texts /\ Len(Sep(a, d, b)) = Len(a) + 1 + Len(b)
         /\ Len(a) \in Nat /\ Len(b) \in Nat
         /\ Sep(a, d, b) = a \o (<<d>> \o b)
<1>1. <<d>> \in Texts
  BY Single
<1>. QED BY <1>1, Between, Grouped DEF Sep

LEMMA SepLacks ==
  ASSUME NEW a \in Texts, NEW d \in Symbols, NEW b \in Texts, NEW c \in Symbols, c # d, Lacks(a, c), Lacks(b, c)
  PROVE  Lacks(Sep(a, d, b), c)
<1>. DEFINE q == <<d>>
            t == q \o b
<1>1. q \in Texts /\ Len(q) = 1 /\ q[1] = d
  BY Single
<1>2. Lacks(q, c)
  <2>1. \A i \in 1 .. 1 : q[i] = d
    BY <1>1
  <2>. HIDE DEF q
  <2>. QED BY <1>1, <2>1 DEF Lacks
<1>3. Sep(a, d, b) = a \o t
  BY SepIs
<1>. HIDE DEF q
<1>4. t \in Texts /\ Lacks(t, c)
  BY <1>1, <1>2, Joined, LacksJoined
<1>. HIDE DEF t
<1>5. Lacks(a \o t, c)
  BY <1>4, LacksJoined
<1>. QED BY <1>3, <1>5

LEMMA SepToken ==
  ASSUME NEW a \in Texts, NEW d \in Symbols, NEW b \in Texts, Lacks(a, d), Len(Sep(a, d, b)) <= MaxString
  PROVE  ATGetSpecificNextTok(Sep(a, d, b), d) = [st |-> "SUCCESS", tok |-> a, s |-> b]
<1>1. Len(a) + 1 + Len(b) <= MaxString
  BY SepIs
<1>. QED BY <1>1, FirstToken DEF Sep

\* Where c is in b is where it is after a and d.
LEMMA Later ==
  ASSUME NEW a \in Texts, NEW d \in Symbols, NEW b \in Texts, NEW c \in Symbols, c # d, Lacks(a, c)
  PROVE  LET s == Sep(a, d, b) IN
         /\ FirstOf(s, c) <= Len(s) <=> FirstOf(b, c) <= Len(b)
         /\ FirstOf(b, c) <= Len(b) => From(s, FirstOf(s, c)) = From(b, FirstOf(b, c))
<1>. DEFINE s == Sep(a, d, b)
            n == Len(a) + 1
            q == a \o <<d>>
            k == FirstOf(b, c)
            y == Len(b)
<1>1. s \in Texts /\ Len(s) = n + y /\ n \in Nat /\ y \in Nat /\ n >= 1
  <2>1. s \in Texts /\ Len(s) = Len(a) + 1 + Len(b) /\ Len(a) \in Nat /\ Len(b) \in Nat
    BY SepIs
  <2>. HIDE DEF s
  <2>. QED BY <2>1
<1>2. q \in Texts /\ Len(q) = n /\ (\A i \in 1 .. Len(a) : q[i] = a[i]) /\ q[n] = d
  BY OneAfter
<1>3. s = q \o b
  BY DEF Sep
<1>. HIDE DEF q
<1>4. (\A i \in 1 .. n : s[i] = q[i]) /\ \A i \in 1 .. y : s[n + i] = b[i]
  <2>1. /\ \A i \in 1 .. Len(q) : (q \o b)[i] = q[i]
        /\ \A i \in 1 .. Len(b) : (q \o b)[Len(q) + i] = b[i]
    BY <1>2, Joined
  <2>. QED BY <1>2, <1>3, <2>1
<1>5. \A i \in 1 .. n : s[i] # c
  <2>1. \A i \in 1 .. n : i = n \/ i \in 1 .. Len(a)
    BY <1>1
  <2>2. \A i \in 1 .. Len(a) : q[i] # c
    BY <1>2 DEF Lacks
  <2>3. \A i \in 1 .. n : q[i] # c
    <3>. HIDE DEF n
    <3>. QED BY <1>2, <2>1, <2>2
  <2>. QED BY <1>4, <2>3
<1>. HIDE DEF s, n
<1>6. CASE Lacks(b, c)
  <2>1. k = y + 1
    BY <1>6, FirstNowhere
  <2>2. Lacks(s, c)
    <3>1. \A i \in 1 .. Len(s) : i \in 1 .. n \/ (i - n \in 1 .. y /\ i = n + (i - n))
      BY <1>1
    <3>2. \A i \in 1 .. y : b[i] # c
      BY <1>6 DEF Lacks
    <3>. HIDE DEF y
    <3>. QED BY <1>4, <1>5, <3>1, <3>2 DEF Lacks
  <2>3. FirstOf(s, c) = Len(s) + 1
    BY <1>1, <2>2, FirstNowhere
  <2>. HIDE DEF k, y
  <2>4. ~(k <= y) /\ ~(Len(s) + 1 <= Len(s))
    BY <1>1, <2>1
  <2>. QED BY <2>3, <2>4 DEF k, y, s
<1>7. CASE ~Lacks(b, c)
  <2>. DEFINE T == {i \in 1 .. y : b[i] = c}
              j == Min(T)
  <2>1. T # {} /\ T \in SUBSET Nat
    BY <1>1, <1>7 DEF Lacks
  <2>2. j \in T /\ \A i \in T : j <= i
    <3>. HIDE DEF T
    <3>. QED BY <2>1, LeastIs
  <2>. HIDE DEF j
  <2>3. j \in 1 .. y /\ b[j] = c
    BY <2>2
  <2>4. \A i \in 1 .. j - 1 : b[i] # c
    <3>. SUFFICES ASSUME NEW i \in 1 .. j - 1, b[i] = c PROVE FALSE
      OBVIOUS
    <3>1. i \in 1 .. y /\ ~(j <= i)
      BY <1>1, <2>3
    <3>2. i \in T
      BY <3>1
    <3>. QED BY <2>2, <3>1, <3>2
  <2>. HIDE DEF T
  <2>5. k = j
    BY <2>3, <2>4, FirstAt
  <2>6. FirstOf(s, c) = n + j
    <3>. DEFINE u == n + j
    <3>1. u \in 1 .. Len(s)
      BY <1>1, <2>3
    <3>2. s[u] = c
      BY <1>4, <2>3
    <3>3. \A i \in 1 .. u - 1 : s[i] # c
      <4>1. \A i \in 1 .. u - 1 : i \in 1 .. n \/ (i - n \in 1 .. j - 1 /\ i - n \in 1 .. y /\ i = n + (i - n))
        BY <1>1, <2>3
      <4>. HIDE DEF u, y
      <4>. QED BY <1>4, <1>5, <2>4, <4>1
    <3>. HIDE DEF u
    <3>4. FirstOf(s, c) = u
      BY <1>1, <3>1, <3>2, <3>3, FirstAt
    <3>. QED BY <3>4 DEF u
  <2>7. From(s, n + j) = From(b, j)
    <3>. DEFINE x == SubSeq(s, n + j, Len(s))
                z == SubSeq(b, j, y)
    <3>1. /\ x \in Seq(Symbols) /\ Len(x) = Len(s) - (n + j) + 1
          /\ \A i \in 1 .. Len(s) - (n + j) + 1 : x[i] = s[n + j + i - 1]
      <4>1. n + j \in 1 .. Len(s) + 1 /\ Len(s) \in Nat /\ n + j \in Int /\ n + j <= Len(s)
        BY <1>1, <2>3
      <4>2. \A i \in n + j .. Len(s) : s[i] \in Symbols
        <5>1. \A i \in n + j .. Len(s) : i \in 1 .. Len(s)
          BY <4>1
        <5>. QED BY <1>1, <5>1 DEF Texts
      <4>. QED BY <4>1, <4>2, SubSeqProperties
    <3>2. z \in Seq(Symbols) /\ Len(z) = y - j + 1 /\ \A i \in 1 .. y - j + 1 : z[i] = b[j + i - 1]
      <4>1. j \in 1 .. y /\ y \in Int /\ j \in Int /\ j <= y
        BY <1>1, <2>3
      <4>2. \A i \in j .. y : b[i] \in Symbols
        <5>1. \A i \in j .. y : i \in 1 .. Len(b)
          BY <4>1
        <5>. QED BY <5>1 DEF Texts
      <4>. HIDE DEF y
      <4>. QED BY <4>1, <4>2, SubSeqProperties
    <3>3. Len(s) - (n + j) + 1 = y - j + 1
      BY <1>1, <2>3
    <3>4. \A i \in 1 .. y - j + 1 : j + i - 1 \in 1 .. y /\ n + j + i - 1 = n + (j + i - 1)
      BY <1>1, <2>3
    <3>. HIDE DEF x, z, y
    <3>5. \A i \in 1 .. y - j + 1 : x[i] = z[i]
      BY <1>4, <3>1, <3>2, <3>3, <3>4
    <3>6. x = z
      BY <3>1, <3>2, <3>3, <3>5, SeqEqual
    <3>. QED BY <3>6 DEF From, x, z, y
  <2>8. n + j <= Len(s) /\ j <= y
    BY <1>1, <2>3
  <2>. QED BY <2>5, <2>6, <2>7, <2>8 DEF s
<1>. QED BY <1>6, <1>7

LEMMA FromJoined ==
  ASSUME NEW a \in Texts, NEW t \in Texts
  PROVE  From(a \o t, Len(a) + 1) = t
<1>. DEFINE s == a \o t
            n == Len(a)
            y == Len(t)
            x == SubSeq(s, n + 1, Len(s))
<1>1. s \in Texts /\ Len(s) = n + y /\ n \in Nat /\ y \in Nat /\ \A i \in 1 .. y : s[n + i] = t[i]
  BY Joined
<1>. HIDE DEF s, n
<1>2. n + 1 \in Int /\ Len(s) \in Int /\ Len(s) - (n + 1) + 1 = y /\ (n + 1 <= Len(s) <=> y # 0)
  BY <1>1
<1>3. \A i \in n + 1 .. Len(s) : s[i] \in Symbols
  <2>1. \A i \in n + 1 .. Len(s) : i \in 1 .. Len(s)
    BY <1>1, <1>2
  <2>. QED BY <1>1, <2>1 DEF Texts
<1>. DEFINE k == n + 1
<1>3a. k \in Int /\ \A i \in k .. Len(s) : s[i] \in Symbols
  BY <1>2, <1>3
<1>. HIDE DEF k
<1>4. /\ SubSeq(s, k, Len(s)) \in Seq(Symbols)
      /\ Len(SubSeq(s, k, Len(s))) = IF k <= Len(s) THEN Len(s) - k + 1 ELSE 0
      /\ \A i \in 1 .. Len(s) - k + 1 : SubSeq(s, k, Len(s))[i] = s[k + i - 1]
  BY <1>2, <1>3a, SubSeqProperties
<1>4a. x = SubSeq(s, k, Len(s))
  BY DEF k
<1>. HIDE DEF x, y
<1>5. Len(x) = y /\ \A i \in 1 .. y : x[i] = s[k + i - 1]
  BY <1>1, <1>2, <1>4, <1>4a DEF k
<1>6. \A i \in 1 .. y : k + i - 1 = n + i
  BY <1>1 DEF k
<1>7. \A i \in 1 .. y : x[i] = t[i]
  BY <1>1, <1>5, <1>6
<1>8. x = t
  BY <1>4, <1>4a, <1>5, <1>7, SeqEqual DEF Texts, y
<1>. QED BY <1>8 DEF x, s, n, From

LEMMA SignHere ==
  ASSUME NEW a \in Texts, NEW d \in Symbols, NEW b \in Texts, Lacks(a, d)
  PROVE  LET s == Sep(a, d, b) IN
         FirstOf(s, d) <= Len(s) /\ From(s, FirstOf(s, d)) = <<d>> \o b
<1>. DEFINE s == Sep(a, d, b)
            t == <<d>> \o b
<1>1. s = a \o t /\ Len(s) = Len(a) + 1 + Len(b) /\ Len(a) \in Nat /\ Len(b) \in Nat
  BY SepIs
<1>2. FirstOf(s, d) = Len(a) + 1
  BY CutAt DEF Sep
<1>3. t \in Texts
  BY Led
<1>. HIDE DEF s, t
<1>4. From(a \o t, Len(a) + 1) = t
  BY <1>3, FromJoined
<1>5. Len(a) + 1 <= Len(s)
  <2>. DEFINE n == Len(a)
              k == Len(b)
  <2>1. Len(s) = n + 1 + k /\ n \in Nat /\ k \in Nat
    BY <1>1
  <2>. HIDE DEF n, k
  <2>2. n + 1 <= n + 1 + k
    BY <2>1
  <2>. QED BY <2>1, <2>2 DEF n
<1>. QED BY <1>1, <1>2, <1>4, <1>5 DEF s, t

\* The outermost quotes.
LEMMA OutermostOff ==
  ASSUME NEW v \in Texts, Len(v) >= 1, NEW r, r = ATRemoveOutermostDoubleQuote(Quoted(v)), r.st = "SUCCESS"
  PROVE  r.s = v
<1>. DEFINE t == v \o <<Quote>>
            s == Quoted(v)
            w == <<Quote>> \o t
            q == IF Len(s) <= 2 THEN s ELSE IF Last(t) = Quote THEN Front(t) ELSE t
<1>1. Quote \in Symbols /\ <<Quote>> \in Texts
  BY Commas, Single
<1>2. /\ t \in Texts /\ Len(t) = Len(v) + 1 /\ Len(v) \in Nat /\ t[Len(v) + 1] = Quote
      /\ SubSeq(t, 1, Len(v)) = v
  BY <1>1, OneAfter
<1>3. s = w
  BY <1>1, Grouped DEF Quoted
<1>3a. Len(s) > 2
  <2>1. Len(s) = Len(v) + 2
    BY QuotedIs
  <2>. DEFINE n == Len(v)
  <2>2. Len(s) = n + 2 /\ n >= 1 /\ n \in Nat
    BY <1>2, <2>1
  <2>. HIDE DEF n, s
  <2>3. n + 2 > 2
    BY <2>2
  <2>. QED BY <2>2, <2>3
<1>4. w[1] = Quote /\ Tail(w) = t
  <2>. HIDE DEF t
  <2>. QED BY <1>1, <1>2, Led
<1>. HIDE DEF t, s, w
<1>5. s[1] = Quote /\ Tail(s) = t
  BY <1>3, <1>4
<1>6. r = OfValid(s, Ok(q))
  BY <1>5 DEF ATRemoveOutermostDoubleQuote, s
<1>7. Last(t) = Quote
  BY <1>2 DEF Last
<1>8. Front(t) = v
  <2>1. Front(t) = SubSeq(t, 1, Len(t) - 1)
    BY DEF Front
  <2>2. Len(t) - 1 = Len(v)
    BY <1>2
  <2>. QED BY <1>2, <2>1, <2>2
<1>9. q = v
  <2>1. ~(Len(s) <= 2)
    <3>. DEFINE n == Len(s)
    <3>1. n \in Nat /\ n > 2
      <4>1. s \in Texts
        BY QuotedIs DEF s
      <4>. QED BY <1>3a, <4>1 DEF Texts
    <3>. HIDE DEF n
    <3>2. ~(n <= 2)
      BY <3>1
    <3>. QED BY <3>2 DEF n
  <2>. QED BY <1>7, <1>8, <2>1
<1>. HIDE DEF q
<1>10. r = IF Valid(s) THEN Ok(v) ELSE Fail("BAD_PARAMETER", s)
  BY <1>6, <1>9 DEF OfValid
<1>. QED BY <1>10, OkIs

\* The numbers of a time.
LEMMA TwoIs ==
  ASSUME NEW n \in 0 .. 99
  PROVE  Numeral(Two(n), 10) /\ ValueOf(Two(n), 10) = n /\ Len(Two(n)) = 2
<1>1. CASE n < 10
  <2>. DEFINE d == DecDigits[n]
              z == "0"
              s == <<z>> \o d
  <2>1. Two(n) = s
    BY <1>1 DEF Two
  <2>2. Numeral(d, 10) /\ ValueOf(d, 10) = n /\ Len(d) = 1
    <3>1. Numeral(d, 10) /\ ValueOf(d, 10) = n /\ Len(d) = IF n < 10 THEN 1 ELSE 2
      BY DecDigitsAre
    <3>. HIDE DEF d
    <3>. QED BY <1>1, <3>1
  <2>. HIDE DEF d
  <2>3. z \in Symbols /\ z = Decimals[0 + 1] /\ CharToNibble(z) = 0
    <3>1. z = Decimals[0 + 1] /\ 0 \in 0 .. 9
      BY DecimalsAre
    <3>. HIDE DEF z
    <3>2. CharToNibble(Decimals[0 + 1]) = 0 /\ Decimals[0 + 1] \in Literals
      BY <3>1, DigitOf, DigitsSymbols
    <3>3. Decimals[0 + 1] \in Symbols
      BY <3>2, SymbolsAre
    <3>. QED BY <3>1, <3>2, <3>3
  <2>. HIDE DEF z
  <2>4. d \in Texts /\ \A i \in 1 .. Len(d) : \E k \in 0 .. 10 - 1 : d[i] = Decimals[k + 1]
    BY <2>2 DEF Numeral
  <2>5. /\ s \in Texts /\ Len(s) = 1 + Len(d) /\ s[1] = z /\ s # <<>>
        /\ \A i \in 1 .. Len(d) : s[1 + i] = d[i]
    BY <2>3, <2>4, Led
  <2>. HIDE DEF s
  <2>6. Len(s) = 2 /\ s[2] = d[1] /\ 1 \in 1 .. Len(d)
    BY <2>2, <2>5
  <2>7. \A i \in 1 .. 2 : i = 1 \/ i = 2
    OBVIOUS
  <2>8. 0 \in 0 .. 10 - 1 /\ 10 \in Nat
    OBVIOUS
  <2>9. \A i \in 1 .. Len(s) : \E k \in 0 .. 10 - 1 : s[i] = Decimals[k + 1]
    <3>1. \E k \in 0 .. 10 - 1 : s[1] = Decimals[k + 1]
      BY <2>3, <2>5, <2>8
    <3>2. \E k \in 0 .. 10 - 1 : s[2] = Decimals[k + 1]
      BY <2>4, <2>6
    <3>. QED BY <2>6, <2>7, <3>1, <3>2
  <2>10. Numeral(s, 10)
    BY <2>5, <2>9 DEF Numeral
  <2>11. ValueOf(s, 10) = 10 * CharToNibble(s[1]) + CharToNibble(s[2])
    BY <2>5, <2>6, <2>8, ValueNext
  <2>12. ValueOf(d, 10) = CharToNibble(d[1])
    BY <2>2, <2>4, <2>8, ValueNext
  <2>13. ValueOf(s, 10) = n
    <3>1. CharToNibble(s[1]) = 0 /\ CharToNibble(s[2]) = n
      BY <2>2, <2>3, <2>5, <2>6, <2>12
    <3>2. 10 * 0 + n = n
      OBVIOUS
    <3>. QED BY <2>11, <3>1, <3>2
  <2>. QED BY <2>1, <2>6, <2>10, <2>13
<1>2. CASE ~(n < 10)
  <2>. DEFINE d == DecDigits[n]
  <2>1. Two(n) = d
    BY <1>2 DEF Two
  <2>2. Numeral(d, 10) /\ ValueOf(d, 10) = n /\ Len(d) = IF n < 10 THEN 1 ELSE 2
    BY DecDigitsAre
  <2>. HIDE DEF d
  <2>. QED BY <1>2, <2>1, <2>2
<1>. QED BY <1>1, <1>2

\* A field of the time that is being read.
Read(s, time) == [st |-> "SUCCESS", s |-> s, time |-> time]

Most(field) == IF field = "year" THEN 65535 ELSE 255

LEMMA MostOf == ASSUME NEW field PROVE Most(field) = 65535 \/ Most(field) = 255
BY DEF Most

LEMMA StoredBelow ==
  ASSUME NEW x, NEW n \in 0 .. 99, ATStrtoi(x, 10) = [ok |-> TRUE, value |-> n], NEW field
  PROVE  StoreNumber(x, 10, Most(field)) = [st |-> "SUCCESS", n |-> n]
<1>. DEFINE y == Most(field)
<1>1. y = 65535 \/ y = 255
  BY MostOf
<1>. HIDE DEF y
<1>2. n \in 0 .. y
  BY <1>1
<1>3. StoreNumber(x, 10, y) = [st |-> "SUCCESS", n |-> n]
  BY <1>2 DEF StoreNumber
<1>. QED BY <1>3 DEF y

GoodTok(k, a, b) == k.st = "SUCCESS" /\ k.tok = a /\ k.s = b
GoodNumber(h, n) == h.st = "SUCCESS" /\ h.n = n
Advanced(f, b, field, n) == [f EXCEPT !.s = b, !.time[field] = n]

LEMMA ReadOn ==
  ASSUME NEW s, NEW b, NEW time, NEW field, NEW n
  PROVE  Advanced(Read(s, time), b, field, n) = Read(b, Put(time, field, n))
<1>. DEFINE f == Read(s, time)
            g == [f EXCEPT !.s = b]
            y == [time EXCEPT ![field] = n]
<1>1. g = Read(b, time)
  BY DEF Read
<1>2. [f EXCEPT !.s = b, !.time[field] = n] = [g EXCEPT !.time[field] = n]
  <2>. HIDE DEF f
  <2>. QED OBVIOUS
<1>. HIDE DEF g
<1>3. g.time = time
  BY <1>1 DEF Read
<1>4. [g EXCEPT !.time[field] = n] = [g EXCEPT !.time = y]
  BY <1>3
<1>. HIDE DEF y
<1>5. [Read(b, time) EXCEPT !.time = y] = Read(b, y)
  BY DEF Read
<1>6. [g EXCEPT !.time = y] = Read(b, y)
  BY <1>1, <1>5
<1>. HIDE DEF f
<1>7. Advanced(f, b, field, n) = [f EXCEPT !.s = b, !.time[field] = n]
  BY DEF Advanced
<1>8. Advanced(f, b, field, n) = Read(b, y)
  BY <1>2, <1>4, <1>6, <1>7
<1>. QED BY <1>8 DEF f, y, Put

Advances(s, time, field, d, b, n) ==
  ParseTimeField(Read(s, time), field, d) = Read(b, Put(time, field, n))

LEMMA FieldStored ==
  ASSUME NEW s, NEW d, NEW a, NEW b, NEW n, NEW field, NEW time,
         GoodTok(ATGetSpecificNextTok(s, d), a, b), GoodNumber(StoreNumber(a, 10, Most(field)), n)
  PROVE  Advances(s, time, field, d, b, n)
<1>. DEFINE f == Read(s, time)
            k == ATGetSpecificNextTok(s, d)
            h == StoreNumber(a, 10, Most(field))
<1>1. f.st = "SUCCESS" /\ f.s = s
  BY DEF Read
<1>1a. k.st = "SUCCESS" /\ k.tok = a /\ k.s = b
  BY DEF GoodTok
<1>1b. h.st = "SUCCESS" /\ h.n = n
  BY DEF GoodNumber
<1>2. Advanced(f, b, field, n) = Read(b, Put(time, field, n))
  BY ReadOn
<1>. HIDE DEF f
<1>3. ParseTimeField(f, field, d) =
        LET x == ATGetSpecificNextTok(f.s, d)
            y == StoreNumber(x.tok, 10, Most(field))
        IN  IF f.st # "SUCCESS" THEN f
            ELSE IF x.st # "SUCCESS" THEN [f EXCEPT !.st = x.st]
            ELSE IF y.st # "SUCCESS" THEN [f EXCEPT !.st = y.st, !.s = x.s]
            ELSE Advanced(f, x.s, field, y.n)
  BY DEF ParseTimeField, Most, Advanced
<1>4. ATGetSpecificNextTok(f.s, d) = k /\ StoreNumber(k.tok, 10, Most(field)) = h
  BY <1>1, <1>1a
<1>. HIDE DEF k, h
<1>5. ParseTimeField(f, field, d) = Advanced(f, b, field, n)
  BY <1>1, <1>1a, <1>1b, <1>3, <1>4
<1>. QED BY <1>2, <1>5 DEF f, Advances

Delimiters == {"/", ",", ":", "+", "-"}
FieldOf(s, n, d, b) ==
  n \in 0 .. 99 /\ d \in Delimiters /\ b \in Texts /\ s = Sep(Two(n), d, b) /\ Len(s) <= MaxString

LEMMA FieldIs ==
  ASSUME NEW s, NEW n, NEW d, NEW b, FieldOf(s, n, d, b), NEW time, NEW field
  PROVE  Advances(s, time, field, d, b, n)
<1>. DEFINE a == Two(n)
            h == StoreNumber(a, 10, Most(field))
            k == ATGetSpecificNextTok(s, d)
<1>0. n \in 0 .. 99 /\ b \in Texts /\ s = Sep(a, d, b) /\ Len(s) <= MaxString
  BY DEF FieldOf
<1>0a. d \in {"/", ",", ":", "+", "-"}
  BY DEF FieldOf, Delimiters
<1>1. Numeral(a, 10) /\ ValueOf(a, 10) = n
  BY <1>0, TwoIs
<1>. HIDE DEF a
<1>2. a \in Texts /\ Lacks(a, d) /\ d \in Symbols
  <2>1. 10 \in Bases /\ d \in {Space, Quote, ":", ",", "/", "+", "-", "F"}
    BY <1>0a DEF Bases
  <2>2. \A x \in {Space, Quote, ":", ",", "/", "+", "-", "F"} : Lacks(a, x)
    BY <1>1, <2>1, NumeralIs
  <2>3. d \in Symbols
    BY <1>0a, SymbolsAre DEF Literals
  <2>4. a \in Texts
    BY <1>1 DEF Numeral
  <2>. QED BY <2>1, <2>2, <2>3, <2>4
<1>3. k = [st |-> "SUCCESS", tok |-> a, s |-> b]
  BY <1>0, <1>2, SepToken
<1>. HIDE DEF k
<1>3a. k.st = "SUCCESS" /\ k.tok = a /\ k.s = b
  BY <1>3
<1>4. ATStrtoi(a, 10) = [ok |-> TRUE, value |-> n]
  BY <1>1, StrtoiNumeral DEF Bases
<1>5. h = [st |-> "SUCCESS", n |-> n]
  BY <1>0, <1>4, StoredBelow
<1>. HIDE DEF h
<1>6. GoodNumber(h, n)
  BY <1>5 DEF GoodNumber
<1>7. GoodTok(k, a, b)
  BY <1>3a DEF GoodTok
<1>8. GoodTok(ATGetSpecificNextTok(s, d), a, b)
  BY <1>7 DEF k
<1>9. GoodNumber(StoreNumber(a, 10, Most(field)), n)
  BY <1>6 DEF h
<1>. QED BY <1>8, <1>9, FieldStored

\* The time zone as it is written: a sign and two digits.
SignedAs(n, d, z) ==
  /\ z \in Texts /\ Lacks(z, Space) /\ Lacks(z, "+")
  /\ Signed(n) = <<d>> \o z
  /\ ATStrtoi(<<d>> \o z, 10) = [ok |-> TRUE, value |-> n]

Signs == {"+", "-"}

LEMMA ZoneIs ==
  ASSUME NEW n \in -99 .. 99
  PROVE  \E d \in Signs, z \in Texts : SignedAs(n, d, z)
<1>1. CASE n < 0
  <2>. DEFINE k == -n
              z == Two(k)
              d == "-"
  <2>1. k \in 0 .. 99 /\ -k = n
    BY <1>1
  <2>2. Signed(n) = <<d>> \o z
    BY <1>1 DEF Signed
  <2>. HIDE DEF k
  <2>3. Numeral(z, 10) /\ ValueOf(z, 10) = k
    BY <2>1, TwoIs
  <2>. HIDE DEF z
  <2>4. ATStrtoi(<<"-">> \o z, 10) = [ok |-> TRUE, value |-> -ValueOf(z, 10)]
    BY <2>3, StrtoiNumeral DEF Bases
  <2>5. ATStrtoi(<<d>> \o z, 10) = [ok |-> TRUE, value |-> n]
    BY <2>1, <2>3, <2>4
  <2>6. \A e \in {Space, Quote, ":", ",", "/", "+", "-", "F"} : Lacks(z, e)
    BY <2>3, NumeralIs DEF Bases
  <2>7. z \in Texts /\ Lacks(z, Space) /\ Lacks(z, "+")
    BY <2>3, <2>6 DEF Numeral
  <2>8. d \in Signs
    BY DEF Signs
  <2>. HIDE DEF d
  <2>9. SignedAs(n, d, z)
    BY <2>2, <2>5, <2>7 DEF SignedAs
  <2>. QED BY <2>7, <2>8, <2>9
<1>2. CASE ~(n < 0)
  <2>. DEFINE z == Two(n)
              d == "+"
  <2>1. n \in 0 .. 99
    BY <1>2
  <2>2. Signed(n) = <<d>> \o z
    BY <1>2 DEF Signed
  <2>3. Numeral(z, 10) /\ ValueOf(z, 10) = n
    BY <2>1, TwoIs
  <2>. HIDE DEF z
  <2>4. ATStrtoi(<<"+">> \o z, 10) = [ok |-> TRUE, value |-> ValueOf(z, 10)]
    BY <2>3, StrtoiNumeral DEF Bases
  <2>5. ATStrtoi(<<d>> \o z, 10) = [ok |-> TRUE, value |-> n]
    BY <2>3, <2>4
  <2>6. \A e \in {Space, Quote, ":", ",", "/", "+", "-", "F"} : Lacks(z, e)
    BY <2>3, NumeralIs DEF Bases
  <2>7. z \in Texts /\ Lacks(z, Space) /\ Lacks(z, "+")
    BY <2>3, <2>6 DEF Numeral
  <2>8. d \in Signs
    BY DEF Signs
  <2>. HIDE DEF d
  <2>9. SignedAs(n, d, z)
    BY <2>2, <2>5, <2>7 DEF SignedAs
  <2>. QED BY <2>7, <2>8, <2>9
<1>. QED BY <1>1, <1>2

\* A text that ends in a time zone, and where the parser finds it.
EndsIn(t, d, z) ==
  /\ t \in Texts /\ Lacks(t, Space) /\ Len(t) >= 1 /\ Len(t) \in Nat
  /\ ZoneSign(t) = d
  /\ FirstOf(t, d) <= Len(t) /\ From(t, FirstOf(t, d)) = <<d>> \o z

LEMMA SignsAre == ASSUME NEW d \in Signs PROVE d \in Symbols /\ d # Space /\ "+" \in Symbols /\ Space \in Symbols
<1>1. d \in Literals /\ d # Space /\ "+" \in Literals /\ Space \in Literals
  BY DEF Signs, Literals, Space
<1>. QED BY <1>1, SymbolsAre

LEMMA TwoLacks ==
  ASSUME NEW k \in 0 .. 99
  PROVE  /\ Two(k) \in Texts /\ Lacks(Two(k), Space) /\ Lacks(Two(k), "+")
         /\ \A d \in Signs : Lacks(Two(k), d)
<1>1. Numeral(Two(k), 10)
  BY TwoIs
<1>2. \A e \in {Space, Quote, ":", ",", "/", "+", "-", "F"} : Lacks(Two(k), e)
  BY <1>1, NumeralIs DEF Bases
<1>. QED BY <1>1, <1>2 DEF Numeral, Signs

LEMMA ZoneEnd ==
  ASSUME NEW k \in 0 .. 99, NEW d \in Signs, NEW z \in Texts, Lacks(z, Space), Lacks(z, "+")
  PROVE  EndsIn(Sep(Two(k), d, z), d, z)
<1>. DEFINE a == Two(k)
            s == Sep(a, d, z)
            plus == "+"
<1>1. d \in Symbols /\ d # Space /\ plus \in Symbols /\ Space \in Symbols
  BY SignsAre
<1>2. a \in Texts /\ Lacks(a, Space) /\ Lacks(a, plus) /\ Lacks(a, d) /\ Lacks(z, plus)
  BY TwoLacks
<1>. HIDE DEF a
<1>3. s \in Texts /\ Len(s) = Len(a) + 1 + Len(z) /\ Len(a) \in Nat /\ Len(z) \in Nat
  BY <1>1, <1>2, SepIs
<1>4. FirstOf(s, d) <= Len(s) /\ From(s, FirstOf(s, d)) = <<d>> \o z
  BY <1>1, <1>2, SignHere
<1>5. Lacks(s, Space)
  BY <1>1, <1>2, SepLacks
<1>6. d # plus => Lacks(s, plus)
  BY <1>1, <1>2, SepLacks
<1>. HIDE DEF s, plus
<1>7. Len(s) >= 1 /\ Len(s) \in Nat
  BY <1>3
<1>8. d = plus => FirstOf(s, plus) <= Len(s)
  BY <1>4
<1>9. d # plus => FirstOf(s, plus) = Len(s) + 1
  BY <1>1, <1>3, <1>6, FirstNowhere
<1>10. ~(Len(s) + 1 <= Len(s))
  BY <1>7
<1>11. d = plus \/ d = "-"
  BY DEF Signs, plus
<1>12. ZoneSign(s) = IF FirstOf(s, plus) <= Len(s) THEN plus ELSE "-"
  BY DEF ZoneSign, plus
<1>13. ZoneSign(s) = d
  BY <1>8, <1>9, <1>10, <1>11, <1>12
<1>. QED BY <1>3, <1>4, <1>5, <1>7, <1>13 DEF EndsIn, s, a

\* The delimiters before it.
Marks == {"/", ",", ":"}

LEMMA EarlierField ==
  ASSUME NEW k \in 0 .. 99, NEW e \in Marks, NEW d \in Signs, NEW z, NEW t, EndsIn(t, d, z)
  PROVE  EndsIn(Sep(Two(k), e, t), d, z) /\ Len(t) <= Len(Sep(Two(k), e, t))
<1>. DEFINE a == Two(k)
            s == Sep(a, e, t)
            plus == "+"
<1>1. d \in Symbols /\ d # Space /\ plus \in Symbols /\ Space \in Symbols
  BY SignsAre
<1>2. a \in Texts /\ Lacks(a, Space) /\ Lacks(a, plus) /\ Lacks(a, d)
  BY TwoLacks
<1>3. e \in Symbols /\ e # plus /\ e # d /\ e # Space
  <2>1. e \in Literals /\ e # plus /\ e # d /\ e # Space
    BY DEF Marks, Literals, Signs, Space
  <2>. QED BY <2>1, SymbolsAre
<1>4. /\ t \in Texts /\ Lacks(t, Space) /\ Len(t) \in Nat
      /\ ZoneSign(t) = d
      /\ FirstOf(t, d) <= Len(t) /\ From(t, FirstOf(t, d)) = <<d>> \o z
  BY DEF EndsIn
<1>. HIDE DEF a, plus
<1>5. s \in Texts /\ Len(s) = Len(a) + 1 + Len(t) /\ Len(a) \in Nat
  BY <1>2, <1>3, <1>4, SepIs
<1>6. FirstOf(s, d) <= Len(s) /\ From(s, FirstOf(s, d)) = From(t, FirstOf(t, d))
  BY <1>1, <1>2, <1>3, <1>4, Later
<1>7. FirstOf(s, plus) <= Len(s) <=> FirstOf(t, plus) <= Len(t)
  BY <1>1, <1>2, <1>3, <1>4, Later
<1>8. Lacks(s, Space)
  BY <1>1, <1>2, <1>3, <1>4, SepLacks
<1>. HIDE DEF s
<1>9. ZoneSign(s) = ZoneSign(t)
  BY <1>7 DEF ZoneSign, plus
<1>10. Len(s) >= 1 /\ Len(s) \in Nat /\ Len(t) <= Len(s)
  BY <1>4, <1>5
<1>11. EndsIn(s, d, z)
  BY <1>4, <1>5, <1>6, <1>8, <1>9, <1>10 DEF EndsIn
<1>. QED BY <1>10, <1>11 DEF s, a

Fills(t1, e1, e2, e3, t, time, f1, k1, f2, k2, f3, k3) ==
  ParseTimeField(ParseTimeField(ParseTimeField(Read(t1, time), f1, e1), f2, e2), f3, e3) =
    Read(t, Put(Put(Put(time, f1, k1), f2, k2), f3, k3))

\* The three fields of a date, and the three of an hour.
LEMMA ThreeFields ==
  ASSUME NEW t1, NEW t2, NEW t3, NEW t, NEW k1, NEW k2, NEW k3, NEW e1, NEW e2, NEW e3,
         FieldOf(t1, k1, e1, t2), FieldOf(t2, k2, e2, t3), FieldOf(t3, k3, e3, t),
         NEW f1, NEW f2, NEW f3, NEW time
  PROVE  Fills(t1, e1, e2, e3, t, time, f1, k1, f2, k2, f3, k3)
<1>. DEFINE x == Put(time, f1, k1)
            y == Put(x, f2, k2)
            z == Put(y, f3, k3)
<1>. HIDE DEF x, y, z
<1>2. ParseTimeField(Read(t1, time), f1, e1) = Read(t2, x)
  BY FieldIs DEF Advances, x
<1>3. ParseTimeField(Read(t2, x), f2, e2) = Read(t3, y)
  BY FieldIs DEF Advances, y
<1>4. ParseTimeField(Read(t3, y), f3, e3) = Read(t, z)
  BY FieldIs DEF Advances, z
<1>5. ParseTimeField(ParseTimeField(ParseTimeField(Read(t1, time), f1, e1), f2, e2), f3, e3) = Read(t, z)
  BY <1>2, <1>3, <1>4
<1>. QED BY <1>5 DEF x, y, z, Fills

DateIs(t1, t, time, k1, k2, k3) ==
  ParseYearMonthDay(Read(t1, time)) = Read(t, Put(Put(Put(time, "year", k1), "month", k2), "day", k3))
HourIs(t1, d, t, time, k1, k2, k3) ==
  ParseTime(Read(t1, time), d) = Read(t, Put(Put(Put(time, "hour", k1), "minute", k2), "second", k3))

LEMMA DateRead ==
  ASSUME NEW t1, NEW t2, NEW t3, NEW t, NEW k1, NEW k2, NEW k3,
         FieldOf(t1, k1, "/", t2), FieldOf(t2, k2, "/", t3), FieldOf(t3, k3, ",", t), NEW time
  PROVE  DateIs(t1, t, time, k1, k2, k3)
<1>. DEFINE slash == "/"
            comma == ","
            h == "year"
            m == "month"
            s == "day"
<1>1. FieldOf(t1, k1, slash, t2) /\ FieldOf(t2, k2, slash, t3) /\ FieldOf(t3, k3, comma, t)
  OBVIOUS
<1>2. \A f : ParseYearMonthDay(f) = ParseTimeField(ParseTimeField(ParseTimeField(f, h, slash), m, slash), s, comma)
  BY DEF ParseYearMonthDay
<1>. HIDE DEF slash, comma, h, m, s
<1>3. Fills(t1, slash, slash, comma, t, time, h, k1, m, k2, s, k3)
  <2>1. FieldOf(t1, k1, slash, t2)
    BY <1>1
  <2>2. FieldOf(t2, k2, slash, t3)
    BY <1>1
  <2>3. FieldOf(t3, k3, comma, t)
    BY <1>1
  <2>. QED BY <2>1, <2>2, <2>3, ThreeFields
<1>4. ParseYearMonthDay(Read(t1, time)) = Read(t, Put(Put(Put(time, h, k1), m, k2), s, k3))
  BY <1>2, <1>3 DEF Fills
<1>. QED BY <1>4 DEF h, m, s, DateIs

LEMMA HourRead ==
  ASSUME NEW t1, NEW t2, NEW t3, NEW t, NEW k1, NEW k2, NEW k3, NEW d,
         FieldOf(t1, k1, ":", t2), FieldOf(t2, k2, ":", t3), FieldOf(t3, k3, d, t), NEW time
  PROVE  HourIs(t1, d, t, time, k1, k2, k3)
<1>. DEFINE colon == ":"
            h == "hour"
            m == "minute"
            s == "second"
<1>1. FieldOf(t1, k1, colon, t2) /\ FieldOf(t2, k2, colon, t3)
  OBVIOUS
<1>2. \A f : ParseTime(f, d) = ParseTimeField(ParseTimeField(ParseTimeField(f, h, colon), m, colon), s, d)
  BY DEF ParseTime
<1>. HIDE DEF colon, h, m, s
<1>3. Fills(t1, colon, colon, d, t, time, h, k1, m, k2, s, k3)
  BY <1>1, ThreeFields
<1>4. ParseTime(Read(t1, time), d) = Read(t, Put(Put(Put(time, h, k1), m, k2), s, k3))
  BY <1>2, <1>3 DEF Fills
<1>. QED BY <1>4 DEF h, m, s, HourIs

\* The time as the modem writes it, from its end.
FromSecond(c, d, z) == Sep(Two(c.second), d, z)
FromMinute(c, d, z) == Sep(Two(c.minute), ":", FromSecond(c, d, z))
FromHour(c, d, z) == Sep(Two(c.hour), ":", FromMinute(c, d, z))
FromDay(c, d, z) == Sep(Two(c.day), ",", FromHour(c, d, z))
FromMonth(c, d, z) == Sep(Two(c.month), "/", FromDay(c, d, z))
FromYear(c, d, z) == Sep(Two(c.year), "/", FromMonth(c, d, z))

ClockParts == {"zone", "year", "month", "day", "hour", "minute", "second"}

LEMMA FieldsAre == ToSet(TimeFields) = ClockParts
<1>1. DOMAIN TimeFields = 1 .. 7
  BY DEF TimeFields
<1>2. ToSet(TimeFields) = {TimeFields[i] : i \in 1 .. 7}
  BY <1>1 DEF ToSet
<1>3. \A i \in 1 .. 7 : i = 1 \/ i = 2 \/ i = 3 \/ i = 4 \/ i = 5 \/ i = 6 \/ i = 7
  OBVIOUS
<1>4. /\ TimeFields[1] = "zone" /\ TimeFields[2] = "year" /\ TimeFields[3] = "month" /\ TimeFields[4] = "day"
      /\ TimeFields[5] = "hour" /\ TimeFields[6] = "minute" /\ TimeFields[7] = "second"
  BY DEF TimeFields
<1>. HIDE DEF TimeFields
<1>5. \A i \in 1 .. 7 : TimeFields[i] \in ClockParts
  BY <1>3, <1>4 DEF ClockParts
<1>6. \A f \in ClockParts : \E i \in 1 .. 7 : TimeFields[i] = f
  <2>1. 1 \in 1 .. 7 /\ 2 \in 1 .. 7 /\ 3 \in 1 .. 7 /\ 4 \in 1 .. 7 /\ 5 \in 1 .. 7 /\ 6 \in 1 .. 7 /\ 7 \in 1 .. 7
    OBVIOUS
  <2>. QED BY <1>4, <2>1 DEF ClockParts
<1>. QED BY <1>2, <1>5, <1>6

LEMMA ClockFieldsAre ==
  ASSUME NEW c, IsClock(c)
  PROVE  /\ c.year \in 0 .. 99 /\ c.month \in 0 .. 99 /\ c.day \in 0 .. 99
         /\ c.hour \in 0 .. 99 /\ c.minute \in 0 .. 99 /\ c.second \in 0 .. 99
         /\ c.zone \in -99 .. 99
<1>1. c \in [ClockParts -> -99 .. 99] /\ \A f \in ClockParts \ {"zone"} : c[f] >= 0
  BY FieldsAre DEF IsClock
<1>2. \A f \in ClockParts \ {"zone"} : c[f] \in 0 .. 99
  BY <1>1
<1>. QED BY <1>1, <1>2 DEF ClockParts

LEMMA ClockFilled ==
  ASSUME NEW c, IsClock(c)
  PROVE  Put(Put(Put(Put(Put(Put(Put(NoTime, "zone", c.zone), "year", c.year), "month", c.month), "day", c.day),
                     "hour", c.hour), "minute", c.minute), "second", c.second) = c
<1>. DEFINE z1 == Put(NoTime, "zone", c.zone)
            z2 == Put(z1, "year", c.year)
            z3 == Put(z2, "month", c.month)
            z4 == Put(z3, "day", c.day)
            z5 == Put(z4, "hour", c.hour)
            z6 == Put(z5, "minute", c.minute)
            z7 == Put(z6, "second", c.second)
            Fun(f) == f = [x \in ClockParts |-> f[x]]
<1>1. Fun(c)
  BY FieldsAre DEF IsClock
<1>2. Fun(NoTime)
  BY FieldsAre DEF NoTime
<1>3. ASSUME NEW f, Fun(f), NEW x \in ClockParts, NEW v
      PROVE  /\ Fun(Put(f, x, v)) /\ Put(f, x, v)[x] = v
             /\ \A y \in ClockParts : y # x => Put(f, x, v)[y] = f[y]
  BY <1>3 DEF Put
<1>. HIDE DEF z1, z2, z3, z4, z5, z6, z7, Fun
<1>4. /\ "zone" \in ClockParts /\ "year" \in ClockParts /\ "month" \in ClockParts /\ "day" \in ClockParts
      /\ "hour" \in ClockParts /\ "minute" \in ClockParts /\ "second" \in ClockParts
  BY DEF ClockParts
<1>5. Fun(z1) /\ z1["zone"] = c.zone
  BY <1>2, <1>3, <1>4 DEF z1
<1>6. Fun(z2) /\ z2["year"] = c.year /\ \A y \in ClockParts : y # "year" => z2[y] = z1[y]
  BY <1>3, <1>4, <1>5 DEF z2
<1>7. Fun(z3) /\ z3["month"] = c.month /\ \A y \in ClockParts : y # "month" => z3[y] = z2[y]
  BY <1>3, <1>4, <1>6 DEF z3
<1>8. Fun(z4) /\ z4["day"] = c.day /\ \A y \in ClockParts : y # "day" => z4[y] = z3[y]
  BY <1>3, <1>4, <1>7 DEF z4
<1>9. Fun(z5) /\ z5["hour"] = c.hour /\ \A y \in ClockParts : y # "hour" => z5[y] = z4[y]
  BY <1>3, <1>4, <1>8 DEF z5
<1>10. Fun(z6) /\ z6["minute"] = c.minute /\ \A y \in ClockParts : y # "minute" => z6[y] = z5[y]
  BY <1>3, <1>4, <1>9 DEF z6
<1>11. Fun(z7) /\ z7["second"] = c.second /\ \A y \in ClockParts : y # "second" => z7[y] = z6[y]
  BY <1>3, <1>4, <1>10 DEF z7
<1>12. \A y \in ClockParts : z7[y] = c[y]
  BY <1>4, <1>5, <1>6, <1>7, <1>8, <1>9, <1>10, <1>11 DEF ClockParts
<1>13. z7 = c
  BY <1>1, <1>11, <1>12 DEF Fun
<1>. QED BY <1>13 DEF z1, z2, z3, z4, z5, z6, z7

Before(s, k, e, t) == k \in 0 .. 99 /\ e \in Marks /\ s = Sep(Two(k), e, t)
EndsAfter(s, t, d, z) == EndsIn(s, d, z) /\ Len(t) <= Len(s)

LEMMA EarlierText ==
  ASSUME NEW s, NEW k, NEW e, NEW t, Before(s, k, e, t), NEW d \in Signs, NEW z, EndsIn(t, d, z)
  PROVE  EndsAfter(s, t, d, z)
<1>1. k \in 0 .. 99 /\ e \in Marks /\ s = Sep(Two(k), e, t)
  BY DEF Before
<1>2. EndsIn(Sep(Two(k), e, t), d, z) /\ Len(t) <= Len(Sep(Two(k), e, t))
  BY <1>1, EarlierField
<1>. QED BY <1>1, <1>2 DEF EndsAfter

LEMMA TimeEnds ==
  ASSUME NEW c, IsClock(c), NEW d \in Signs, NEW z \in Texts, Lacks(z, Space), Lacks(z, "+")
  PROVE  /\ EndsIn(FromSecond(c, d, z), d, z)
         /\ EndsIn(FromMinute(c, d, z), d, z) /\ Len(FromSecond(c, d, z)) <= Len(FromMinute(c, d, z))
         /\ EndsIn(FromHour(c, d, z), d, z) /\ Len(FromMinute(c, d, z)) <= Len(FromHour(c, d, z))
         /\ EndsIn(FromDay(c, d, z), d, z) /\ Len(FromHour(c, d, z)) <= Len(FromDay(c, d, z))
         /\ EndsIn(FromMonth(c, d, z), d, z) /\ Len(FromDay(c, d, z)) <= Len(FromMonth(c, d, z))
         /\ EndsIn(FromYear(c, d, z), d, z) /\ Len(FromMonth(c, d, z)) <= Len(FromYear(c, d, z))
<1>0. /\ c.year \in 0 .. 99 /\ c.month \in 0 .. 99 /\ c.day \in 0 .. 99
      /\ c.hour \in 0 .. 99 /\ c.minute \in 0 .. 99 /\ c.second \in 0 .. 99
  BY ClockFieldsAre
<1>. DEFINE t1 == FromSecond(c, d, z)
            t2 == FromMinute(c, d, z)
            t3 == FromHour(c, d, z)
            t4 == FromDay(c, d, z)
            t5 == FromMonth(c, d, z)
            t6 == FromYear(c, d, z)
            colon == ":"
            comma == ","
            slash == "/"
<1>1. /\ t1 = Sep(Two(c.second), d, z) /\ t2 = Sep(Two(c.minute), colon, t1) /\ t3 = Sep(Two(c.hour), colon, t2)
      /\ t4 = Sep(Two(c.day), comma, t3) /\ t5 = Sep(Two(c.month), slash, t4) /\ t6 = Sep(Two(c.year), slash, t5)
  BY DEF FromSecond, FromMinute, FromHour, FromDay, FromMonth, FromYear
<1>2. colon \in Marks /\ comma \in Marks /\ slash \in Marks
  BY DEF Marks
<1>. HIDE DEF t1, t2, t3, t4, t5, t6, colon, comma, slash
<1>3. EndsIn(t1, d, z)
  BY <1>0, <1>1, ZoneEnd
<1>4. /\ Before(t2, c.minute, colon, t1) /\ Before(t3, c.hour, colon, t2) /\ Before(t4, c.day, comma, t3)
      /\ Before(t5, c.month, slash, t4) /\ Before(t6, c.year, slash, t5)
  BY <1>0, <1>1, <1>2 DEF Before
<1>5. EndsAfter(t2, t1, d, z)
  BY <1>3, <1>4, EarlierText
<1>6. EndsAfter(t3, t2, d, z)
  BY <1>4, <1>5, EarlierText DEF EndsAfter
<1>7. EndsAfter(t4, t3, d, z)
  BY <1>4, <1>6, EarlierText DEF EndsAfter
<1>8. EndsAfter(t5, t4, d, z)
  BY <1>4, <1>7, EarlierText DEF EndsAfter
<1>9. EndsAfter(t6, t5, d, z)
  BY <1>4, <1>8, EarlierText DEF EndsAfter
<1>. QED BY <1>3, <1>5, <1>6, <1>7, <1>8, <1>9 DEF t1, t2, t3, t4, t5, t6, EndsAfter

LEMMA TimeFieldsAre ==
  ASSUME NEW c, IsClock(c), NEW d \in Signs, NEW z \in Texts, Lacks(z, Space), Lacks(z, "+"),
         Len(FromYear(c, d, z)) <= MaxString
  PROVE  /\ FieldOf(FromYear(c, d, z), c.year, "/", FromMonth(c, d, z))
         /\ FieldOf(FromMonth(c, d, z), c.month, "/", FromDay(c, d, z))
         /\ FieldOf(FromDay(c, d, z), c.day, ",", FromHour(c, d, z))
         /\ FieldOf(FromHour(c, d, z), c.hour, ":", FromMinute(c, d, z))
         /\ FieldOf(FromMinute(c, d, z), c.minute, ":", FromSecond(c, d, z))
         /\ FieldOf(FromSecond(c, d, z), c.second, d, z)
<1>0. /\ c.year \in 0 .. 99 /\ c.month \in 0 .. 99 /\ c.day \in 0 .. 99
      /\ c.hour \in 0 .. 99 /\ c.minute \in 0 .. 99 /\ c.second \in 0 .. 99
  BY ClockFieldsAre
<1>. DEFINE t1 == FromSecond(c, d, z)
            t2 == FromMinute(c, d, z)
            t3 == FromHour(c, d, z)
            t4 == FromDay(c, d, z)
            t5 == FromMonth(c, d, z)
            t6 == FromYear(c, d, z)
            colon == ":"
            comma == ","
            slash == "/"
<1>1. /\ t1 = Sep(Two(c.second), d, z) /\ t2 = Sep(Two(c.minute), colon, t1) /\ t3 = Sep(Two(c.hour), colon, t2)
      /\ t4 = Sep(Two(c.day), comma, t3) /\ t5 = Sep(Two(c.month), slash, t4) /\ t6 = Sep(Two(c.year), slash, t5)
  BY DEF FromSecond, FromMinute, FromHour, FromDay, FromMonth, FromYear
<1>2. colon \in Delimiters /\ comma \in Delimiters /\ slash \in Delimiters /\ d \in Delimiters
  BY DEF Delimiters, Signs
<1>3. Len(t6) <= MaxString
  OBVIOUS
<1>4. /\ EndsIn(t1, d, z) /\ EndsIn(t2, d, z) /\ EndsIn(t3, d, z) /\ EndsIn(t4, d, z) /\ EndsIn(t5, d, z) /\ EndsIn(t6, d, z)
      /\ Len(t1) <= Len(t2) /\ Len(t2) <= Len(t3) /\ Len(t3) <= Len(t4) /\ Len(t4) <= Len(t5) /\ Len(t5) <= Len(t6)
  BY TimeEnds
<1>. HIDE DEF t1, t2, t3, t4, t5, t6, colon, comma, slash
<1>5. \A t : EndsIn(t, d, z) => t \in Texts /\ Len(t) \in Nat
  BY DEF EndsIn
<1>6. t1 \in Texts /\ t2 \in Texts /\ t3 \in Texts /\ t4 \in Texts /\ t5 \in Texts
  BY <1>4, <1>5
<1>7. /\ Len(t1) <= MaxString /\ Len(t2) <= MaxString /\ Len(t3) <= MaxString
      /\ Len(t4) <= MaxString /\ Len(t5) <= MaxString
  <2>1. Len(t1) \in Nat /\ Len(t2) \in Nat /\ Len(t3) \in Nat /\ Len(t4) \in Nat /\ Len(t5) \in Nat /\ Len(t6) \in Nat
    BY <1>4, <1>5
  <2>. QED BY <1>3, <1>4, <2>1, TextAssumption
<1>8. FieldOf(t6, c.year, slash, t5) /\ FieldOf(t5, c.month, slash, t4) /\ FieldOf(t4, c.day, comma, t3)
  BY <1>0, <1>1, <1>2, <1>3, <1>6, <1>7 DEF FieldOf
<1>9. FieldOf(t3, c.hour, colon, t2) /\ FieldOf(t2, c.minute, colon, t1) /\ FieldOf(t1, c.second, d, z)
  BY <1>0, <1>1, <1>2, <1>6, <1>7 DEF FieldOf
<1>. QED BY <1>8, <1>9 DEF t1, t2, t3, t4, t5, t6, colon, comma, slash

LEMMA TimeWritten ==
  ASSUME NEW c, IsClock(c), NEW d \in Signs, NEW z \in Texts, SignedAs(c.zone, d, z)
  PROVE  ClockText(c) = Quoted(FromYear(c, d, z))
<1>. DEFINE q == <<d>>
            t == Two(c.second)
<1>1. Signed(c.zone) = q \o z
  BY DEF SignedAs
<1>2. t \in Texts
  BY ClockFieldsAre, TwoLacks
<1>3. d \in Symbols
  BY SignsAre
<1>. HIDE DEF t
<1>4. t \o (<<d>> \o z) = Sep(t, d, z)
  BY <1>2, <1>3, SepIs
<1>5. t \o Signed(c.zone) = FromSecond(c, d, z)
  BY <1>1, <1>4 DEF FromSecond, t
<1>6. Two(c.minute) \o <<":">> \o (t \o Signed(c.zone)) = FromMinute(c, d, z)
  BY <1>5 DEF FromMinute, Sep
<1>7. Two(c.hour) \o <<":">> \o (Two(c.minute) \o <<":">> \o (t \o Signed(c.zone))) = FromHour(c, d, z)
  BY <1>6 DEF FromHour, Sep
<1>8. Comma(Two(c.day), FromHour(c, d, z)) = FromDay(c, d, z)
  BY DEF FromDay, Sep, Comma
<1>9. Two(c.month) \o <<"/">> \o FromDay(c, d, z) = FromMonth(c, d, z)
  BY DEF FromMonth, Sep
<1>10. Two(c.year) \o <<"/">> \o FromMonth(c, d, z) = FromYear(c, d, z)
  BY DEF FromYear, Sep
<1>11. ClockText(c) = Quoted(Two(c.year) \o <<"/">> \o (Two(c.month) \o <<"/">> \o
         Comma(Two(c.day), Two(c.hour) \o <<":">> \o (Two(c.minute) \o <<":">> \o (t \o Signed(c.zone))))))
  BY DEF ClockText, t
<1>. QED BY <1>7, <1>8, <1>9, <1>10, <1>11

\* The parser reads back the time that the modem writes.
LEMMA TimeParsed ==
  ASSUME NEW c, IsClock(c), NEW d \in Signs, NEW z \in Texts, SignedAs(c.zone, d, z),
         Len(FromYear(c, d, z)) <= MaxString,
         NEW p, p = ParseTimeZoneInfo(Quoted(FromYear(c, d, z))), p.st = "SUCCESS"
  PROVE  p.time = c
<1>. DEFINE v == FromYear(c, d, z)
            r == ATRemoveOutermostDoubleQuote(Quoted(v))
            k == ParseZone(r.s)
            n == c.zone
            o == Put(NoTime, "zone", n)
            date == Put(Put(Put(o, "year", c.year), "month", c.month), "day", c.day)
            time == Put(Put(Put(date, "hour", c.hour), "minute", c.minute), "second", c.second)
            h == FromHour(c, d, z)
            y == ParseYearMonthDay([st |-> "SUCCESS", s |-> r.s, time |-> [NoTime EXCEPT !.zone = k.value]])
<1>1. p = IF r.st # "SUCCESS" \/ ~k.ok THEN [st |-> "ERROR", time |-> NoTime] ELSE ClockAfter(r.s, y)
  BY DEF ParseTimeZoneInfo
<1>2. Lacks(z, Space) /\ Lacks(z, "+") /\ ATStrtoi(<<d>> \o z, 10) = [ok |-> TRUE, value |-> n]
  BY DEF SignedAs
<1>3. EndsIn(v, d, z)
  BY <1>2, TimeEnds
<1>4. /\ v \in Texts /\ Len(v) >= 1 /\ ZoneSign(v) = d
      /\ From(v, FirstOf(v, d)) = <<d>> \o z
  BY <1>3 DEF EndsIn
<1>5. ParseYearMonthDay(Read(v, o)) = Read(h, date)
  <2>1. FieldOf(v, c.year, "/", FromMonth(c, d, z)) /\ FieldOf(FromMonth(c, d, z), c.month, "/", FromDay(c, d, z))
        /\ FieldOf(FromDay(c, d, z), c.day, ",", h)
    BY <1>2, TimeFieldsAre
  <2>2. date = Put(Put(Put(o, "year", c.year), "month", c.month), "day", c.day)
    OBVIOUS
  <2>. HIDE DEF v, h, o, date
  <2>3. DateIs(v, h, o, c.year, c.month, c.day)
    BY <2>1, DateRead
  <2>. QED BY <2>2, <2>3 DEF DateIs
<1>6. ParseTime(Read(h, date), d) = Read(z, time)
  <2>1. FieldOf(h, c.hour, ":", FromMinute(c, d, z)) /\ FieldOf(FromMinute(c, d, z), c.minute, ":", FromSecond(c, d, z))
        /\ FieldOf(FromSecond(c, d, z), c.second, d, z)
    BY <1>2, TimeFieldsAre
  <2>2. time = Put(Put(Put(date, "hour", c.hour), "minute", c.minute), "second", c.second)
    OBVIOUS
  <2>. HIDE DEF v, h, date, time
  <2>3. HourIs(h, d, z, date, c.hour, c.minute, c.second)
    BY <2>1, HourRead
  <2>. QED BY <2>2, <2>3 DEF HourIs
<1>7. time = c
  BY ClockFilled
<1>. HIDE DEF v, k, y, date, time, h
<1>8. r.st = "SUCCESS"
  <2>. HIDE DEF r
  <2>1. "ERROR" # "SUCCESS"
    OBVIOUS
  <2>2. r.st # "SUCCESS" => p = [st |-> "ERROR", time |-> NoTime]
    BY <1>1
  <2>. QED BY <2>1, <2>2
<1>9. r.s = v
  BY <1>4, <1>8, OutermostOff
<1>. HIDE DEF r
<1>10. k = [ok |-> TRUE, value |-> n]
  BY <1>2, <1>4, <1>9 DEF k, ParseZone
<1>. HIDE DEF n
<1>10a. k.ok /\ k.value = n
  BY <1>10
<1>11. p = ClockAfter(v, y)
  BY <1>1, <1>8, <1>9, <1>10a
<1>12. [NoTime EXCEPT !.zone = k.value] = o
  BY <1>10a DEF Put
<1>. HIDE DEF o
<1>13. y = ParseYearMonthDay(Read(v, o))
  BY <1>9, <1>12 DEF y, Read
<1>14. y = Read(h, date)
  BY <1>5, <1>13
<1>15. p.time = ParseTime(y, ZoneSign(v)).time
  BY <1>11 DEF ClockAfter
<1>16. p.time = Read(z, time).time
  BY <1>4, <1>6, <1>14, <1>15
<1>. QED BY <1>7, <1>16 DEF Read

\* The line of the time, without its name and its spaces.
LEMMA ClockLine ==
  ASSUME NEW w \in Names, NEW q \in Texts, Lacks(q, Space),
         NEW r, r = Then(ATRemovePrefix(Plus(w) \o q), ATRemoveAllWhiteSpaces), r.st = "SUCCESS"
  PROVE  r.s = q /\ Len(q) + 3 <= MaxString
<1>. DEFINE l == Plus(w) \o q
            t == <<Space>> \o q
            a == ATRemovePrefix(l)
<1>1. a = IF Len(q) + 3 <= MaxString THEN Ok(t) ELSE Fail("BAD_PARAMETER", l)
  BY PlusIs
<1>2. Without(t, Space) = q
  BY Commas, WithoutLeading, WithoutSame
<1>3. r = IF a.st = "SUCCESS" THEN ATRemoveAllWhiteSpaces(a.s) ELSE a
  BY DEF Then
<1>. HIDE DEF a, l, t
<1>4. Len(q) + 3 <= MaxString /\ a = Ok(t)
  BY <1>1, <1>3, OkIs
<1>5. r = ATRemoveAllWhiteSpaces(t)
  BY <1>3, <1>4, OkIs
<1>6. r = IF Valid(t) THEN Ok(q) ELSE Fail("BAD_PARAMETER", t)
  BY <1>2, <1>5 DEF ATRemoveAllWhiteSpaces, OfValid
<1>. QED BY <1>4, <1>6, OkIs

LEMMA ClockAsked ==
  ASSUME NEW m, NEW o, NEW r, AskedFor("AT+CCLK?", m, o, r), r.pkt = "OK"
  PROVE  r.out = m.clock
<1>. DEFINE w == "AT+CCLK?"
            name == "+CCLK"
            c == m.clock
            l == Plus(name) \o ClockText(c)
            S == {l}
<1>1. w \notin SetCommands /\ Answers(m, w) = Lines(S)
  BY DEF SetCommands, Answers, Lines
<1>1a. \A x : Receive(w, <<x>>, o) = IF <<x>> = <<>> THEN Receive(w, <<x>>, o) ELSE RecvFuncGetNetworkTime(Head(<<x>>), o)
  BY DEF Receive
<1>1b. name \in Names
  BY DEF Names
<1>. HIDE DEF S, w
<1>2. Fine(m) /\ \E x \in S : FromLine(x, w, o, r)
  BY <1>1, LineOf DEF w
<1>3. FromLine(l, w, o, r)
  BY <1>2 DEF S
<1>4. IsClock(c)
  BY <1>2 DEF Fine, IsModem
<1>. HIDE DEF l, c, name
<1>5. r = RecvFuncGetNetworkTime(l, o)
  BY <1>1a, <1>3 DEF FromLine
<1>6. PICK d \in Signs, z \in Texts : SignedAs(c.zone, d, z)
  BY <1>4, ClockFieldsAre, ZoneIs
<1>. DEFINE v == FromYear(c, d, z)
            q == Quoted(v)
            a == Then(ATRemovePrefix(l), ATRemoveAllWhiteSpaces)
            p == ParseTimeZoneInfo(a.s)
<1>7. l = Plus(name) \o q
  BY <1>4, <1>6, TimeWritten DEF l
<1>8. Lacks(z, Space) /\ Lacks(z, "+")
  BY <1>6 DEF SignedAs
<1>9. v \in Texts /\ Lacks(v, Space)
  BY <1>4, <1>8, TimeEnds DEF EndsIn
<1>. HIDE DEF v
<1>10. q \in Texts /\ Len(q) = Len(v) + 2 /\ Len(v) \in Nat /\ Lacks(q, Space)
  <2>1. Space # Quote /\ Space \in Symbols
    BY Commas DEF Space, Quote
  <2>. QED BY <1>9, <2>1, QuotedIs
<1>11. r = IF a.st = "SUCCESS" THEN Parsed(p.st, p.time) ELSE Parsed(a.st, o)
  BY <1>5 DEF RecvFuncGetNetworkTime
<1>. HIDE DEF q, p, a
<1>12. a.st = "SUCCESS" /\ r = Parsed(p.st, p.time)
  BY <1>11, Translated
<1>13. p.st = "SUCCESS" /\ r.out = p.time
  <2>1. r.out = p.time
    BY <1>12 DEF Parsed
  <2>. QED BY <1>12, <2>1, Translated
<1>14. a = Then(ATRemovePrefix(Plus(name) \o q), ATRemoveAllWhiteSpaces)
  BY <1>7 DEF a
<1>15. a.s = q /\ Len(q) + 3 <= MaxString
  BY <1>1b, <1>10, <1>12, <1>14, ClockLine
<1>16. Len(v) <= MaxString
  BY <1>10, <1>15, TextAssumption
<1>17. p = ParseTimeZoneInfo(Quoted(v))
  BY <1>15 DEF p, q
<1>18. p.time = c
  BY <1>4, <1>6, <1>13, <1>16, <1>17, TimeParsed DEF v
<1>. QED BY <1>13, <1>18 DEF c

LEMMA ClockFollows ==
  ASSUME AnswersInv, NEW t \in Tasks, Succeeded(t, {"GetNetworkTime"})
  PROVE  out[t] = told[t]["AT+CCLK?"].clock
<1>. DEFINE op == "GetNetworkTime"
            w == "AT+CCLK?"
            f == NoTime
            c == <<w>>
<1>1. req[t].op = "GetNetworkTime" /\ ~req[t].null
  BY CallOf
<1>2. Query(req[t]) = GetNetworkTime
  BY <1>1, QueryOf
<1>3. GetNetworkTime = Sends(<<c>>, f)
  BY DEF GetNetworkTime
<1>4. w = c[1] /\ w \notin SetCommands /\ op # "GetServiceStatus" /\ op # "ATCommandRaw"
  BY DEF SetCommands
<1>. HIDE DEF c, w, op, f
<1>5. \E r : AskedFor(w, told[t][w], f, r) /\ r.pkt = "OK" /\ out[t] = r.out
  <2>1. Succeeded(t, {op})
    BY DEF op
  <2>2. Query(req[t]) = Sends(<<c>>, f)
    BY <1>2, <1>3
  <2>. QED BY <1>4, <2>1, <2>2, GetterCall
<1>. QED BY <1>5, ClockAsked DEF w

\* TruthTold: a getter that returns success gives its caller what the modem answered to the
\* call's own commands, whatever it answers other tasks meanwhile: the names cut to their
\* fields, the identities of the card, the time with its zone (the year in the modem's two
\* digits: ClockFollows), the address without its quotes, every line of the eDRX settings
\* (the receive functions of cellular_3gpp_api.c).
THEOREM TruthIsTold == QuerySpec => []TruthTold
<1>1. ASSUME AnswersInv, NEW t \in Tasks, Succeeded(t, {"GetNetworkTime"})
      PROVE  LET clock == told[t]["AT+CCLK?"].clock IN
             \A f \in DOMAIN clock \ {"year"} : out[t][f] = clock[f]
  BY <1>1, ClockFollows
<1>2. AnswersInv => TruthTold
  BY <1>1, ModemFollows, CardFollows, AddressFollows, EdrxFollows DEF TruthTold, ModemTold, CardTold
<1>. QED BY <1>2, AnswersAreGiven, PTL
=============================================================================
