-------------------------- MODULE PktioStreamProofs --------------------------
(* Theorems about PktioStream, for any size of the buffer and any script.     *)
EXTENDS PktioStream, Recursions

-----------------------------------------------------------------------------
(* The stream: where the bytes of a message stand in it.                      *)

Byte == [m : Nat, k : {"nul", "char", "eol", "data"}, i : Nat]

\* The scripts of StreamAssumption.
Scripts == {s \in Seq(Message) : \A m \in DOMAIN s : s[m].data # 0 => s[m].type = "data"}

\* Bytes, of a given script.
BytesOf(s, m) ==
  [i \in 1 .. s[m].len |-> Char(m, i)]
    \o (IF s[m].type = "blob" THEN <<>> ELSE <<Eol(m)>>)
    \o [i \in 1 .. s[m].data |-> Data(m, i)]

\* How many there are.
Chars(s, m) == s[m].len
Block(s, m) == s[m].data
Size(s, m) ==
  IF s[m].type = "blob" THEN Chars(s, m) + Block(s, m) ELSE Chars(s, m) + 1 + Block(s, m)

\* The first m messages, and where they end.
TextTo(s, m) == FlattenSeq([k \in 1 .. m |-> BytesOf(s, k)])
End(s, m) == Len(TextTo(s, m))
Text(s) == TextTo(s, Len(s))

\* Two sums, regrouped.
LEMMA Regroup ==
  ASSUME NEW a \in Nat, NEW b \in Nat, NEW n \in Nat
  PROVE  a + (b + 1 + n) = a + b + 1 + n
  OBVIOUS

\* Of two numbers in order the first is less or they are equal.
LEMMA EqualOrLess ==
  ASSUME NEW a \in Int, NEW b \in Int, a <= b
  PROVE  a = b \/ a < b
  OBVIOUS

\* The lengths of a script's messages.
LEMMA ScriptIs ==
  ASSUME NEW s \in Scripts
  PROVE  /\ Len(s) \in Nat
         /\ \A m \in 1 .. Len(s) :
              /\ Chars(s, m) \in Nat \ {0} /\ Block(s, m) \in Nat
              /\ Block(s, m) # 0 => s[m].type = "data"
<1>1. s \in Seq(Message) /\ Len(s) \in Nat /\ DOMAIN s = 1 .. Len(s)
  BY DEF Scripts
<1>2. \A m \in 1 .. Len(s) : s[m] \in Message
  BY <1>1
<1>3. \A e \in Message : e.len \in Nat \ {0} /\ e.data \in Nat
  BY DEF Message
<1>. QED BY <1>1, <1>2, <1>3 DEF Scripts, Chars, Block

\* One sequence after another.
LEMMA Appended ==
  ASSUME NEW B, NEW a \in Seq(B), NEW b \in Seq(B)
  PROVE  /\ a \o b \in Seq(B) /\ Len(a \o b) = Len(a) + Len(b)
         /\ Len(a) \in Nat /\ Len(b) \in Nat
         /\ \A i \in 1 .. Len(a) : (a \o b)[i] = a[i]
         /\ \A i \in 1 .. Len(b) : (a \o b)[Len(a) + i] = b[i]
<1>1. Len(a) \in Nat /\ Len(b) \in Nat /\ a \o b \in Seq(B) /\ Len(a \o b) = Len(a) + Len(b)
  OBVIOUS
<1>2. \A i \in 1 .. Len(a) : (a \o b)[i] = a[i]
  BY <1>1
<1>3. ASSUME NEW i \in 1 .. Len(b) PROVE (a \o b)[Len(a) + i] = b[i]
  <2>1. Len(a) + i \in 1 .. Len(a) + Len(b) /\ Len(a) + i > Len(a) /\ Len(a) + i - Len(a) = i
    BY <1>1
  <2>. QED BY <1>1, <2>1
<1>. QED BY <1>1, <1>2, <1>3

\* The kinds of bytes, in the order of a message.
LEMMA BytesAre ==
  ASSUME NEW s \in Scripts, NEW m \in 1 .. Len(s)
  PROVE  /\ BytesOf(s, m) \in Seq(Byte) /\ Len(BytesOf(s, m)) = Size(s, m)
         /\ Size(s, m) \in Nat \ {0}
         /\ \A i \in 1 .. Chars(s, m) : BytesOf(s, m)[i] = Char(m, i)
         /\ s[m].type # "blob" => BytesOf(s, m)[Chars(s, m) + 1] = Eol(m)
         /\ \A i \in 1 .. Block(s, m) : BytesOf(s, m)[Chars(s, m) + 1 + i] = Data(m, i)
<1>. DEFINE chars == [i \in 1 .. Chars(s, m) |-> Char(m, i)]
            eol == IF s[m].type = "blob" THEN <<>> ELSE <<Eol(m)>>
            data == [i \in 1 .. Block(s, m) |-> Data(m, i)]
<1>1. /\ Chars(s, m) \in Nat \ {0} /\ Block(s, m) \in Nat
      /\ Block(s, m) # 0 => s[m].type = "data"
      /\ m \in Nat
  BY ScriptIs
<1>2. chars \in Seq(Byte) /\ Len(chars) = Chars(s, m)
  <2>1. \A i \in 1 .. Chars(s, m) : Char(m, i) \in Byte
    BY <1>1 DEF Char, Byte
  <2>. QED BY <1>1, <2>1
<1>3. data \in Seq(Byte) /\ Len(data) = Block(s, m)
  <2>1. \A i \in 1 .. Block(s, m) : Data(m, i) \in Byte
    BY <1>1 DEF Data, Byte
  <2>. QED BY <1>1, <2>1
<1>4. eol \in Seq(Byte) /\ Len(eol) = IF s[m].type = "blob" THEN 0 ELSE 1
  <2>1. Eol(m) \in Byte
    BY <1>1 DEF Eol, Byte
  <2>. QED BY <2>1
<1>5. BytesOf(s, m) = chars \o eol \o data
  BY DEF BytesOf, Chars, Block
<1>6. \A i \in 1 .. Chars(s, m) : chars[i] = Char(m, i)
  OBVIOUS
<1>7. \A i \in 1 .. Block(s, m) : data[i] = Data(m, i)
  OBVIOUS
<1>8. s[m].type # "blob" => eol[1] = Eol(m)
  OBVIOUS
<1>. HIDE DEF chars, eol, data
<1>9. /\ chars \o eol \in Seq(Byte) /\ Len(chars \o eol) = Len(chars) + Len(eol)
      /\ Len(chars) \in Nat /\ Len(eol) \in Nat
      /\ \A i \in 1 .. Len(chars) : (chars \o eol)[i] = chars[i]
      /\ \A i \in 1 .. Len(eol) : (chars \o eol)[Len(chars) + i] = eol[i]
  <2>1. chars \in Seq(Byte) /\ eol \in Seq(Byte)
    BY <1>2, <1>4
  <2>2. chars \o eol \in Seq(Byte) /\ Len(chars \o eol) = Len(chars) + Len(eol)
    BY <2>1, Appended, Zenon
  <2>3. Len(chars) \in Nat /\ Len(eol) \in Nat
    BY <2>1, Appended, Zenon
  <2>4. \A i \in 1 .. Len(chars) : (chars \o eol)[i] = chars[i]
    BY <2>1, Appended, Zenon
  <2>5. \A i \in 1 .. Len(eol) : (chars \o eol)[Len(chars) + i] = eol[i]
    BY <2>1, Appended
  <2>. QED BY <2>2, <2>3, <2>4, <2>5, Zenon
<1>10. /\ BytesOf(s, m) \in Seq(Byte) /\ Len(BytesOf(s, m)) = Len(chars \o eol) + Len(data)
       /\ \A i \in 1 .. Len(chars \o eol) : BytesOf(s, m)[i] = (chars \o eol)[i]
       /\ \A i \in 1 .. Len(data) : BytesOf(s, m)[Len(chars \o eol) + i] = data[i]
  <2>. DEFINE head == chars \o eol
  <2>1. head \in Seq(Byte) /\ BytesOf(s, m) = head \o data
    BY <1>5, <1>9
  <2>. HIDE DEF head
  <2>2. /\ head \o data \in Seq(Byte) /\ Len(head \o data) = Len(head) + Len(data)
        /\ Len(head) \in Nat /\ Len(data) \in Nat
        /\ \A i \in 1 .. Len(head) : (head \o data)[i] = head[i]
        /\ \A i \in 1 .. Len(data) : (head \o data)[Len(head) + i] = data[i]
    <3>1. head \in Seq(Byte) /\ data \in Seq(Byte)
      BY <1>3, <2>1
    <3>2. head \o data \in Seq(Byte) /\ Len(head \o data) = Len(head) + Len(data)
      BY <3>1, Appended, Zenon
    <3>3. Len(head) \in Nat /\ Len(data) \in Nat
      BY <3>1, Appended, Zenon
    <3>4. \A i \in 1 .. Len(head) : (head \o data)[i] = head[i]
      BY <3>1, Appended, Zenon
    <3>5. \A i \in 1 .. Len(data) : (head \o data)[Len(head) + i] = data[i]
      BY <3>1, Appended
    <3>. QED BY <3>2, <3>3, <3>4, <3>5, Zenon
  <2>. QED BY <2>1, <2>2 DEF head
<1>11. BytesOf(s, m) \in Seq(Byte) /\ Len(BytesOf(s, m)) = Size(s, m) /\ Size(s, m) \in Nat \ {0}
  BY <1>1, <1>2, <1>3, <1>4, <1>9, <1>10 DEF Size
<1>12. ASSUME NEW i \in 1 .. Chars(s, m) PROVE BytesOf(s, m)[i] = Char(m, i)
  <2>1. i \in 1 .. Len(chars) /\ i \in 1 .. Len(chars \o eol)
    BY <1>1, <1>2, <1>4, <1>9
  <2>. QED BY <1>6, <1>9, <1>10, <2>1
<1>13. ASSUME s[m].type # "blob" PROVE BytesOf(s, m)[Chars(s, m) + 1] = Eol(m)
  <2>1. 1 \in 1 .. Len(eol) /\ Chars(s, m) + 1 \in 1 .. Len(chars \o eol) /\ Chars(s, m) = Len(chars)
    BY <1>1, <1>2, <1>4, <1>9, <1>13
  <2>2. (chars \o eol)[Chars(s, m) + 1] = Eol(m)
    BY <1>8, <1>9, <1>13, <2>1
  <2>. QED BY <1>10, <2>1, <2>2
<1>14. ASSUME NEW i \in 1 .. Block(s, m) PROVE BytesOf(s, m)[Chars(s, m) + 1 + i] = Data(m, i)
  <2>1. s[m].type = "data"
    BY <1>1
  <2>2. Len(chars \o eol) = Chars(s, m) + 1 /\ i \in 1 .. Len(data)
    BY <1>2, <1>3, <1>4, <1>9, <2>1
  <2>. QED BY <1>7, <1>10, <2>2
<1>. QED BY <1>11, <1>12, <1>13, <1>14

\* The messages follow one another.
LEMMA TextStep ==
  ASSUME NEW s \in Scripts, NEW m \in 1 .. Len(s)
  PROVE  TextTo(s, m) = TextTo(s, m - 1) \o BytesOf(s, m)
<1>. DEFINE b == [k \in 1 .. m |-> BytesOf(s, k)]
<1>1. m \in Nat \ {0} /\ \A k \in 1 .. m : k \in 1 .. Len(s)
  BY ScriptIs
<1>2. b \in [1 .. m -> Seq(Byte)]
  <2>1. ASSUME NEW k \in 1 .. m PROVE BytesOf(s, k) \in Seq(Byte)
    BY <1>1, BytesAre
  <2>. QED BY <2>1
<1>3. [k \in 1 .. m - 1 |-> b[k]] = [k \in 1 .. m - 1 |-> BytesOf(s, k)]
  <2>1. \A k \in 1 .. m - 1 : b[k] = BytesOf(s, k)
    BY <1>1
  <2>. QED BY <2>1
<1>4. b[m] = BytesOf(s, m)
  BY <1>1
<1>5. FlattenSeq(b) = FlattenSeq([k \in 1 .. m - 1 |-> b[k]]) \o b[m]
  <2>. HIDE DEF b
  <2>. QED BY <1>1, <1>2, FlattenLast
<1>. QED BY <1>3, <1>4, <1>5 DEF TextTo

\* Before the first message nothing is sent.
LEMMA TextNone == ASSUME NEW s PROVE TextTo(s, 0) = <<>>
<1>1. [k \in 1 .. 0 |-> BytesOf(s, k)] = <<>>
  OBVIOUS
<1>2. Len(<<>>) = 0
  OBVIOUS
<1>. QED BY <1>1, <1>2, FlattenNone DEF TextTo

\* The text up to any message is a sequence of bytes.
LEMMA TextIs == ASSUME NEW s \in Scripts, NEW m \in 0 .. Len(s) PROVE TextTo(s, m) \in Seq(Byte)
<1>. DEFINE G == {k \in 0 .. Len(s) : TextTo(s, k) \in Seq(Byte)}
<1>1. 0 \in G
  <2>1. 0 \in 0 .. Len(s)
    BY ScriptIs
  <2>2. TextTo(s, 0) \in Seq(Byte)
    <3>1. TextTo(s, 0) = <<>> /\ <<>> \in Seq(Byte)
      BY TextNone
    <3>. QED BY <3>1, Zenon
  <2>. QED BY <2>1, <2>2
<1>2. ASSUME NEW k \in 1 .. Len(s), k - 1 \in G PROVE k \in G
  <2>1. TextTo(s, k - 1) \in Seq(Byte) /\ BytesOf(s, k) \in Seq(Byte)
    BY <1>2, BytesAre
  <2>2. TextTo(s, k) = TextTo(s, k - 1) \o BytesOf(s, k)
    BY TextStep
  <2>3. k \in 0 .. Len(s)
    BY ScriptIs
  <2>4. TextTo(s, k) \in Seq(Byte)
    BY <2>1, <2>2, Appended, Zenon
  <2>. QED BY <2>3, <2>4
<1>3. Len(s) \in Nat
  BY ScriptIs
<1>. HIDE DEF G
<1>4. \A k \in 0 .. Len(s) : k \in G
  BY <1>1, <1>2, <1>3, UpTo
<1>. QED BY <1>4 DEF G

\* Where a message ends.
LEMMA EndStep ==
  ASSUME NEW s \in Scripts
  PROVE  /\ End(s, 0) = 0
         /\ \A m \in 0 .. Len(s) : End(s, m) \in Nat
         /\ \A m \in 1 .. Len(s) : End(s, m) = End(s, m - 1) + Size(s, m)
<1>1. End(s, 0) = 0
  BY TextNone DEF End
<1>2. \A m \in 0 .. Len(s) : End(s, m) \in Nat
  BY TextIs DEF End
<1>3. ASSUME NEW m \in 1 .. Len(s) PROVE End(s, m) = End(s, m - 1) + Size(s, m)
  <2>1. m \in 0 .. Len(s) /\ m - 1 \in 0 .. Len(s)
    BY ScriptIs
  <2>2. TextTo(s, m - 1) \in Seq(Byte) /\ BytesOf(s, m) \in Seq(Byte)
    BY <2>1, TextIs, BytesAre
  <2>3. Len(TextTo(s, m - 1) \o BytesOf(s, m)) = Len(TextTo(s, m - 1)) + Len(BytesOf(s, m))
    BY <2>2, Appended, Zenon
  <2>. QED BY <2>3, TextStep, BytesAre DEF End
<1>. QED BY <1>1, <1>2, <1>3

\* Later messages end later.
LEMMA EndsAscend ==
  ASSUME NEW s \in Scripts, NEW i \in 0 .. Len(s), NEW j \in 0 .. Len(s), i < j
  PROVE  End(s, i) < End(s, j)
<1>. DEFINE G == {k \in 0 .. Len(s) : k > i => End(s, i) < End(s, k)}
<1>1. Len(s) \in Nat
  BY ScriptIs
<1>2. 0 \in G
  BY <1>1
<1>3. ASSUME NEW k \in 1 .. Len(s), k - 1 \in G PROVE k \in G
  <2>1. End(s, k) = End(s, k - 1) + Size(s, k) /\ Size(s, k) \in Nat \ {0}
    BY EndStep, BytesAre
  <2>2. End(s, k - 1) \in Nat /\ End(s, i) \in Nat
    BY <1>1, EndStep
  <2>3. k - 1 > i \/ k - 1 = i \/ ~(k > i)
    BY <1>1
  <2>. QED BY <1>3, <2>1, <2>2, <2>3
<1>. HIDE DEF G
<1>4. \A k \in 0 .. Len(s) : k \in G
  BY <1>1, <1>2, <1>3, UpTo
<1>. QED BY <1>4 DEF G

\* A message stands between the end of the one before it and its own.
LEMMA BytesStand ==
  ASSUME NEW s \in Scripts, NEW m \in 1 .. Len(s), NEW i \in 1 .. Size(s, m)
  PROVE  Text(s)[End(s, m - 1) + i] = BytesOf(s, m)[i]
<1>. DEFINE p == End(s, m - 1) + i
            G == {k \in 0 .. Len(s) : k >= m => TextTo(s, k)[p] = BytesOf(s, m)[i]}
<1>1. /\ Len(s) \in Nat /\ m \in 0 .. Len(s) /\ m - 1 \in 0 .. Len(s)
      /\ End(s, m - 1) \in Nat /\ Size(s, m) \in Nat
  <2>1. Len(s) \in Nat
    BY ScriptIs
  <2>2. m \in 0 .. Len(s) /\ m - 1 \in 0 .. Len(s)
    BY <2>1
  <2>. QED BY <2>1, <2>2, EndStep, BytesAre
<1>2. 0 \in G
  BY <1>1
<1>3. ASSUME NEW k \in 1 .. Len(s), k - 1 \in G PROVE k \in G
  <2>1. k \in 0 .. Len(s) /\ k - 1 \in 0 .. Len(s)
    BY <1>1
  <2>2. TextTo(s, k) = TextTo(s, k - 1) \o BytesOf(s, k)
    BY TextStep
  <2>3. /\ TextTo(s, k - 1) \in Seq(Byte) /\ Len(TextTo(s, k - 1)) = End(s, k - 1)
        /\ BytesOf(s, k) \in Seq(Byte) /\ Len(BytesOf(s, k)) = Size(s, k)
    BY <2>1, TextIs, BytesAre DEF End
  <2>4. /\ \A q \in 1 .. End(s, k - 1) : TextTo(s, k)[q] = TextTo(s, k - 1)[q]
        /\ \A q \in 1 .. Size(s, k) : TextTo(s, k)[End(s, k - 1) + q] = BytesOf(s, k)[q]
    <3>1. \A q \in 1 .. Len(TextTo(s, k - 1)) :
            (TextTo(s, k - 1) \o BytesOf(s, k))[q] = TextTo(s, k - 1)[q]
      BY <2>3, Appended, Zenon
    <3>2. \A q \in 1 .. Len(BytesOf(s, k)) :
            (TextTo(s, k - 1) \o BytesOf(s, k))[Len(TextTo(s, k - 1)) + q] = BytesOf(s, k)[q]
      BY <2>3, Appended
    <3>. QED BY <2>2, <2>3, <3>1, <3>2
  <2>5. CASE k = m
    BY <2>1, <2>4, <2>5
  <2>6. CASE k > m
    <3>1. End(s, m) <= End(s, k - 1)
      <4>1. m = k - 1 \/ m < k - 1
        BY <1>1, <2>6
      <4>2. End(s, m) \in Nat /\ End(s, k - 1) \in Nat
        BY <1>1, <2>1, EndStep
      <4>3. m < k - 1 => End(s, m) < End(s, k - 1)
        BY <1>1, <2>1, EndsAscend
      <4>. QED BY <4>1, <4>2, <4>3
    <3>2. p \in 1 .. End(s, k - 1)
      <4>1. End(s, m) = End(s, m - 1) + Size(s, m) /\ End(s, k - 1) \in Nat
        BY <2>1, EndStep
      <4>. QED BY <1>1, <3>1, <4>1
    <3>3. k - 1 >= m
      BY <1>1, <2>6
    <3>. QED BY <1>3, <2>1, <2>4, <3>2, <3>3
  <2>7. CASE k < m
    BY <1>1, <2>1, <2>7
  <2>. QED BY <1>1, <2>5, <2>6, <2>7
<1>. HIDE DEF G
<1>4. \A k \in 0 .. Len(s) : k \in G
  BY <1>1, <1>2, <1>3, UpTo
<1>5. Len(s) \in 0 .. Len(s) /\ Len(s) >= m
  BY <1>1
<1>. QED BY <1>4, <1>5 DEF G, Text

\* Every byte of the stream belongs to a message.
LEMMA BytesBelong ==
  ASSUME NEW s \in Scripts, NEW p \in 1 .. End(s, Len(s))
  PROVE  \E m \in 1 .. Len(s) : \E i \in 1 .. Size(s, m) : p = End(s, m - 1) + i
<1>. DEFINE G == {k \in 0 .. Len(s) : p <= End(s, k) =>
                   \E m \in 1 .. Len(s) : \E i \in 1 .. Size(s, m) : p = End(s, m - 1) + i}
<1>1. Len(s) \in Nat /\ End(s, Len(s)) \in Nat /\ p \in Nat \ {0}
  BY ScriptIs, EndStep
<1>2. 0 \in G
  BY <1>1, EndStep
<1>3. ASSUME NEW k \in 1 .. Len(s), k - 1 \in G PROVE k \in G
  <2>1. /\ k \in 0 .. Len(s) /\ k - 1 \in 0 .. Len(s) /\ Size(s, k) \in Nat
        /\ End(s, k) = End(s, k - 1) + Size(s, k) /\ End(s, k - 1) \in Nat
    <3>1. k \in 0 .. Len(s) /\ k - 1 \in 0 .. Len(s)
      BY <1>1
    <3>. QED BY <3>1, EndStep, BytesAre
  <2>2. ASSUME p <= End(s, k), ~(p <= End(s, k - 1))
        PROVE  \E m \in 1 .. Len(s) : \E i \in 1 .. Size(s, m) : p = End(s, m - 1) + i
    <3>1. p - End(s, k - 1) \in 1 .. Size(s, k) /\ p = End(s, k - 1) + (p - End(s, k - 1))
      BY <1>1, <2>1, <2>2
    <3>. QED BY <3>1
  <2>. QED BY <1>3, <2>1, <2>2
<1>. HIDE DEF G
<1>4. \A k \in 0 .. Len(s) : k \in G
  BY <1>1, <1>2, <1>3, UpTo
<1>5. Len(s) \in 0 .. Len(s) /\ p <= End(s, Len(s))
  BY <1>1
<1>. QED BY <1>4, <1>5 DEF G

\* What stands where.
CharAt(s, p, m, i) ==
  m \in 1 .. Len(s) /\ i \in 1 .. Chars(s, m) /\ p = End(s, m - 1) + i /\ Text(s)[p] = Char(m, i)
EolAt(s, p, m) ==
  /\ m \in 1 .. Len(s) /\ s[m].type # "blob" /\ p = End(s, m - 1) + Chars(s, m) + 1
  /\ Text(s)[p] = Eol(m)
DataAt(s, p, m, i) ==
  /\ m \in 1 .. Len(s) /\ s[m].type = "data" /\ i \in 1 .. Block(s, m)
  /\ p = End(s, m - 1) + Chars(s, m) + 1 + i /\ Text(s)[p] = Data(m, i)

\* Every byte of a message stands where the lengths before it say.
LEMMA ByteStands ==
  ASSUME NEW s \in Scripts, NEW m \in 1 .. Len(s)
  PROVE  /\ \A i \in 1 .. Chars(s, m) : CharAt(s, End(s, m - 1) + i, m, i)
         /\ s[m].type # "blob" => EolAt(s, End(s, m - 1) + Chars(s, m) + 1, m)
         /\ \A i \in 1 .. Block(s, m) : DataAt(s, End(s, m - 1) + Chars(s, m) + 1 + i, m, i)
<1>1. /\ Chars(s, m) \in Nat /\ Block(s, m) \in Nat
      /\ Block(s, m) # 0 => s[m].type = "data"
      /\ End(s, m - 1) \in Nat
  <2>1. m - 1 \in 0 .. Len(s)
    BY ScriptIs
  <2>. QED BY <2>1, ScriptIs, EndStep
<1>2. ASSUME NEW i \in 1 .. Chars(s, m) PROVE CharAt(s, End(s, m - 1) + i, m, i)
  <2>1. i \in 1 .. Size(s, m)
    BY <1>1 DEF Size
  <2>. QED BY <2>1, BytesStand, BytesAre DEF CharAt
<1>3. ASSUME s[m].type # "blob" PROVE EolAt(s, End(s, m - 1) + Chars(s, m) + 1, m)
  <2>1. /\ Chars(s, m) + 1 \in 1 .. Size(s, m)
        /\ End(s, m - 1) + (Chars(s, m) + 1) = End(s, m - 1) + Chars(s, m) + 1
    BY <1>1, <1>3 DEF Size
  <2>2. Text(s)[End(s, m - 1) + (Chars(s, m) + 1)] = Eol(m)
    BY <1>3, <2>1, BytesStand, BytesAre
  <2>. QED BY <1>3, <2>1, <2>2 DEF EolAt
<1>4. ASSUME NEW i \in 1 .. Block(s, m) PROVE DataAt(s, End(s, m - 1) + Chars(s, m) + 1 + i, m, i)
  <2>1. /\ Chars(s, m) + 1 + i \in 1 .. Size(s, m) /\ s[m].type = "data"
        /\ End(s, m - 1) + (Chars(s, m) + 1 + i) = End(s, m - 1) + Chars(s, m) + 1 + i
    <3>1. s[m].type = "data"
      BY <1>1
    <3>2. Size(s, m) = Chars(s, m) + 1 + Block(s, m)
      BY <3>1 DEF Size
    <3>3. Chars(s, m) + 1 + i \in 1 .. Size(s, m)
      BY <1>1, <3>2
    <3>4. i \in Nat
      BY <1>1
    <3>. QED BY <1>1, <3>1, <3>3, <3>4, Regroup
  <2>2. Text(s)[End(s, m - 1) + (Chars(s, m) + 1 + i)] = Data(m, i)
    BY <2>1, BytesStand, BytesAre
  <2>. QED BY <2>1, <2>2 DEF DataAt
<1>. QED BY <1>2, <1>3, <1>4

\* And nothing else.
LEMMA ByteIs ==
  ASSUME NEW s \in Scripts, NEW p \in 1 .. End(s, Len(s))
  PROVE  \E m \in 1 .. Len(s) :
           \/ \E i \in 1 .. Chars(s, m) : CharAt(s, p, m, i)
           \/ EolAt(s, p, m)
           \/ \E i \in 1 .. Block(s, m) : DataAt(s, p, m, i)
<1>1. PICK m \in 1 .. Len(s) : \E i \in 1 .. Size(s, m) : p = End(s, m - 1) + i
  BY BytesBelong
<1>9. PICK i \in 1 .. Size(s, m) : p = End(s, m - 1) + i
  BY <1>1
<1>2. /\ Chars(s, m) \in Nat /\ Block(s, m) \in Nat
      /\ Block(s, m) # 0 => s[m].type = "data"
      /\ End(s, m - 1) \in Nat
  <2>1. m - 1 \in 0 .. Len(s)
    BY ScriptIs
  <2>. QED BY <2>1, ScriptIs, EndStep
<1>3. CASE i <= Chars(s, m)
  <2>1. i \in 1 .. Chars(s, m)
    BY <1>2, <1>3
  <2>. QED BY <1>9, <2>1, ByteStands
<1>4. CASE i = Chars(s, m) + 1 /\ s[m].type # "blob"
  <2>1. p = End(s, m - 1) + Chars(s, m) + 1
    BY <1>2, <1>4, <1>9
  <2>. QED BY <1>4, <2>1, ByteStands
<1>5. CASE i > Chars(s, m) /\ ~(i = Chars(s, m) + 1 /\ s[m].type # "blob")
  <2>1. s[m].type # "blob" /\ i > Chars(s, m) + 1
    BY <1>2, <1>5 DEF Size
  <2>2. /\ i - Chars(s, m) - 1 \in 1 .. Block(s, m)
        /\ p = End(s, m - 1) + Chars(s, m) + 1 + (i - Chars(s, m) - 1)
    BY <1>2, <1>9, <2>1 DEF Size
  <2>. QED BY <2>2, ByteStands
<1>. QED BY <1>2, <1>3, <1>4, <1>5

\* A character tells its place.
LEMMA CharTells ==
  ASSUME NEW s \in Scripts, NEW p \in 1 .. End(s, Len(s)), NEW m, NEW i, Text(s)[p] = Char(m, i)
  PROVE  CharAt(s, p, m, i)
<1>1. PICK n \in 1 .. Len(s) : \/ \E j \in 1 .. Chars(s, n) : CharAt(s, p, n, j)
                              \/ EolAt(s, p, n)
                              \/ \E j \in 1 .. Block(s, n) : DataAt(s, p, n, j)
  BY ByteIs
<1>2. ~EolAt(s, p, n) /\ \A j : ~DataAt(s, p, n, j)
  BY DEF EolAt, DataAt, Char, Eol, Data
<1>3. PICK j \in 1 .. Chars(s, n) : CharAt(s, p, n, j)
  BY <1>1, <1>2
<1>4. n = m /\ j = i
  BY <1>3 DEF CharAt, Char
<1>. QED BY <1>3, <1>4

\* How long some messages in a row are.
LEMMA RowLength ==
  ASSUME NEW s \in Scripts, NEW i \in 1 .. Len(s), NEW j \in i .. Len(s)
  PROVE  Len(FlattenSeq([k \in 1 .. j - i + 1 |-> BytesOf(s, i + k - 1)])) =
           End(s, j) - End(s, i - 1)
<1>. DEFINE row(n) == FlattenSeq([k \in 1 .. n |-> BytesOf(s, i + k - 1)])
            G == {n \in 0 .. Len(s) - i + 1 :
                    row(n) \in Seq(Byte) /\ Len(row(n)) = End(s, i + n - 1) - End(s, i - 1)}
<1>1. Len(s) \in Nat /\ Len(s) - i + 1 \in Nat /\ End(s, i - 1) \in Nat
  <2>1. Len(s) \in Nat /\ i - 1 \in 0 .. Len(s)
    BY ScriptIs
  <2>. QED BY <2>1, EndStep
<1>2. 0 \in G
  <2>1. [k \in 1 .. 0 |-> BytesOf(s, i + k - 1)] = <<>> /\ Len(<<>>) = 0 /\ <<>> \in Seq(Byte)
    OBVIOUS
  <2>2. row(0) = <<>>
    BY <2>1, FlattenNone
  <2>3. i + 0 - 1 = i - 1 /\ 0 \in 0 .. Len(s) - i + 1
    BY <1>1
  <2>. HIDE DEF row
  <2>4. row(0) \in Seq(Byte)
    BY <2>1, <2>2, Zenon
  <2>5. Len(row(0)) = End(s, i + 0 - 1) - End(s, i - 1)
    BY <1>1, <2>1, <2>2, <2>3
  <2>. QED BY <2>3, <2>4, <2>5
<1>3. ASSUME NEW n \in 1 .. Len(s) - i + 1, n - 1 \in G PROVE n \in G
  <2>. DEFINE b == [k \in 1 .. n |-> BytesOf(s, i + k - 1)]
  <2>1. /\ n \in Nat \ {0} /\ \A k \in 1 .. n : i + k - 1 \in 1 .. Len(s)
        /\ i + n - 1 \in 1 .. Len(s) /\ i + (n - 1) - 1 = i + n - 1 - 1
        /\ i + n - 1 - 1 \in 0 .. Len(s) /\ n \in 0 .. Len(s) - i + 1
    BY <1>1
  <2>2. b \in [1 .. n -> Seq(Byte)]
    <3>1. ASSUME NEW k \in 1 .. n PROVE BytesOf(s, i + k - 1) \in Seq(Byte)
      <4>1. i + k - 1 \in 1 .. Len(s)
        BY <2>1
      <4>. QED BY <4>1, BytesAre
    <3>. QED BY <3>1
  <2>3. [k \in 1 .. n - 1 |-> b[k]] = [k \in 1 .. n - 1 |-> BytesOf(s, i + k - 1)]
    <3>1. \A k \in 1 .. n - 1 : b[k] = BytesOf(s, i + k - 1)
      BY <2>1
    <3>. QED BY <3>1
  <2>4. b[n] = BytesOf(s, i + n - 1)
    BY <2>1
  <2>5. FlattenSeq(b) = FlattenSeq([k \in 1 .. n - 1 |-> b[k]]) \o b[n]
    <3>. HIDE DEF b
    <3>. QED BY <2>1, <2>2, FlattenLast
  <2>6. row(n) = row(n - 1) \o BytesOf(s, i + n - 1)
    BY <2>3, <2>4, <2>5
  <2>7. row(n - 1) \in Seq(Byte) /\ Len(row(n - 1)) = End(s, i + (n - 1) - 1) - End(s, i - 1)
    BY <1>3
  <2>8. /\ BytesOf(s, i + n - 1) \in Seq(Byte) /\ Size(s, i + n - 1) \in Nat
        /\ Len(BytesOf(s, i + n - 1)) = Size(s, i + n - 1)
    BY <2>1, BytesAre
  <2>9. /\ End(s, i + n - 1) = End(s, i + n - 1 - 1) + Size(s, i + n - 1)
        /\ End(s, i + n - 1 - 1) \in Nat
    BY <2>1, EndStep
  <2>. HIDE DEF row, b
  <2>10. row(n) \in Seq(Byte)
    BY <2>6, <2>7, <2>8, Appended, Zenon
  <2>11. Len(row(n)) = Len(row(n - 1)) + Len(BytesOf(s, i + n - 1))
    BY <2>6, <2>7, <2>8, Appended, Zenon
  <2>12. Len(row(n - 1)) = End(s, i + n - 1 - 1) - End(s, i - 1)
    BY <2>1, <2>7
  <2>13. Len(row(n)) = End(s, i + n - 1) - End(s, i - 1)
    <3>. DEFINE e == End(s, i + n - 1 - 1)
                f == End(s, i - 1)
                z == Size(s, i + n - 1)
    <3>1. e \in Nat /\ f \in Nat /\ z \in Nat
      BY <1>1, <2>8, <2>9
    <3>2. Len(row(n)) = (e - f) + z /\ End(s, i + n - 1) = e + z
      BY <2>8, <2>9, <2>11, <2>12
    <3>. HIDE DEF e, f, z
    <3>3. (e - f) + z = (e + z) - f
      BY <3>1
    <3>. QED BY <3>2, <3>3 DEF f
  <2>. QED BY <2>1, <2>10, <2>13
<1>4. j - i + 1 \in 0 .. Len(s) - i + 1 /\ i + (j - i + 1) - 1 = j
  BY <1>1
<1>5. j - i + 1 \in G
  <2>. HIDE DEF G
  <2>1. \A n \in 0 .. Len(s) - i + 1 : n \in G
    BY <1>1, <1>2, <1>3, UpTo
  <2>. QED BY <1>4, <2>1
<1>. HIDE DEF row
<1>6. Len(row(j - i + 1)) = End(s, j) - End(s, i - 1)
  BY <1>4, <1>5
<1>. QED BY <1>6 DEF row

-----------------------------------------------------------------------------
(* The inductive invariant.                                                   *)

\* Where the bytes are that the reader has received and not handled yet, and how many:
\* between two turns of the reader from pPktioReadPtr on, in a turn from pLine on.
Between == {"wait", "read"}
AtPtr == IF readPtr = NULL THEN 0 ELSE readPtr
Base == IF pc \in Between THEN AtPtr ELSE line
Ahead == IF pc \in Between THEN partial ELSE left

Typed ==
  /\ plan \in Plans
  /\ sent \in 0 .. End(script, Len(script)) /\ taken \in 0 .. sent
  /\ rxEvent \in BOOLEAN
  /\ pc \in Between \cup {"data", "line", "deliver"}
  /\ DOMAIN buf = 0 .. BufSize
  /\ readPtr \in {NULL} \cup 0 .. BufSize /\ partial \in 0 .. BufSize
  /\ line \in 0 .. BufSize /\ left \in 0 .. BufSize - line
  /\ Base + Ahead <= BufSize /\ Ahead <= taken
  /\ dataLen \in Nat
  /\ pc = "data" => dataLen # 0
  /\ pc \in {"line", "deliver"} => dataLen = 0
  /\ resp \in [alloc : BOOLEAN, items : Seq([off : Nat, len : Nat])]
  /\ resp.alloc \/ resp.items = <<>>
  /\ handled \in Seq(0 .. Len(script))

\* They are the last ones received, as the modem sent them.
WindowAt(b, base, n, tk, s) == \A i \in 0 .. n - 1 : b[base + i] = Text(s)[tk - n + i + 1]
Window == WindowAt(buf, Base, Ahead, taken, script)

\* They come after the messages handled so far, which came in order.
PassedBy(h, s, pos) == \A i \in 1 .. Len(h) : h[i] # 0 => End(s, h[i] - 1) + Chars(s, h[i]) <= pos
Ascending(h) == \A i, j \in 1 .. Len(h) : i < j /\ h[j] # 0 => h[i] < h[j]
Passed == PassedBy(handled, script, taken - Ahead) /\ Ascending(handled)

\* f is the last final result code up to message h, or 0.
LastFinal(s, f, h) ==
  /\ f \in 0 .. h
  /\ f = 0 \/ s[f].type = "final"
  /\ \A k \in f + 1 .. h : s[k].type # "final"

\* The lines and blocks from message f + 1 to h.
Line(s, m) == Append([i \in 1 .. s[m].len |-> Char(m, i)], Nul)
Items(s, m) == CASE s[m].type = "inter" -> << Line(s, m) >>
                 [] s[m].type = "data"  -> << Line(s, m), [i \in 1 .. s[m].data |-> Data(m, i)] >>
                 [] OTHER -> <<>>
ItemsTo(s, f, h) == FlattenSeq([k \in 1 .. h - f |-> Items(s, f + k)])

\* What is saved is there in the buffer, before the bytes ahead.
Holds(b, item, bytes, lim) ==
  /\ item.off + Len(bytes) <= lim
  /\ \A q \in 1 .. Len(bytes) : b[item.off + q - 1] = bytes[q]
SavedAs(b, items, exp, lim) ==
  /\ Len(items) = Len(exp)
  /\ \A i \in 1 .. Len(exp) : Holds(b, items[i], exp[i], lim)

\* Undisturbed, the reader stands at the end of a message or at its block of data,
\* stops reading only within a message, and has the response saved.
InStep(s, h, dl, pos) ==
  /\ h <= Len(s)
  /\ dl = 0 => pos = End(s, h)
  /\ dl # 0 => h # 0 /\ s[h].type = "data" /\ dl = Block(s, h) /\ pos + dl = End(s, h)
Within(s, h, dl, tk) ==
  /\ dl = 0 /\ h < Len(s) => tk < End(s, h + 1)
  /\ dl # 0 => tk < End(s, h)
Done == IF pc = "deliver" THEN Len(handled) - 1 ELSE Len(handled)
Expected(s, f, h, dl) ==
  IF dl = 0 THEN ItemsTo(s, f, h) ELSE Append(ItemsTo(s, f, h - 1), Line(s, h))
Response(f) ==
  /\ LastFinal(script, f, Done)
  /\ pc # "deliver" => End(script, f) <= taken - Ahead - Base
  /\ Done < Len(script) => SavedAs(buf, resp.items, Expected(script, f, Done, dataLen), Base)

Synchronous ==
  /\ \A i \in 1 .. Len(handled) : handled[i] = i
  /\ InStep(script, Len(handled), dataLen, taken - Ahead)
  /\ pc \in Between => Within(script, Len(handled), dataLen, taken)
  /\ pc = "deliver" => Len(handled) # 0 /\ script[Len(handled)].type = "final"
  /\ \E f \in 0 .. Len(script) : Response(f)

SInv == Typed /\ Window /\ Passed /\ (Undisturbed => Synchronous)
-----------------------------------------------------------------------------
(* What a step of the reader looks at.                                        *)

\* The plan of a run does not change, nor does the stream.
LEMMA StreamIs == ASSUME plan \in Plans
                  PROVE  script \in Scripts /\ BufSize \in Nat \ {0} /\ Stream = Text(script)
<1>1. script \in Scripts /\ BufSize \in Nat \ {0}
  BY StreamAssumption DEF Scripts, script, BufSize
<1>2. Stream = Text(script)
  BY DEF Stream, Text, TextTo, Bytes, BytesOf
<1>. QED BY <1>1, <1>2

\* What is skipped before a line, and what is left then.
LEMMA TurnIs ==
  ASSUME left \in Nat, line \in Nat
  PROVE  /\ Skip \in 0 .. left /\ Start \in Nat /\ Rest \in Nat
         /\ Start = line + Skip /\ Rest = left - Skip
         /\ \A i \in 0 .. Skip - 1 : buf[line + i].k \in Skipped
         /\ Rest > 0 => buf[Start].k \notin Skipped
<1>. DEFINE T == {n \in 0 .. left : n < left => buf[line + n].k \notin Skipped}
            Ok(n) == /\ \A i \in 0 .. n - 1 : buf[line + i].k \in Skipped
                     /\ n < left => buf[line + n].k \notin Skipped
<1>1. T \in SUBSET Nat /\ left \in T
  OBVIOUS
<1>2. PICK n \in T : \A k \in T : ~(k < n)
  <2>. HIDE DEF T
  <2>. QED BY <1>1, NatLeast
<1>3. n \in 0 .. left /\ Ok(n)
  <2>1. ASSUME NEW i \in 0 .. n - 1 PROVE buf[line + i].k \in Skipped
    <3>1. i \in 0 .. left /\ i < n /\ i < left
      OBVIOUS
    <3>. QED BY <1>2, <3>1
  <2>. QED BY <2>1
<1>4. Skip \in 0 .. left /\ Ok(Skip)
  <2>1. Skip = CHOOSE k \in 0 .. left : Ok(k)
    BY DEF Skip
  <2>. HIDE DEF Ok
  <2>. QED BY <1>3, <2>1
<1>. QED BY <1>4 DEF Start, Rest

\* The first line end in the rest.
LEMMA LineIs ==
  ASSUME left \in Nat, line \in Nat, Rest > 0, HasLine
  PROVE  /\ LineLength \in 1 .. Rest - 1
         /\ buf[Start + LineLength].k \in Skipped
         /\ \A i \in 0 .. LineLength - 1 : buf[Start + i].k \notin Skipped
<1>1. Start \in Nat /\ Rest \in Nat /\ buf[Start].k \notin Skipped
  BY TurnIs
<1>2. LineEnds \in SUBSET Nat /\ LineEnds # {}
  BY DEF LineEnds, HasLine
<1>3. PICK n \in LineEnds : \A k \in LineEnds : ~(k < n)
  BY <1>2, NatLeast
<1>4. \A k \in LineEnds : n <= k
  BY <1>2, <1>3
<1>5. LineLength \in LineEnds /\ \A k \in LineEnds : LineLength <= k
  BY <1>3, <1>4 DEF LineLength
<1>6. LineLength \in 0 .. Rest - 1 /\ buf[Start + LineLength].k \in Skipped
  BY <1>5 DEF LineEnds
<1>7. LineLength # 0
  BY <1>1, <1>6
<1>8. ASSUME NEW i \in 0 .. LineLength - 1 PROVE buf[Start + i].k \notin Skipped
  <2>1. i \in 0 .. Rest - 1 /\ ~(LineLength <= i)
    BY <1>1, <1>6
  <2>. QED BY <1>5, <2>1 DEF LineEnds
<1>. QED BY <1>1, <1>6, <1>7, <1>8

\* The message a line is.
LEMMA MsgIs == Msg \in 0 .. Len(script) /\ (Msg # 0 => IsMessage(Msg, LineLength))
  BY DEF Msg

-----------------------------------------------------------------------------
(* Nothing leaves the buffer.                                                 *)

\* The initial state has its type.
LEMMA TypedInit == ASSUME Init PROVE Typed
<1>1. script \in Scripts /\ BufSize \in Nat \ {0}
  BY StreamIs DEF Init
<1>2. End(script, Len(script)) \in Nat
  <2>1. Len(script) \in 0 .. Len(script)
    BY <1>1, ScriptIs
  <2>. QED BY <1>1, <2>1, EndStep
<1>3. resp \in [alloc : BOOLEAN, items : Seq([off : Nat, len : Nat])] /\ resp.items = <<>>
  BY DEF Init, NoResp
<1>4. handled \in Seq(0 .. Len(script))
  BY DEF Init
<1>5. DOMAIN buf = 0 .. BufSize
  BY DEF Init, Wiped
<1>6. pc \in Between /\ AtPtr = 0 /\ Base = 0 /\ Ahead = 0
  BY DEF Init, Between, Base, Ahead, AtPtr
<1>7. /\ readPtr \in {NULL} \cup 0 .. BufSize /\ partial \in 0 .. BufSize
      /\ line \in 0 .. BufSize /\ left \in 0 .. BufSize - line
  BY <1>1 DEF Init
<1>8. pc \notin {"data", "line", "deliver"}
  BY DEF Init
<1>9. /\ plan \in Plans /\ sent = 0 /\ taken = 0 /\ rxEvent \in BOOLEAN /\ dataLen = 0
  BY DEF Init
<1>10. /\ sent \in 0 .. End(script, Len(script)) /\ taken \in 0 .. sent
       /\ Base + Ahead <= BufSize /\ Ahead <= taken /\ dataLen \in Nat
  BY <1>1, <1>2, <1>6, <1>9
<1>. QED BY <1>3, <1>4, <1>5, <1>6, <1>7, <1>8, <1>9, <1>10 DEF Typed

\* Bytes that arrive keep the type.
LEMMA TypedArrive == ASSUME Typed, Arrive PROVE Typed'
<1>1. Len(Stream) = End(script, Len(script))
  BY StreamIs DEF Typed, End, Text
<1>2. End(script, Len(script)) \in Nat
  <2>1. script \in Scripts
    BY StreamIs DEF Typed
  <2>2. Len(script) \in 0 .. Len(script)
    BY <2>1, ScriptIs
  <2>. QED BY <2>1, <2>2, EndStep
<1>3. script' = script /\ BufSize' = BufSize
  BY DEF Arrive, script, BufSize
<1>4. sent' \in 0 .. End(script, Len(script)) /\ taken \in 0 .. sent'
  BY <1>1, <1>2 DEF Arrive, Typed
<1>. QED BY <1>3, <1>4 DEF Arrive, Typed, Base, Ahead, AtPtr

\* What a step that is not the modem's leaves alone.
LEMMA TypedPlan ==
  ASSUME Typed, plan' = plan
  PROVE  /\ script' = script /\ BufSize' = BufSize
         /\ script \in Scripts /\ BufSize \in Nat \ {0}
  BY StreamIs DEF Typed, script, BufSize

\* The wait for bytes keeps the type.
LEMMA TypedWait == ASSUME Typed, WaitRxData PROVE Typed'
<1>1. script' = script /\ BufSize' = BufSize
  BY TypedPlan DEF WaitRxData
<1>2. pc \in Between /\ pc' \in Between
  BY DEF WaitRxData, Between
<1>3. Base' = Base /\ Ahead' = Ahead
  BY <1>2 DEF WaitRxData, Base, Ahead, AtPtr
<1>4. pc' \notin {"data", "line", "deliver"} /\ rxEvent' \in BOOLEAN
  BY DEF WaitRxData
<1>. QED BY <1>1, <1>2, <1>3, <1>4 DEF WaitRxData, Typed

\* Where the next bytes are received.
LEMMA ReadIs ==
  ASSUME Typed, pc = "read"
  PROVE  /\ AtPtr \in 0 .. BufSize /\ partial \in 0 .. BufSize /\ AtPtr + partial <= BufSize
         /\ AtBuf \in 0 .. AtPtr /\ ReadAt = AtBuf + partial /\ ReadAt \in 0 .. BufSize
         /\ EmptyLength = BufSize - ReadAt
         /\ DOMAIN LeftoverBuffer = 0 .. BufSize
         /\ \A i \in 0 .. partial - 1 : LeftoverBuffer[AtBuf + i] = buf[AtPtr + i]
         /\ Base = AtPtr /\ Ahead = partial
         /\ ReadPtrAfterMove \in {NULL} \cup 0 .. BufSize
         /\ AtBuf = IF ReadPtrAfterMove = NULL THEN 0 ELSE ReadPtrAfterMove
         /\ ~MovesLeftover => LeftoverBuffer = buf /\ AtBuf = AtPtr
<1>1. BufSize \in Nat \ {0}
  BY StreamIs DEF Typed
<1>2. Base = AtPtr /\ Ahead = partial
  BY DEF Base, Ahead, Between
<1>3. /\ AtPtr \in 0 .. BufSize /\ partial \in 0 .. BufSize /\ AtPtr + partial <= BufSize
      /\ AtPtr = IF readPtr = NULL THEN 0 ELSE readPtr
      /\ readPtr \in {NULL} \cup 0 .. BufSize
  BY <1>1, <1>2 DEF Typed, AtPtr, NULL
<1>4. /\ AtBuf = IF ReadPtrAfterMove = NULL THEN 0 ELSE ReadPtrAfterMove
      /\ AtBuf \in 0 .. AtPtr /\ ReadPtrAfterMove \in {NULL} \cup 0 .. BufSize
  BY <1>1, <1>3 DEF AtBuf, ReadPtrAfterMove, NULL
<1>5. ReadAt = AtBuf + partial /\ ReadAt \in 0 .. BufSize /\ EmptyLength = BufSize - ReadAt
  <2>1. ReadAt = AtBuf + partial /\ EmptyLength = BufSize - ReadAt
    BY DEF ReadAt, EmptyLength
  <2>2. AtPtr \in 0 .. BufSize /\ partial \in 0 .. BufSize /\ AtPtr + partial <= BufSize
    BY <1>3
  <2>3. AtBuf \in 0 .. AtPtr
    BY <1>4
  <2>4. AtBuf + partial \in 0 .. BufSize
    BY <1>1, <2>2, <2>3
  <2>. QED BY <2>1, <2>4
<1>6. ASSUME ~MovesLeftover PROVE LeftoverBuffer = buf /\ AtBuf = AtPtr
  BY <1>6 DEF LeftoverBuffer, AtBuf, AtPtr
<1>7. ASSUME MovesLeftover
      PROVE  /\ DOMAIN LeftoverBuffer = 0 .. BufSize
             /\ \A i \in 0 .. partial - 1 : LeftoverBuffer[AtBuf + i] = buf[AtPtr + i]
  <2>1. AtBuf = 0 /\ AtPtr = readPtr
    BY <1>7 DEF AtBuf, AtPtr, MovesLeftover
  <2>2. LeftoverBuffer = [Moved(buf, readPtr, partial) EXCEPT ![partial] = Nul]
    BY <1>7 DEF LeftoverBuffer
  <2>3. /\ DOMAIN Moved(buf, readPtr, partial) = 0 .. BufSize
        /\ \A i \in 0 .. partial - 1 : Moved(buf, readPtr, partial)[i] = buf[readPtr + i]
    BY <1>1, <1>3 DEF Moved
  <2>. QED BY <1>1, <1>3, <2>1, <2>2, <2>3
<1>8. DOMAIN buf = 0 .. BufSize
  BY DEF Typed
<1>. QED BY <1>2, <1>3, <1>4, <1>5, <1>6, <1>7, <1>8

\* A read that appends to the leftover keeps the type.
LEMMA TypedReadBytes == ASSUME Typed, ReadBytes PROVE Typed'
<1>1. script' = script /\ BufSize' = BufSize /\ BufSize \in Nat \ {0}
  BY TypedPlan DEF ReadBytes
<1>2. pc = "read" /\ pc' \in {"data", "line"} /\ pc' \notin Between /\ pc' # "deliver"
  BY DEF ReadBytes, Between
<1>3. PICK n \in 1 .. sent - taken : /\ n <= EmptyLength
                                     /\ buf' = Received(LeftoverBuffer, ReadAt, n)
                                     /\ taken' = taken + n /\ left' = n + partial
  BY DEF ReadBytes
<1>4. sent \in Nat /\ taken \in Nat /\ taken <= sent /\ sent' = sent
  <2>1. sent \in Nat
    BY DEF Typed
  <2>. QED BY <2>1 DEF Typed, ReadBytes
<1>5. DOMAIN buf' = 0 .. BufSize'
  BY <1>1, <1>3 DEF Received
<1>6. /\ line' \in 0 .. BufSize /\ left' \in 0 .. BufSize - line' /\ line' + left' <= BufSize
      /\ taken' \in 0 .. sent /\ left' <= taken' /\ partial' = 0
      /\ readPtr' \in {NULL} \cup 0 .. BufSize
  <2>1. partial <= taken
    BY <1>2, ReadIs DEF Typed
  <2>2. n \in Nat /\ n + taken <= sent /\ n <= BufSize - ReadAt
    BY <1>2, <1>3, <1>4, ReadIs
  <2>3. line' = AtBuf /\ partial' = 0 /\ readPtr' = ReadPtrAfterMove
    BY DEF ReadBytes
  <2>4. /\ AtBuf \in 0 .. AtPtr /\ AtPtr \in 0 .. BufSize /\ partial \in 0 .. BufSize
        /\ ReadAt = AtBuf + partial /\ ReadPtrAfterMove \in {NULL} \cup 0 .. BufSize
    BY <1>2, ReadIs
  <2>5. AtBuf \in Nat /\ partial \in Nat /\ AtBuf + partial + n <= BufSize
    BY <1>1, <2>2, <2>4
  <2>6. left' = n + partial /\ n + partial <= taken + n
    BY <1>3, <1>4, <2>1, <2>2, <2>5
  <2>. QED BY <1>1, <1>3, <1>4, <2>2, <2>3, <2>4, <2>5, <2>6
<1>7. Base' = line' /\ Ahead' = left'
  BY <1>2 DEF Base, Ahead
<1>8. dataLen' = dataLen /\ (pc' = "data" => dataLen # 0) /\ (pc' = "line" => dataLen = 0)
  BY DEF ReadBytes
<1>. QED BY <1>1, <1>2, <1>4, <1>5, <1>6, <1>7, <1>8 DEF ReadBytes, Typed

\* A read that finds nothing keeps the type.
LEMMA TypedReadNothing == ASSUME Typed, ReadNothing PROVE Typed'
<1>1. script' = script /\ BufSize' = BufSize /\ BufSize \in Nat \ {0}
  BY TypedPlan DEF ReadNothing
<1>2. pc = "read" /\ pc' = "wait" /\ pc' \in Between
  BY DEF ReadNothing, Between
<1>3. Base' = AtBuf /\ Ahead' = partial
  BY <1>2, ReadIs DEF ReadNothing, Base, Ahead, AtPtr
<1>4. Base' + Ahead' <= BufSize /\ Ahead' <= taken
  BY <1>1, <1>2, <1>3, ReadIs DEF Typed
<1>5. DOMAIN buf' = 0 .. BufSize /\ readPtr' \in {NULL} \cup 0 .. BufSize
  BY <1>2, ReadIs DEF ReadNothing
<1>. QED BY <1>1, <1>2, <1>4, <1>5 DEF ReadNothing, Typed

\* Giving up a full buffer keeps the type.
LEMMA TypedReadOverflow == ASSUME Typed, ReadOverflow PROVE Typed'
<1>1. script' = script /\ BufSize' = BufSize /\ BufSize \in Nat \ {0}
  BY TypedPlan DEF ReadOverflow
<1>2. pc = "read" /\ pc' = "wait" /\ pc' \in Between
  BY DEF ReadOverflow, Between
<1>3. Base' = 0 /\ Ahead' = 0
  BY <1>2 DEF ReadOverflow, Base, Ahead, AtPtr
<1>4. 0 + 0 <= BufSize /\ 0 <= taken /\ 0 \in 0 .. BufSize
  <2>1. sent \in Nat /\ taken \in 0 .. sent
    BY DEF Typed
  <2>. QED BY <1>1, <2>1
<1>5. DOMAIN buf' = 0 .. BufSize
  BY <1>2, ReadIs DEF ReadOverflow
<1>. QED BY <1>1, <1>2, <1>3, <1>4, <1>5 DEF ReadOverflow, Typed

\* The bytes of a turn of the reader's loop.
LEMMA TurnTyped ==
  ASSUME Typed, pc \notin Between
  PROVE  /\ line \in Nat /\ left \in Nat /\ line + left <= BufSize /\ left <= taken
         /\ line \in 0 .. BufSize /\ taken \in Nat
         /\ Base = line /\ Ahead = left /\ BufSize \in Nat \ {0}
         /\ Start \in Nat /\ Rest \in Nat /\ Start + Rest = line + left /\ Rest <= left
<1>1. BufSize \in Nat \ {0}
  BY StreamIs DEF Typed
<1>2. Base = line /\ Ahead = left
  BY DEF Base, Ahead
<1>3. line \in 0 .. BufSize /\ left \in 0 .. BufSize - line /\ left <= taken
      /\ sent \in Nat /\ taken \in 0 .. sent
  BY <1>2 DEF Typed
<1>4. line \in Nat /\ left \in Nat /\ line + left <= BufSize
  BY <1>1, <1>3
<1>5. Start \in Nat /\ Rest \in Nat /\ Start = line + Skip /\ Rest = left - Skip /\ Skip \in Nat
  BY <1>4, TurnIs
<1>. QED BY <1>1, <1>2, <1>3, <1>4, <1>5

\* A turn that ends with rest bytes from start on, in whichever way it is remembered.
LEMMA TypedStop ==
  ASSUME Typed, pc \notin Between, plan' = plan, pc' = "read", dataLen' \in Nat,
         NEW start \in Nat, NEW rest \in Nat, start + rest <= BufSize, rest <= left,
         \/ readPtr' = start /\ partial' = rest
         \/ readPtr' = NULL /\ partial' = 0 /\ rest = 0,
         line' \in 0 .. BufSize, left' \in 0 .. BufSize - line',
         DOMAIN buf' = 0 .. BufSize, UNCHANGED <<sent, taken, rxEvent>>,
         resp' \in [alloc : BOOLEAN, items : Seq([off : Nat, len : Nat])],
         resp'.alloc \/ resp'.items = <<>>, handled' \in Seq(0 .. Len(script))
  PROVE  Typed'
<1>1. script' = script /\ BufSize' = BufSize /\ BufSize \in Nat \ {0}
  BY TypedPlan
<1>2. pc' \in Between /\ pc' \notin {"data", "line", "deliver"}
  BY DEF Between
<1>3. Base' = (IF readPtr' = NULL THEN 0 ELSE readPtr') /\ Ahead' = partial'
  BY <1>2 DEF Base, Ahead, AtPtr
<1>4. start \in 0 .. BufSize /\ rest \in 0 .. BufSize /\ rest <= taken
  <2>1. left \in Nat /\ taken \in Nat /\ left <= taken
    BY TurnTyped
  <2>. QED BY <1>1, <2>1
<1>5. /\ readPtr' \in {NULL} \cup 0 .. BufSize /\ partial' \in 0 .. BufSize
      /\ Base' + Ahead' <= BufSize /\ Ahead' <= taken
  <2>1. CASE readPtr' = start /\ partial' = rest
    <3>1. start # NULL
      BY DEF NULL
    <3>. QED BY <1>1, <1>3, <1>4, <2>1, <3>1
  <2>2. CASE readPtr' = NULL /\ partial' = 0 /\ rest = 0
    BY <1>1, <1>3, <1>4, <2>2
  <2>. QED BY <2>1, <2>2
<1>. QED BY <1>1, <1>2, <1>5 DEF Typed

\* A turn that goes on with rest bytes from start on.
LEMMA TypedGoOn ==
  ASSUME Typed, pc \notin Between, plan' = plan, pc' \in {"line", "deliver"}, dataLen' = 0,
         NEW start \in Nat, NEW rest \in Nat, start + rest <= BufSize, rest <= left,
         readPtr' \in 0 .. BufSize, partial' \in 0 .. BufSize, line' = start, left' = rest,
         DOMAIN buf' = 0 .. BufSize, UNCHANGED <<sent, taken, rxEvent>>,
         resp' \in [alloc : BOOLEAN, items : Seq([off : Nat, len : Nat])],
         resp'.alloc \/ resp'.items = <<>>, handled' \in Seq(0 .. Len(script))
  PROVE  Typed'
<1>1. script' = script /\ BufSize' = BufSize /\ BufSize \in Nat \ {0}
  BY TypedPlan
<1>2. pc' \notin Between /\ pc' # "data"
  BY DEF Between
<1>3. Base' = start /\ Ahead' = rest
  BY <1>2 DEF Base, Ahead
<1>4. rest <= taken /\ start \in 0 .. BufSize /\ rest \in 0 .. BufSize - start
  <2>1. left \in Nat /\ taken \in Nat /\ left <= taken
    BY TurnTyped
  <2>. QED BY <1>1, <2>1
<1>5. Base' + Ahead' <= BufSize /\ Ahead' <= taken
  BY <1>3, <1>4
<1>. QED BY <1>1, <1>2, <1>4, <1>5 DEF Typed

RespSet == [alloc : BOOLEAN, items : Seq([off : Nat, len : Nat])]

\* A response stays one when an item is saved.
LEMMA SavedTyped ==
  ASSUME NEW r \in RespSet, NEW off \in Nat, NEW n \in Nat
  PROVE  SaveItem(r, off, n) \in RespSet /\ SaveItem(r, off, n).alloc
         /\ SaveItem(r, off, n).items = Append(r.items, [off |-> off, len |-> n])
<1>1. r.items \in Seq([off : Nat, len : Nat]) /\ [off |-> off, len |-> n] \in [off : Nat, len : Nat]
  BY DEF RespSet
<1>2. Append(r.items, [off |-> off, len |-> n]) \in Seq([off : Nat, len : Nat])
  BY <1>1
<1>. QED BY <1>2 DEF SaveItem, RespSet

\* Passing over raw data already saved keeps the type.
LEMMA TypedReceiveData == ASSUME Typed, ReceiveData PROVE Typed'
<1>1. pc = "data" /\ pc \notin Between /\ plan' = plan /\ UNCHANGED <<sent, taken, rxEvent, handled>>
  BY DEF ReceiveData, Between
<1>2. /\ line \in Nat /\ left \in Nat /\ line + left <= BufSize /\ BufSize \in Nat \ {0}
      /\ line \in 0 .. BufSize /\ dataLen \in Nat /\ left \in 0 .. BufSize - line
  BY <1>1, TurnTyped DEF Typed
<1>3. resp \in RespSet /\ handled' \in Seq(0 .. Len(script)) /\ DOMAIN buf = 0 .. BufSize
      /\ (resp.alloc \/ resp.items = <<>>)
  BY <1>1 DEF Typed, RespSet
<1>4. DOMAIN buf' = 0 .. BufSize
  BY <1>3 DEF ReceiveData
<1>5. CASE DataComplete(resp, line, left)
  <2>1. /\ line' = line + dataLen /\ left' = left - dataLen /\ dataLen' = 0 /\ left >= dataLen
        /\ readPtr' = line + dataLen /\ partial' = left - dataLen
        /\ resp' = SaveItem(resp, line, dataLen)
        /\ pc' = IF left = dataLen THEN "read" ELSE "line"
    BY <1>5 DEF DataComplete, ReadMore
  <2>2. resp' \in RespSet /\ resp'.alloc
    BY <1>2, <1>3, <2>1, SavedTyped
  <2>3. /\ line + dataLen \in Nat /\ left - dataLen \in Nat /\ left - dataLen <= left
        /\ (line + dataLen) + (left - dataLen) <= BufSize
        /\ line' \in 0 .. BufSize /\ left' \in 0 .. BufSize - line'
        /\ readPtr' \in 0 .. BufSize /\ partial' \in 0 .. BufSize
    BY <1>2, <2>1
  <2>4. CASE left = dataLen
    BY <1>1, <1>3, <1>4, <2>1, <2>2, <2>3, <2>4, TypedStop DEF RespSet
  <2>5. CASE left # dataLen
    BY <1>1, <1>3, <1>4, <2>1, <2>2, <2>3, <2>5, TypedGoOn DEF RespSet
  <2>. QED BY <2>4, <2>5
<1>6. CASE DataPartial(resp, line, left, dataLen)
  BY <1>1, <1>2, <1>3, <1>4, <1>6, TypedStop DEF DataPartial, ReadMore, RespSet
<1>. QED BY <1>5, <1>6 DEF ReceiveData

\* The end of a pass keeps the type.
LEMMA TypedNoMoreLines == ASSUME Typed, NoMoreLines PROVE Typed'
<1>1. pc \notin Between /\ plan' = plan /\ Rest = 0
  BY DEF NoMoreLines, Between, Unread
<1>2. Start \in Nat /\ Start + 0 <= BufSize /\ 0 <= left
  BY <1>1, TurnTyped
<1>. QED BY <1>1, <1>2, TypedStop DEF NoMoreLines, ReadMore, Unread, Typed

\* A blob handed to the module's callback keeps the type.
LEMMA TypedTakeBlob == ASSUME Typed, TakeBlob PROVE Typed'
<1>1. pc = "line" /\ pc \notin Between /\ plan' = plan
  BY DEF TakeBlob, Between, Unread
<1>2. script \in Scripts
  BY <1>1, TypedPlan
<1>3. PICK m \in 1 .. Len(script) : buf[Start] = Char(m, 1)
  BY DEF TakeBlob, AtBlob
<1>4. Blob = m
  BY <1>3 DEF Blob, Char
<1>5. script[Blob].len \in Nat
  BY <1>2, <1>4, ScriptIs DEF Chars
<1>6. Rest >= script[Blob].len
  BY DEF TakeBlob
<1>. DEFINE n == script[Blob].len
<1>7. /\ Start + n \in Nat /\ Rest - n \in Nat /\ (Start + n) + (Rest - n) <= BufSize
      /\ Rest - n <= left /\ Start + n \in 0 .. BufSize
  <2>. HIDE DEF n
  <2>1. n \in Nat /\ Rest >= n
    BY <1>5, <1>6 DEF n
  <2>. QED BY <1>1, <2>1, TurnTyped
<1>8. /\ pc' = pc /\ dataLen' = 0 /\ line' = Start + n /\ left' = Rest - n
      /\ readPtr' \in 0 .. BufSize /\ partial' \in 0 .. BufSize /\ DOMAIN buf' = 0 .. BufSize
      /\ UNCHANGED <<sent, taken, rxEvent>>
  BY <1>1, <1>7 DEF TakeBlob, Unread, Typed
<1>9. handled' \in Seq(0 .. Len(script))
  <2>1. Len(script) \in Nat /\ m \in 0 .. Len(script)
    BY <1>2, ScriptIs
  <2>. QED BY <1>4, <2>1 DEF TakeBlob, Typed
<1>10. resp' \in RespSet /\ (resp'.alloc \/ resp'.items = <<>>)
  BY DEF TakeBlob, Typed, RespSet
<1>. HIDE DEF n
<1>. QED BY <1>1, <1>7, <1>8, <1>9, <1>10, TypedGoOn DEF RespSet

\* A blob that is not complete keeps the type.
LEMMA TypedWaitForBlob == ASSUME Typed, WaitForBlob PROVE Typed'
<1>1. pc \notin Between /\ plan' = plan
  BY DEF WaitForBlob, Between, Unread
<1>2. Start \in Nat /\ Rest \in Nat /\ Start + Rest <= BufSize /\ Rest <= left
  BY <1>1, TurnTyped
<1>. QED BY <1>1, <1>2, TypedStop DEF WaitForBlob, ReadMore, Unread, Typed

\* Dropping what the callback rejects keeps the type.
LEMMA TypedRejectBlob == ASSUME Typed, RejectBlob PROVE Typed'
<1>1. pc \notin Between /\ plan' = plan
  BY DEF RejectBlob, Between, Unread
<1>2. 0 \in Nat /\ 0 + 0 <= BufSize /\ 0 <= left /\ BufSize \in Nat
  BY <1>1, TurnTyped
<1>3. DOMAIN buf' = 0 .. BufSize
  BY DEF RejectBlob, Wiped
<1>. QED BY <1>1, <1>2, <1>3, TypedStop DEF RejectBlob, ReadMore, Unread, Typed

\* A line that is not complete keeps the type.
LEMMA TypedIncompleteLine == ASSUME Typed, IncompleteLine PROVE Typed'
<1>1. pc \notin Between /\ plan' = plan
  BY DEF IncompleteLine, Between, Unread
<1>2. Start \in Nat /\ Rest \in Nat /\ Start + Rest <= BufSize /\ Rest <= left
  BY <1>1, TurnTyped
<1>. QED BY <1>1, <1>2, TypedStop DEF IncompleteLine, ReadMore, Unread, Typed

\* What a whole line is, and where the next one begins.
LEMMA WholeLineIs ==
  ASSUME Typed, WholeLine
  PROVE  /\ pc \notin Between /\ Start \in Nat /\ Rest \in Nat /\ LineLength \in Nat
         /\ DataStart \in Nat /\ DataThere \in Nat
         /\ DataStart = Start + LineLength + 1 /\ DataThere = Rest - (LineLength + 1)
         /\ DataStart + DataThere = line + left /\ DataStart + DataThere <= BufSize
         /\ DataThere <= left
         /\ DataStart \in 0 .. BufSize /\ DataThere \in 0 .. BufSize
         /\ DOMAIN Terminated = 0 .. BufSize
         /\ Append(handled, Msg) \in Seq(0 .. Len(script))
<1>1. pc \notin Between /\ Rest > 0 /\ HasLine
  BY DEF WholeLine, Between
<1>2. /\ line \in Nat /\ left \in Nat /\ line + left <= BufSize /\ BufSize \in Nat
      /\ Start \in Nat /\ Rest \in Nat /\ Start + Rest = line + left /\ Rest <= left
  BY <1>1, TurnTyped
<1>3. LineLength \in 1 .. Rest - 1
  BY <1>1, <1>2, LineIs
<1>4. /\ LineLength \in Nat /\ Start + LineLength + 1 \in Nat /\ Rest - (LineLength + 1) \in Nat
      /\ (Start + LineLength + 1) + (Rest - (LineLength + 1)) = Start + Rest
  BY <1>2, <1>3
<1>5. DataStart = Start + LineLength + 1 /\ DataThere = Rest - (LineLength + 1)
  BY DEF DataStart, DataThere
<1>6. /\ DataStart \in Nat /\ DataThere \in Nat /\ DataStart + DataThere = line + left
      /\ DataThere <= left
  BY <1>2, <1>4, <1>5
<1>7. DataStart \in 0 .. BufSize /\ DataThere \in 0 .. BufSize
  BY <1>2, <1>6
<1>8. DOMAIN Terminated = 0 .. BufSize
  BY DEF Terminated, Typed
<1>9. Append(handled, Msg) \in Seq(0 .. Len(script))
  BY MsgIs DEF Typed
<1>. QED BY <1>1, <1>2, <1>4, <1>5, <1>6, <1>7, <1>8, <1>9

\* A line that leaves the loop running.
LEMMA TypedNextLine ==
  ASSUME Typed, WholeLine, plan' = plan, pc' \in {"line", "deliver"}, dataLen' = dataLen,
         NextLine, Handled, buf' = Terminated, UNCHANGED <<sent, taken, rxEvent>>,
         resp' \in RespSet, resp'.alloc \/ resp'.items = <<>>
  PROVE  Typed'
<1>1. line' = DataStart /\ left' = DataThere /\ readPtr' = DataStart /\ partial' = DataThere
  BY DEF NextLine, DataStart, DataThere
<1>2. dataLen' = 0
  BY DEF WholeLine, Typed
<1>3. DOMAIN buf' = 0 .. BufSize /\ handled' \in Seq(0 .. Len(script))
  BY WholeLineIs DEF Handled
<1>. QED BY <1>1, <1>2, <1>3, WholeLineIs, TypedGoOn DEF RespSet

\* An unsolicited line keeps the type.
LEMMA TypedUnsolicitedLine == ASSUME Typed, UnsolicitedLine PROVE Typed'
<1>1. resp' \in RespSet /\ (resp'.alloc \/ resp'.items = <<>>)
  BY DEF Typed, RespSet, UnsolicitedLine
<1>2. WholeLine /\ pc' \in {"line", "deliver"}
  BY DEF UnsolicitedLine, WholeLine
<1>. QED BY <1>1, <1>2, TypedNextLine DEF UnsolicitedLine, Unread

\* A line of a response keeps the type.
LEMMA TypedIntermediateLine == ASSUME Typed, IntermediateLine PROVE Typed'
<1>1. WholeLine /\ pc' \in {"line", "deliver"}
  BY DEF IntermediateLine, WholeLine
<1>2. resp \in RespSet
  BY DEF Typed, RespSet
<1>3. resp' \in RespSet /\ resp'.alloc
  BY <1>1, <1>2, WholeLineIs, SavedTyped DEF IntermediateLine
<1>. QED BY <1>1, <1>3, TypedNextLine DEF IntermediateLine, Unread

\* A final result code keeps the type.
LEMMA TypedFinalLine == ASSUME Typed, FinalLine PROVE Typed'
<1>1. resp' \in RespSet /\ (resp'.alloc \/ resp'.items = <<>>)
  BY DEF Typed, RespSet, FinalLine
<1>2. WholeLine /\ pc' \in {"line", "deliver"}
  BY DEF FinalLine
<1>. QED BY <1>1, <1>2, TypedNextLine DEF FinalLine, Unread

\* A line that raw data follows keeps the type.
LEMMA TypedDataLine == ASSUME Typed, DataLine PROVE Typed'
<1>. DEFINE r == SaveItem(resp, Start, LineLength)
            n == script[Msg].data
<1>1. WholeLine /\ plan' = plan /\ UNCHANGED <<sent, taken, rxEvent>> /\ Type = "data"
      /\ handled' = Append(handled, Msg) /\ buf' = Terminated
  BY DEF DataLine, Handled, Unread
<1>2. n \in Nat
  <2>1. Msg # 0
    BY <1>1 DEF Type
  <2>2. script \in Scripts
    BY StreamIs DEF Typed
  <2>. QED BY <2>1, <2>2, MsgIs, ScriptIs DEF Block
<1>3. r \in RespSet /\ r.alloc
  BY <1>1, WholeLineIs, SavedTyped DEF Typed, RespSet
<1>4. DOMAIN buf' = 0 .. BufSize /\ handled' \in Seq(0 .. Len(script))
  BY <1>1, WholeLineIs
<1>5. line \in 0 .. BufSize /\ left \in 0 .. BufSize - line /\ BufSize \in Nat
  BY <1>1, WholeLineIs, TurnTyped DEF Typed
<1>. DEFINE
       All == /\ DataThere >= n
              /\ resp' = SaveItem(r, DataStart, n)
              /\ line' = DataStart + n
              /\ left' = DataThere - n
              /\ readPtr' = DataStart + n
              /\ partial' = DataThere - n
              /\ pc' = IF DataThere = n THEN ReadMore ELSE "line"
              /\ UNCHANGED dataLen
       Some == DataPartial(r, DataStart, DataThere, n)
<1>6. All \/ Some
  BY DEF DataLine
<1>. HIDE DEF r, n
<1>7. CASE Some
  <2>1. /\ resp' = r /\ dataLen' = n /\ readPtr' = DataStart /\ partial' = DataThere
        /\ pc' = "read" /\ line' = line /\ left' = left
    BY <1>7 DEF DataPartial, ReadMore
  <2>2. plan' = plan /\ BufSize' = BufSize
    BY <1>1 DEF BufSize
  <2>. QED BY <1>1, <1>2, <1>3, <1>4, <1>5, <2>1, <2>2, WholeLineIs, TypedStop DEF RespSet
<1>8. CASE All
  <2>1. resp' \in RespSet /\ resp'.alloc
    BY <1>1, <1>2, <1>3, <1>8, WholeLineIs, SavedTyped
  <2>2. dataLen' = 0
    BY <1>1, <1>8 DEF WholeLine, Typed
  <2>3. /\ DataStart + n \in Nat /\ DataThere - n \in Nat /\ DataThere - n <= left
        /\ (DataStart + n) + (DataThere - n) <= BufSize
        /\ DataStart + n \in 0 .. BufSize /\ DataThere - n \in 0 .. BufSize
        /\ DataThere - n \in 0 .. BufSize - (DataStart + n)
    <3>1. /\ DataStart \in Nat /\ DataThere \in Nat /\ DataStart + DataThere <= BufSize
          /\ DataThere <= left /\ left \in Nat /\ DataThere >= n
      BY <1>1, <1>5, <1>8, WholeLineIs
    <3>. QED BY <1>2, <1>5, <3>1
  <2>4. BufSize' = BufSize /\ pc \notin Between
    BY <1>1, WholeLineIs DEF BufSize
  <2>5. /\ line' = DataStart + n /\ left' = DataThere - n
        /\ readPtr' = DataStart + n /\ partial' = DataThere - n
    BY <1>8
  <2>6. CASE DataThere = n
    <3>1. pc' = "read"
      BY <1>8, <2>6 DEF ReadMore
    <3>. HIDE DEF All
    <3>. QED BY <1>1, <1>4, <2>1, <2>2, <2>3, <2>4, <2>5, <3>1, TypedStop DEF RespSet
  <2>7. CASE DataThere # n
    <3>1. pc' = "line"
      BY <1>8, <2>7
    <3>. HIDE DEF All
    <3>. QED BY <1>1, <1>4, <2>1, <2>2, <2>3, <2>4, <2>5, <3>1, TypedGoOn DEF RespSet
  <2>. QED BY <2>6, <2>7
<1>. QED BY <1>6, <1>7, <1>8

\* Delivering a response keeps the type.
LEMMA TypedDeliver == ASSUME Typed, Deliver PROVE Typed'
<1>1. pc = "deliver" /\ pc' = "line" /\ pc \notin Between /\ plan' = plan
  BY DEF Deliver, Between, Unread
<1>2. /\ left \in Nat /\ 0 + left <= BufSize /\ left <= left /\ BufSize \in Nat
  BY <1>1, TurnTyped
<1>3. resp' \in RespSet /\ resp'.items = <<>>
  BY DEF Deliver, NoResp, RespSet
<1>4. DOMAIN buf' = 0 .. BufSize
  BY DEF Deliver, Compacted, Moved
<1>5. /\ dataLen' = 0 /\ readPtr' \in 0 .. BufSize /\ partial' \in 0 .. BufSize
      /\ line' = 0 /\ left' = left /\ handled' \in Seq(0 .. Len(script))
      /\ UNCHANGED <<sent, taken, rxEvent>>
  BY <1>1, <1>2 DEF Deliver, Unread, Typed
<1>. QED BY <1>1, <1>2, <1>3, <1>4, <1>5, TypedGoOn DEF RespSet

\* A line nobody expects keeps the type.
LEMMA TypedUndefinedLine == ASSUME Typed, UndefinedLine PROVE Typed'
<1>1. WholeLine /\ pc \notin Between /\ plan' = plan /\ UNCHANGED <<sent, taken, rxEvent>>
  BY DEF UndefinedLine, WholeLine, Between, Unread
<1>2. 0 \in Nat /\ 0 + 0 <= BufSize /\ 0 <= left /\ BufSize \in Nat
  BY <1>1, TurnTyped
<1>3. DOMAIN buf' = 0 .. BufSize /\ handled' \in Seq(0 .. Len(script))
  BY <1>1, WholeLineIs DEF UndefinedLine, Wiped, Handled
<1>4. resp' \in RespSet /\ resp'.items = <<>>
  BY DEF UndefinedLine, NoResp, RespSet
<1>5. /\ readPtr' = NULL /\ partial' = 0 /\ pc' = "read" /\ dataLen' \in Nat
      /\ line' \in 0 .. BufSize /\ left' \in 0 .. BufSize - line'
  BY DEF UndefinedLine, ReadMore, Typed
<1>. QED BY <1>1, <1>2, <1>3, <1>4, <1>5, TypedStop DEF RespSet

\* Every step keeps the type.
LEMMA TypedNext == ASSUME Typed, [Next]_vars PROVE Typed'
<1>1. CASE UNCHANGED vars
  <2>1. UNCHANGED <<script, BufSize, Base, Ahead>>
    BY <1>1 DEF vars, script, BufSize, Base, Ahead, AtPtr
  <2>. QED BY <1>1, <2>1 DEF vars, Typed
<1>2. CASE Arrive
  BY <1>2, TypedArrive
<1>3. CASE Reader
  BY <1>3, TypedWait, TypedReadBytes, TypedReadNothing, TypedReadOverflow, TypedReceiveData,
     TypedNoMoreLines, TypedTakeBlob, TypedWaitForBlob, TypedRejectBlob, TypedIncompleteLine,
     TypedUnsolicitedLine, TypedIntermediateLine, TypedDataLine, TypedFinalLine, TypedDeliver,
     TypedUndefinedLine
  DEF Reader
<1>. QED BY <1>1, <1>2, <1>3 DEF Next, Quiet

\* The type of the proofs implies the type invariant of the runs.
LEMMA TypedIsTypeOK == ASSUME Typed PROVE TypeOK
<1>1. Len(Stream) = End(script, Len(script))
  BY StreamIs DEF Typed, End, Text
<1>2. End(script, Len(script)) \in Nat
  <2>1. script \in Scripts
    BY StreamIs DEF Typed
  <2>2. Len(script) \in 0 .. Len(script)
    BY <2>1, ScriptIs
  <2>. QED BY <2>1, <2>2, EndStep
<1>3. taken <= sent /\ sent <= Len(Stream)
  <2>1. sent \in 0 .. End(script, Len(script)) /\ taken \in 0 .. sent
    BY DEF Typed
  <2>. QED BY <1>1, <1>2, <2>1
<1>4. ASSUME pc \in {"wait", "read"} PROVE ReadAt <= BufSize
  <2>1. BufSize \in Nat /\ readPtr \in {NULL} \cup 0 .. BufSize /\ partial \in 0 .. BufSize
        /\ Base + Ahead <= BufSize
    BY StreamIs DEF Typed
  <2>2. Base = AtPtr /\ Ahead = partial
    BY <1>4 DEF Base, Ahead, Between
  <2>3. AtBuf \in 0 .. AtPtr
    BY <2>1 DEF AtBuf, AtPtr, NULL
  <2>4. AtPtr \in 0 .. BufSize
    BY <2>1 DEF AtPtr, NULL
  <2>5. AtBuf + partial <= BufSize
    BY <2>1, <2>2, <2>3, <2>4
  <2>. QED BY <2>5 DEF ReadAt
<1>. QED BY <1>3, <1>4 DEF Typed, TypeOK, Between

\* The pointers the reader keeps into pktioReadBuf, and what it reads at them, stay
\* within the buffer, whatever the modem sends and however it is cut into pieces.
THEOREM NothingLeavesTheBuffer == Spec => []TypeOK
<1>1. Init => Typed
  BY TypedInit
<1>2. Typed /\ [Next]_vars => Typed'
  BY TypedNext
<1>3. Typed => TypeOK
  BY TypedIsTypeOK
<1>. HIDE DEF Typed, TypeOK, Next, vars, Init
<1>. QED BY <1>1, <1>2, <1>3, PTL DEF Spec

-----------------------------------------------------------------------------
(* The bytes ahead are those that were sent.                                  *)

\* The reader goes past the first a of the bytes ahead, and keeps the others.
Advance(a) ==
  /\ a \in 0 .. Ahead /\ plan' = plan /\ taken' = taken /\ Ahead' = Ahead - a
  /\ \A i \in 0 .. Ahead - a - 1 : buf'[Base' + i] = buf[Base + a + i]

Pos == taken - Ahead

\* The places where the reader can be.
LEMMA AheadIs ==
  ASSUME Typed
  PROVE  Base \in Nat /\ Ahead \in Nat /\ taken \in Nat /\ Pos \in Nat /\ BufSize \in Nat
         /\ Base + Ahead <= BufSize /\ Ahead <= taken
         /\ taken <= End(script, Len(script)) /\ script \in Scripts /\ Len(script) \in Nat
         /\ End(script, Len(script)) \in Nat
<1>1. BufSize \in Nat \ {0} /\ script \in Scripts
  BY StreamIs DEF Typed
<1>2. Base \in Nat
  BY DEF Typed, Base, AtPtr, NULL
<1>3. Ahead \in Nat
  BY DEF Typed, Ahead
<1>4. Len(script) \in Nat /\ End(script, Len(script)) \in Nat
  <2>1. Len(script) \in Nat
    BY <1>1, ScriptIs
  <2>2. Len(script) \in 0 .. Len(script)
    BY <2>1
  <2>. QED BY <1>1, <2>1, <2>2, EndStep
<1>5. sent \in 0 .. End(script, Len(script)) /\ taken \in 0 .. sent /\ Ahead <= taken
      /\ Base + Ahead <= BufSize
  BY DEF Typed
<1>. QED BY <1>1, <1>2, <1>3, <1>4, <1>5 DEF Pos

\* To advance keeps the rest of the window where it is.
LEMMA AdvanceKeeps ==
  ASSUME Typed, Window, NEW a, Advance(a)
  PROVE  Window' /\ Pos' = Pos + a /\ Pos + a \in Nat /\ script' = script /\ a \in Nat
<1>1. script' = script
  BY DEF Advance, script
<1>2. a \in Nat /\ Ahead' = Ahead - a /\ taken' = taken /\ a <= Ahead
  BY AheadIs DEF Advance
<1>. /\ Ahead \in Nat /\ taken \in Nat /\ Base \in Nat
  BY AheadIs
<1>3. Pos' = Pos + a /\ Pos + a \in Nat
  BY <1>2, AheadIs DEF Pos
<1>4. ASSUME NEW i \in 0 .. Ahead' - 1
      PROVE  buf'[Base' + i] = Text(script)[taken - Ahead' + i + 1]
  <2>1. i \in 0 .. Ahead - a - 1 /\ a + i \in 0 .. Ahead - 1
    BY <1>2, <1>4
  <2>2. buf'[Base' + i] = buf[Base + a + i]
    BY <2>1 DEF Advance
  <2>3. buf[Base + (a + i)] = Text(script)[taken - Ahead + (a + i) + 1]
    BY <2>1 DEF Window, WindowAt
  <2>4. Base + a + i = Base + (a + i)
    BY <1>2, <2>1
  <2>5. taken - Ahead + (a + i) + 1 = taken - Ahead' + i + 1
    <3>. HIDE DEF Ahead
    <3>. QED BY <1>2, <2>1
  <2>. QED BY <2>2, <2>3, <2>4, <2>5
<1>5. WindowAt(buf', Base', Ahead', taken', script)
  BY <1>2, <1>4 DEF WindowAt
<1>6. Window'
  BY <1>1, <1>5 DEF Window
<1>. QED BY <1>1, <1>2, <1>3, <1>6

\* What is passed stays passed.
LEMMA PassedOn ==
  ASSUME Typed, Window, Passed, NEW a, Advance(a), handled' = handled
  PROVE  Passed'
<1>1. Pos' = Pos + a /\ Pos + a \in Nat /\ script' = script /\ a \in Nat /\ Pos \in Nat
  BY AdvanceKeeps, AheadIs
<1>2. ASSUME NEW i \in 1 .. Len(handled), handled[i] # 0
      PROVE  End(script, handled[i] - 1) + Chars(script, handled[i]) <= Pos'
  <2>1. End(script, handled[i] - 1) + Chars(script, handled[i]) <= Pos
    BY <1>2 DEF Passed, PassedBy, Pos
  <2>2. handled[i] \in 1 .. Len(script)
    <3>1. handled \in Seq(0 .. Len(script))
      BY DEF Typed
    <3>2. handled[i] \in 0 .. Len(script)
      BY <1>2, <3>1
    <3>. QED BY <1>2, <3>2, AheadIs
  <2>3. handled[i] - 1 \in 0 .. Len(script)
    BY <2>2, AheadIs
  <2>4. End(script, handled[i] - 1) \in Nat /\ Chars(script, handled[i]) \in Nat
    BY <2>2, <2>3, AheadIs, EndStep, ScriptIs
  <2>. QED BY <1>1, <2>1, <2>4
<1>3. PassedBy(handled, script, Pos')
  BY <1>2 DEF PassedBy
<1>. QED BY <1>1, <1>3 DEF Passed, Pos

\* A message that begins where the reader stands, or later, comes after those handled.
LEMMA PassedMessage ==
  ASSUME Typed, Window, Passed, NEW a, Advance(a), NEW m \in 0 .. Len(script),
         handled' = Append(handled, m),
         m # 0 => Pos <= End(script, m - 1) /\ End(script, m - 1) + Chars(script, m) <= Pos + a
  PROVE  Passed'
<1>1. Pos' = Pos + a /\ Pos + a \in Nat /\ script' = script /\ a \in Nat /\ Pos \in Nat
      /\ script \in Scripts /\ Len(script) \in Nat
  BY AdvanceKeeps, AheadIs
<1>2. ASSUME NEW k \in 1 .. Len(script)
      PROVE  End(script, k - 1) \in Nat /\ Chars(script, k) \in Nat \ {0}
  <2>1. k - 1 \in 0 .. Len(script)
    BY <1>1
  <2>. QED BY <1>1, <2>1, EndStep, ScriptIs
<1>3. handled \in Seq(0 .. Len(script)) /\ Len(handled) \in Nat
      /\ Len(handled') = Len(handled) + 1 /\ handled'[Len(handled) + 1] = m
      /\ \A i \in 1 .. Len(handled) : handled'[i] = handled[i] /\ handled[i] \in 0 .. Len(script)
  <2>1. handled \in Seq(0 .. Len(script))
    BY DEF Typed
  <2>2. /\ Len(handled) \in Nat /\ Len(handled') = Len(handled) + 1
        /\ handled'[Len(handled) + 1] = m
    BY <2>1
  <2>3. ASSUME NEW i \in 1 .. Len(handled)
        PROVE  handled'[i] = handled[i] /\ handled[i] \in 0 .. Len(script)
    BY <2>1
  <2>. QED BY <2>1, <2>2, <2>3
<1>4. ASSUME NEW i \in 1 .. Len(handled'), handled'[i] # 0
      PROVE  End(script, handled'[i] - 1) + Chars(script, handled'[i]) <= Pos'
  <2>1. CASE i = Len(handled) + 1
    BY <1>1, <1>3, <1>4, <2>1
  <2>2. CASE i # Len(handled) + 1
    <3>1. i \in 1 .. Len(handled) /\ handled'[i] = handled[i] /\ handled[i] \in 1 .. Len(script)
      BY <1>1, <1>3, <1>4, <2>2
    <3>2. End(script, handled[i] - 1) + Chars(script, handled[i]) <= Pos
      BY <1>4, <3>1 DEF Passed, PassedBy, Pos
    <3>. QED BY <1>1, <1>2, <3>1, <3>2
  <2>. QED BY <2>1, <2>2
<1>5. ASSUME NEW i \in 1 .. Len(handled'), NEW j \in 1 .. Len(handled'), i < j, handled'[j] # 0
      PROVE  handled'[i] < handled'[j]
  <2>1. i \in 1 .. Len(handled) /\ handled'[i] = handled[i] /\ handled[i] \in 0 .. Len(script)
    BY <1>3, <1>5
  <2>2. CASE j \in 1 .. Len(handled)
    BY <1>3, <1>5, <2>1, <2>2 DEF Passed, Ascending
  <2>3. CASE j = Len(handled) + 1
    <3>1. handled'[j] = m /\ m \in 1 .. Len(script) /\ Pos <= End(script, m - 1)
      BY <1>1, <1>3, <1>5, <2>3
    <3>2. CASE handled[i] = 0
      BY <2>1, <3>1, <3>2
    <3>3. CASE handled[i] # 0 /\ handled[i] >= m
      <4>. DEFINE k == handled[i]
      <4>1. k \in 1 .. Len(script) /\ k - 1 \in 0 .. Len(script) /\ m - 1 \in 0 .. Len(script)
            /\ m - 1 <= k - 1
        <5>1. k \in 1 .. Len(script) /\ m \in 0 .. Len(script) /\ m # 0 /\ m <= k
          BY <2>1, <3>1, <3>3
        <5>2. Len(script) \in Nat
          BY <1>1
        <5>. HIDE DEF k
        <5>. QED BY <5>1, <5>2
      <4>2. End(script, k - 1) + Chars(script, k) <= Pos
        BY <2>1, <3>3 DEF Passed, PassedBy, Pos
      <4>4. End(script, k - 1) \in Nat /\ Chars(script, k) \in Nat \ {0} /\ End(script, m - 1) \in Nat
        BY <1>2, <3>1, <4>1
      <4>3. CASE m - 1 = k - 1
        BY <1>1, <3>1, <4>2, <4>3, <4>4
      <4>5. CASE m - 1 < k - 1
        <5>1. End(script, m - 1) < End(script, k - 1)
          BY <1>1, <4>1, <4>5, EndsAscend
        <5>. QED BY <1>1, <3>1, <4>2, <4>4, <5>1
      <4>6. m - 1 = k - 1 \/ m - 1 < k - 1
        <5>1. m - 1 \in Int /\ k - 1 \in Int /\ m - 1 <= k - 1
          BY <4>1
        <5>. QED BY <5>1, EqualOrLess
      <4>. QED BY <4>3, <4>5, <4>6
    <3>. QED BY <1>1, <2>1, <3>1, <3>2, <3>3
  <2>. QED BY <1>3, <2>2, <2>3
<1>6. PassedBy(handled', script, Pos') /\ Ascending(handled')
  BY <1>4, <1>5 DEF PassedBy, Ascending
<1>. QED BY <1>1, <1>6 DEF Passed, Pos

\* Where the reader stands after a turn that stops, and after one that does not.
LEMMA StandsAfter ==
  /\ pc' \in Between /\ readPtr' \in Nat => Base' = readPtr' /\ Ahead' = partial'
  /\ pc' \in Between /\ readPtr' = NULL => Base' = 0 /\ Ahead' = partial'
  /\ pc' \notin Between => Base' = line' /\ Ahead' = left'
  BY DEF Base, Ahead, AtPtr, NULL

\* To go past a bytes it is enough to stand there, or to keep none.
LEMMA AdvanceBy ==
  ASSUME Typed, plan' = plan, taken' = taken, NEW a \in Nat, a <= Ahead,
         Ahead' = Ahead - a,
         Ahead' # 0 => /\ Base' = Base + a
                       /\ \A q \in Base + a .. Base + Ahead - 1 : buf'[q] = buf[q]
  PROVE  Advance(a)
<1>1. Base \in Nat /\ Ahead \in Nat
  BY AheadIs
<1>2. ASSUME NEW i \in 0 .. Ahead - a - 1 PROVE buf'[Base' + i] = buf[Base + a + i]
  <2>1. Ahead' # 0 /\ Base + a + i \in Base + a .. Base + Ahead - 1
    BY <1>1, <1>2
  <2>. QED BY <2>1
<1>. QED BY <1>1, <1>2 DEF Advance

\* Bytes that arrive advance nothing.
LEMMA ArriveAdvances == ASSUME Typed, Arrive PROVE Advance(0)
<1>1. Base' = Base /\ Ahead' = Ahead
  BY DEF Arrive, Base, Ahead, AtPtr
<1>2. Base \in Nat /\ Ahead \in Nat
  BY AheadIs
<1>. QED BY <1>1, <1>2, AdvanceBy DEF Arrive

\* The wait for bytes advances nothing.
LEMMA WaitAdvances == ASSUME Typed, WaitRxData PROVE Advance(0)
<1>1. pc \in Between /\ pc' \in Between
  BY DEF WaitRxData, Between
<1>2. Base' = Base /\ Ahead' = Ahead
  BY <1>1 DEF WaitRxData, Base, Ahead, AtPtr
<1>3. Base \in Nat /\ Ahead \in Nat
  BY AheadIs
<1>. QED BY <1>2, <1>3, AdvanceBy DEF WaitRxData

\* A read that finds nothing advances nothing.
LEMMA ReadNothingAdvances == ASSUME Typed, ReadNothing PROVE Advance(0)
<1>1. pc = "read" /\ pc' = "wait" /\ pc' \in Between
  BY DEF ReadNothing, Between
<1>2. Base' = AtBuf /\ Ahead' = partial /\ Base = AtPtr /\ Ahead = partial
  BY <1>1, ReadIs DEF ReadNothing, Base, Ahead, AtPtr
<1>3. \A i \in 0 .. partial - 1 : buf'[AtBuf + i] = buf[AtPtr + i]
  BY <1>1, ReadIs DEF ReadNothing
<1>4. Base \in Nat /\ Ahead \in Nat
  BY AheadIs
<1>5. ASSUME NEW i \in 0 .. Ahead - 0 - 1 PROVE buf'[Base' + i] = buf[Base + 0 + i]
  <2>1. i \in 0 .. partial - 1 /\ Base + 0 + i = AtPtr + i
    BY <1>2, <1>4
  <2>. QED BY <1>2, <1>3, <2>1
<1>. QED BY <1>2, <1>4, <1>5 DEF Advance, ReadNothing

\* A full buffer is given up whole.
LEMMA ReadOverflowAdvances == ASSUME Typed, ReadOverflow PROVE Advance(partial) /\ Ahead = partial
<1>1. pc = "read" /\ pc' \in Between /\ readPtr' = NULL /\ partial' = 0
  BY DEF ReadOverflow, Between
<1>2. Ahead' = 0 /\ Ahead = partial
  BY <1>1, StandsAfter, ReadIs
<1>3. Ahead \in Nat
  BY AheadIs
<1>. QED BY <1>2, <1>3, AdvanceBy DEF ReadOverflow

\* A turn that goes past everything.
LEMMA AllPassed ==
  ASSUME Typed, pc \notin Between, plan' = plan, taken' = taken, pc' = "read", partial' = 0,
         readPtr' \in Nat \cup {NULL}
  PROVE  Advance(left) /\ Ahead = left
<1>1. pc' \in Between
  BY DEF Between
<1>2. Ahead' = 0 /\ Ahead = left
  BY <1>1, StandsAfter, TurnTyped
<1>3. Ahead \in Nat
  BY AheadIs
<1>. QED BY <1>2, <1>3, AdvanceBy

\* A turn that goes past the bytes before start, and leaves those after it as they are.
LEMMA SomePassed ==
  ASSUME Typed, pc \notin Between, plan' = plan, taken' = taken,
         NEW start \in Nat, NEW rest \in Nat, start + rest = line + left, rest <= left,
         \/ pc' = "read" /\ readPtr' = start /\ partial' = rest
         \/ pc' \in {"line", "deliver"} /\ line' = start /\ left' = rest,
         \A q \in start .. start + rest - 1 : buf'[q] = buf[q]
  PROVE  Advance(start - line)
<1>1. Base = line /\ Ahead = left /\ line \in Nat /\ left \in Nat
  BY TurnTyped
<1>2. Base' = start /\ Ahead' = rest
  BY StandsAfter DEF Between
<1>3. /\ start - line \in Nat /\ start - line <= left /\ rest = left - (start - line)
      /\ line + (start - line) = start /\ line + left - 1 = start + rest - 1
  BY <1>1
<1>. QED BY <1>1, <1>2, <1>3, AdvanceBy

\* Saved data is passed over, as far as it has been read.
LEMMA ReceiveDataAdvances ==
  ASSUME Typed, ReceiveData
  PROVE  \/ DataComplete(resp, line, left) /\ left >= dataLen /\ Advance(dataLen)
         \/ DataPartial(resp, line, left, dataLen) /\ Advance(0)
<1>1. /\ pc \notin Between /\ plan' = plan /\ taken' = taken
      /\ line \in Nat /\ left \in Nat /\ dataLen \in Nat /\ DOMAIN buf = 0 .. BufSize
  BY TurnTyped DEF ReceiveData, Between, Typed
<1>2. CASE DataComplete(resp, line, left) /\ buf' = [buf EXCEPT ![line + left] = Nul]
  <2>1. /\ line' = line + dataLen /\ left' = left - dataLen /\ left >= dataLen
        /\ readPtr' = line + dataLen /\ partial' = left - dataLen
        /\ \/ pc' = "read"
           \/ pc' = "line"
    BY <1>2 DEF DataComplete, ReadMore
  <2>2. /\ line + dataLen \in Nat /\ left - dataLen \in Nat /\ left - dataLen <= left
        /\ (line + dataLen) + (left - dataLen) = line + left
        /\ (line + dataLen) - line = dataLen
        /\ \A q \in line + dataLen .. (line + dataLen) + (left - dataLen) - 1 : buf'[q] = buf[q]
    BY <1>1, <1>2, <2>1
  <2>3. Advance((line + dataLen) - line)
    BY <1>1, <2>1, <2>2, SomePassed
  <2>. QED BY <1>2, <2>1, <2>2, <2>3
<1>3. CASE DataPartial(resp, line, left, dataLen) /\ buf' = buf
  <2>1. readPtr' = line /\ partial' = left /\ pc' = "read" /\ line - line = 0
    BY <1>1, <1>3 DEF DataPartial, ReadMore
  <2>2. Advance(line - line)
    BY <1>1, <1>3, <2>1, SomePassed
  <2>. QED BY <1>3, <2>1, <2>2
<1>. QED BY <1>2, <1>3 DEF ReceiveData

\* A pass ends when nothing is ahead.
LEMMA NoMoreLinesAdvances == ASSUME Typed, NoMoreLines PROVE Advance(left) /\ Ahead = left
<1>1. pc \notin Between
  BY DEF NoMoreLines, Between
<1>2. Start \in Nat
  BY <1>1, TurnTyped
<1>. QED BY <1>1, <1>2, AllPassed DEF NoMoreLines, ReadMore, Unread

\* What the callback rejects is given up whole.
LEMMA RejectBlobAdvances == ASSUME Typed, RejectBlob PROVE Advance(left) /\ Ahead = left
  BY AllPassed DEF RejectBlob, Between, ReadMore, Unread

\* What follows a line nobody expects is given up with it.
LEMMA UndefinedLineAdvances == ASSUME Typed, UndefinedLine PROVE Advance(left) /\ Ahead = left
  BY AllPassed DEF UndefinedLine, WholeLine, Between, ReadMore, Unread

\* What is skipped before a line.
LEMMA SkipIs ==
  ASSUME Typed, pc \notin Between
  PROVE  Skip \in Nat /\ Start - line = Skip /\ Start = line + Skip /\ Start + Rest = line + left
         /\ Rest <= left /\ Start \in Nat /\ Rest \in Nat /\ line \in Nat /\ left \in Nat
         /\ Skip <= left
<1>1. line \in Nat /\ left \in Nat
  BY TurnTyped
<1>2. Skip \in 0 .. left /\ Start = line + Skip /\ Rest = left - Skip
  BY <1>1, TurnIs
<1>. QED BY <1>1, <1>2

\* A blob that is not complete stays ahead.
LEMMA WaitForBlobAdvances == ASSUME Typed, WaitForBlob PROVE Advance(Skip)
<1>1. pc \notin Between
  BY DEF WaitForBlob, Between
<1>2. Advance(Start - line)
  BY <1>1, SkipIs, SomePassed DEF WaitForBlob, ReadMore, Unread
<1>. QED BY <1>1, <1>2, SkipIs

\* A line that is not complete stays ahead, without the ends of line before it.
LEMMA IncompleteLineAdvances == ASSUME Typed, IncompleteLine PROVE Advance(Skip)
<1>1. pc \notin Between
  BY DEF IncompleteLine, Between
<1>2. Advance(Start - line)
  BY <1>1, SkipIs, SomePassed DEF IncompleteLine, ReadMore, Unread
<1>. QED BY <1>1, <1>2, SkipIs

\* A blob, and where it is taken.
LEMMA BlobIs ==
  ASSUME Typed, pc \notin Between, AtBlob
  PROVE  /\ Blob \in 1 .. Len(script) /\ script[Blob].type = "blob" /\ Rest > 0
         /\ buf[Start] = Char(Blob, 1)
         /\ Chars(script, Blob) \in Nat \ {0} /\ script[Blob].len = Chars(script, Blob)
<1>1. PICK m \in 1 .. Len(script) : script[m].type = "blob" /\ buf[Start] = Char(m, 1)
  BY DEF AtBlob
<1>2. Blob = m
  BY <1>1 DEF Blob, Char
<1>3. Chars(script, m) \in Nat \ {0}
  BY AheadIs, ScriptIs
<1>. QED BY <1>1, <1>2, <1>3 DEF AtBlob, Chars

\* A blob is passed over when it is complete.
LEMMA TakeBlobAdvances == ASSUME Typed, TakeBlob PROVE Advance(Skip + Chars(script, Blob))
<1>1. pc \notin Between /\ pc' = "line" /\ plan' = plan /\ taken' = taken /\ buf' = buf
  BY DEF TakeBlob, Between, Unread
<1>. DEFINE n == Chars(script, Blob)
<1>2. n \in Nat /\ Rest >= n /\ line' = Start + n /\ left' = Rest - n
  BY <1>1, BlobIs DEF TakeBlob
<1>. HIDE DEF n
<1>3. /\ Start + n \in Nat /\ Rest - n \in Nat /\ (Start + n) + (Rest - n) = line + left
      /\ Rest - n <= left /\ (Start + n) - line = Skip + n
  BY <1>1, <1>2, SkipIs
<1>4. Advance((Start + n) - line)
  BY <1>1, <1>2, <1>3, SomePassed
<1>. QED BY <1>3, <1>4 DEF n

\* A whole line is passed with its end.
LEMMA LineAdvances ==
  ASSUME Typed, WholeLine, plan' = plan, taken' = taken, buf' = Terminated,
         \/ pc' = "read" /\ readPtr' = DataStart /\ partial' = DataThere
         \/ pc' \in {"line", "deliver"} /\ line' = DataStart /\ left' = DataThere
  PROVE  Advance(Skip + LineLength + 1)
<1>1. pc \notin Between /\ LineLength \in Nat /\ DataStart = Start + LineLength + 1
  BY WholeLineIs
<1>2. DataStart - line = Skip + LineLength + 1
  BY <1>1, SkipIs
<1>3. ASSUME NEW q \in DataStart .. DataStart + DataThere - 1 PROVE buf'[q] = buf[q]
  <2>1. /\ DataStart \in Nat /\ DataThere \in Nat /\ DataStart + DataThere <= BufSize
        /\ Start \in Nat /\ BufSize \in Nat
    BY <1>1, WholeLineIs, TurnTyped
  <2>2. q # Start + LineLength
    BY <1>1, <2>1
  <2>. QED BY <2>2 DEF Terminated
<1>4. Advance(DataStart - line)
  BY <1>1, <1>3, WholeLineIs, SomePassed
<1>. QED BY <1>2, <1>4

\* An unsolicited line is passed over.
LEMMA UnsolicitedLineAdvances ==
  ASSUME Typed, UnsolicitedLine PROVE Advance(Skip + LineLength + 1)
  BY LineAdvances DEF UnsolicitedLine, WholeLine, NextLine, Unread, DataStart, DataThere

\* A line of a response is passed over.
LEMMA IntermediateLineAdvances ==
  ASSUME Typed, IntermediateLine PROVE Advance(Skip + LineLength + 1)
  BY LineAdvances DEF IntermediateLine, WholeLine, NextLine, Unread, DataStart, DataThere

\* A final result code is passed over.
LEMMA FinalLineAdvances ==
  ASSUME Typed, FinalLine PROVE Advance(Skip + LineLength + 1)
  BY LineAdvances DEF FinalLine, NextLine, Unread, DataStart, DataThere

\* With the whole block of data after the line, or with the part that is there.
DataAll ==
  LET r == SaveItem(resp, Start, LineLength)
      n == script[Msg].data
  IN  /\ DataThere >= n
      /\ resp' = SaveItem(r, DataStart, n)
      /\ line' = DataStart + n
      /\ left' = DataThere - n
      /\ readPtr' = DataStart + n
      /\ partial' = DataThere - n
      /\ pc' = IF DataThere = n THEN ReadMore ELSE "line"
      /\ UNCHANGED dataLen
DataSome == DataPartial(SaveItem(resp, Start, LineLength), DataStart, DataThere, script[Msg].data)

\* A line is passed over with the raw data after it, as far as it has been read.
LEMMA DataLineAdvances ==
  ASSUME Typed, DataLine
  PROVE  /\ Msg # 0 /\ script[Msg].data \in Nat
         /\ \/ DataAll /\ Advance(Skip + LineLength + 1 + script[Msg].data)
            \/ DataSome /\ Advance(Skip + LineLength + 1)
<1>1. WholeLine /\ plan' = plan /\ taken' = taken /\ buf' = Terminated /\ (DataAll \/ DataSome)
      /\ Type = "data"
  BY DEF DataLine, Unread, DataAll, DataSome
<1>2. Msg # 0
  BY <1>1 DEF Type
<1>. DEFINE n == script[Msg].data
<1>3. n \in Nat
  BY <1>2, AheadIs, MsgIs, ScriptIs DEF Block
<1>4. ASSUME DataSome PROVE Advance(Skip + LineLength + 1)
  BY <1>1, <1>4, LineAdvances DEF DataSome, DataPartial, ReadMore
<1>5. ASSUME DataAll PROVE Advance(Skip + LineLength + 1 + n)
  <2>1. /\ DataThere >= n /\ line' = DataStart + n /\ left' = DataThere - n
        /\ readPtr' = DataStart + n /\ partial' = DataThere - n
        /\ pc' = "read" \/ pc' = "line"
    BY <1>5 DEF DataAll, ReadMore
  <2>. HIDE DEF n
  <2>2. /\ pc \notin Between /\ LineLength \in Nat /\ DataStart = Start + LineLength + 1
        /\ DataStart \in Nat /\ DataThere \in Nat /\ DataStart + DataThere = line + left
        /\ DataThere <= left
    BY <1>1, WholeLineIs
  <2>3. /\ DataStart + n \in Nat /\ DataThere - n \in Nat /\ DataThere - n <= left
        /\ (DataStart + n) + (DataThere - n) = line + left
        /\ (DataStart + n) - line = Skip + LineLength + 1 + n
    BY <1>3, <2>1, <2>2, SkipIs
  <2>4. ASSUME NEW q \in DataStart + n .. (DataStart + n) + (DataThere - n) - 1
        PROVE  buf'[q] = buf[q]
    <3>1. q # Start + LineLength
      BY <1>3, <2>2, SkipIs
    <3>. QED BY <1>1, <3>1 DEF Terminated
  <2>5. Advance((DataStart + n) - line)
    BY <1>1, <2>1, <2>2, <2>3, <2>4, SomePassed
  <2>. QED BY <2>3, <2>5
<1>. QED BY <1>1, <1>2, <1>3, <1>4, <1>5

\* Delivering a response advances nothing.
LEMMA DeliverAdvances == ASSUME Typed, Deliver PROVE Advance(0)
<1>1. pc \notin Between /\ pc' \notin Between /\ plan' = plan /\ taken' = taken
      /\ line' = 0 /\ left' = left /\ buf' = Moved(buf, line, left)
  BY DEF Deliver, Between, Unread, Compacted
<1>2. /\ Base = line /\ Ahead = left /\ line \in Nat /\ left \in Nat /\ BufSize \in Nat
      /\ line + left <= BufSize
  BY <1>1, TurnTyped
<1>3. Base' = 0 /\ Ahead' = left
  BY <1>1, StandsAfter
<1>4. ASSUME NEW i \in 0 .. left - 0 - 1 PROVE buf'[0 + i] = buf[line + 0 + i]
  <2>1. i \in 0 .. BufSize /\ i < left /\ line + 0 + i = line + i /\ 0 + i = i
    BY <1>2
  <2>. QED BY <1>1, <2>1 DEF Moved
<1>. QED BY <1>1, <1>2, <1>3, <1>4 DEF Advance

\* What the reader has ahead in a turn, as the modem sent it.
LEMMA AheadStands ==
  ASSUME Typed, Window, pc \notin Between, NEW i \in 0 .. Rest - 1
  PROVE  /\ buf[Start + i] = Text(script)[Pos + Skip + i + 1]
         /\ Pos + Skip + i + 1 \in 1 .. End(script, Len(script))
<1>1. Base = line /\ Ahead = left
  BY DEF Base, Ahead
<1>2. /\ Skip \in Nat /\ Start = line + Skip /\ Rest \in Nat /\ line \in Nat /\ left \in Nat
      /\ Rest = left - Skip
  BY SkipIs
<1>3. Skip + i \in 0 .. Ahead - 1 /\ line + (Skip + i) = Start + i
  BY <1>1, <1>2
<1>4. buf[line + (Skip + i)] = Text(script)[taken - Ahead + (Skip + i) + 1]
  BY <1>1, <1>3 DEF Window, WindowAt
<1>5. taken - Ahead + (Skip + i) + 1 = Pos + Skip + i + 1 /\ Pos + Skip + i + 1 <= taken
  BY <1>1, <1>2, AheadIs DEF Pos
<1>6. Pos + Skip + i + 1 \in 1 .. End(script, Len(script))
  <2>1. /\ Pos \in Nat /\ taken \in Nat /\ End(script, Len(script)) \in Nat
        /\ taken <= End(script, Len(script))
    BY AheadIs
  <2>2. Pos + Skip + i + 1 \in Nat \ {0}
    BY <1>2, <2>1
  <2>. QED BY <1>5, <2>1, <2>2
<1>. QED BY <1>3, <1>4, <1>5, <1>6

\* The message that a line or blob in the buffer is begins where it stands.
LEMMA MessageStands ==
  ASSUME Typed, Window, pc \notin Between, Rest > 0, NEW m, buf[Start] = Char(m, 1)
  PROVE  m \in 1 .. Len(script) /\ End(script, m - 1) = Pos + Skip
<1>1. 0 \in 0 .. Rest - 1 /\ Start + 0 = Start /\ Pos + Skip + 0 + 1 = Pos + Skip + 1
      /\ Pos + Skip \in Nat
  <2>1. Skip \in Nat /\ Start \in Nat /\ Rest \in Nat
    BY SkipIs
  <2>2. Pos \in Nat
    BY AheadIs
  <2>. QED BY <2>1, <2>2
<1>2. Text(script)[Pos + Skip + 1] = Char(m, 1) /\ Pos + Skip + 1 \in 1 .. End(script, Len(script))
  BY <1>1, AheadStands
<1>3. CharAt(script, Pos + Skip + 1, m, 1)
  BY <1>2, AheadIs, CharTells
<1>4. m \in 1 .. Len(script) /\ Pos + Skip + 1 = End(script, m - 1) + 1
  BY <1>3 DEF CharAt
<1>5. End(script, m - 1) \in Nat
  <2>1. m - 1 \in 0 .. Len(script)
    BY <1>4, AheadIs
  <2>. QED BY <2>1, AheadIs, EndStep
<1>. QED BY <1>1, <1>4, <1>5

\* A whole line that is a message stands where the stream has that message.
LEMMA LineStands ==
  ASSUME Typed, Window, WholeLine, Msg # 0
  PROVE  /\ Msg \in 1 .. Len(script) /\ End(script, Msg - 1) = Pos + Skip
         /\ LineLength = Chars(script, Msg)
<1>1. pc \notin Between /\ LineLength \in 1 .. Rest - 1 /\ Rest > 0 /\ Start \in Nat
  BY WholeLineIs, SkipIs, LineIs DEF WholeLine
<1>2. script[Msg].len = LineLength /\ \A i \in 1 .. LineLength : buf[Start + i - 1] = Char(Msg, i)
  BY MsgIs DEF IsMessage
<1>3. buf[Start + 1 - 1] = Char(Msg, 1) /\ Start + 1 - 1 = Start
  BY <1>1, <1>2
<1>. QED BY <1>1, <1>2, <1>3, MessageStands DEF Chars

\* A line that is handled.
LEMMA PassedLine ==
  ASSUME Typed, Window, Passed, WholeLine, Handled,
         NEW a, Advance(a), Skip + LineLength + 1 <= a
  PROVE  Passed'
<1>1. Msg \in 0 .. Len(script) /\ handled' = Append(handled, Msg)
  BY MsgIs DEF Handled
<1>2. /\ LineLength \in Nat /\ Skip \in Nat /\ Pos \in Nat /\ a \in Nat
  BY WholeLineIs, SkipIs, AheadIs, AdvanceKeeps
<1>3. ASSUME Msg # 0
      PROVE  Pos <= End(script, Msg - 1) /\ End(script, Msg - 1) + Chars(script, Msg) <= Pos + a
  BY <1>2, <1>3, LineStands
<1>. QED BY <1>1, <1>3, PassedMessage

\* A read moves the leftover, if the code does, and appends what the modem sent next.
LEMMA StreamReadBytes ==
  ASSUME Typed, Window, Passed, ReadBytes
  PROVE  Window' /\ Passed' /\ Pos' = Pos
<1>1. script' = script
  BY TypedPlan DEF ReadBytes
<1>2. PICK n \in 1 .. sent - taken : /\ n <= EmptyLength
                                     /\ buf' = Received(LeftoverBuffer, ReadAt, n)
                                     /\ taken' = taken + n /\ left' = n + partial
  BY DEF ReadBytes
<1>3. pc = "read" /\ pc' \notin Between /\ line' = AtBuf /\ handled' = handled
  BY DEF ReadBytes, Between
<1>4. /\ Base' = AtBuf /\ Ahead' = n + partial /\ taken' = taken + n
      /\ Base = AtPtr /\ Ahead = partial
  BY <1>2, <1>3, StandsAfter, ReadIs
<1>5. /\ n \in Nat /\ partial \in Nat /\ taken \in Nat /\ AtBuf \in Nat /\ AtPtr \in Nat
      /\ ReadAt = AtBuf + partial /\ EmptyLength = BufSize - ReadAt /\ BufSize \in Nat
      /\ AtBuf + partial + n <= BufSize
  <2>1. sent \in Nat /\ taken \in Nat
    BY AheadIs DEF Typed
  <2>2. n \in Nat
    BY <2>1
  <2>3. AtPtr \in 0 .. BufSize /\ AtBuf \in 0 .. AtPtr /\ partial \in 0 .. BufSize /\ BufSize \in Nat
        /\ ReadAt = AtBuf + partial /\ EmptyLength = BufSize - ReadAt
    BY <1>3, ReadIs, AheadIs
  <2>. QED BY <1>2, <2>1, <2>2, <2>3
<1>6. Pos' = Pos
  BY <1>4, <1>5 DEF Pos
<1>7. ASSUME NEW i \in 0 .. Ahead' - 1
      PROVE  buf'[Base' + i] = Text(script)[taken' - Ahead' + i + 1]
  <2>1. AtBuf + i \in 0 .. BufSize /\ i \in Nat /\ i < n + partial
    BY <1>4, <1>5
  <2>2. CASE i < partial
    <3>1. i \in 0 .. partial - 1 /\ AtBuf + i \notin ReadAt .. ReadAt + n - 1
          /\ AtBuf + i # ReadAt + n
      BY <1>5, <2>1, <2>2
    <3>2. buf'[AtBuf + i] = LeftoverBuffer[AtBuf + i]
      BY <1>2, <2>1, <3>1 DEF Received
    <3>3. LeftoverBuffer[AtBuf + i] = buf[AtPtr + i]
      BY <1>3, <3>1, ReadIs
    <3>4. buf[AtPtr + i] = Text(script)[taken - partial + i + 1]
      BY <1>4, <3>1 DEF Window, WindowAt
    <3>5. taken - partial + i + 1 = taken' - Ahead' + i + 1
      BY <1>4, <1>5
    <3>. QED BY <1>4, <3>2, <3>3, <3>4, <3>5
  <2>3. CASE i >= partial
    <3>1. AtBuf + i \in ReadAt .. ReadAt + n - 1
      BY <1>5, <2>1, <2>3
    <3>2. buf'[AtBuf + i] = Stream[taken + (AtBuf + i) - ReadAt + 1]
      BY <1>2, <2>1, <3>1 DEF Received
    <3>3. Stream = Text(script)
      BY StreamIs DEF Typed
    <3>4. taken + (AtBuf + i) - ReadAt + 1 = taken' - Ahead' + i + 1
      BY <1>4, <1>5, <2>1
    <3>. QED BY <1>4, <3>2, <3>3, <3>4
  <2>. QED BY <1>5, <2>1, <2>2, <2>3
<1>8. WindowAt(buf', Base', Ahead', taken', script)
  BY <1>7 DEF WindowAt
<1>9. Window'
  BY <1>1, <1>8 DEF Window
<1>10. Passed'
  BY <1>1, <1>3, <1>6 DEF Passed, Pos
<1>. QED BY <1>6, <1>9, <1>10

\* Every step of the reader keeps the window and what is passed.
LEMMA StreamReader ==
  ASSUME Typed, Window, Passed, Reader
  PROVE  Window' /\ Passed'
<1>1. CASE WaitRxData
  BY <1>1, WaitAdvances, AdvanceKeeps, PassedOn DEF WaitRxData
<1>2. CASE ReadBytes
  BY <1>2, StreamReadBytes
<1>3. CASE ReadNothing
  BY <1>3, ReadNothingAdvances, AdvanceKeeps, PassedOn DEF ReadNothing
<1>4. CASE ReadOverflow
  BY <1>4, ReadOverflowAdvances, AdvanceKeeps, PassedOn DEF ReadOverflow
<1>5. CASE ReceiveData
  <2>1. PICK a : Advance(a)
    BY <1>5, ReceiveDataAdvances
  <2>. QED BY <1>5, <2>1, AdvanceKeeps, PassedOn DEF ReceiveData
<1>6. CASE NoMoreLines
  BY <1>6, NoMoreLinesAdvances, AdvanceKeeps, PassedOn DEF NoMoreLines
<1>7. CASE TakeBlob
  <2>. DEFINE a == Skip + Chars(script, Blob)
  <2>1. pc \notin Between /\ AtBlob /\ handled' = Append(handled, Blob)
    BY <1>7 DEF TakeBlob, Between
  <2>2. Advance(a)
    BY <1>7, TakeBlobAdvances
  <2>3. /\ Blob \in 1 .. Len(script) /\ End(script, Blob - 1) = Pos + Skip
        /\ Chars(script, Blob) \in Nat /\ Skip \in Nat /\ Pos \in Nat
    BY <2>1, BlobIs, MessageStands, SkipIs, AheadIs
  <2>4. /\ Blob \in 0 .. Len(script) /\ Pos <= End(script, Blob - 1)
        /\ End(script, Blob - 1) + Chars(script, Blob) <= Pos + a
    BY <2>3, AheadIs
  <2>. HIDE DEF a
  <2>. QED BY <2>1, <2>2, <2>4, AdvanceKeeps, PassedMessage
<1>8. CASE WaitForBlob
  BY <1>8, WaitForBlobAdvances, AdvanceKeeps, PassedOn DEF WaitForBlob
<1>9. CASE RejectBlob
  BY <1>9, RejectBlobAdvances, AdvanceKeeps, PassedOn DEF RejectBlob
<1>10. CASE IncompleteLine
  BY <1>10, IncompleteLineAdvances, AdvanceKeeps, PassedOn DEF IncompleteLine
<1>11. ASSUME WholeLine, Handled, NEW a, Advance(a), Skip + LineLength + 1 <= a
       PROVE  Window' /\ Passed'
  BY <1>11, AdvanceKeeps, PassedLine
<1>12. ASSUME WholeLine
       PROVE  Skip + LineLength + 1 \in Nat
  <2>1. LineLength \in Nat /\ pc \notin Between
    BY <1>12, WholeLineIs
  <2>2. Skip \in Nat
    BY <2>1, SkipIs
  <2>. QED BY <2>1, <2>2
<1>13. CASE UnsolicitedLine
  BY <1>11, <1>12, <1>13, UnsolicitedLineAdvances DEF UnsolicitedLine
<1>14. CASE IntermediateLine
  BY <1>11, <1>12, <1>14, IntermediateLineAdvances DEF IntermediateLine
<1>15. CASE DataLine
  <2>1. WholeLine /\ Handled
    BY <1>15 DEF DataLine
  <2>2. PICK a : Advance(a) /\ Skip + LineLength + 1 <= a
    <3>1. CASE Advance(Skip + LineLength + 1)
      BY <1>12, <2>1, <3>1
    <3>2. CASE Advance(Skip + LineLength + 1 + script[Msg].data)
      BY <1>12, <1>15, <2>1, <3>2, DataLineAdvances
    <3>. QED BY <1>15, <3>1, <3>2, DataLineAdvances
  <2>. QED BY <1>11, <2>1, <2>2
<1>16. CASE FinalLine
  BY <1>11, <1>12, <1>16, FinalLineAdvances DEF FinalLine
<1>17. CASE Deliver
  BY <1>17, DeliverAdvances, AdvanceKeeps, PassedOn DEF Deliver
<1>18. CASE UndefinedLine
  <2>1. WholeLine /\ Handled /\ Advance(left) /\ pc \notin Between
    BY <1>18, UndefinedLineAdvances DEF UndefinedLine, WholeLine, Between
  <2>2. Skip + LineLength + 1 <= left
    <3>1. LineLength \in Nat /\ DataThere \in Nat /\ DataThere = Rest - (LineLength + 1)
      BY <2>1, WholeLineIs
    <3>2. Start = line + Skip /\ Start + Rest = line + left
      BY <2>1, SkipIs
    <3>3. Skip \in Nat /\ line \in Nat /\ left \in Nat /\ Rest \in Nat
      BY <2>1, SkipIs
    <3>. QED BY <3>1, <3>2, <3>3
  <2>. QED BY <1>11, <2>1, <2>2
<1>. QED BY <1>1, <1>2, <1>3, <1>4, <1>5, <1>6, <1>7, <1>8, <1>9, <1>10, <1>13, <1>14, <1>15,
            <1>16, <1>17, <1>18 DEF Reader

\* Every step keeps the window and what is passed.
LEMMA StreamNext == ASSUME Typed, Window, Passed, [Next]_vars PROVE Window' /\ Passed'
<1>1. CASE UNCHANGED vars
  <2>1. UNCHANGED <<script, BufSize, Base, Ahead>>
    BY <1>1 DEF vars, script, BufSize, Base, Ahead, AtPtr
  <2>. QED BY <1>1, <2>1 DEF vars, Window, Passed
<1>2. CASE Arrive
  BY <1>2, ArriveAdvances, AdvanceKeeps, PassedOn DEF Arrive
<1>3. CASE Reader
  BY <1>3, StreamReader
<1>. QED BY <1>1, <1>2, <1>3 DEF Next, Quiet

\* The window and what is passed hold at first.
LEMMA StreamInit == ASSUME Init PROVE Window /\ Passed
<1>1. Ahead = 0 /\ handled = <<>>
  BY DEF Init, Ahead, Between
<1>. QED BY <1>1 DEF Window, WindowAt, Passed, PassedBy, Ascending

-----------------------------------------------------------------------------
(* What a response has saved.                                                 *)

DataOf(s, m) == [i \in 1 .. s[m].data |-> Data(m, i)]
Saved == Seq(Seq(Byte))
Places == [off : Nat, len : Nat]

\* The saved bytes of a line and of its raw data.
LEMMA LineBytes ==
  ASSUME NEW s \in Scripts, NEW m \in 1 .. Len(s)
  PROVE  /\ Line(s, m) \in Seq(Byte) /\ Len(Line(s, m)) = Chars(s, m) + 1
         /\ \A i \in 1 .. Chars(s, m) : Line(s, m)[i] = Char(m, i)
         /\ Line(s, m)[Chars(s, m) + 1] = Nul
         /\ DataOf(s, m) \in Seq(Byte) /\ Len(DataOf(s, m)) = Block(s, m)
         /\ \A i \in 1 .. Block(s, m) : DataOf(s, m)[i] = Data(m, i)
<1>. DEFINE chars == [i \in 1 .. Chars(s, m) |-> Char(m, i)]
<1>1. Chars(s, m) \in Nat /\ Block(s, m) \in Nat /\ m \in Nat
  BY ScriptIs
<1>2. chars \in Seq(Byte) /\ Len(chars) = Chars(s, m)
  <2>1. \A i \in 1 .. Chars(s, m) : Char(m, i) \in Byte
    BY <1>1 DEF Char, Byte
  <2>. QED BY <1>1, <2>1
<1>3. Nul \in Byte
  BY DEF Nul, Byte
<1>4. \A i \in 1 .. Chars(s, m) : chars[i] = Char(m, i)
  OBVIOUS
<1>5. Line(s, m) = Append(chars, Nul)
  BY DEF Line, Chars
<1>. HIDE DEF chars
<1>6. /\ Append(chars, Nul) \in Seq(Byte) /\ Len(Append(chars, Nul)) = Len(chars) + 1
      /\ \A i \in 1 .. Len(chars) : Append(chars, Nul)[i] = chars[i]
      /\ Append(chars, Nul)[Len(chars) + 1] = Nul
  BY <1>2, <1>3, AppendProperties
<1>7. /\ DataOf(s, m) \in Seq(Byte) /\ Len(DataOf(s, m)) = Block(s, m)
      /\ \A i \in 1 .. Block(s, m) : DataOf(s, m)[i] = Data(m, i)
  <2>1. \A i \in 1 .. Block(s, m) : Data(m, i) \in Byte
    BY <1>1 DEF Data, Byte
  <2>. QED BY <1>1, <2>1 DEF DataOf, Block
<1>. QED BY <1>2, <1>4, <1>5, <1>6, <1>7

\* The items of one message.
LEMMA ItemsAre ==
  ASSUME NEW s \in Scripts, NEW m \in 1 .. Len(s)
  PROVE  Items(s, m) \in Saved
<1>1. Line(s, m) \in Seq(Byte) /\ DataOf(s, m) \in Seq(Byte)
  BY LineBytes
<1>2. Items(s, m) = <<>> \/ Items(s, m) = << Line(s, m) >> \/ Items(s, m) = << Line(s, m), DataOf(s, m) >>
  BY DEF Items, DataOf
<1>3. CASE Items(s, m) = <<>>
  BY <1>3 DEF Saved
<1>4. CASE Items(s, m) = << Line(s, m) >>
  BY <1>1, <1>4 DEF Saved
<1>5. CASE Items(s, m) = << Line(s, m), DataOf(s, m) >>
  BY <1>1, <1>5 DEF Saved
<1>. QED BY <1>2, <1>3, <1>4, <1>5

\* No message has no items.
LEMMA ItemsNone == ASSUME NEW s, NEW f \in Nat PROVE ItemsTo(s, f, f) = <<>>
<1>1. f - f = 0 /\ [k \in 1 .. 0 |-> Items(s, f + k)] = <<>>
  OBVIOUS
<1>2. Len(<<>>) = 0
  OBVIOUS
<1>3. [k \in 1 .. f - f |-> Items(s, f + k)] = <<>>
  BY <1>1
<1>. QED BY <1>2, <1>3, FlattenNone DEF ItemsTo

\* The items of one message more.
LEMMA ItemsStep ==
  ASSUME NEW s \in Scripts, NEW f \in 0 .. Len(s), NEW h \in f + 1 .. Len(s)
  PROVE  ItemsTo(s, f, h) = ItemsTo(s, f, h - 1) \o Items(s, h)
<1>. DEFINE n == h - f
            b == [k \in 1 .. n |-> Items(s, f + k)]
<1>1. /\ n \in Nat \ {0} /\ f + n = h /\ n - 1 = h - 1 - f /\ n \in 1 .. n
      /\ \A k \in 1 .. n : f + k \in 1 .. Len(s)
  BY ScriptIs
<1>. HIDE DEF n
<1>2. b \in [1 .. n -> Saved]
  <2>1. ASSUME NEW k \in 1 .. n PROVE Items(s, f + k) \in Saved
    BY <1>1, ItemsAre
  <2>. QED BY <2>1
<1>3. [k \in 1 .. n - 1 |-> b[k]] = [k \in 1 .. n - 1 |-> Items(s, f + k)]
  <2>1. \A k \in 1 .. n - 1 : b[k] = Items(s, f + k)
    BY <1>1
  <2>. QED BY <2>1
<1>4. b[n] = Items(s, h)
  BY <1>1
<1>5. FlattenSeq(b) = FlattenSeq([k \in 1 .. n - 1 |-> b[k]]) \o b[n]
  <2>. HIDE DEF b
  <2>. QED BY <1>1, <1>2, FlattenLast DEF Saved
<1>6. ItemsTo(s, f, h) = FlattenSeq(b)
  BY DEF ItemsTo, n
<1>7. ItemsTo(s, f, h - 1) = FlattenSeq([k \in 1 .. n - 1 |-> Items(s, f + k)])
  BY <1>1 DEF ItemsTo
<1>. QED BY <1>3, <1>4, <1>5, <1>6, <1>7

\* The items of a run of messages.
LEMMA ItemsIs ==
  ASSUME NEW s \in Scripts, NEW f \in 0 .. Len(s), NEW h \in f .. Len(s)
  PROVE  ItemsTo(s, f, h) \in Saved
<1>. DEFINE G == {n \in 0 .. Len(s) : n >= f => ItemsTo(s, f, n) \in Saved}
<1>1. Len(s) \in Nat /\ f \in Nat /\ h \in 0 .. Len(s) /\ h >= f
  BY ScriptIs
<1>2. ItemsTo(s, f, f) \in Saved
  <2>1. ItemsTo(s, f, f) = <<>> /\ <<>> \in Saved
    BY <1>1, ItemsNone DEF Saved
  <2>. QED BY <2>1, Zenon
<1>3. 0 \in G
  <2>1. 0 >= f => f = 0
    BY <1>1
  <2>. QED BY <1>1, <1>2, <2>1
<1>4. ASSUME NEW n \in 1 .. Len(s), n - 1 \in G PROVE n \in G
  <2>1. CASE n < f
    BY <1>1, <2>1
  <2>2. CASE n = f
    BY <1>1, <1>2, <2>2
  <2>3. CASE n > f
    <3>1. n - 1 >= f /\ n \in f + 1 .. Len(s) /\ n \in 0 .. Len(s)
      BY <1>1, <2>3
    <3>2. ItemsTo(s, f, n - 1) \in Saved /\ Items(s, n) \in Saved
      BY <1>1, <1>4, <3>1, ItemsAre
    <3>3. ItemsTo(s, f, n) = ItemsTo(s, f, n - 1) \o Items(s, n)
      BY <3>1, ItemsStep
    <3>4. ItemsTo(s, f, n) \in Saved
      BY <3>2, <3>3, Appended, Zenon DEF Saved
    <3>. QED BY <3>1, <3>4
  <2>. QED BY <1>1, <2>1, <2>2, <2>3
<1>. HIDE DEF G
<1>5. \A n \in 0 .. Len(s) : n \in G
  BY <1>1, <1>3, <1>4, UpTo
<1>. QED BY <1>1, <1>5 DEF G

\* What a message adds to the response.
LEMMA ItemsGrow ==
  ASSUME NEW s \in Scripts, NEW f \in 0 .. Len(s), NEW h \in f + 1 .. Len(s)
  PROVE  /\ s[h].type = "inter" => ItemsTo(s, f, h) = Append(ItemsTo(s, f, h - 1), Line(s, h))
         /\ s[h].type = "data" => ItemsTo(s, f, h) =
              Append(Append(ItemsTo(s, f, h - 1), Line(s, h)), DataOf(s, h))
         /\ s[h].type \notin {"inter", "data"} => ItemsTo(s, f, h) = ItemsTo(s, f, h - 1)
<1>. DEFINE a == ItemsTo(s, f, h - 1)
            l == Line(s, h)
            d == DataOf(s, h)
<1>1. h - 1 \in f .. Len(s) /\ h \in 1 .. Len(s)
  BY ScriptIs
<1>2. a \in Saved /\ l \in Seq(Byte) /\ d \in Seq(Byte)
  BY <1>1, ItemsIs, LineBytes
<1>3. ItemsTo(s, f, h) = a \o Items(s, h)
  BY ItemsStep
<1>4. /\ s[h].type = "inter" => Items(s, h) = << l >>
      /\ s[h].type = "data" => Items(s, h) = << l, d >>
      /\ s[h].type \notin {"inter", "data"} => Items(s, h) = <<>>
  BY DEF Items, DataOf
<1>. HIDE DEF a, l, d
<1>5. a \o <<l>> = Append(a, l) /\ a \o <<>> = a
  BY <1>2, AppendIsConcat, ConcatEmptySeq DEF Saved
<1>6. a \o <<l, d>> = Append(Append(a, l), d)
  <2>1. Append(a, l) \in Saved
    BY <1>2, AppendProperties DEF Saved
  <2>2. Append(Append(a, l), d) = (a \o <<l>>) \o <<d>>
    BY <1>2, <1>5, <2>1, AppendIsConcat DEF Saved
  <2>3. <<l>> \in Saved /\ <<d>> \in Saved /\ <<l>> \o <<d>> = <<l, d>>
    <3>1. <<l>> \in Saved /\ <<d>> \in Saved
      BY <1>2 DEF Saved
    <3>2. Append(<<l>>, d) = <<l>> \o <<d>>
      BY <1>2, <3>1, AppendIsConcat DEF Saved
    <3>3. Append(<<l>>, d) = <<l, d>>
      <4>1. /\ <<l>> \in Seq({l, d}) /\ Len(<<l>>) = 1 /\ <<l>>[1] = l
            /\ <<l, d>> \in Seq({l, d}) /\ Len(<<l, d>>) = 2 /\ <<l, d>>[1] = l /\ <<l, d>>[2] = d
        OBVIOUS
      <4>2. /\ Append(<<l>>, d) \in Seq({l, d}) /\ Len(Append(<<l>>, d)) = 2
            /\ Append(<<l>>, d)[1] = l /\ Append(<<l>>, d)[2] = d
        BY <4>1, AppendProperties
      <4>3. \A i \in 1 .. 2 : Append(<<l>>, d)[i] = <<l, d>>[i]
        BY <4>1, <4>2
      <4>. QED BY <4>1, <4>2, <4>3, SeqEqual
    <3>. QED BY <3>1, <3>2, <3>3
  <2>4. (a \o <<l>>) \o <<d>> = a \o (<<l>> \o <<d>>)
    BY <1>2, <2>3, ConcatAssociative DEF Saved
  <2>. QED BY <2>2, <2>3, <2>4
<1>7. ASSUME s[h].type = "inter" PROVE ItemsTo(s, f, h) = Append(a, l)
  BY <1>3, <1>4, <1>5, <1>7
<1>8. ASSUME s[h].type = "data" PROVE ItemsTo(s, f, h) = Append(Append(a, l), d)
  BY <1>3, <1>4, <1>6, <1>8
<1>9. ASSUME s[h].type \notin {"inter", "data"} PROVE ItemsTo(s, f, h) = a
  BY <1>3, <1>4, <1>5, <1>9
<1>. QED BY <1>7, <1>8, <1>9 DEF a, l, d

\* What is saved stays as long as the buffer before lim does.
LEMMA SavedStays ==
  ASSUME NEW b, NEW c, NEW items \in Seq(Places), NEW exp \in Saved, NEW lim \in Nat,
         NEW lim1 \in Nat, SavedAs(b, items, exp, lim), lim <= lim1,
         \A q \in 0 .. lim - 1 : c[q] = b[q]
  PROVE  SavedAs(c, items, exp, lim1)
<1>1. Len(items) = Len(exp) /\ Len(exp) \in Nat
  BY DEF SavedAs, Saved
<1>2. ASSUME NEW i \in 1 .. Len(exp) PROVE Holds(c, items[i], exp[i], lim1)
  <2>1. items[i] \in Places /\ exp[i] \in Seq(Byte) /\ Holds(b, items[i], exp[i], lim)
    BY <1>1 DEF SavedAs, Saved
  <2>2. items[i].off \in Nat /\ Len(exp[i]) \in Nat
    BY <2>1 DEF Places
  <2>3. items[i].off + Len(exp[i]) <= lim
    BY <2>1 DEF Holds
  <2>4. ASSUME NEW q \in 1 .. Len(exp[i]) PROVE c[items[i].off + q - 1] = exp[i][q]
    <3>1. items[i].off + q - 1 \in 0 .. lim - 1
      BY <2>2, <2>3, SMTT(30)
    <3>. QED BY <2>1, <3>1 DEF Holds
  <2>. QED BY <2>2, <2>3, <2>4 DEF Holds
<1>. QED BY <1>1, <1>2 DEF SavedAs

\* Saving one more item that holds its bytes.
LEMMA SavedMore ==
  ASSUME NEW b, NEW items \in Seq(Places), NEW exp \in Saved, NEW lim \in Nat,
         NEW it \in Places, NEW bytes \in Seq(Byte),
         SavedAs(b, items, exp, lim), Holds(b, it, bytes, lim)
  PROVE  SavedAs(b, Append(items, it), Append(exp, bytes), lim)
<1>1. Len(items) = Len(exp) /\ Len(exp) \in Nat /\ exp \in Seq(Seq(Byte))
  BY DEF SavedAs, Saved
<1>2. /\ Len(Append(items, it)) = Len(exp) + 1 /\ Len(Append(exp, bytes)) = Len(exp) + 1
      /\ \A i \in 1 .. Len(exp) : Append(items, it)[i] = items[i] /\ Append(exp, bytes)[i] = exp[i]
      /\ Append(items, it)[Len(exp) + 1] = it /\ Append(exp, bytes)[Len(exp) + 1] = bytes
  BY <1>1
<1>3. ASSUME NEW i \in 1 .. Len(exp) + 1
      PROVE  Holds(b, Append(items, it)[i], Append(exp, bytes)[i], lim)
  <2>1. CASE i \in 1 .. Len(exp)
    BY <1>2, <2>1 DEF SavedAs
  <2>2. CASE i = Len(exp) + 1
    BY <1>2, <2>2
  <2>. QED BY <1>1, <2>1, <2>2
<1>. QED BY <1>2, <1>3 DEF SavedAs

-----------------------------------------------------------------------------
(* Undisturbed, the reader keeps step with the messages.                      *)

Turn == Len(handled) + 1

\* What is ahead at the start of a turn: the message after those handled.
LEMMA SyncTurn ==
  ASSUME Typed, Window, Synchronous, pc = "line"
  PROVE  /\ dataLen = 0 /\ Len(handled) \in 0 .. Len(script) /\ Pos = End(script, Len(handled))
         /\ Skip = 0 /\ Start = line /\ Rest = left /\ line \in Nat /\ left \in Nat
         /\ taken = Pos + left
         /\ Turn \in Nat /\ Turn - 1 = Len(handled)
         /\ Rest > 0 => Turn \in 1 .. Len(script) /\ buf[Start] = Char(Turn, 1)
<1>1. dataLen = 0 /\ pc \notin Between /\ Len(handled) \in Nat
  BY DEF Typed, Between
<1>2. Len(handled) <= Len(script) /\ Pos = End(script, Len(handled))
  BY <1>1 DEF Synchronous, InStep, Pos
<1>3. Len(handled) \in 0 .. Len(script) /\ Turn \in Nat /\ Turn - 1 = Len(handled)
  BY <1>1, <1>2, AheadIs DEF Turn
<1>4. /\ line \in Nat /\ left \in Nat /\ Base = line /\ Ahead = left /\ taken \in Nat
      /\ left <= taken
  BY <1>1, TurnTyped
<1>5. taken = Pos + left /\ Pos \in Nat
  BY <1>4 DEF Pos
<1>6. ASSUME left > 0 PROVE Turn \in 1 .. Len(script) /\ buf[line] = Char(Turn, 1)
  <2>1. Turn \in 1 .. Len(script)
    <3>1. Pos < End(script, Len(script))
      BY <1>4, <1>5, <1>6, AheadIs
    <3>2. Len(handled) # Len(script)
      BY <1>2, <1>5, <3>1, AheadIs
    <3>. QED BY <1>3, <3>2, AheadIs
  <2>2. 0 \in 0 .. Ahead - 1
    BY <1>4, <1>6
  <2>3. buf[line + 0] = Text(script)[taken - left + 0 + 1]
    BY <1>4, <2>2 DEF Window, WindowAt
  <2>4. line + 0 = line /\ taken - left + 0 + 1 = Pos + 1
    BY <1>4, <1>5
  <2>5. 1 \in 1 .. Chars(script, Turn)
    BY <2>1, AheadIs, ScriptIs
  <2>6. Text(script)[End(script, Turn - 1) + 1] = Char(Turn, 1)
    BY <2>1, <2>5, AheadIs, ByteStands DEF CharAt
  <2>. QED BY <1>2, <1>3, <2>1, <2>3, <2>4, <2>6
<1>7. Skip = 0
  <2>1. Skip \in 0 .. left /\ \A i \in 0 .. Skip - 1 : buf[line + i].k \in Skipped
    BY <1>4, TurnIs
  <2>2. CASE Skip # 0
    <3>1. left > 0 /\ 0 \in 0 .. Skip - 1 /\ line + 0 = line
      BY <1>4, <2>1, <2>2
    <3>2. buf[line].k \in Skipped
      BY <2>1, <3>1
    <3>. QED BY <1>6, <3>1, <3>2 DEF Char, Skipped
  <2>. QED BY <2>2
<1>8. Start = line /\ Rest = left
  BY <1>4, <1>7 DEF Start, Rest
<1>. QED BY <1>1, <1>2, <1>3, <1>4, <1>5, <1>6, <1>7, <1>8

\* Its characters, its end of line and its block of data, as far as they are there.
LEMMA SyncBytes ==
  ASSUME Typed, Window, Synchronous, pc = "line", Rest > 0
  PROVE  /\ \A i \in 1 .. Chars(script, Turn) : i <= Rest => buf[Start + i - 1] = Char(Turn, i)
         /\ script[Turn].type # "blob" /\ Chars(script, Turn) + 1 <= Rest =>
              buf[Start + Chars(script, Turn)] = Eol(Turn)
         /\ \A i \in 1 .. Block(script, Turn) : Chars(script, Turn) + 1 + i <= Rest =>
              buf[Start + Chars(script, Turn) + i] = Data(Turn, i)
<1>. DEFINE c == Chars(script, Turn)
            e == Pos
<1>1. /\ Turn \in 1 .. Len(script) /\ Pos = End(script, Turn - 1)
      /\ Skip = 0 /\ Start \in Nat /\ Rest \in Nat /\ pc \notin Between
  BY SyncTurn DEF Between
<1>2. c \in Nat /\ e \in Nat
  BY <1>1, AheadIs, ScriptIs
<1>3. ASSUME NEW i \in 0 .. Rest - 1 PROVE buf[Start + i] = Text(script)[e + i + 1]
  <2>1. buf[Start + i] = Text(script)[Pos + Skip + i + 1]
    BY <1>1, AheadStands
  <2>2. Pos + Skip + i + 1 = e + i + 1
    BY <1>1, <1>2
  <2>. QED BY <2>1, <2>2
<1>4. ASSUME NEW i \in 1 .. c, i <= Rest PROVE buf[Start + i - 1] = Char(Turn, i)
  <2>1. i - 1 \in 0 .. Rest - 1 /\ Start + (i - 1) = Start + i - 1 /\ e + (i - 1) + 1 = e + i
    BY <1>1, <1>2, <1>4
  <2>2. Text(script)[e + i] = Char(Turn, i)
    BY <1>1, AheadIs, ByteStands DEF CharAt
  <2>. QED BY <1>3, <2>1, <2>2
<1>5. ASSUME script[Turn].type # "blob", c + 1 <= Rest PROVE buf[Start + c] = Eol(Turn)
  <2>1. c \in 0 .. Rest - 1
    BY <1>1, <1>2, <1>5
  <2>2. Text(script)[e + c + 1] = Eol(Turn)
    BY <1>1, <1>5, AheadIs, ByteStands DEF EolAt
  <2>. QED BY <1>3, <2>1, <2>2
<1>6. ASSUME NEW i \in 1 .. Block(script, Turn), c + 1 + i <= Rest
      PROVE  buf[Start + c + i] = Data(Turn, i)
  <2>1. c + i \in 0 .. Rest - 1 /\ Start + (c + i) = Start + c + i
        /\ e + (c + i) + 1 = e + c + 1 + i
    <3>1. i \in Nat /\ c + 1 + i <= Rest
      BY <1>6
    <3>. HIDE DEF c, e
    <3>. QED BY <1>1, <1>2, <3>1
  <2>2. Text(script)[e + c + 1 + i] = Data(Turn, i)
    BY <1>1, AheadIs, ByteStands DEF DataAt
  <2>. QED BY <1>3, <2>1, <2>2
<1>. QED BY <1>4, <1>5, <1>6

\* Undisturbed, a turn meets the blob, the line or the start of the line that is next.
LEMMA SyncBlob ==
  ASSUME Typed, Window, Synchronous, pc = "line", Rest > 0
  PROVE  (AtBlob <=> script[Turn].type = "blob") /\ Blob = Turn
<1>1. Turn \in 1 .. Len(script) /\ buf[Start] = Char(Turn, 1)
  BY SyncTurn
<1>2. \A m \in 1 .. Len(script) : buf[Start] = Char(m, 1) => m = Turn
  BY <1>1 DEF Char
<1>3. Blob = Turn
  BY <1>1 DEF Blob, Char
<1>4. ASSUME AtBlob PROVE script[Turn].type = "blob"
  BY <1>2, <1>4 DEF AtBlob
<1>5. ASSUME script[Turn].type = "blob" PROVE AtBlob
  BY <1>1, <1>5 DEF AtBlob
<1>. QED BY <1>3, <1>4, <1>5

\* In step, the whole line at the pointer is the next message.
LEMMA SyncLine ==
  ASSUME Typed, Window, Synchronous, WholeLine
  PROVE  /\ Turn \in 1 .. Len(script) /\ script[Turn].type # "blob"
         /\ LineLength = Chars(script, Turn) /\ Chars(script, Turn) + 1 <= Rest /\ Msg = Turn
         /\ Type = script[Turn].type
<1>1. pc = "line" /\ Rest > 0 /\ HasLine /\ ~AtBlob
  BY DEF WholeLine
<1>2. /\ Turn \in 1 .. Len(script) /\ script[Turn].type # "blob" /\ buf[Start] = Char(Turn, 1)
      /\ Start \in Nat /\ Rest \in Nat /\ line \in Nat /\ left \in Nat
  BY <1>1, SyncTurn, SyncBlob
<1>3. /\ LineLength \in 1 .. Rest - 1 /\ buf[Start + LineLength].k \in Skipped
      /\ \A i \in 0 .. LineLength - 1 : buf[Start + i].k \notin Skipped
  BY <1>1, <1>2, LineIs
<1>. DEFINE c == Chars(script, Turn)
<1>4. c \in Nat \ {0}
  BY <1>2, AheadIs, ScriptIs
<1>5. LineLength >= c
  <2>. SUFFICES ASSUME LineLength < c PROVE FALSE
    BY <1>3, <1>4
  <2>1. LineLength + 1 \in 1 .. c /\ LineLength + 1 <= Rest
        /\ Start + (LineLength + 1) - 1 = Start + LineLength
    BY <1>2, <1>3, <1>4
  <2>2. buf[Start + LineLength] = Char(Turn, LineLength + 1)
    BY <1>1, <2>1, SyncBytes
  <2>. QED BY <1>3, <2>2 DEF Char, Skipped
<1>6. c + 1 <= Rest
  BY <1>2, <1>3, <1>4, <1>5
<1>7. LineLength = c
  <2>. SUFFICES ASSUME c < LineLength PROVE FALSE
    BY <1>3, <1>4, <1>5
  <2>1. c \in 0 .. LineLength - 1
    BY <1>3, <1>4
  <2>2. buf[Start + c] = Eol(Turn)
    BY <1>1, <1>2, <1>6, SyncBytes
  <2>. QED BY <1>3, <2>1, <2>2 DEF Eol, Skipped
<1>8. IsMessage(Turn, LineLength)
  <2>1. script[Turn].len = LineLength
    BY <1>7 DEF Chars
  <2>2. \A i \in 1 .. LineLength : buf[Start + i - 1] = Char(Turn, i)
    BY <1>1, <1>2, <1>4, <1>6, <1>7, SyncBytes
  <2>. QED BY <2>1, <2>2 DEF IsMessage
<1>9. ASSUME NEW m \in 1 .. Len(script), IsMessage(m, LineLength) PROVE m = Turn
  <2>1. buf[Start + 1 - 1] = Char(m, 1) /\ Start + 1 - 1 = Start
    BY <1>2, <1>3, <1>9 DEF IsMessage
  <2>. QED BY <1>2, <2>1 DEF Char
<1>10. Msg = Turn
  BY <1>2, <1>8, <1>9 DEF Msg
<1>11. Type = script[Turn].type
  BY <1>2, <1>10 DEF Type
<1>. QED BY <1>2, <1>6, <1>7, <1>10, <1>11

\* Where it does not find a whole line, the rest of the line has not arrived yet.
LEMMA SyncNoLine ==
  ASSUME Typed, Window, Synchronous, pc = "line", Rest > 0, ~AtBlob, ~HasLine
  PROVE  Rest <= Chars(script, Turn)
<1>1. /\ Turn \in 1 .. Len(script) /\ script[Turn].type # "blob" /\ Rest \in Nat
  BY SyncTurn, SyncBlob
<1>2. Chars(script, Turn) \in Nat
  BY <1>1, AheadIs, ScriptIs
<1>. SUFFICES ASSUME Chars(script, Turn) + 1 <= Rest PROVE FALSE
  BY <1>1, <1>2
<1>3. buf[Start + Chars(script, Turn)] = Eol(Turn)
  BY <1>1, SyncBytes
<1>4. Chars(script, Turn) \in 0 .. Rest - 1
  BY <1>1, <1>2
<1>. QED BY <1>3, <1>4 DEF HasLine, LineEnds, Eol, Skipped

\* What is expected to be saved is a sequence of sequences of bytes.
LEMMA ExpectedIs ==
  ASSUME NEW s \in Scripts, NEW h \in 0 .. Len(s), NEW f \in 0 .. Len(s), NEW dl,
         LastFinal(s, f, h), dl # 0 => h # 0 /\ s[h].type = "data"
  PROVE  Expected(s, f, h, dl) \in Saved /\ f <= h /\ (dl # 0 => f <= h - 1)
<1>1. f <= h /\ Len(s) \in Nat
  BY ScriptIs DEF LastFinal
<1>2. CASE dl = 0
  BY <1>1, <1>2, ItemsIs DEF Expected
<1>3. CASE dl # 0
  <2>1. f # h
    BY <1>3 DEF LastFinal
  <2>2. f <= h - 1 /\ h - 1 \in f .. Len(s) /\ h \in 1 .. Len(s)
    BY <1>1, <1>3, <2>1
  <2>3. ItemsTo(s, f, h - 1) \in Saved /\ Line(s, h) \in Seq(Byte)
    BY <2>2, ItemsIs, LineBytes
  <2>4. Append(ItemsTo(s, f, h - 1), Line(s, h)) \in Saved
    BY <2>3, AppendProperties DEF Saved
  <2>. QED BY <1>1, <1>3, <2>2, <2>4 DEF Expected
<1>. QED BY <1>2, <1>3

\* The state in which the reader keeps step, without the state that follows from it.
LEMMA SyncIs ==
  ASSUME Typed, Synchronous
  PROVE  /\ Len(handled) \in 0 .. Len(script) /\ Done \in 0 .. Len(script) /\ dataLen \in Nat
         /\ dataLen # 0 => Done = Len(handled) /\ Done # 0 /\ script[Done].type = "data"
         /\ pc = "deliver" => dataLen = 0 /\ Done = Len(handled) - 1
         /\ pc # "deliver" => Done = Len(handled)
<1>1. Len(handled) \in Nat /\ dataLen \in Nat /\ Len(script) \in Nat
  BY AheadIs DEF Typed
<1>2. Len(handled) <= Len(script)
  BY DEF Synchronous, InStep
<1>3. dataLen # 0 => Len(handled) # 0 /\ script[Len(handled)].type = "data"
  BY DEF Synchronous, InStep
<1>4. pc = "deliver" => Len(handled) # 0 /\ dataLen = 0
  BY DEF Synchronous, Typed
<1>. QED BY <1>1, <1>2, <1>3, <1>4 DEF Done

\* A step after which the same messages are handled.
LEMMA SyncSame ==
  ASSUME Typed, Typed', Synchronous, plan' = plan, handled' = handled, dataLen' = dataLen,
         resp' = resp, Pos' = Pos, Base' <= Base, pc' = "deliver" <=> pc = "deliver",
         pc' \in Between => Within(script, Len(handled), dataLen, taken'),
         Done < Len(script) =>
           resp.items = <<>> \/ (Base' = Base /\ \A q \in 0 .. Base - 1 : buf'[q] = buf[q])
  PROVE  Synchronous'
<1>1. script' = script
  BY DEF script
<1>2. Done' = Done
  BY DEF Done
<1>3. PICK f \in 0 .. Len(script) : Response(f)
  BY DEF Synchronous
<1>4. LastFinal(script, f, Done)
  BY <1>3 DEF Response
<1>5. ASSUME pc' # "deliver" PROVE End(script, f) <= Pos' - Base'
  <2>1. End(script, f) <= Pos - Base
    BY <1>3, <1>5 DEF Response, Pos
  <2>2. End(script, f) \in Nat /\ Base \in Nat /\ Pos \in Nat
    BY AheadIs, EndStep
  <2>3. Base' \in Nat
    BY <1>1 DEF Typed, Base, AtPtr, NULL
  <2>. QED BY <2>1, <2>2, <2>3
<1>. DEFINE exp == Expected(script, f, Done, dataLen)
<1>6. ASSUME Done < Len(script) PROVE SavedAs(buf', resp.items, exp, Base')
  <2>1. SavedAs(buf, resp.items, exp, Base)
    BY <1>3, <1>6 DEF Response
  <2>2. exp \in Saved
    BY <1>4, AheadIs, SyncIs, ExpectedIs
  <2>. HIDE DEF exp
  <2>3. CASE resp.items = <<>>
    <3>1. Len(exp) = 0
      BY <2>1, <2>3 DEF SavedAs
    <3>. QED BY <2>1, <2>3, <3>1 DEF SavedAs
  <2>4. CASE Base' = Base /\ \A q \in 0 .. Base - 1 : buf'[q] = buf[q]
    <3>1. resp.items \in Seq(Places)
      BY DEF Typed, Places
    <3>3. Base \in Nat /\ Base <= Base
      BY AheadIs
    <3>2. SavedAs(buf', resp.items, exp, Base)
      BY <2>1, <2>2, <2>4, <3>1, <3>3, SavedStays
    <3>. QED BY <2>4, <3>2
  <2>. QED BY <1>6, <2>3, <2>4
<1>7. Response(f)'
  BY <1>1, <1>2, <1>4, <1>5, <1>6 DEF Response, Pos
<1>8. InStep(script, Len(handled'), dataLen', Pos')
  BY DEF Synchronous, Pos
<1>9. /\ \A i \in 1 .. Len(handled') : handled'[i] = i
      /\ pc' = "deliver" => Len(handled') # 0 /\ script[Len(handled')].type = "final"
  BY DEF Synchronous
<1>. HIDE DEF exp
<1>. QED BY <1>1, <1>7, <1>8, <1>9 DEF Synchronous, Pos

\* Where the reader has no room left it has everything.
LEMMA FitsIs ==
  ASSUME ResponsesFit, script \in Scripts, NEW i \in 1 .. Len(script), NEW j \in i .. Len(script),
         \A k \in i .. j - 1 : script[k].type # "final"
  PROVE  End(script, j) - End(script, i - 1) <= BufSize
<1>1. Len(FlattenSeq([k \in 1 .. j - i + 1 |-> BytesOf(script, i + k - 1)])) <= BufSize
  <2>1. \A m : Bytes(m) = BytesOf(script, m)
    BY DEF Bytes, BytesOf
  <2>2. Len(FlattenSeq([k \in 1 .. j - i + 1 |-> Bytes(i + k - 1)])) <= BufSize
    BY DEF ResponsesFit
  <2>. QED BY <2>1, <2>2
<1>. QED BY <1>1, RowLength

\* In step, a response that fits leaves room for its next byte.
LEMMA RoomLeft ==
  ASSUME Typed, Synchronous, ResponsesFit, pc \in Between,
         Len(handled) < Len(script) \/ dataLen # 0
  PROVE  Base + Ahead < BufSize
<1>1. PICK f \in 0 .. Len(script) : Response(f)
  BY DEF Synchronous
<1>2. Done = Len(handled) /\ Done \in 0 .. Len(script) /\ Len(script) \in Nat /\ dataLen \in Nat
      /\ (dataLen # 0 => Done # 0 /\ script[Done].type = "data")
      /\ (Done < Len(script) \/ dataLen # 0)
  BY SyncIs, AheadIs DEF Between
<1>3. LastFinal(script, f, Done) /\ End(script, f) <= Pos - Base
  BY <1>1 DEF Response, Pos, Between
<1>4. PICK j \in f + 1 .. Len(script) : taken < End(script, j) /\ j - 1 <= Done
                                      /\ \A k \in f + 1 .. j - 1 : script[k].type # "final"
  <2>1. CASE dataLen = 0
    <3>. DEFINE j == Done + 1
    <3>1. j \in f + 1 .. Len(script) /\ j - 1 <= Done
          /\ \A k \in f + 1 .. j - 1 : script[k].type # "final"
      BY <1>2, <1>3, <2>1 DEF LastFinal
    <3>2. taken < End(script, j)
      BY <1>2, <2>1 DEF Synchronous, Within
    <3>. HIDE DEF j
    <3>. QED BY <3>1, <3>2
  <2>2. CASE dataLen # 0
    <3>1. f <= Done /\ f # Done
      BY <1>2, <1>3, <2>2 DEF LastFinal
    <3>2. Done \in f + 1 .. Len(script) /\ Done - 1 <= Done
          /\ \A k \in f + 1 .. Done - 1 : script[k].type # "final"
      BY <1>2, <1>3, <3>1 DEF LastFinal
    <3>3. taken < End(script, Done)
      BY <1>2, <2>2 DEF Synchronous, Within
    <3>. QED BY <3>2, <3>3
  <2>. QED BY <2>1, <2>2
<1>5. End(script, j) - End(script, f) <= BufSize
  <2>1. f + 1 \in 1 .. Len(script) /\ f + 1 - 1 = f
    BY <1>2, <1>4
  <2>2. \A k \in f + 1 .. j - 1 : script[k].type # "final"
    BY <1>4
  <2>3. End(script, j) - End(script, f + 1 - 1) <= BufSize
    BY <2>1, <2>2, AheadIs, FitsIs
  <2>. QED BY <2>1, <2>3
<1>6. /\ End(script, j) \in Nat /\ End(script, f) \in Nat /\ Pos \in Nat /\ Base \in Nat
      /\ Ahead \in Nat /\ taken \in Nat /\ Pos = taken - Ahead /\ BufSize \in Nat
  <2>1. j \in 0 .. Len(script)
    BY <1>2, <1>4
  <2>. QED BY <2>1, AheadIs, EndStep DEF Pos
<1>. QED BY <1>3, <1>4, <1>5, <1>6

\* Bytes that arrive keep the reader in step.
LEMMA SyncArrive == ASSUME Typed, Window, Synchronous, Arrive PROVE Synchronous'
<1>1. Typed' /\ Pos' = Pos + 0 /\ Pos \in Nat
  BY TypedArrive, ArriveAdvances, AdvanceKeeps, AheadIs
<1>2. Base' = Base /\ pc' = pc /\ taken' = taken /\ buf' = buf /\ Base \in Nat
  BY AheadIs DEF Arrive, Base, AtPtr
<1>3. pc' \in Between => Within(script, Len(handled), dataLen, taken')
  BY <1>2 DEF Synchronous
<1>. QED BY <1>1, <1>2, <1>3, SyncSame DEF Arrive

\* The wait for bytes keeps the reader in step.
LEMMA SyncWait == ASSUME Typed, Window, Synchronous, WaitRxData PROVE Synchronous'
<1>1. Typed' /\ Pos' = Pos + 0 /\ Pos \in Nat
  BY TypedWait, WaitAdvances, AdvanceKeeps, AheadIs
<1>2. pc \in Between /\ pc' \in Between /\ pc # "deliver" /\ pc' # "deliver"
  BY DEF WaitRxData, Between
<1>3. Base' = Base /\ taken' = taken /\ buf' = buf /\ Base \in Nat
  BY <1>2, AheadIs DEF WaitRxData, Base, AtPtr
<1>4. Within(script, Len(handled), dataLen, taken')
  BY <1>2, <1>3 DEF Synchronous
<1>. QED BY <1>1, <1>2, <1>3, <1>4, SyncSame DEF WaitRxData

\* Before a response is saved the bytes may move, after it they do not.
LEMMA LeftoverIs ==
  ASSUME Typed, pc = "read"
  PROVE  \/ resp.items = <<>>
         \/ AtBuf = Base /\ LeftoverBuffer = buf
<1>1. CASE MovesLeftover
  BY <1>1 DEF MovesLeftover, Typed
<1>2. CASE ~MovesLeftover
  BY <1>2, ReadIs
<1>. QED BY <1>1, <1>2

\* A read keeps the reader in step.
LEMMA SyncReadBytes ==
  ASSUME Typed, Window, Passed, Synchronous, ReadBytes
  PROVE  Synchronous'
<1>1. Typed' /\ Pos' = Pos
  BY TypedReadBytes, StreamReadBytes
<1>2. pc = "read" /\ pc' \notin Between /\ pc' # "deliver" /\ line' = AtBuf
  BY DEF ReadBytes, Between
<1>3. /\ Base' = AtBuf /\ AtBuf \in 0 .. Base /\ Base \in Nat /\ Base <= BufSize
      /\ ReadAt = AtBuf + partial /\ partial \in Nat /\ AtBuf \in Nat
  <2>1. Base' = AtBuf
    BY <1>2, StandsAfter
  <2>2. /\ AtPtr \in 0 .. BufSize /\ AtBuf \in 0 .. AtPtr /\ Base = AtPtr /\ partial \in 0 .. BufSize
        /\ ReadAt = AtBuf + partial
    BY <1>2, ReadIs
  <2>. QED BY <2>1, <2>2, AheadIs
<1>4. ASSUME NEW q \in 0 .. AtBuf - 1 PROVE buf'[q] = LeftoverBuffer[q]
  <2>1. PICK n \in 1 .. sent - taken : buf' = Received(LeftoverBuffer, ReadAt, n)
    BY DEF ReadBytes
  <2>2. n \in Nat /\ n > 0
    BY AheadIs DEF Typed
  <2>3. q \in 0 .. BufSize /\ q \notin ReadAt .. ReadAt + n - 1 /\ q # ReadAt + n
    BY <1>3, <2>2, AheadIs
  <2>. QED BY <2>1, <2>3 DEF Received
<1>5. resp.items = <<>> \/ (Base' = Base /\ \A q \in 0 .. Base - 1 : buf'[q] = buf[q])
  BY <1>2, <1>3, <1>4, LeftoverIs
<1>. QED BY <1>1, <1>2, <1>3, <1>5, SyncSame DEF ReadBytes

\* A read that finds nothing keeps the reader in step.
LEMMA SyncReadNothing ==
  ASSUME Typed, Window, Synchronous, ReadNothing
  PROVE  Synchronous'
<1>1. Typed' /\ Pos' = Pos + 0 /\ Pos \in Nat
  BY TypedReadNothing, ReadNothingAdvances, AdvanceKeeps, AheadIs
<1>2. pc = "read" /\ pc' = "wait" /\ pc \in Between /\ pc' \in Between
  BY DEF ReadNothing, Between
<1>3. Base' = AtBuf /\ AtBuf \in 0 .. Base /\ Base \in Nat
  BY <1>2, ReadIs, AheadIs DEF ReadNothing, Base, AtPtr
<1>4. Within(script, Len(handled), dataLen, taken')
  BY <1>2 DEF Synchronous, ReadNothing
<1>5. resp.items = <<>> \/ (Base' = Base /\ \A q \in 0 .. Base - 1 : buf'[q] = buf[q])
  BY <1>2, <1>3, LeftoverIs DEF ReadNothing
<1>. QED BY <1>1, <1>2, <1>3, <1>4, <1>5, SyncSame DEF ReadNothing

\* A reader in step has no full buffer to give up.
LEMMA SyncReadOverflow ==
  ASSUME Typed, Window, Synchronous, ResponsesFit, ReadOverflow
  PROVE  Synchronous'
<1>1. pc = "read" /\ pc' = "wait" /\ pc \in Between /\ pc' \in Between /\ EmptyLength <= 0
      /\ readPtr' = NULL /\ taken' = taken
  BY DEF ReadOverflow, Between
<1>2. Base + Ahead >= BufSize
  <2>1. /\ AtPtr \in 0 .. BufSize /\ AtBuf \in 0 .. AtPtr /\ Base = AtPtr /\ partial \in 0 .. BufSize
        /\ ReadAt = AtBuf + partial /\ EmptyLength = BufSize - ReadAt /\ Ahead = partial
    BY <1>1, ReadIs
  <2>2. BufSize \in Nat
    BY AheadIs
  <2>. QED BY <1>1, <2>1, <2>2
<1>3. Len(handled) = Len(script) /\ dataLen = 0
  <2>1. ~(Len(handled) < Len(script) \/ dataLen # 0)
    <3>1. Base \in Nat /\ Ahead \in Nat /\ BufSize \in Nat
      BY AheadIs
    <3>. QED BY <1>1, <1>2, <3>1, RoomLeft
  <2>. QED BY <2>1, SyncIs, AheadIs
<1>4. partial = 0
  <2>1. Pos = End(script, Len(script))
    BY <1>3 DEF Synchronous, InStep, Pos
  <2>2. Ahead = partial
    BY <1>1, ReadIs
  <2>. QED BY <2>1, <2>2, AheadIs DEF Pos
<1>5. Typed' /\ Pos' = Pos
  <2>1. Typed' /\ Pos' = Pos + 0 /\ Pos \in Nat
    BY <1>4, TypedReadOverflow, ReadOverflowAdvances, AdvanceKeeps, AheadIs
  <2>. QED BY <2>1
<1>6. Base' = 0 /\ 0 <= Base
  BY <1>1, StandsAfter, AheadIs
<1>7. Within(script, Len(handled), dataLen, taken')
  BY <1>1 DEF Synchronous
<1>8. ~(Done < Len(script))
  BY <1>1, <1>3, SyncIs, AheadIs
<1>. QED BY <1>1, <1>5, <1>6, <1>7, <1>8, SyncSame DEF ReadOverflow

\* A part of the raw data keeps the reader in step.
LEMMA SyncDataPartial ==
  ASSUME Typed, Window, Synchronous, ReceiveData, DataPartial(resp, line, left, dataLen), Advance(0)
  PROVE  Synchronous'
<1>1. pc = "data" /\ pc \notin Between /\ pc' = "read" /\ pc' \in Between /\ dataLen # 0
      /\ dataLen' = dataLen /\ readPtr' = line /\ left < dataLen /\ resp' = resp
      /\ plan' = plan /\ taken' = taken /\ handled' = handled
  BY DEF ReceiveData, DataPartial, ReadMore, Between, Typed
<1>2. Typed' /\ Pos' = Pos + 0 /\ Pos \in Nat
  BY TypedReceiveData, AdvanceKeeps, AheadIs
<1>3. Base' = Base /\ Base = line /\ Ahead = left /\ line \in Nat /\ left \in Nat
  BY <1>1, StandsAfter, TurnTyped
<1>4. ASSUME NEW q \in 0 .. Base - 1 PROVE buf'[q] = buf[q]
  <2>1. q # line + left /\ q \in 0 .. BufSize
    BY <1>3, AheadIs
  <2>2. DOMAIN buf = 0 .. BufSize
    BY DEF Typed
  <2>. QED BY <2>1, <2>2 DEF ReceiveData
<1>5. Within(script, Len(handled), dataLen, taken')
  <2>1. Pos + dataLen = End(script, Len(handled))
    BY <1>1 DEF Synchronous, InStep, Pos
  <2>2. taken = Pos + left /\ dataLen \in Nat
    BY <1>3, AheadIs DEF Pos, Typed
  <2>3. taken < End(script, Len(handled))
    BY <1>1, <1>2, <1>3, <2>1, <2>2
  <2>. QED BY <1>1, <2>3 DEF Within
<1>. QED BY <1>1, <1>2, <1>3, <1>4, <1>5, SyncSame

\* A turn that stops where it began, because the next message is not there in full.
LEMMA SyncStop ==
  ASSUME Typed, Typed', Window, Synchronous, pc = "line", pc' = "read", plan' = plan,
         taken' = taken, UNCHANGED <<buf, dataLen, resp, handled>>,
         readPtr' = Start, NEW a, Advance(a), a = 0,
         Rest = 0 \/ Rest < Size(script, Turn)
  PROVE  Synchronous'
<1>1. /\ dataLen = 0 /\ Len(handled) \in 0 .. Len(script) /\ Pos = End(script, Len(handled))
      /\ Start = line /\ Rest = left /\ line \in Nat /\ left \in Nat
      /\ taken = Pos + left /\ Turn - 1 = Len(handled) /\ Turn \in Nat
  BY SyncTurn
<1>2. pc \notin Between /\ pc' \in Between
  BY DEF Between
<1>3. Base' = Base /\ Base \in Nat
  BY <1>1, <1>2, StandsAfter, TurnTyped
<1>4. Pos' = Pos /\ Pos \in Nat
  <2>1. Pos' = Pos + 0 /\ Pos \in Nat
    BY AdvanceKeeps, AheadIs
  <2>. QED BY <2>1
<1>5. ASSUME Len(handled) < Len(script) PROVE taken < End(script, Len(handled) + 1)
  <2>1. Turn \in 1 .. Len(script) /\ Len(handled) + 1 = Turn
    BY <1>1, <1>5, AheadIs DEF Turn
  <2>2. End(script, Turn) = End(script, Turn - 1) + Size(script, Turn)
    BY <2>1, AheadIs, EndStep
  <2>3. Size(script, Turn) \in Nat \ {0}
    BY <2>1, AheadIs, BytesAre
  <2>. QED BY <1>1, <1>4, <2>1, <2>2, <2>3
<1>6. Within(script, Len(handled), dataLen, taken')
  BY <1>1, <1>5 DEF Within
<1>. QED BY <1>2, <1>3, <1>4, <1>6, SyncSame

\* The end of a pass keeps the reader in step.
LEMMA SyncNoMoreLines == ASSUME Typed, Window, Synchronous, NoMoreLines PROVE Synchronous'
<1>1. pc = "line" /\ Rest = 0 /\ Advance(left) /\ Typed'
  BY TypedNoMoreLines, NoMoreLinesAdvances DEF NoMoreLines
<1>2. left = 0
  BY <1>1, SyncTurn
<1>. QED BY <1>1, <1>2, SyncStop DEF NoMoreLines, ReadMore, Unread

\* A blob that is not complete keeps the reader in step.
LEMMA SyncWaitForBlob == ASSUME Typed, Window, Synchronous, WaitForBlob PROVE Synchronous'
<1>1. pc = "line" /\ AtBlob /\ Rest < script[Blob].len /\ Advance(Skip) /\ Typed' /\ Rest > 0
  BY TypedWaitForBlob, WaitForBlobAdvances DEF WaitForBlob, AtBlob
<1>2. Blob = Turn /\ script[Turn].type = "blob" /\ Turn \in 1 .. Len(script) /\ Skip = 0
  BY <1>1, SyncBlob, SyncTurn
<1>3. Chars(script, Turn) \in Nat /\ Block(script, Turn) \in Nat
  BY <1>2, AheadIs, ScriptIs
<1>4. Rest < Size(script, Turn)
  <2>1. Rest < Chars(script, Turn)
    BY <1>1, <1>2 DEF Chars
  <2>2. Size(script, Turn) = Chars(script, Turn) + Block(script, Turn)
    BY <1>2 DEF Size
  <2>3. Rest \in Nat
    BY <1>1, SyncTurn
  <2>. QED BY <1>3, <2>1, <2>2, <2>3
<1>. QED BY <1>1, <1>2, <1>4, SyncStop DEF WaitForBlob, ReadMore, Unread

\* A line that is not complete keeps the reader in step.
LEMMA SyncIncompleteLine == ASSUME Typed, Window, Synchronous, IncompleteLine PROVE Synchronous'
<1>1. pc = "line" /\ ~AtBlob /\ ~HasLine /\ Advance(Skip) /\ Typed' /\ Rest > 0
  BY TypedIncompleteLine, IncompleteLineAdvances DEF IncompleteLine
<1>2. /\ script[Turn].type # "blob" /\ Turn \in 1 .. Len(script) /\ Skip = 0 /\ Rest \in Nat
      /\ Rest <= Chars(script, Turn)
  BY <1>1, SyncBlob, SyncTurn, SyncNoLine
<1>3. Chars(script, Turn) \in Nat /\ Block(script, Turn) \in Nat
  BY <1>2, AheadIs, ScriptIs
<1>4. Size(script, Turn) = Chars(script, Turn) + 1 + Block(script, Turn)
  BY <1>2 DEF Size
<1>5. Rest < Size(script, Turn)
  BY <1>2, <1>3, <1>4
<1>. QED BY <1>1, <1>2, <1>5, SyncStop DEF IncompleteLine, ReadMore, Unread

\* A step by which the next message is handled.
LEMMA SyncMessage ==
  ASSUME Typed, Typed', Window, Synchronous, pc = "line", plan' = plan,
         Turn \in 1 .. Len(script), handled' = Append(handled, Turn),
         InStep(script, Turn, dataLen', Pos'),
         pc' \in Between => Within(script, Turn, dataLen', taken'),
         pc' = "deliver" <=> script[Turn].type = "final",
         Pos' - Base' = Pos - Base,
         \A f \in 0 .. Len(script) :
           LastFinal(script, f, Turn - 1) /\
           SavedAs(buf, resp.items, ItemsTo(script, f, Turn - 1), Base) =>
             SavedAs(buf', resp'.items, Expected(script, f, Done', dataLen'), Base')
  PROVE  Synchronous'
<1>1. script' = script
  BY DEF script
<1>2. /\ Len(handled) \in 0 .. Len(script) /\ Turn - 1 = Len(handled) /\ dataLen = 0
      /\ Turn \in Nat /\ Len(script) \in Nat
  BY SyncTurn, AheadIs
<1>3. Len(handled') = Turn /\ \A i \in 1 .. Len(handled') : handled'[i] = i
  <2>1. /\ Len(handled') = Len(handled) + 1 /\ handled'[Len(handled) + 1] = Turn
        /\ \A i \in 1 .. Len(handled) : handled'[i] = handled[i]
    BY DEF Typed
  <2>2. Len(handled) + 1 = Turn
    BY DEF Turn
  <2>3. \A i \in 1 .. Len(handled) : handled[i] = i
    BY DEF Synchronous
  <2>. QED BY <1>2, <2>1, <2>2, <2>3
<1>4. Done = Turn - 1 /\ Done < Len(script) /\ Done' = IF pc' = "deliver" THEN Turn - 1 ELSE Turn
  BY <1>2, <1>3 DEF Done
<1>5. PICK f \in 0 .. Len(script) : Response(f)
  BY DEF Synchronous
<1>6. /\ LastFinal(script, f, Turn - 1) /\ End(script, f) <= Pos - Base
      /\ SavedAs(buf, resp.items, ItemsTo(script, f, Turn - 1), Base)
  BY <1>2, <1>4, <1>5 DEF Response, Pos, Expected
<1>7. LastFinal(script, f, Done')
  <2>1. CASE pc' = "deliver"
    BY <1>4, <1>6, <2>1
  <2>2. CASE pc' # "deliver"
    <3>1. /\ f \in 0 .. Turn - 1 /\ (f = 0 \/ script[f].type = "final")
          /\ \A k \in f + 1 .. Turn - 1 : script[k].type # "final"
      BY <1>6 DEF LastFinal
    <3>2. ASSUME NEW k \in f + 1 .. Turn PROVE script[k].type # "final"
      <4>1. k = Turn \/ k \in f + 1 .. Turn - 1
        BY <1>2
      <4>. QED BY <2>2, <3>1, <4>1
    <3>3. f \in 0 .. Turn
      BY <1>2, <3>1
    <3>. QED BY <1>4, <2>2, <3>1, <3>2, <3>3 DEF LastFinal
  <2>. QED BY <2>1, <2>2
<1>8. Response(f)'
  <2>1. End(script, f) <= Pos' - Base'
    BY <1>6
  <2>2. SavedAs(buf', resp'.items, Expected(script, f, Done', dataLen'), Base')
    BY <1>6
  <2>. QED BY <1>1, <1>7, <2>1, <2>2 DEF Response, Pos
<1>9. pc' = "deliver" => Len(handled') # 0 /\ script[Len(handled')].type = "final"
  BY <1>2, <1>3
<1>10. InStep(script, Len(handled'), dataLen', Pos')
       /\ (pc' \in Between => Within(script, Len(handled'), dataLen', taken'))
  BY <1>3
<1>11. \E g \in 0 .. Len(script) : Response(g)'
  BY <1>8
<1>. QED BY <1>1, <1>3, <1>9, <1>10, <1>11 DEF Synchronous, Pos

\* What the next message is, and where it ends.
LEMMA TurnEnds ==
  ASSUME Typed, Window, Synchronous, pc = "line", Rest > 0
  PROVE  /\ Turn \in 1 .. Len(script) /\ Chars(script, Turn) \in Nat \ {0}
         /\ Block(script, Turn) \in Nat /\ Pos \in Nat /\ Base \in Nat /\ Base = line
         /\ Start = Base
         /\ (Block(script, Turn) # 0 => script[Turn].type = "data")
         /\ End(script, Turn) = Pos + Size(script, Turn)
         /\ Turn < Len(script) => End(script, Turn) < End(script, Turn + 1)
         /\ Skip = 0 /\ dataLen = 0
<1>1. /\ Turn \in 1 .. Len(script) /\ Pos = End(script, Turn - 1) /\ Skip = 0 /\ dataLen = 0
      /\ Start = line
  BY SyncTurn
<1>2. /\ Chars(script, Turn) \in Nat \ {0} /\ Block(script, Turn) \in Nat
      /\ (Block(script, Turn) # 0 => script[Turn].type = "data")
  BY <1>1, AheadIs, ScriptIs
<1>3. End(script, Turn) = Pos + Size(script, Turn)
  BY <1>1, AheadIs, EndStep
<1>4. ASSUME Turn < Len(script) PROVE End(script, Turn) < End(script, Turn + 1)
  <2>1. Turn \in 0 .. Len(script) /\ Turn + 1 \in 0 .. Len(script) /\ Turn < Turn + 1
    BY <1>1, <1>4, AheadIs
  <2>. QED BY <2>1, AheadIs, EndsAscend
<1>5. Base = line
  BY TurnTyped DEF Between
<1>. QED BY <1>1, <1>2, <1>3, <1>4, <1>5, AheadIs

\* The response so far.
LEMMA SavedIs ==
  ASSUME Typed, NEW f \in 0 .. Len(script), NEW h \in f .. Len(script)
  PROVE  resp.items \in Seq(Places) /\ ItemsTo(script, f, h) \in Saved
  BY AheadIs, ItemsIs DEF Typed, Places

\* A blob handed over keeps the reader in step.
LEMMA SyncTakeBlob == ASSUME Typed, Window, Synchronous, TakeBlob PROVE Synchronous'
<1>. DEFINE c == Chars(script, Turn)
<1>1. pc = "line" /\ pc' = "line" /\ AtBlob /\ Rest > 0 /\ plan' = plan /\ pc' \notin Between
      /\ pc \notin Between
  BY DEF TakeBlob, AtBlob, Unread, Between
<1>2. /\ Turn \in 1 .. Len(script) /\ c \in Nat \ {0} /\ Pos \in Nat /\ Base \in Nat
      /\ Start = Base /\ Skip = 0 /\ Block(script, Turn) \in Nat
      /\ (Block(script, Turn) # 0 => script[Turn].type = "data")
      /\ End(script, Turn) = Pos + Size(script, Turn) /\ dataLen = 0
  BY <1>1, TurnEnds
<1>3. Blob = Turn /\ script[Turn].type = "blob"
  BY <1>1, SyncBlob
<1>4. Advance(Skip + c)
  BY <1>3, TakeBlobAdvances
<1>5. Pos' = Pos + c /\ Base' = Base + c
  <2>1. Pos' = Pos + (Skip + c)
    BY <1>4, AdvanceKeeps
  <2>2. line' = Start + c
    BY <1>3 DEF TakeBlob, Chars
  <2>. QED BY <1>1, <1>2, <2>1, <2>2, StandsAfter
<1>6. Pos' = End(script, Turn)
  BY <1>2, <1>3, <1>5 DEF Size
<1>7. InStep(script, Turn, dataLen', Pos')
  BY <1>2, <1>6, AheadIs DEF InStep, TakeBlob
<1>8. handled' = Append(handled, Turn) /\ dataLen' = 0 /\ buf' = buf /\ resp' = resp
  BY <1>2, <1>3 DEF TakeBlob
<1>9. Pos' - Base' = Pos - Base
  BY <1>2, <1>5
<1>10. Done' = Turn
  <2>1. Len(handled') = Len(handled) + 1
    BY <1>8 DEF Typed
  <2>. QED BY <1>1, <2>1 DEF Done, Turn
<1>11. ASSUME NEW f \in 0 .. Len(script), LastFinal(script, f, Turn - 1),
              SavedAs(buf, resp.items, ItemsTo(script, f, Turn - 1), Base)
       PROVE  SavedAs(buf', resp'.items, Expected(script, f, Done', dataLen'), Base')
  <2>1. Turn - 1 \in f .. Len(script) /\ Turn \in f + 1 .. Len(script)
    BY <1>2, <1>11, AheadIs DEF LastFinal
  <2>2. Expected(script, f, Done', dataLen') = ItemsTo(script, f, Turn - 1)
    BY <1>3, <1>8, <1>10, <2>1, AheadIs, ItemsGrow DEF Expected
  <2>3. Base + c \in Nat /\ Base <= Base + c
    BY <1>2
  <2>4. resp.items \in Seq(Places) /\ ItemsTo(script, f, Turn - 1) \in Saved
    BY <2>1, SavedIs
  <2>5. SavedAs(buf, resp.items, ItemsTo(script, f, Turn - 1), Base + c)
    BY <1>2, <1>11, <2>3, <2>4, SavedStays
  <2>. QED BY <1>5, <1>8, <2>2, <2>5
<1>. HIDE DEF c
<1>. QED BY <1>1, <1>2, <1>3, <1>7, <1>8, <1>9, <1>11, TypedTakeBlob, SyncMessage

\* A line of the next message: where it is, and where its block of data begins.
LEMMA SyncLineStep ==
  ASSUME Typed, Window, Synchronous, WholeLine, plan' = plan, Handled, buf' = Terminated
  PROVE  /\ pc = "line" /\ pc \notin Between /\ Turn \in 1 .. Len(script)
         /\ handled' = Append(handled, Turn) /\ Len(handled') = Turn /\ Type = script[Turn].type
         /\ Start = Base /\ LineLength = Chars(script, Turn) /\ Base \in Nat
         /\ DataStart = Base + Chars(script, Turn) + 1
         /\ taken = Pos + Chars(script, Turn) + 1 + DataThere
         /\ Chars(script, Turn) \in Nat /\ DataThere \in Nat
         /\ \A q \in 0 .. Base - 1 : buf'[q] = buf[q]
         /\ Holds(buf', [off |-> Start, len |-> LineLength], Line(script, Turn), DataStart)
<1>1. pc = "line" /\ pc \notin Between /\ Rest > 0
  BY DEF WholeLine, Between
<1>2. /\ Turn \in 1 .. Len(script) /\ LineLength = Chars(script, Turn) /\ Msg = Turn
      /\ Type = script[Turn].type /\ script[Turn].type # "blob"
      /\ Chars(script, Turn) + 1 <= Rest
  BY SyncLine
<1>. DEFINE c == Chars(script, Turn)
<1>3. c \in Nat /\ Base \in Nat /\ Start = Base /\ Rest = left /\ left \in Nat /\ taken = Pos + left
      /\ Pos \in Nat
  BY <1>1, SyncTurn, TurnEnds
<1>4. DataStart = Base + c + 1 /\ DataThere = Rest - (c + 1)
  BY <1>2, <1>3, WholeLineIs
<1>5. DataThere \in Nat /\ taken = Pos + c + 1 + DataThere
  <2>1. c + 1 <= Rest
    BY <1>2
  <2>. HIDE DEF c
  <2>. QED BY <1>3, <1>4, <2>1
<1>6. handled' = Append(handled, Turn) /\ Len(handled') = Turn
  BY <1>2 DEF Handled, Turn, Typed
<1>7. DOMAIN buf = 0 .. BufSize /\ Base + c + 1 <= BufSize /\ BufSize \in Nat
  <2>1. Base + left <= BufSize /\ BufSize \in Nat
    BY <1>1, <1>3, SyncTurn, TurnTyped
  <2>. QED BY <1>2, <1>3, <2>1 DEF Typed
<1>8. buf' = [buf EXCEPT ![Base + c] = Nul]
  BY <1>2, <1>3 DEF Terminated
<1>9. ASSUME NEW q \in 0 .. Base - 1 PROVE buf'[q] = buf[q]
  BY <1>3, <1>7, <1>8
<1>10. Holds(buf', [off |-> Start, len |-> LineLength], Line(script, Turn), DataStart)
  <2>1. /\ Len(Line(script, Turn)) = c + 1 /\ Line(script, Turn)[c + 1] = Nul
        /\ \A i \in 1 .. c : Line(script, Turn)[i] = Char(Turn, i)
    BY <1>2, AheadIs, LineBytes
  <2>2. ASSUME NEW i \in 1 .. c + 1 PROVE buf'[Base + i - 1] = Line(script, Turn)[i]
    <3>1. CASE i = c + 1
      <4>1. Base + i - 1 = Base + c /\ Base + c \in DOMAIN buf
        BY <1>3, <1>7, <3>1
      <4>. QED BY <1>8, <2>1, <3>1, <4>1
    <3>2. CASE i \in 1 .. c
      <4>1. Base + i - 1 # Base + c /\ Base + i - 1 \in 0 .. BufSize /\ i <= Rest
        <5>1. c + 1 <= Rest /\ Rest \in Nat
          BY <1>2, <1>3
        <5>2. i \in 1 .. c /\ c \in Nat /\ Base \in Nat /\ BufSize \in Nat /\ Base + c + 1 <= BufSize
          BY <1>3, <1>7, <3>2
        <5>. HIDE DEF c
        <5>. QED BY <5>1, <5>2
      <4>2. buf[Base + i - 1] = Char(Turn, i)
        BY <1>1, <1>3, <3>2, <4>1, SyncBytes
      <4>. QED BY <1>7, <1>8, <2>1, <3>2, <4>1, <4>2
    <3>. QED BY <1>3, <3>1, <3>2
  <2>3. Base + (c + 1) <= DataStart
    BY <1>3, <1>4
  <2>. HIDE DEF c
  <2>. QED BY <1>3, <2>1, <2>2, <2>3 DEF Holds
<1>. QED BY <1>1, <1>2, <1>3, <1>4, <1>5, <1>6, <1>9, <1>10

\* A line without data.
LEMMA SyncNextLine ==
  ASSUME Typed, Typed', Window, Synchronous, WholeLine, plan' = plan, taken' = taken,
         NextLine, Handled, buf' = Terminated, dataLen' = dataLen,
         Advance(Skip + LineLength + 1), Type \notin {"data", "blob"},
         pc' = IF Type = "final" THEN "deliver" ELSE "line",
         resp' = IF Type = "inter" THEN SaveItem(resp, Start, LineLength) ELSE resp
  PROVE  Synchronous'
<1>. DEFINE c == Chars(script, Turn)
<1>1. /\ pc = "line" /\ Turn \in 1 .. Len(script) /\ handled' = Append(handled, Turn)
      /\ Len(handled') = Turn /\ Type = script[Turn].type /\ Start = Base
      /\ DataStart = Base + c + 1 /\ LineLength = c /\ c \in Nat /\ Base \in Nat
      /\ \A q \in 0 .. Base - 1 : buf'[q] = buf[q]
      /\ Holds(buf', [off |-> Start, len |-> LineLength], Line(script, Turn), DataStart)
  BY SyncLineStep
<1>2. pc' \notin Between /\ Rest > 0
  BY DEF Between, WholeLine
<1>3. /\ Pos \in Nat /\ Block(script, Turn) \in Nat /\ Skip = 0 /\ dataLen = 0
      /\ (Block(script, Turn) # 0 => script[Turn].type = "data")
      /\ End(script, Turn) = Pos + Size(script, Turn)
  BY <1>1, <1>2, TurnEnds
<1>4. Size(script, Turn) = c + 1
  <2>1. script[Turn].type \notin {"data", "blob"} /\ Block(script, Turn) = 0
    BY <1>1, <1>3
  <2>2. Size(script, Turn) = c + 1 + 0
    BY <2>1 DEF Size
  <2>. QED BY <1>1, <2>2
<1>5. Pos' = Pos + c + 1 /\ Base' = Base + c + 1
  <2>1. Pos' = Pos + (Skip + LineLength + 1)
    BY AdvanceKeeps
  <2>2. Base' = DataStart
    BY <1>2, StandsAfter DEF NextLine, DataStart
  <2>. HIDE DEF c
  <2>. QED BY <1>1, <1>3, <2>1, <2>2
<1>. HIDE DEF c
<1>6. InStep(script, Turn, dataLen', Pos')
  BY <1>1, <1>3, <1>4, <1>5, AheadIs DEF InStep
<1>7. Pos' - Base' = Pos - Base
  BY <1>1, <1>3, <1>5
<1>8. pc' = "deliver" <=> script[Turn].type = "final"
  BY <1>1
<1>9. Done' = (IF Type = "final" THEN Turn - 1 ELSE Turn) /\ dataLen' = 0
  BY <1>1, <1>3 DEF Done
<1>10. ASSUME NEW f \in 0 .. Len(script), LastFinal(script, f, Turn - 1),
              SavedAs(buf, resp.items, ItemsTo(script, f, Turn - 1), Base)
       PROVE  SavedAs(buf', resp'.items, Expected(script, f, Done', dataLen'), Base')
  <2>1. Turn - 1 \in f .. Len(script) /\ Turn \in f + 1 .. Len(script)
    BY <1>1, <1>10, AheadIs DEF LastFinal
  <2>. DEFINE exp == ItemsTo(script, f, Turn - 1)
  <2>2. resp.items \in Seq(Places) /\ exp \in Saved
    BY <2>1, SavedIs
  <2>3. Base' \in Nat /\ Base <= Base'
    <3>1. Base' = Base + c + 1 /\ Base \in Nat /\ c \in Nat
      BY <1>1, <1>5
    <3>2. Base + c + 1 \in Nat /\ Base <= Base + c + 1
      BY <3>1
    <3>. QED BY <3>1, <3>2
  <2>. HIDE DEF exp
  <2>4. SavedAs(buf', resp.items, exp, Base')
    BY <1>1, <1>10, <2>2, <2>3, SavedStays DEF exp
  <2>5. CASE Type = "inter"
    <3>1. Expected(script, f, Done', dataLen') = Append(exp, Line(script, Turn))
      BY <1>1, <1>9, <2>1, <2>5, AheadIs, ItemsGrow DEF Expected, exp
    <3>2. resp'.items = Append(resp.items, [off |-> Start, len |-> LineLength])
      BY <2>5 DEF SaveItem
    <3>3. [off |-> Start, len |-> LineLength] \in Places /\ Line(script, Turn) \in Seq(Byte)
      BY <1>1, AheadIs, LineBytes DEF Places
    <3>4. Base' = DataStart
      BY <1>1, <1>5
    <3>5. SavedAs(buf', Append(resp.items, [off |-> Start, len |-> LineLength]),
                  Append(exp, Line(script, Turn)), Base')
      BY <1>1, <2>2, <2>3, <2>4, <3>3, <3>4, SavedMore
    <3>. QED BY <3>1, <3>2, <3>5
  <2>6. CASE Type # "inter"
    <3>1. Expected(script, f, Done', dataLen') = exp
      <4>1. CASE Type = "final"
        BY <1>9, <4>1 DEF Expected, exp
      <4>2. CASE Type # "final"
        BY <1>1, <1>9, <2>1, <2>6, <4>2, AheadIs, ItemsGrow DEF Expected, exp
      <4>. QED BY <4>1, <4>2
    <3>2. resp' = resp
      BY <2>6
    <3>. QED BY <2>4, <3>1, <3>2
  <2>. QED BY <2>5, <2>6
<1>. QED BY <1>1, <1>2, <1>6, <1>7, <1>8, <1>10, SyncMessage

\* An unsolicited line keeps the reader in step.
LEMMA SyncUnsolicitedLine ==
  ASSUME Typed, Window, Synchronous, UnsolicitedLine PROVE Synchronous'
<1>1. Typed' /\ Advance(Skip + LineLength + 1) /\ WholeLine /\ Type = "urc" /\ pc' = "line"
  BY TypedUnsolicitedLine, UnsolicitedLineAdvances DEF UnsolicitedLine, WholeLine
<1>. QED BY <1>1, SyncNextLine DEF UnsolicitedLine, Unread

\* A line of a response keeps the reader in step.
LEMMA SyncIntermediateLine ==
  ASSUME Typed, Window, Synchronous, IntermediateLine PROVE Synchronous'
<1>1. Typed' /\ Advance(Skip + LineLength + 1) /\ WholeLine /\ Type = "inter" /\ pc' = "line"
  BY TypedIntermediateLine, IntermediateLineAdvances DEF IntermediateLine, WholeLine
<1>. QED BY <1>1, SyncNextLine DEF IntermediateLine, Unread

\* A final result code keeps the reader in step.
LEMMA SyncFinalLine ==
  ASSUME Typed, Window, Synchronous, FinalLine PROVE Synchronous'
<1>1. Typed' /\ Advance(Skip + LineLength + 1) /\ WholeLine /\ Type = "final" /\ pc' = "deliver"
  BY TypedFinalLine, FinalLineAdvances DEF FinalLine
<1>. QED BY <1>1, SyncNextLine DEF FinalLine, Unread

\* A response that has gone to its callback, and the bytes after it.
LEMMA SyncDeliver == ASSUME Typed, Window, Synchronous, Deliver PROVE Synchronous'
<1>0. PICK h \in Nat : h = Len(handled)
  BY SyncIs, AheadIs
<1>1. pc = "deliver" /\ pc' = "line" /\ pc' \notin Between /\ plan' = plan /\ line' = 0
      /\ resp' = NoResp /\ UNCHANGED <<taken, dataLen, handled>>
  BY DEF Deliver, Unread, Between
<1>2. script' = script
  BY <1>1 DEF script
<1>3. /\ h \in 1 .. Len(script) /\ dataLen = 0 /\ script[h].type = "final"
      /\ Pos = End(script, h)
  BY <1>0, <1>1, SyncIs DEF Synchronous, InStep, Pos
<1>4. Pos' = Pos + 0 /\ Pos \in Nat
  BY DeliverAdvances, AdvanceKeeps, AheadIs
<1>5. Base' = 0 /\ Done' = h
  BY <1>0, <1>1, StandsAfter DEF Done
<1>6. LastFinal(script, h, h)
  BY <1>3 DEF LastFinal
<1>7. SavedAs(buf', resp'.items, Expected(script, h, h, 0), Base')
  <2>1. Expected(script, h, h, 0) = <<>>
    BY <1>3, ItemsNone DEF Expected
  <2>2. Len(<<>>) = 0
    OBVIOUS
  <2>. QED BY <1>1, <2>1, <2>2 DEF SavedAs, NoResp
<1>8. Response(h)'
  <2>1. End(script, h) <= Pos' - Base'
    BY <1>3, <1>4, <1>5
  <2>. QED BY <1>1, <1>2, <1>3, <1>5, <1>6, <1>7, <2>1 DEF Response, Pos
<1>9. InStep(script, Len(handled'), dataLen', Pos')
  BY <1>0, <1>1, <1>3, <1>4, AheadIs DEF InStep
<1>10. \A i \in 1 .. Len(handled') : handled'[i] = i
  BY <1>1 DEF Synchronous
<1>11. \E g \in 0 .. Len(script) : Response(g)'
  <2>1. h \in 0 .. Len(script)
    BY <1>3, AheadIs
  <2>. QED BY <1>8, <2>1
<1>. QED BY <1>1, <1>2, <1>9, <1>10, <1>11 DEF Synchronous, Pos

\* A line with data: all the data is there, or a part of it.
LEMMA SyncDataLine == ASSUME Typed, Window, Synchronous, DataLine PROVE Synchronous'
<1>. DEFINE c == Chars(script, Turn)
            n == Block(script, Turn)
            it == [off |-> Start, len |-> LineLength]
<1>1. WholeLine /\ plan' = plan /\ taken' = taken /\ Handled /\ buf' = Terminated /\ Type = "data"
  BY DEF DataLine, Unread
<1>2. /\ pc = "line" /\ pc \notin Between /\ Turn \in 1 .. Len(script)
      /\ handled' = Append(handled, Turn) /\ Len(handled') = Turn /\ Type = script[Turn].type
      /\ Start = Base /\ LineLength = c /\ Base \in Nat /\ DataStart = Base + c + 1
      /\ taken = Pos + c + 1 + DataThere /\ c \in Nat /\ DataThere \in Nat
      /\ \A q \in 0 .. Base - 1 : buf'[q] = buf[q]
      /\ Holds(buf', it, Line(script, Turn), DataStart)
  BY <1>1, SyncLineStep
<1>3. /\ Pos \in Nat /\ n \in Nat /\ Skip = 0 /\ dataLen = 0 /\ Rest > 0
      /\ End(script, Turn) = Pos + Size(script, Turn)
      /\ (Turn < Len(script) => End(script, Turn) < End(script, Turn + 1))
  BY <1>1, <1>2, TurnEnds DEF WholeLine
<1>4. Size(script, Turn) = c + 1 + n
  BY <1>1, <1>2 DEF Size
<1>5. Msg = Turn /\ script[Msg].data = n
  BY <1>1, SyncLine DEF Block
<1>6. /\ it \in Places /\ Line(script, Turn) \in Seq(Byte)
      /\ DataOf(script, Turn) \in Seq(Byte) /\ Len(DataOf(script, Turn)) = n
      /\ \A i \in 1 .. n : DataOf(script, Turn)[i] = Data(Turn, i)
  BY <1>2, AheadIs, LineBytes DEF Places
<1>. HIDE DEF c, n, it
<1>7. ASSUME NEW f \in 0 .. Len(script), LastFinal(script, f, Turn - 1),
             SavedAs(buf, resp.items, ItemsTo(script, f, Turn - 1), Base),
             NEW lim \in Nat, DataStart <= lim
      PROVE  /\ Turn \in f + 1 .. Len(script)
             /\ Append(resp.items, it) \in Seq(Places)
             /\ Append(ItemsTo(script, f, Turn - 1), Line(script, Turn)) \in Saved
             /\ SavedAs(buf', Append(resp.items, it),
                        Append(ItemsTo(script, f, Turn - 1), Line(script, Turn)), lim)
  <2>1. Turn - 1 \in f .. Len(script) /\ Turn \in f + 1 .. Len(script)
    <3>1. Turn \in 1 .. Len(script) /\ Len(script) \in Nat
      BY <1>2, AheadIs
    <3>2. f \in 0 .. Turn - 1
      BY <1>7 DEF LastFinal
    <3>. QED BY <3>1, <3>2
  <2>. DEFINE exp == ItemsTo(script, f, Turn - 1)
  <2>2. resp.items \in Seq(Places) /\ exp \in Saved
    BY <2>1, SavedIs
  <2>. HIDE DEF exp
  <2>3. SavedAs(buf', resp.items, exp, lim)
    <3>1. Base <= lim
      BY <1>2, <1>7
    <3>. QED BY <1>2, <1>7, <2>2, <3>1, SavedStays DEF exp
  <2>4. Holds(buf', it, Line(script, Turn), lim)
    <3>1. it.off + Len(Line(script, Turn)) <= DataStart
      BY <1>2 DEF Holds
    <3>2. it.off + Len(Line(script, Turn)) \in Nat /\ DataStart \in Nat
      BY <1>2, <1>6 DEF Places
    <3>3. it.off + Len(Line(script, Turn)) <= lim
      BY <1>7, <3>1, <3>2
    <3>. QED BY <1>2, <3>3 DEF Holds
  <2>5. SavedAs(buf', Append(resp.items, it), Append(exp, Line(script, Turn)), lim)
    BY <1>6, <1>7, <2>2, <2>3, <2>4, SavedMore
  <2>6. Append(resp.items, it) \in Seq(Places) /\ Append(exp, Line(script, Turn)) \in Saved
    BY <1>6, <2>2, AppendProperties DEF Saved
  <2>. QED BY <2>1, <2>5, <2>6 DEF exp
<1>8. pc' = "deliver" <=> script[Turn].type = "final"
  <2>1. pc' \in {"read", "line"}
    BY DEF DataLine, DataPartial, ReadMore
  <2>. QED BY <1>1, <1>2, <2>1
<1>9. CASE DataAll /\ Advance(Skip + LineLength + 1 + script[Msg].data)
  <2>1. /\ DataThere >= n /\ line' = DataStart + n /\ readPtr' = DataStart + n /\ dataLen' = 0
        /\ resp' = SaveItem(SaveItem(resp, Start, LineLength), DataStart, n)
        /\ pc' = IF DataThere = n THEN "read" ELSE "line"
    BY <1>3, <1>5, <1>9 DEF DataAll, ReadMore
  <2>2. Pos' = Pos + c + 1 + n
    <3>1. Pos' = Pos + (Skip + LineLength + 1 + n)
      BY <1>5, <1>9, AdvanceKeeps
    <3>2. Skip + LineLength + 1 + n = c + 1 + n
      BY <1>2, <1>3
    <3>3. Pos + (c + 1 + n) = Pos + c + 1 + n
      BY <1>2, <1>3, Regroup
    <3>. QED BY <3>1, <3>2, <3>3
  <2>3. Base' = DataStart + n
    <3>1. DataStart + n \in Nat
      BY <1>2, <1>3
    <3>2. CASE DataThere = n
      <4>1. pc' \in Between
        BY <2>1, <3>2 DEF Between
      <4>. QED BY <2>1, <3>1, <4>1, StandsAfter
    <3>3. CASE DataThere # n
      <4>1. pc' \notin Between
        BY <2>1, <3>3 DEF Between
      <4>. QED BY <2>1, <3>1, <4>1, StandsAfter
    <3>. QED BY <3>2, <3>3
  <2>4. InStep(script, Turn, dataLen', Pos')
    <3>1. Pos' = End(script, Turn)
      BY <1>2, <1>3, <1>4, <2>2
    <3>. QED BY <1>2, <2>1, <3>1, AheadIs DEF InStep
  <2>5. ASSUME pc' \in Between PROVE Within(script, Turn, dataLen', taken')
    <3>1. DataThere = n
      BY <2>1, <2>5 DEF Between
    <3>2. taken' = End(script, Turn)
      BY <1>1, <1>2, <1>3, <1>4, <3>1
    <3>. QED BY <1>3, <2>1, <3>2 DEF Within
  <2>6. Pos' - Base' = Pos - Base
    BY <1>2, <1>3, <2>2, <2>3
  <2>7. Done' = Turn
    BY <1>2, <2>1 DEF Done
  <2>. DEFINE id == [off |-> DataStart, len |-> n]
  <2>8. /\ resp'.items = Append(Append(resp.items, it), id) /\ id \in Places
        /\ id.off = DataStart
    BY <1>2, <1>3, <2>1 DEF SaveItem, it, Places
  <2>. HIDE DEF id
  <2>9. Holds(buf', id, DataOf(script, Turn), DataStart + n)
    <3>1. ASSUME NEW i \in 1 .. n PROVE buf'[DataStart + i - 1] = Data(Turn, i)
      <4>1. i \in 1 .. Block(script, Turn) /\ c + 1 + i <= Rest
        <5>1. DataThere = Rest - (LineLength + 1) /\ Rest \in Nat
          BY <1>1, WholeLineIs
        <5>2. i <= DataThere
          BY <1>2, <1>3, <2>1
        <5>. QED BY <1>2, <1>3, <5>1, <5>2 DEF n
      <4>2. buf[Start + c + i] = Data(Turn, i)
        BY <1>2, <1>3, <4>1, SyncBytes DEF c
      <4>3. DataStart + i - 1 = Start + c + i /\ DataStart + i - 1 \in 0 .. BufSize
            /\ DataStart + i - 1 # Start + LineLength
        <5>1. DataStart + DataThere <= BufSize /\ BufSize \in Nat
          BY <1>1, WholeLineIs, AheadIs
        <5>2. DataStart = Base + c + 1 /\ Start = Base /\ LineLength = c /\ Base \in Nat /\ c \in Nat
          BY <1>2
        <5>3. i \in Nat /\ i >= 1 /\ i <= DataThere /\ DataThere \in Nat
          BY <1>2, <1>3, <2>1
        <5>4. DataStart + i - 1 = Start + c + i /\ DataStart + i - 1 # Start + LineLength
          BY <5>2, <5>3
        <5>5. DataStart + i - 1 \in 0 .. BufSize
          BY <5>1, <5>2, <5>3
        <5>. QED BY <5>4, <5>5
      <4>4. DOMAIN buf = 0 .. BufSize
        BY DEF Typed
      <4>. QED BY <1>1, <4>2, <4>3, <4>4 DEF Terminated
    <3>2. DataStart + n <= DataStart + n
      BY <1>2, <1>3
    <3>. QED BY <1>6, <2>8, <3>1, <3>2 DEF Holds
  <2>10. ASSUME NEW f \in 0 .. Len(script), LastFinal(script, f, Turn - 1),
                SavedAs(buf, resp.items, ItemsTo(script, f, Turn - 1), Base)
         PROVE  SavedAs(buf', resp'.items, Expected(script, f, Done', dataLen'), Base')
    <3>. DEFINE exp == Append(ItemsTo(script, f, Turn - 1), Line(script, Turn))
    <3>1. DataStart + n \in Nat /\ DataStart <= DataStart + n
      BY <1>2, <1>3
    <3>2. /\ Turn \in f + 1 .. Len(script)
          /\ Append(resp.items, it) \in Seq(Places) /\ exp \in Saved
          /\ SavedAs(buf', Append(resp.items, it), exp, DataStart + n)
      BY <1>7, <2>10, <3>1
    <3>3. Expected(script, f, Done', dataLen') = Append(exp, DataOf(script, Turn))
      BY <1>1, <1>2, <2>1, <2>7, <3>2, AheadIs, ItemsGrow DEF Expected
    <3>. HIDE DEF exp
    <3>4. SavedAs(buf', Append(Append(resp.items, it), id), Append(exp, DataOf(script, Turn)),
                  DataStart + n)
      BY <1>6, <2>8, <2>9, <3>1, <3>2, SavedMore
    <3>. QED BY <2>3, <2>8, <3>3, <3>4
  <2>. QED BY <1>1, <1>2, <1>8, <2>4, <2>5, <2>6, <2>10, TypedDataLine, SyncMessage
<1>10. CASE DataSome /\ Advance(Skip + LineLength + 1)
  <2>1. /\ DataThere < n /\ readPtr' = DataStart /\ dataLen' = n
        /\ resp' = SaveItem(resp, Start, LineLength) /\ pc' = "read" /\ pc' \in Between
    BY <1>5, <1>10 DEF DataSome, DataPartial, ReadMore, Between
  <2>2. Pos' = Pos + c + 1
    <3>1. Pos' = Pos + (Skip + LineLength + 1)
      BY <1>10, AdvanceKeeps
    <3>. QED BY <1>2, <1>3, <3>1
  <2>3. Base' = DataStart
    <3>1. DataStart \in Nat
      BY <1>2
    <3>. QED BY <2>1, <3>1, StandsAfter
  <2>4. n # 0
    BY <1>2, <1>3, <2>1
  <2>5. InStep(script, Turn, dataLen', Pos')
    <3>1. Pos' + n = End(script, Turn)
      <4>1. End(script, Turn) = Pos + (c + 1 + n) /\ Pos \in Nat /\ n \in Nat /\ c \in Nat
        BY <1>2, <1>3, <1>4
      <4>2. Pos + (c + 1 + n) = Pos + c + 1 + n
        BY <4>1, Regroup
      <4>. QED BY <2>2, <4>1, <4>2
    <3>2. Turn <= Len(script) /\ Turn # 0 /\ script[Turn].type = "data"
      <4>1. Turn \in 1 .. Len(script) /\ script[Turn].type = "data"
        BY <1>1, <1>2
      <4>2. Len(script) \in Nat
        BY AheadIs
      <4>. QED BY <4>1, <4>2
    <3>. QED BY <2>1, <2>4, <3>1, <3>2 DEF InStep, n
  <2>6. Within(script, Turn, dataLen', taken')
    <3>1. taken' < End(script, Turn)
      BY <1>1, <1>2, <1>3, <1>4, <2>1
    <3>. QED BY <2>1, <2>4, <3>1 DEF Within
  <2>7. Pos' - Base' = Pos - Base
    BY <1>2, <1>3, <2>2, <2>3
  <2>8. Done' = Turn
    BY <1>2, <2>1 DEF Done
  <2>9. resp'.items = Append(resp.items, it)
    BY <2>1 DEF SaveItem, it
  <2>10. ASSUME NEW f \in 0 .. Len(script), LastFinal(script, f, Turn - 1),
                SavedAs(buf, resp.items, ItemsTo(script, f, Turn - 1), Base)
         PROVE  SavedAs(buf', resp'.items, Expected(script, f, Done', dataLen'), Base')
    <3>1. DataStart \in Nat /\ DataStart <= DataStart
      BY <1>2
    <3>2. SavedAs(buf', Append(resp.items, it),
                  Append(ItemsTo(script, f, Turn - 1), Line(script, Turn)), DataStart)
      BY <1>7, <2>10, <3>1
    <3>3. Expected(script, f, Done', dataLen') =
            Append(ItemsTo(script, f, Turn - 1), Line(script, Turn))
      BY <2>1, <2>4, <2>8 DEF Expected
    <3>. QED BY <2>3, <2>9, <3>2, <3>3
  <2>. QED BY <1>1, <1>2, <1>8, <2>5, <2>6, <2>7, <2>10, TypedDataLine, SyncMessage
<1>. QED BY <1>9, <1>10, DataLineAdvances

\* The rest of a block of data.
LEMMA SyncDataComplete ==
  ASSUME Typed, Window, Synchronous, ReceiveData, DataComplete(resp, line, left),
         left >= dataLen, Advance(dataLen)
  PROVE  Synchronous'
<1>0. PICK h \in Nat : h = Len(handled)
  BY SyncIs, AheadIs
<1>1. /\ pc = "data" /\ pc \notin Between /\ dataLen # 0 /\ dataLen \in Nat
      /\ dataLen' = 0 /\ resp' = SaveItem(resp, line, dataLen)
      /\ line' = line + dataLen /\ readPtr' = line + dataLen
      /\ (pc' = IF left = dataLen THEN "read" ELSE "line")
      /\ plan' = plan /\ taken' = taken /\ handled' = handled
  BY DEF ReceiveData, DataComplete, ReadMore, Between, Typed
<1>2. script' = script
  BY <1>1 DEF script
<1>3. /\ h \in 1 .. Len(script) /\ Done = h /\ script[h].type = "data"
      /\ dataLen = Block(script, h) /\ Pos + dataLen = End(script, h) /\ Len(script) \in Nat
  BY <1>0, <1>1, SyncIs, AheadIs DEF Synchronous, InStep, Pos
<1>4. /\ line \in Nat /\ left \in Nat /\ Base = line /\ Ahead = left /\ taken = Pos + left
      /\ Pos \in Nat /\ BufSize \in Nat /\ line + left <= BufSize /\ DOMAIN buf = 0 .. BufSize
  <2>1. /\ line \in Nat /\ left \in Nat /\ Base = line /\ Ahead = left /\ left <= taken
        /\ line + left <= BufSize /\ taken \in Nat
    BY <1>1, TurnTyped
  <2>2. taken = Pos + left
    BY <2>1 DEF Pos
  <2>. QED BY <2>1, <2>2, AheadIs DEF Typed
<1>5. Pos' = Pos + dataLen
  BY AdvanceKeeps
<1>6. Base' = line + dataLen
  <2>1. line + dataLen \in Nat
    BY <1>1, <1>4
  <2>2. CASE left = dataLen
    <3>1. pc' \in Between
      BY <1>1, <2>2 DEF Between
    <3>. QED BY <1>1, <2>1, <3>1, StandsAfter
  <2>3. CASE left # dataLen
    <3>1. pc' \notin Between
      BY <1>1, <2>3 DEF Between
    <3>. QED BY <1>1, <2>1, <3>1, StandsAfter
  <2>. QED BY <2>2, <2>3
<1>7. pc' # "deliver" /\ Done' = h
  BY <1>0, <1>1 DEF Done
<1>8. PICK f \in 0 .. Len(script) : Response(f)
  BY DEF Synchronous
<1>9. LastFinal(script, f, h) /\ End(script, f) <= Pos - Base
  BY <1>1, <1>3, <1>8 DEF Response, Pos
<1>10. buf' = buf \/ buf' = [buf EXCEPT ![line + left] = Nul]
  BY DEF ReceiveData
<1>11. ASSUME NEW q \in 0 .. line + left - 1 PROVE buf'[q] = buf[q]
  <2>1. q # line + left /\ q \in 0 .. BufSize
    BY <1>4
  <2>. QED BY <1>4, <1>10, <2>1
<1>. DEFINE it == [off |-> line, len |-> dataLen]
            exp == Expected(script, f, h, dataLen)
            lim == line + dataLen
<1>12. it \in Places /\ it.off = line /\ lim \in Nat /\ line <= lim
  BY <1>1, <1>4 DEF Places
<1>13. exp \in Saved /\ f <= h - 1
  <2>1. h \in 0 .. Len(script) /\ h # 0
    BY <1>3
  <2>. QED BY <1>1, <1>3, <1>9, <2>1, AheadIs, ExpectedIs
<1>14. /\ DataOf(script, h) \in Seq(Byte) /\ Len(DataOf(script, h)) = dataLen
       /\ \A i \in 1 .. dataLen : DataOf(script, h)[i] = Data(h, i)
  BY <1>3, AheadIs, LineBytes
<1>15. Holds(buf', it, DataOf(script, h), lim)
  <2>1. ASSUME NEW i \in 1 .. dataLen PROVE buf'[line + i - 1] = Data(h, i)
    <3>1. i - 1 \in 0 .. Ahead - 1 /\ line + (i - 1) = line + i - 1
          /\ line + i - 1 \in 0 .. line + left - 1 /\ taken - Ahead + (i - 1) + 1 = Pos + i
      BY <1>1, <1>4
    <3>2. buf[line + (i - 1)] = Text(script)[taken - Ahead + (i - 1) + 1]
      BY <1>4, <3>1 DEF Window, WindowAt
    <3>3. Text(script)[Pos + i] = Data(h, i)
      <4>1. /\ End(script, h) = End(script, h - 1) + Size(script, h)
            /\ End(script, h - 1) \in Nat /\ Chars(script, h) \in Nat
        <5>1. h - 1 \in 0 .. Len(script)
          BY <1>3
        <5>. QED BY <1>3, <5>1, AheadIs, EndStep, ScriptIs
      <4>2. Size(script, h) = Chars(script, h) + 1 + dataLen
        BY <1>3 DEF Size
      <4>3. End(script, h - 1) + Chars(script, h) + 1 + i = Pos + i
        <5>1. Pos + dataLen = End(script, h - 1) + (Chars(script, h) + 1 + dataLen)
          BY <1>3, <4>1, <4>2
        <5>2. dataLen \in Nat /\ Pos \in Nat
          BY <1>1, <1>4
        <5>3. Pos = End(script, h - 1) + (Chars(script, h) + 1)
          BY <4>1, <5>1, <5>2
        <5>. QED BY <4>1, <5>3
      <4>4. Text(script)[End(script, h - 1) + Chars(script, h) + 1 + i] = Data(h, i)
        BY <1>3, AheadIs, ByteStands DEF DataAt
      <4>. QED BY <4>3, <4>4
    <3>. QED BY <1>11, <3>1, <3>2, <3>3
  <2>2. line + dataLen <= lim
    BY <1>1, <1>4
  <2>. HIDE DEF it
  <2>. QED BY <1>12, <1>14, <2>1, <2>2 DEF Holds
<1>. HIDE DEF it, exp, lim
<1>16. ASSUME h < Len(script) PROVE SavedAs(buf', resp'.items, ItemsTo(script, f, h), lim)
  <2>1. SavedAs(buf, resp.items, exp, Base)
    BY <1>3, <1>8, <1>16 DEF Response, exp
  <2>2. resp.items \in Seq(Places)
    BY DEF Typed, Places
  <2>3. \A q \in 0 .. line - 1 : buf'[q] = buf[q]
    BY <1>4, <1>11
  <2>4. SavedAs(buf', resp.items, exp, lim)
    BY <1>4, <1>12, <1>13, <2>1, <2>2, <2>3, SavedStays
  <2>5. SavedAs(buf', Append(resp.items, it), Append(exp, DataOf(script, h)), lim)
    BY <1>12, <1>13, <1>14, <1>15, <2>2, <2>4, SavedMore
  <2>6. ItemsTo(script, f, h) = Append(exp, DataOf(script, h))
    <3>1. h \in f + 1 .. Len(script)
      BY <1>3, <1>13
    <3>. QED BY <1>1, <1>3, <3>1, AheadIs, ItemsGrow DEF Expected, exp
  <2>7. resp'.items = Append(resp.items, it)
    BY <1>1 DEF SaveItem, it
  <2>. QED BY <2>5, <2>6, <2>7
<1>17. Response(f)'
  <2>1. End(script, f) <= Pos' - Base'
    BY <1>1, <1>4, <1>5, <1>6, <1>9
  <2>2. h < Len(script) => SavedAs(buf', resp'.items, Expected(script, f, h, 0), lim)
    BY <1>16 DEF Expected
  <2>. QED BY <1>1, <1>2, <1>6, <1>7, <1>9, <2>1, <2>2 DEF Response, Pos, lim
<1>18. InStep(script, Len(handled'), dataLen', Pos')
  BY <1>0, <1>1, <1>3, <1>5 DEF InStep
<1>19. ASSUME pc' \in Between PROVE Within(script, Len(handled'), dataLen', taken')
  <2>1. taken' = End(script, h)
    BY <1>1, <1>3, <1>4, <1>19 DEF Between
  <2>2. ASSUME h < Len(script) PROVE End(script, h) < End(script, h + 1)
    <3>1. h \in 0 .. Len(script) /\ h + 1 \in 0 .. Len(script) /\ h < h + 1
      BY <1>3, <2>2
    <3>. QED BY <3>1, AheadIs, EndsAscend
  <2>. QED BY <1>0, <1>1, <2>1, <2>2 DEF Within
<1>20. \A i \in 1 .. Len(handled') : handled'[i] = i
  BY <1>1 DEF Synchronous
<1>21. \E g \in 0 .. Len(script) : Response(g)'
  BY <1>17
<1>. QED BY <1>2, <1>7, <1>18, <1>19, <1>20, <1>21 DEF Synchronous, Pos

\* The handler's messages are only added to, and the plan stays.
LEMMA HandledGrows ==
  ASSUME Typed, [Next]_vars
  PROVE  /\ plan' = plan
         /\ handled' = handled \/ \E m \in 0 .. Len(script) : handled' = Append(handled, m)
<1>. DEFINE Grown == handled' = handled \/ \E m \in 0 .. Len(script) : handled' = Append(handled, m)
<1>1. Handled => Grown
  BY MsgIs DEF Handled
<1>2. TakeBlob => Grown
  <2>. SUFFICES ASSUME TakeBlob PROVE Grown
    OBVIOUS
  <2>1. Blob \in 0 .. Len(script)
    BY BlobIs, AheadIs DEF TakeBlob, Between
  <2>. QED BY <2>1 DEF TakeBlob
<1>. SUFFICES plan' = plan /\ Grown
  OBVIOUS
<1>. HIDE DEF Grown
<1>3. CASE UNCHANGED vars
  BY <1>3 DEF vars, Grown
<1>4. CASE Arrive \/ WaitRxData \/ ReadBytes \/ ReadNothing \/ ReadOverflow \/ ReceiveData
  BY <1>4 DEF Arrive, WaitRxData, ReadBytes, ReadNothing, ReadOverflow, ReceiveData, Grown
<1>5. CASE NoMoreLines \/ WaitForBlob \/ RejectBlob \/ IncompleteLine \/ Deliver
  BY <1>5 DEF NoMoreLines, WaitForBlob, RejectBlob, IncompleteLine, Deliver, Unread, Grown
<1>6. CASE UnsolicitedLine \/ IntermediateLine \/ DataLine \/ FinalLine \/ UndefinedLine
  BY <1>1, <1>6 DEF UnsolicitedLine, IntermediateLine, DataLine, FinalLine, UndefinedLine, Unread
<1>7. CASE TakeBlob
  BY <1>2, <1>7 DEF TakeBlob, Unread
<1>. QED BY <1>3, <1>4, <1>5, <1>6, <1>7 DEF Next, Reader, Quiet

\* Nothing that has taken bytes along is undone.
LEMMA UndisturbedBefore ==
  ASSUME Typed, [Next]_vars, Undisturbed'
  PROVE  Undisturbed
<1>1. plan' = plan
  BY HandledGrows
<1>2. script' = script /\ BufSize' = BufSize /\ InputErrors' = InputErrors
  BY <1>1 DEF script, BufSize, InputErrors
<1>3. ResponsesFit' <=> ResponsesFit
  <2>1. \A m : Bytes(m)' = Bytes(m)
    BY <1>2 DEF Bytes
  <2>. QED BY <1>2, <2>1 DEF ResponsesFit, Bytes
<1>4. ASSUME NEW i \in 1 .. Len(handled), handled[i] # 0
      PROVE  script[handled[i]].type # "undef"
  <2>1. handled \in Seq(0 .. Len(script))
    BY DEF Typed
  <2>2. i \in 1 .. Len(handled') /\ handled'[i] = handled[i]
    <3>1. CASE handled' = handled
      BY <3>1
    <3>2. ASSUME NEW m \in 0 .. Len(script), handled' = Append(handled, m)
          PROVE  i \in 1 .. Len(handled') /\ handled'[i] = handled[i]
      BY <2>1, <3>2
    <3>. QED BY <3>1, <3>2, HandledGrows
  <2>. QED BY <1>2, <1>4, <2>2 DEF Undisturbed
<1>. QED BY <1>2, <1>3, <1>4 DEF Undisturbed

\* An undisturbed reader does not meet a line nobody expects.
LEMMA NoneUndefined ==
  ASSUME Typed, Window, Synchronous, UndefinedLine
  PROVE  ~Undisturbed'
<1>1. /\ Turn \in 1 .. Len(script) /\ script[Turn].type = "undef" /\ Msg = Turn
  BY SyncLine DEF UndefinedLine
<1>2. /\ Len(handled') = Len(handled) + 1 /\ handled'[Len(handled) + 1] = Turn
      /\ Len(handled) \in Nat
  BY <1>1 DEF UndefinedLine, Handled, Typed
<1>3. script' = script
  BY DEF UndefinedLine, Unread, script
<1>4. Len(handled) + 1 \in 1 .. Len(handled') /\ handled'[Len(handled) + 1] # 0
  BY <1>1, <1>2
<1>. QED BY <1>1, <1>2, <1>3, <1>4 DEF Undisturbed

\* The reader starts in step.
LEMMA SyncInit == ASSUME Init PROVE Synchronous
<1>1. pc = "wait" /\ pc \in Between /\ handled = <<>> /\ Len(handled) = 0 /\ dataLen = 0
      /\ taken = 0 /\ Ahead = 0 /\ Base = 0 /\ resp.items = <<>> /\ Done = 0
  BY DEF Init, Between, Ahead, Base, AtPtr, NoResp, Done
<1>2. /\ script \in Scripts /\ Len(script) \in Nat /\ End(script, 0) = 0
      /\ (0 < Len(script) => End(script, 0) < End(script, 1))
  <2>1. script \in Scripts
    BY StreamIs DEF Init
  <2>2. Len(script) \in Nat /\ End(script, 0) = 0
    BY <2>1, ScriptIs, EndStep
  <2>3. ASSUME 0 < Len(script) PROVE End(script, 0) < End(script, 1)
    <3>1. 0 \in 0 .. Len(script) /\ 1 \in 0 .. Len(script) /\ 0 < 1
      BY <2>2, <2>3
    <3>. QED BY <2>1, <3>1, EndsAscend
  <2>. QED BY <2>1, <2>2, <2>3
<1>3. InStep(script, Len(handled), dataLen, taken - Ahead)
  BY <1>1, <1>2 DEF InStep
<1>4. Within(script, Len(handled), dataLen, taken)
  BY <1>1, <1>2 DEF Within
<1>5. Response(0)
  <2>1. LastFinal(script, 0, 0)
    BY DEF LastFinal
  <2>2. SavedAs(buf, resp.items, Expected(script, 0, 0, 0), 0)
    <3>1. Expected(script, 0, 0, 0) = <<>> /\ Len(<<>>) = 0
      BY ItemsNone DEF Expected
    <3>. QED BY <1>1, <3>1 DEF SavedAs
  <2>. QED BY <1>1, <1>2, <2>1, <2>2 DEF Response
<1>6. 0 \in 0 .. Len(script)
  BY <1>2
<1>7. pc # "deliver" /\ \A i \in 1 .. Len(handled) : handled[i] = i
  BY <1>1
<1>. QED BY <1>3, <1>4, <1>5, <1>6, <1>7 DEF Synchronous

\* Every step of the reader keeps it in step while nothing disturbs it.
LEMMA SyncReader ==
  ASSUME Typed, Window, Passed, Synchronous, Reader, Undisturbed, Undisturbed'
  PROVE  Synchronous'
<1>1. ResponsesFit /\ ~RejectBlob /\ ~UndefinedLine
  BY NoneUndefined DEF Undisturbed, RejectBlob
<1>2. CASE ReceiveData
  BY <1>2, ReceiveDataAdvances, SyncDataComplete, SyncDataPartial
<1>. QED BY <1>1, <1>2, SyncWait, SyncReadBytes, SyncReadNothing, SyncReadOverflow, SyncNoMoreLines,
            SyncTakeBlob, SyncWaitForBlob, SyncIncompleteLine, SyncUnsolicitedLine,
            SyncIntermediateLine, SyncDataLine, SyncFinalLine, SyncDeliver DEF Reader

\* Every step keeps the reader in step while nothing disturbs it.
LEMMA SyncNext ==
  ASSUME SInv, [Next]_vars, Undisturbed'
  PROVE  Synchronous'
<1>1. Typed /\ Window /\ Passed /\ Undisturbed /\ Synchronous
  BY UndisturbedBefore DEF SInv
<1>2. CASE UNCHANGED vars
  <2>1. UNCHANGED <<script, Base, Ahead, Done>>
    BY <1>2 DEF vars, script, Base, Ahead, AtPtr, Done
  <2>2. PICK f \in 0 .. Len(script) : Response(f)
    BY <1>1 DEF Synchronous
  <2>3. Response(f)'
    BY <1>2, <2>1, <2>2 DEF vars, Response
  <2>4. \E g \in 0 .. Len(script) : Response(g)'
    BY <2>3
  <2>. QED BY <1>1, <1>2, <2>1, <2>4 DEF vars, Synchronous
<1>3. CASE Arrive
  BY <1>1, <1>3, SyncArrive
<1>4. CASE Reader
  BY <1>1, <1>4, SyncReader
<1>. QED BY <1>2, <1>3, <1>4 DEF Next, Quiet

-----------------------------------------------------------------------------
(* The theorems.                                                              *)

\* The inductive invariant holds in every state.
LEMMA StreamInvariant == Spec => []SInv
<1>1. Init => SInv
  BY TypedInit, StreamInit, SyncInit DEF SInv
<1>2. SInv /\ [Next]_vars => SInv'
  <2>. SUFFICES ASSUME SInv, [Next]_vars PROVE SInv'
    OBVIOUS
  <2>1. Typed' /\ Window' /\ Passed'
    BY TypedNext, StreamNext DEF SInv
  <2>2. Undisturbed' => Synchronous'
    BY SyncNext
  <2>. QED BY <2>1, <2>2 DEF SInv
<1>. HIDE DEF SInv, Next, vars, Init
<1>. QED BY <1>1, <1>2, PTL DEF Spec

\* The messages reach the packet handler in the order in which the modem sent them, none
\* twice; when the responses fit and until a line nobody expects, none is missed.
THEOREM MessagesInOrder == Spec => []HandledInOrder
<1>1. SInv => HandledInOrder
  BY DEF SInv, Passed, Ascending, Synchronous, HandledInOrder
<1>. HIDE DEF SInv, HandledInOrder, Spec
<1>. QED BY <1>1, StreamInvariant, PTL

\* The lines of the response are those after the last result code before it.
LEMMA SentItemsAre ==
  ASSUME script \in Scripts, NEW h \in 1 .. Len(script), NEW f \in 0 .. h - 1,
         LastFinal(script, f, h - 1)
  PROVE  SentItems(h) = ItemsTo(script, f, h - 1)
<1>. DEFINE First(k) == /\ k = 1 \/ script[k - 1].type = "final"
                        /\ \A j \in k .. h - 1 : script[j].type # "final"
<1>1. Len(script) \in Nat /\ h \in Nat /\ f \in Nat /\ f < h
  BY ScriptIs
<1>2. f + 1 \in 1 .. h /\ First(f + 1)
  <2>1. f + 1 \in 1 .. h /\ f + 1 - 1 = f /\ (f = 0 => f + 1 = 1)
    BY <1>1
  <2>2. (f = 0 \/ script[f].type = "final") /\ \A j \in f + 1 .. h - 1 : script[j].type # "final"
    BY DEF LastFinal
  <2>. QED BY <2>1, <2>2
<1>3. ASSUME NEW k \in 1 .. h, First(k) PROVE k = f + 1
  <2>1. CASE k < f + 1
    <3>1. f \in k .. h - 1 /\ f # 0
      BY <1>1, <2>1
    <3>. QED BY <1>3, <3>1 DEF LastFinal
  <2>2. CASE k > f + 1
    <3>1. k - 1 \in f + 1 .. h - 1 /\ k # 1
      BY <1>1, <2>2
    <3>. QED BY <1>3, <3>1 DEF LastFinal
  <2>. QED BY <1>1, <2>1, <2>2
<1>4. ResponseStart(h) = f + 1
  <2>1. ResponseStart(h) = CHOOSE k \in 1 .. h : First(k)
    BY DEF ResponseStart
  <2>. HIDE DEF First
  <2>. QED BY <1>2, <1>3, <2>1
<1>5. h - ResponseStart(h) = h - 1 - f
  BY <1>1, <1>4
<1>6. \A k \in 1 .. h - 1 - f : ItemsOf(ResponseStart(h) + k - 1) = Items(script, f + k)
  <2>1. \A m : ItemsOf(m) = Items(script, m)
    BY DEF ItemsOf, Items, LineOf, Line, BlockOf
  <2>2. \A k \in 1 .. h - 1 - f : ResponseStart(h) + k - 1 = f + k
    BY <1>1, <1>4
  <2>. QED BY <2>1, <2>2
<1>7. [k \in 1 .. h - ResponseStart(h) |-> ItemsOf(ResponseStart(h) + k - 1)]
        = [k \in 1 .. h - 1 - f |-> Items(script, f + k)]
  BY <1>5, <1>6
<1>. QED BY <1>7 DEF SentItems, ItemsTo

\* The lines and blocks of data of a response are there, byte for byte, when it goes to
\* its callback.
THEOREM ResponsesStayIntact == Spec => []ResponseIntact
<1>1. ASSUME SInv, pc = "deliver", Undisturbed
      PROVE  LET expected == SentItems(Last(handled)) IN
             /\ Len(resp.items) = Len(expected)
             /\ \A i \in 1 .. Len(expected) :
                  /\ resp.items[i].off + Len(expected[i]) <= BufSize + 1
                  /\ InBuffer(resp.items[i].off, Len(expected[i])) = expected[i]
  <2>1. Typed /\ Synchronous
    BY <1>1 DEF SInv
  <2>. DEFINE h == Len(handled)
  <2>2. /\ h \in 1 .. Len(script) /\ Done = h - 1 /\ dataLen = 0 /\ Len(script) \in Nat
        /\ Done < Len(script) /\ script \in Scripts
    BY <1>1, <2>1, SyncIs, AheadIs DEF Synchronous
  <2>3. Last(handled) = h
    BY <2>1, <2>2 DEF Synchronous, Last
  <2>4. PICK f \in 0 .. Len(script) : Response(f)
    BY <2>1 DEF Synchronous
  <2>5. LastFinal(script, f, h - 1) /\ f \in 0 .. h - 1
    BY <2>2, <2>4 DEF Response, LastFinal
  <2>6. SentItems(h) = ItemsTo(script, f, h - 1)
    BY <2>2, <2>5, SentItemsAre
  <2>. DEFINE exp == ItemsTo(script, f, h - 1)
  <2>7. SavedAs(buf, resp.items, exp, Base)
    BY <2>2, <2>4 DEF Response, Expected
  <2>8. exp \in Saved
    BY <2>2, <2>5, ItemsIs
  <2>9. resp.items \in Seq(Places) /\ Base \in Nat /\ BufSize \in Nat /\ Base <= BufSize
    <3>1. Base + Ahead <= BufSize /\ Base \in Nat /\ Ahead \in Nat /\ BufSize \in Nat
      BY <2>1, AheadIs
    <3>. QED BY <2>1, <3>1 DEF Typed, Places
  <2>. HIDE DEF exp, h
  <2>10. ASSUME NEW i \in 1 .. Len(exp)
         PROVE  /\ resp.items[i].off + Len(exp[i]) <= BufSize + 1
                /\ InBuffer(resp.items[i].off, Len(exp[i])) = exp[i]
    <3>1. /\ exp[i] \in Seq(Byte) /\ resp.items[i] \in Places
          /\ Holds(buf, resp.items[i], exp[i], Base)
      BY <2>7, <2>8, <2>9 DEF SavedAs, Saved
    <3>2. /\ resp.items[i].off \in Nat /\ Len(exp[i]) \in Nat
          /\ exp[i] = [q \in 1 .. Len(exp[i]) |-> exp[i][q]]
      BY <3>1 DEF Places
    <3>3. resp.items[i].off + Len(exp[i]) <= Base
      BY <3>1 DEF Holds
    <3>4. \A q \in 1 .. Len(exp[i]) : buf[resp.items[i].off + q - 1] = exp[i][q]
      BY <3>1 DEF Holds
    <3>5. InBuffer(resp.items[i].off, Len(exp[i])) = [q \in 1 .. Len(exp[i]) |-> exp[i][q]]
      BY <3>4 DEF InBuffer
    <3>. QED BY <2>9, <3>2, <3>3, <3>5
  <2>11. Len(resp.items) = Len(exp)
    BY <2>7 DEF SavedAs
  <2>. QED BY <2>3, <2>6, <2>10, <2>11 DEF exp
<1>2. SInv => ResponseIntact
  BY <1>1 DEF ResponseIntact
<1>. HIDE DEF SInv, ResponseIntact, Spec
<1>. QED BY <1>2, StreamInvariant, PTL
=============================================================================
