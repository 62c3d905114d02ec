-------------------------- MODULE VoucherWireProofs --------------------------
(***************************************************************************)
(* What Voucher::parse reads out of the bytes packAndSignVoucher.js wrote, *)
(* for every content of the fields.                                        *)
(***************************************************************************)
EXTENDS VoucherWire, TLAPS

-----------------------------------------------------------------------------
(* Writing bytes into an array. *)

\* Uint8Array.prototype.set keeps the length, and only the bytes of its range change.
LEMMA SetWrites ==
  ASSUME NEW B, NEW array \in Seq(B), NEW bytes \in Seq(B), NEW offset \in Nat,
         offset + Len(bytes) <= Len(array)
  PROVE  /\ Set(array, bytes, offset) \in Seq(B)
         /\ Len(Set(array, bytes, offset)) = Len(array)
         /\ \A i \in 1..Len(array) :
              Set(array, bytes, offset)[i] =
                IF i <= offset \/ i > offset + Len(bytes) THEN array[i] ELSE bytes[i - offset]
<1> DEFINE n == Len(bytes)
           m == Len(array)
           front == SubSeq(array, 1, offset)
           back == SubSeq(array, offset + n + 1, m)
<1>1. n \in Nat /\ m \in Nat /\ offset + n <= m
  OBVIOUS
<1>2. /\ front \in Seq(B) /\ Len(front) = offset
      /\ \A i \in 1..offset : front[i] = array[i]
  BY <1>1
<1>3. /\ back \in Seq(B) /\ Len(back) = m - offset - n
      /\ \A i \in 1..(m - offset - n) : back[i] = array[offset + n + i]
  BY <1>1
<1> HIDE DEF front, back
<1> DEFINE start == front \o bytes
<1>4. /\ start \in Seq(B) /\ Len(start) = offset + n
      /\ \A i \in 1..(offset + n) : start[i] = IF i <= offset THEN front[i] ELSE bytes[i - offset]
  BY <1>1, <1>2
<1> HIDE DEF start
<1> DEFINE whole == start \o back
<1>5. /\ whole \in Seq(B) /\ Len(whole) = m
      /\ \A i \in 1..m : whole[i] = IF i <= offset + n THEN start[i] ELSE back[i - (offset + n)]
  BY <1>1, <1>3, <1>4
<1>6. Set(array, bytes, offset) = whole
  BY DEF Set, whole, start, front, back
<1> HIDE DEF whole, n, m
<1>7. ASSUME NEW i \in 1..m
      PROVE  whole[i] = IF i <= offset \/ i > offset + n THEN array[i] ELSE bytes[i - offset]
  <2>1. CASE i <= offset
    BY <1>1, <1>2, <1>4, <1>5, <2>1
  <2>2. CASE i > offset /\ i <= offset + n
    BY <1>1, <1>4, <1>5, <2>2
  <2>3. CASE i > offset + n
    <3>1. i - (offset + n) \in 1..(m - offset - n)
      BY <1>1, <2>3
    <3>2. back[i - (offset + n)] = array[i]
      BY <1>1, <1>3, <3>1
    <3> QED BY <1>1, <1>5, <2>3, <3>2
  <2> QED BY <1>1, <2>1, <2>2, <2>3
<1> QED BY <1>5, <1>6, <1>7 DEF n, m

LEMMA ConcatElements ==
  ASSUME NEW B, NEW s \in Seq(B), NEW t \in Seq(B)
  PROVE  /\ s \o t \in Seq(B)
         /\ Len(s \o t) = Len(s) + Len(t)
         /\ \A i \in 1..Len(s) : (s \o t)[i] = s[i]
         /\ \A i \in 1..Len(t) : (s \o t)[Len(s) + i] = t[i]
OBVIOUS

-----------------------------------------------------------------------------
(* The texts of numbers and the fields. *)

\* padStart(8, '0'): eight digits or more, the zeros first.
LEMMA PadStartDigits ==
  ASSUME NEW text \in Seq(Nat)
  PROVE  /\ PadStart(text) \in Seq(Nat)
         /\ Len(PadStart(text)) = IF Len(text) <= 8 THEN 8 ELSE Len(text)
         /\ Len(text) <= 8 =>
              \A i \in 1..8 : PadStart(text)[i] = IF i <= 8 - Len(text) THEN 0
                                                  ELSE text[i - (8 - Len(text))]
<1> DEFINE zeros == 8 - Len(text)
           padding == [i \in 1..zeros |-> 0]
<1>1. Len(text) \in Nat
  OBVIOUS
<1>2. CASE zeros <= 0
  <2>1. PadStart(text) = text
    BY <1>2 DEF PadStart
  <2>2. Len(text) >= 8
    BY <1>1, <1>2
  <2>3. CASE Len(text) = 8
    <3>1. \A i \in 1..8 : ~ (i <= 8 - Len(text)) /\ i - (8 - Len(text)) = i
      BY <2>3
    <3> QED BY <2>1, <2>3, <3>1
  <2>4. CASE Len(text) > 8
    <3>1. ~ (Len(text) <= 8)
      BY <1>1, <2>4
    <3> QED BY <2>1, <3>1
  <2>5. Len(text) = 8 \/ Len(text) > 8
    <3>1. \A n \in Nat : n >= 8 => n = 8 \/ n > 8
      OBVIOUS
    <3> QED BY <1>1, <2>2, <3>1
  <2> QED BY <2>3, <2>4, <2>5
<1>3. CASE zeros > 0
  <2>1. /\ padding \in Seq(Nat) /\ Len(padding) = zeros
        /\ \A i \in 1..zeros : padding[i] = 0
    BY <1>1, <1>3
  <2>2. PadStart(text) = padding \o text
    BY <1>1, <1>3 DEF PadStart
  <2> HIDE DEF padding
  <2>3. /\ padding \o text \in Seq(Nat) /\ Len(padding \o text) = 8
        /\ \A i \in 1..zeros : (padding \o text)[i] = 0
        /\ \A i \in 1..Len(text) : (padding \o text)[zeros + i] = text[i]
    <3> HIDE DEF zeros
    <3>0. padding \in Seq(Nat)
      BY <2>1
    <3>1. /\ padding \o text \in Seq(Nat) /\ Len(padding \o text) = Len(padding) + Len(text)
          /\ \A i \in 1..Len(padding) : (padding \o text)[i] = padding[i]
          /\ \A i \in 1..Len(text) : (padding \o text)[Len(padding) + i] = text[i]
      BY <3>0, ConcatElements
    <3>2. zeros + Len(text) = 8
      BY <1>1 DEF zeros
    <3> QED BY <2>1, <3>1, <3>2
  <2>4. ASSUME NEW i \in 1..8
        PROVE  (padding \o text)[i] = IF i <= zeros THEN 0 ELSE text[i - zeros]
    <3>1. CASE i <= zeros
      BY <1>1, <2>3, <3>1
    <3>2. CASE i > zeros
      <4>1. i - zeros \in 1..Len(text) /\ zeros + (i - zeros) = i /\ ~ (i <= zeros)
        BY <1>1, <3>2
      <4>2. (padding \o text)[zeros + (i - zeros)] = text[i - zeros]
        BY <2>3, <4>1
      <4> HIDE DEF zeros
      <4> QED BY <4>1, <4>2
    <3>3. i <= zeros \/ i > zeros
      BY <1>1
    <3> HIDE DEF zeros
    <3> QED BY <3>1, <3>2, <3>3
  <2>5. Len(text) <= 8
    BY <1>1, <1>3
  <2> QED BY <2>2, <2>3, <2>4, <2>5
<1> QED BY <1>1, <1>2, <1>3

\* hexToU8a: two digits make a byte.
LEMMA HexToU8aBytes ==
  ASSUME NEW text \in Seq(Nat), NEW Names, "number" \in Names
  PROVE  /\ HexToU8a(text) \in Seq(Names \X Nat)
         /\ Len(HexToU8a(text)) = (Len(text) + 1) \div 2
         /\ \A i \in 1..(Len(text) \div 2) :
              HexToU8a(text)[i] = <<"number", 16 * text[2 * i - 1] + text[2 * i]>>
<1> DEFINE n == Len(text)
           k == (n + 1) \div 2
           byte(i) == <<"number", 16 * text[2 * i - 1] + (IF 2 * i <= n THEN text[2 * i] ELSE 0)>>
<1>1. n \in Nat /\ k \in Nat
  OBVIOUS
<1>2. ASSUME NEW i \in 1..k PROVE byte(i) \in Names \X Nat
  <2>1. 2 * i - 1 \in 1..n
    BY <1>1
  <2>2. text[2 * i - 1] \in Nat
    BY <2>1
  <2>3. 2 * i <= n => text[2 * i] \in Nat
    OBVIOUS
  <2>4. 16 * text[2 * i - 1] + (IF 2 * i <= n THEN text[2 * i] ELSE 0) \in Nat
    BY <2>2, <2>3
  <2> QED BY <2>4
<1>3. HexToU8a(text) = [i \in 1..k |-> byte(i)]
  BY DEF HexToU8a
<1>4. \A i \in 1..(n \div 2) : i \in 1..k /\ 2 * i <= n
  BY <1>1
<1> HIDE DEF n, k
<1>5. HexToU8a(text) \in Seq(Names \X Nat) /\ Len(HexToU8a(text)) = k
  <2> HIDE DEF byte
  <2> QED BY <1>1, <1>2, <1>3
<1>6. ASSUME NEW i \in 1..(n \div 2)
      PROVE  HexToU8a(text)[i] = <<"number", 16 * text[2 * i - 1] + text[2 * i]>>
  <2>1. HexToU8a(text)[i] = byte(i)
    BY <1>3, <1>4
  <2> QED BY <1>4, <2>1
<1> QED BY <1>5, <1>6 DEF n, k

LEMMA Bytes32Bytes ==
  ASSUME NEW Names, NEW name \in Names
  PROVE  /\ Bytes32(name) \in Seq(Names \X Nat)
         /\ Len(Bytes32(name)) = 32
         /\ \A i \in 1..32 : Bytes32(name)[i] = <<name, i>>
BY DEF Bytes32

\* The digits of the four numbers as they stand in one text.
NumberTexts(data) ==
  PadStart(data.oracleBlock) \o PadStart(data.difficulty)
    \o PadStart(data.noRedeemBeforeBlock) \o PadStart(data.valueIfPaid)

\* What payPaymentRequest.js hands over: digits for the numbers, names for the rest;
\* the numbers spill over at most the 32 bytes behind their own 16.
Data(Names) ==
  {data \in [oracleBlock : Seq(Nat), difficulty : Seq(Nat), noRedeemBeforeBlock : Seq(Nat),
             valueIfPaid : Seq(Nat), priceListCommit : Names, senderPubKey : Names,
             recipientPubKey : Names, nonce : Names] : Len(NumberTexts(data)) <= 96}

\* Texts of at most 24 digits each are no more than 96 digits together.
LEMMA ShortTextsFit ==
  ASSUME NEW data,
         data.oracleBlock \in Seq(Nat), Len(data.oracleBlock) <= 24,
         data.difficulty \in Seq(Nat), Len(data.difficulty) <= 24,
         data.noRedeemBeforeBlock \in Seq(Nat), Len(data.noRedeemBeforeBlock) <= 24,
         data.valueIfPaid \in Seq(Nat), Len(data.valueIfPaid) <= 24
  PROVE  Len(NumberTexts(data)) <= 96
<1> DEFINE a == PadStart(data.oracleBlock)
           b == PadStart(data.difficulty)
           c == PadStart(data.noRedeemBeforeBlock)
           d == PadStart(data.valueIfPaid)
<1>1. ASSUME NEW text \in Seq(Nat), Len(text) <= 24
      PROVE  PadStart(text) \in Seq(Nat) /\ Len(PadStart(text)) \in 0..24
  <2>1. PadStart(text) \in Seq(Nat) /\ Len(PadStart(text)) = IF Len(text) <= 8 THEN 8 ELSE Len(text)
    BY PadStartDigits
  <2>2. Len(PadStart(text)) \in Nat /\ Len(PadStart(text)) <= 24
    BY <1>1, <2>1
  <2>3. \A n \in Nat : n <= 24 => n \in 0..24
    BY SMT
  <2> QED BY <2>1, <2>2, <2>3
<1>2. a \in Seq(Nat) /\ b \in Seq(Nat) /\ c \in Seq(Nat) /\ d \in Seq(Nat)
  BY <1>1
<1>3. Len(a) \in 0..24 /\ Len(b) \in 0..24 /\ Len(c) \in 0..24 /\ Len(d) \in 0..24
  BY <1>1
<1> DEFINE ab == a \o b
           abc == ab \o c
           abcd == abc \o d
<1>4. NumberTexts(data) = abcd
  BY Zenon DEF NumberTexts
<1> HIDE DEF a, b, c, d
<1>5. ab \in Seq(Nat) /\ Len(ab) = Len(a) + Len(b)
  BY <1>2, ConcatElements
<1>6. ab \in Seq(Nat)
  BY <1>5
<1> HIDE DEF ab
<1>7. abc \in Seq(Nat) /\ Len(abc) = Len(ab) + Len(c)
  BY <1>2, <1>6, ConcatElements
<1>8. abc \in Seq(Nat)
  BY <1>7
<1> HIDE DEF abc
<1>9. Len(abcd) = Len(abc) + Len(d)
  BY <1>2, <1>8, ConcatElements
<1> HIDE DEF abcd
<1>10. \A j, k, l, m \in 0..24 : ((j + k) + l) + m <= 96
  BY SMT
<1>11. ((Len(a) + Len(b)) + Len(c)) + Len(d) <= 96
  BY <1>3, <1>10
<1> QED BY <1>4, <1>5, <1>7, <1>9, <1>11

LEMMA NumberTextsDigits ==
  ASSUME NEW Names, NEW data \in Data(Names)
  PROVE  /\ NumberTexts(data) \in Seq(Nat)
         /\ Len(NumberTexts(data)) \in 32..96
         /\ \A i \in 1..Len(PadStart(data.oracleBlock)) :
              NumberTexts(data)[i] = PadStart(data.oracleBlock)[i]
         /\ \A i \in 1..Len(PadStart(data.difficulty)) :
              NumberTexts(data)[Len(PadStart(data.oracleBlock)) + i]
                = PadStart(data.difficulty)[i]
         /\ \A i \in 1..Len(PadStart(data.noRedeemBeforeBlock)) :
              NumberTexts(data)[(Len(PadStart(data.oracleBlock)) + Len(PadStart(data.difficulty))) + i]
                = PadStart(data.noRedeemBeforeBlock)[i]
         /\ \A i \in 1..Len(PadStart(data.valueIfPaid)) :
              NumberTexts(data)[((Len(PadStart(data.oracleBlock)) + Len(PadStart(data.difficulty)))
                                   + Len(PadStart(data.noRedeemBeforeBlock))) + i]
                = PadStart(data.valueIfPaid)[i]
<1> DEFINE a == PadStart(data.oracleBlock)
           b == PadStart(data.difficulty)
           c == PadStart(data.noRedeemBeforeBlock)
           d == PadStart(data.valueIfPaid)
<1>0. /\ data.oracleBlock \in Seq(Nat) /\ data.difficulty \in Seq(Nat)
      /\ data.noRedeemBeforeBlock \in Seq(Nat) /\ data.valueIfPaid \in Seq(Nat)
  BY DEF Data
<1>1. a \in Seq(Nat) /\ b \in Seq(Nat) /\ c \in Seq(Nat) /\ d \in Seq(Nat)
  BY <1>0, PadStartDigits
<1>9. Len(a) >= 8 /\ Len(b) >= 8 /\ Len(c) >= 8 /\ Len(d) >= 8
  <2>1. ASSUME NEW text \in Seq(Nat) PROVE Len(PadStart(text)) >= 8
    <3>1. Len(PadStart(text)) = IF Len(text) <= 8 THEN 8 ELSE Len(text)
      BY PadStartDigits
    <3>2. Len(text) \in Nat
      OBVIOUS
    <3> QED BY <3>1, <3>2
  <2> QED BY <1>0, <2>1
<1> DEFINE ab == a \o b
           abc == ab \o c
           abcd == abc \o d
<1>2. NumberTexts(data) = abcd
  BY Zenon DEF NumberTexts
<1> HIDE DEF a, b, c, d
<1>3. /\ ab \in Seq(Nat) /\ Len(ab) = Len(a) + Len(b)
      /\ \A i \in 1..Len(a) : ab[i] = a[i]
      /\ \A i \in 1..Len(b) : ab[Len(a) + i] = b[i]
  BY <1>1, ConcatElements
<1>10. ab \in Seq(Nat)
  BY <1>3
<1> HIDE DEF ab
<1>4. /\ abc \in Seq(Nat) /\ Len(abc) = Len(ab) + Len(c)
      /\ \A i \in 1..Len(ab) : abc[i] = ab[i]
      /\ \A i \in 1..Len(c) : abc[Len(ab) + i] = c[i]
  BY <1>1, <1>10, ConcatElements
<1>11. abc \in Seq(Nat)
  BY <1>4
<1> HIDE DEF abc
<1>5. /\ abcd \in Seq(Nat) /\ Len(abcd) = Len(abc) + Len(d)
      /\ \A i \in 1..Len(abc) : abcd[i] = abc[i]
      /\ \A i \in 1..Len(d) : abcd[Len(abc) + i] = d[i]
  BY <1>1, <1>11, ConcatElements
<1> HIDE DEF abcd
<1>12. Len(a) \in Nat /\ Len(b) \in Nat /\ Len(c) \in Nat /\ Len(d) \in Nat
  BY <1>1
<1>6. Len(abcd) \in 32..96
  <2>1. Len(abcd) = ((Len(a) + Len(b)) + Len(c)) + Len(d)
    BY <1>3, <1>4, <1>5
  <2>2. Len(abcd) <= 96
    BY <1>2 DEF Data
  <2>3. ((Len(a) + Len(b)) + Len(c)) + Len(d) <= 96
    BY <2>1, <2>2
  <2>4. \A p, q, r, t \in Nat :
          p >= 8 /\ q >= 8 /\ r >= 8 /\ t >= 8 /\ ((p + q) + r) + t <= 96
            => ((p + q) + r) + t \in 32..96
    BY SMT
  <2>5. ((Len(a) + Len(b)) + Len(c)) + Len(d) \in 32..96
    BY <1>9, <1>12, <2>3, <2>4, Zenon
  <2> QED BY <2>1, <2>5, Zenon
<1>13. \A p, q, r \in Nat : \A i \in 1..p : i \in 1..(p + q) /\ i \in 1..((p + q) + r)
  BY SMT
<1>14. \A p, q, r \in Nat : \A i \in 1..q : p + i \in 1..(p + q) /\ p + i \in 1..((p + q) + r)
  BY SMT
<1>7. \A i \in 1..Len(a) : abcd[i] = a[i]
  <2>1. \A i \in 1..Len(a) : i \in 1..Len(ab) /\ i \in 1..Len(abc)
    BY <1>3, <1>4, <1>12, <1>13
  <2> QED BY <1>3, <1>4, <1>5, <2>1
<1>8. \A i \in 1..Len(b) : abcd[Len(a) + i] = b[i]
  <2>1. \A i \in 1..Len(b) : Len(a) + i \in 1..Len(ab) /\ Len(a) + i \in 1..Len(abc)
    BY <1>3, <1>4, <1>12, <1>14
  <2> QED BY <1>3, <1>4, <1>5, <2>1
<1>15. abcd \in Seq(Nat)
  BY <1>5
<1>16. \A i \in 1..Len(c) : abcd[(Len(a) + Len(b)) + i] = c[i]
  <2>1. \A i \in 1..Len(c) : (Len(a) + Len(b)) + i \in 1..((Len(a) + Len(b)) + Len(c))
    BY <1>12, SMT
  <2>2. Len(ab) = Len(a) + Len(b) /\ Len(abc) = (Len(a) + Len(b)) + Len(c)
    BY <1>3, <1>4
  <2> QED BY <1>4, <1>5, <2>1, <2>2, Zenon
<1>17. \A i \in 1..Len(d) : abcd[((Len(a) + Len(b)) + Len(c)) + i] = d[i]
  <2>1. Len(abc) = (Len(a) + Len(b)) + Len(c)
    BY <1>3, <1>4
  <2> QED BY <1>5, <2>1, Zenon
<1> QED BY <1>2, <1>6, <1>7, <1>8, <1>15, <1>16, <1>17 DEF a, b, c, d

-----------------------------------------------------------------------------
(* Packing and parsing. *)

\* The array has m bytes.
Array(m, B) == [1..m -> B]

\* Nothing but n bytes from the offset on changed in the array of m bytes.
Written(after, array, bytes, m, n, offset) ==
  \A i \in 1..m :
    after[i] = IF i <= offset \/ i > offset + n THEN array[i] ELSE bytes[i - offset]

LEMMA SetIsFunction ==
  ASSUME NEW B, NEW m \in Nat, NEW n \in Nat, NEW offset \in Nat, offset + n <= m,
         NEW array \in Array(m, B), NEW bytes \in Array(n, B)
  PROVE  /\ Set(array, bytes, offset) \in Array(m, B)
         /\ Written(Set(array, bytes, offset), array, bytes, m, n, offset)
<1>1. array \in Seq(B) /\ Len(array) = m /\ bytes \in Seq(B) /\ Len(bytes) = n
  BY DEF Array
<1> DEFINE after == Set(array, bytes, offset)
<1>2. offset + Len(bytes) <= Len(array)
  BY <1>1
<1>3. /\ after \in Seq(B) /\ Len(after) = Len(array)
      /\ \A i \in 1..Len(array) :
           after[i] = IF i <= offset \/ i > offset + Len(bytes) THEN array[i] ELSE bytes[i - offset]
  BY <1>1, <1>2, SetWrites
<1> HIDE DEF after
<1>4. after \in [1..m -> B]
  BY <1>1, <1>3
<1> QED BY <1>1, <1>3, <1>4 DEF after, Array, Written

LEMMA SliceIsFunction ==
  ASSUME NEW B, NEW m \in Nat, NEW array \in [1..m -> B],
         NEW from \in Nat, NEW to \in Nat, from <= to, to <= m
  PROVE  SubSeq(array, from + 1, to) = [i \in 1..(to - from) |-> array[from + i]]
<1> DEFINE slice == SubSeq(array, from + 1, to)
<1>1. array \in Seq(B) /\ Len(array) = m
  OBVIOUS
<1>2. /\ slice \in Seq(B) /\ Len(slice) = to - from
      /\ \A i \in 1..(to - from) : slice[i] = array[from + i]
  BY <1>1
<1>3. slice = [i \in 1..(to - from) |-> slice[i]]
  <2> HIDE DEF slice
  <2> QED BY <1>2
<1> HIDE DEF slice
<1>4. slice = [i \in 1..(to - from) |-> array[from + i]]
  BY <1>2, <1>3
<1> QED BY <1>4 DEF slice

\* A key, a hash or a commitment is written over 32 bytes of the array.
LEMMA WriteField ==
  ASSUME NEW B, NEW field \in Array(32, B), NEW offset \in 0..160, NEW array \in Array(192, B)
  PROVE  /\ Set(array, field, offset) \in Array(192, B)
         /\ Written(Set(array, field, offset), array, field, 192, 32, offset)
<1> DEFINE m == 192
           n == 32
<1>1. m \in Nat /\ n \in Nat /\ offset \in Nat /\ offset + n <= m
  OBVIOUS
<1>2. array \in Array(m, B) /\ field \in Array(n, B)
  OBVIOUS
<1> HIDE DEF m, n
<1>3. /\ Set(array, field, offset) \in Array(m, B)
      /\ Written(Set(array, field, offset), array, field, m, n, offset)
  BY <1>1, <1>2, SetIsFunction
<1> QED BY <1>3 DEF m, n

\* Each field overwrites what the one before it spilled over its bytes.
LEMMA PackBytes ==
  ASSUME NEW Names, "number" \in Names, NEW data \in Data(Names)
  PROVE  /\ Pack(data) \in Array(192, Names \X Nat)
         /\ \A i \in 1..16 : Pack(data)[i] = HexToU8a(NumberTexts(data))[i]
         /\ \A i \in 1..16 : Pack(data)[16 + i] = <<data.priceListCommit, i>>
         /\ \A i \in 1..32 : Pack(data)[32 + i] = <<data.senderPubKey, i>>
         /\ \A i \in 1..32 : Pack(data)[64 + i] = <<data.recipientPubKey, i>>
         /\ \A i \in 1..32 : Pack(data)[96 + i] = <<data.nonce, i>>
<1> DEFINE B == Names \X Nat
           numbers == HexToU8a(NumberTexts(data))
           commit == data.priceListCommit
           sender == data.senderPubKey
           recipient == data.recipientPubKey
           nonce == data.nonce
           b1 == Set(Zeros, numbers, 0)
           b2 == Set(b1, Bytes32(commit), 16)
           b3 == Set(b2, Bytes32(sender), 32)
           b4 == Set(b3, Bytes32(recipient), 64)
           b5 == Set(b4, Bytes32(nonce), 96)
<1>1. Pack(data) = b5
  BY DEF Pack, NumberTexts
<1>2. commit \in Names /\ sender \in Names /\ recipient \in Names /\ nonce \in Names
  BY DEF Data
<1> HIDE DEF commit, sender, recipient, nonce
<1>3. /\ Bytes32(commit) \in Array(32, B) /\ Bytes32(sender) \in Array(32, B)
      /\ Bytes32(recipient) \in Array(32, B) /\ Bytes32(nonce) \in Array(32, B)
  <2>1. \A name \in Names : Bytes32(name) \in Array(32, B)
    BY DEF Bytes32, Array
  <2> HIDE DEF B
  <2> QED BY <1>2, <2>1
<1> DEFINE m == 192
           n == Len(numbers)
           none == 0
<1>4. m \in Nat /\ none \in Nat /\ Zeros \in Array(m, B)
  BY DEF Zeros, Array
<1>5. n \in 16..48 /\ numbers \in Array(n, B)
  <2>1. NumberTexts(data) \in Seq(Nat) /\ Len(NumberTexts(data)) \in 32..96
    BY NumberTextsDigits
  <2>2. numbers \in Seq(Names \X Nat) /\ n = (Len(NumberTexts(data)) + 1) \div 2
    BY <2>1, HexToU8aBytes
  <2>3. \A k \in 32..96 : (k + 1) \div 2 \in 16..48
    OBVIOUS
  <2>4. n \in 16..48
    <3> HIDE DEF n
    <3> QED BY <2>1, <2>2, <2>3
  <2> HIDE DEF numbers
  <2> QED BY <2>2, <2>4 DEF Array
<1> HIDE DEF numbers, n
<1>6. n \in Nat /\ none + n <= m /\ n >= 16
  BY <1>5
<1> HIDE DEF m, none, B
<1>7. b1 \in Array(192, B) /\ Written(b1, Zeros, numbers, 192, n, 0)
  <2>1. /\ Set(Zeros, numbers, none) \in Array(m, B)
        /\ Written(Set(Zeros, numbers, none), Zeros, numbers, m, n, none)
    BY <1>4, <1>5, <1>6, SetIsFunction
  <2> QED BY <2>1 DEF m, none
<1> HIDE DEF b1
<1>8. \A i \in 1..16 : b1[i] = numbers[i]
  <2>1. ASSUME NEW i \in 1..16 PROVE b1[i] = numbers[i]
    <3>1. i \in 1..192 /\ ~ (i <= 0 \/ i > 0 + n) /\ i - 0 = i
      BY <1>6
    <3> QED BY <1>7, <3>1 DEF Written
  <2> QED BY <2>1
<1>9. b2 \in Array(192, B) /\ Written(b2, b1, Bytes32(commit), 192, 32, 16)
  BY <1>3, <1>7, WriteField
<1> HIDE DEF b2
<1>10. b3 \in Array(192, B) /\ Written(b3, b2, Bytes32(sender), 192, 32, 32)
  BY <1>3, <1>9, WriteField
<1> HIDE DEF b3
<1>11. b4 \in Array(192, B) /\ Written(b4, b3, Bytes32(recipient), 192, 32, 64)
  BY <1>3, <1>10, WriteField
<1> HIDE DEF b4
<1>12. b5 \in Array(192, B) /\ Written(b5, b4, Bytes32(nonce), 192, 32, 96)
  BY <1>3, <1>11, WriteField
<1> HIDE DEF b5
\* What is written stays, since each field begins where the next is not written yet.
<1>13. /\ \A i \in 1..96 : b5[i] = b4[i]
       /\ \A i \in 1..64 : b4[i] = b3[i]
       /\ \A i \in 1..32 : b3[i] = b2[i]
       /\ \A i \in 1..16 : b2[i] = b1[i]
  <2>1. \A i \in 1..96 : b5[i] = b4[i]
    BY <1>12 DEF Written
  <2>2. \A i \in 1..64 : b4[i] = b3[i]
    BY <1>11 DEF Written
  <2>3. \A i \in 1..32 : b3[i] = b2[i]
    BY <1>10 DEF Written
  <2>4. \A i \in 1..16 : b2[i] = b1[i]
    BY <1>9 DEF Written
  <2> QED BY <2>1, <2>2, <2>3, <2>4
<1>14. \A i \in 1..16 : b5[i] = numbers[i]
  BY <1>8, <1>13
<1>15. \A i \in 1..16 : b5[16 + i] = <<commit, i>>
  <2>1. \A i \in 1..16 : b2[16 + i] = <<commit, i>>
    BY <1>9 DEF Written, Bytes32
  <2> QED BY <1>13, <2>1
<1>16. \A i \in 1..32 : b5[32 + i] = <<sender, i>>
  <2>1. \A i \in 1..32 : b3[32 + i] = <<sender, i>>
    BY <1>10 DEF Written, Bytes32
  <2> QED BY <1>13, <2>1
<1>17. \A i \in 1..32 : b5[64 + i] = <<recipient, i>>
  <2>1. \A i \in 1..32 : b4[64 + i] = <<recipient, i>>
    BY <1>11 DEF Written, Bytes32
  <2> QED BY <1>13, <2>1
<1>18. \A i \in 1..32 : b5[96 + i] = <<nonce, i>>
  BY <1>12 DEF Written, Bytes32
<1> QED BY <1>1, <1>12, <1>14, <1>15, <1>16, <1>17, <1>18
     DEF numbers, B, commit, sender, recipient, nonce

\* The bytes of an array from one offset up to another.
Part(bytes, from, to) == [i \in 1..(to - from) |-> bytes[from + i]]

\* A field as Voucher::parse slices it out of the unsigned part.
LEMMA SliceBytes ==
  ASSUME NEW B, NEW bytes \in Array(192, B), NEW from \in 0..128, NEW to \in from..128
  PROVE  Slice(Unsigned(bytes), from, to) = Part(bytes, from, to)
<1> DEFINE u == SubSeq(bytes, 1, 128)
           m == 192
           k == 128
           none == 0
<1>1. /\ bytes \in [1..m -> B] /\ m \in Nat /\ k \in Nat /\ none \in Nat
      /\ none <= k /\ k <= m
  BY DEF Array
<1> HIDE DEF m, k, none
<1>2. SubSeq(bytes, none + 1, k) = [i \in 1..(k - none) |-> bytes[none + i]]
  BY <1>1, SliceIsFunction
<1>3. u = [i \in 1..k |-> bytes[i]]
  BY <1>2 DEF none, k
<1> HIDE DEF u
<1>4. u \in [1..k -> B]
  <2>1. \A i \in 1..k : bytes[i] \in B
    BY <1>1
  <2> QED BY <1>3, <2>1
<1>5. from \in Nat /\ to \in Nat /\ from <= to /\ to <= k
  BY DEF k
<1>6. SubSeq(u, from + 1, to) = [i \in 1..(to - from) |-> u[from + i]]
  BY <1>1, <1>4, <1>5, SliceIsFunction
<1>7. \A i \in 1..(to - from) : u[from + i] = bytes[from + i]
  BY <1>1, <1>3, <1>5
<1>8. SubSeq(u, from + 1, to) = [i \in 1..(to - from) |-> bytes[from + i]]
  BY <1>6, <1>7
<1> QED BY <1>8 DEF u, Slice, Unsigned, Part
-----------------------------------------------------------------------------
(* Numbers as digits. *)

Pow(base, e) == base^e

LEMMA PowersOf10 ==
  /\ Pow(10, 0) = 1 /\ Pow(10, 1) = 10 /\ Pow(10, 2) = 100 /\ Pow(10, 3) = 1000
  /\ Pow(10, 4) = 10000 /\ Pow(10, 5) = 100000 /\ Pow(10, 6) = 1000000 /\ Pow(10, 7) = 10000000
  /\ Pow(10, 8) = 100000000 /\ Pow(10, 9) = 1000000000 /\ Pow(10, 10) = 10000000000
<1>0. Pow(10, 0) = 1
  BY SMT DEF Pow
<1>1. Pow(10, 1) = 10
  BY SMT DEF Pow
<1>2. Pow(10, 2) = 100
  BY SMT DEF Pow
<1>3. Pow(10, 3) = 1000
  BY SMT DEF Pow
<1>4. Pow(10, 4) = 10000
  BY SMT DEF Pow
<1>5. Pow(10, 5) = 100000
  BY SMT DEF Pow
<1>6. Pow(10, 6) = 1000000
  BY SMT DEF Pow
<1>7. Pow(10, 7) = 10000000
  BY SMT DEF Pow
<1>8. Pow(10, 8) = 100000000
  BY SMT DEF Pow
<1>9. Pow(10, 9) = 1000000000
  BY SMT DEF Pow
<1>10. Pow(10, 10) = 10000000000
  BY SMT DEF Pow
<1> QED BY <1>0, <1>1, <1>2, <1>3, <1>4, <1>5, <1>6, <1>7, <1>8, <1>9, <1>10, SMT

LEMMA PowersOf16 ==
  /\ Pow(16, 0) = 1 /\ Pow(16, 1) = 16 /\ Pow(16, 2) = 256 /\ Pow(16, 3) = 4096
  /\ Pow(16, 4) = 65536 /\ Pow(16, 5) = 1048576 /\ Pow(16, 6) = 16777216 /\ Pow(16, 7) = 268435456
  /\ Pow(16, 8) = 4294967296 /\ Pow(16, 9) = 68719476736
<1>0. Pow(16, 0) = 1
  BY SMT DEF Pow
<1>1. Pow(16, 1) = 16
  BY SMT DEF Pow
<1>2. Pow(16, 2) = 256
  BY SMT DEF Pow
<1>3. Pow(16, 3) = 4096
  BY SMT DEF Pow
<1>4. Pow(16, 4) = 65536
  BY SMT DEF Pow
<1>5. Pow(16, 5) = 1048576
  BY SMT DEF Pow
<1>6. Pow(16, 6) = 16777216
  BY SMT DEF Pow
<1>7. Pow(16, 7) = 268435456
  BY SMT DEF Pow
<1>8. Pow(16, 8) = 4294967296
  BY SMT DEF Pow
<1>9. Pow(16, 9) = 68719476736
  BY SMT DEF Pow
<1> QED BY <1>0, <1>1, <1>2, <1>3, <1>4, <1>5, <1>6, <1>7, <1>8, <1>9, SMT

\* A block number.
U32 == {n \in Nat : n < Pow(16, 8)}

LEMMA ExponentCases ==
  \A e \in 0..10 : \/ e = 0 \/ e = 1 \/ e = 2 \/ e = 3 \/ e = 4 \/ e = 5 \/ e = 6
                   \/ e = 7 \/ e = 8 \/ e = 9 \/ e = 10
BY SMT

LEMMA PowersArePositive ==
  /\ \A e \in 0..10 : Pow(10, e) \in Nat \ {0}
  /\ \A e \in 0..9 : Pow(16, e) \in Nat \ {0}
<1>1. \A e \in 0..10 : Pow(10, e) \in Nat \ {0}
  BY ExponentCases, PowersOf10, SMT
<1>2. \A e \in 0..9 : Pow(16, e) \in Nat \ {0}
  BY ExponentCases, PowersOf16, SMT
<1> QED BY <1>1, <1>2, SMT

\* How many digits toString writes.
DigitCount(n, base) ==
  CHOOSE k \in 1..MaxDigits : n < base^k /\ (k = 1 \/ n >= base^(k - 1))

Fits(n, base, k) == n < Pow(base, k) /\ (k = 1 \/ n >= Pow(base, k - 1))

LEMMA DecimalCount ==
  ASSUME NEW n \in U32
  PROVE  DigitCount(n, 10) \in 1..10 /\ Fits(n, 10, DigitCount(n, 10))
<1>1. n \in Nat /\ n < Pow(10, 10)
  BY PowersOf10, PowersOf16, SMT DEF U32
<1>2. \/ n < Pow(10, 1) \/ (n >= Pow(10, 1) /\ n < Pow(10, 2))
      \/ (n >= Pow(10, 2) /\ n < Pow(10, 3)) \/ (n >= Pow(10, 3) /\ n < Pow(10, 4))
      \/ (n >= Pow(10, 4) /\ n < Pow(10, 5)) \/ (n >= Pow(10, 5) /\ n < Pow(10, 6))
      \/ (n >= Pow(10, 6) /\ n < Pow(10, 7)) \/ (n >= Pow(10, 7) /\ n < Pow(10, 8))
      \/ (n >= Pow(10, 8) /\ n < Pow(10, 9)) \/ (n >= Pow(10, 9) /\ n < Pow(10, 10))
  BY <1>1, PowersOf10, SMT
<1>3. \E k \in 1..10 : Fits(n, 10, k)
  BY <1>2, SMT DEF Fits
<1>4. DigitCount(n, 10) = CHOOSE k \in 1..10 : Fits(n, 10, k)
  BY DEF DigitCount, MaxDigits, Fits, Pow
<1> QED BY <1>3, <1>4, SMT

LEMMA HexCount ==
  ASSUME NEW n \in U32
  PROVE  DigitCount(n, 16) \in 1..8 /\ Fits(n, 16, DigitCount(n, 16))
<1>1. n \in Nat /\ n < Pow(16, 8)
  BY DEF U32
<1>2. \/ n < Pow(16, 1) \/ (n >= Pow(16, 1) /\ n < Pow(16, 2))
      \/ (n >= Pow(16, 2) /\ n < Pow(16, 3)) \/ (n >= Pow(16, 3) /\ n < Pow(16, 4))
      \/ (n >= Pow(16, 4) /\ n < Pow(16, 5)) \/ (n >= Pow(16, 5) /\ n < Pow(16, 6))
      \/ (n >= Pow(16, 6) /\ n < Pow(16, 7)) \/ (n >= Pow(16, 7) /\ n < Pow(16, 8))
  BY <1>1, PowersOf16, SMT
<1>3. \E k \in 1..10 : Fits(n, 16, k)
  BY <1>2, SMT DEF Fits
<1>4. DigitCount(n, 16) = CHOOSE k \in 1..10 : Fits(n, 16, k)
  BY DEF DigitCount, MaxDigits, Fits, Pow
<1>5. DigitCount(n, 16) \in 1..10 /\ Fits(n, 16, DigitCount(n, 16))
  BY <1>3, <1>4, SMT
<1>6. ~ Fits(n, 16, 9) /\ ~ Fits(n, 16, 10)
  BY <1>1, PowersOf16, SMT DEF Fits
<1>7. \A k \in 1..10 : k # 9 /\ k # 10 => k \in 1..8
  BY SMT
<1> QED BY <1>5, <1>6, <1>7, SMT

\* The text of a number, digit by digit.
LEMMA DigitsByPowers ==
  ASSUME NEW n \in Nat, NEW base \in Nat \ {0}, NEW len \in Nat, len = DigitCount(n, base),
         \A e \in 0..(len - 1) : Pow(base, e) \in Nat \ {0}
  PROVE  /\ Digits(n, base) \in Seq(Nat)
         /\ Len(Digits(n, base)) = len
         /\ \A i \in 1..len : Digits(n, base)[i] = (n \div Pow(base, len - i)) % base
<1> DEFINE digit(i) == (n \div Pow(base, len - i)) % base
<1>1. Digits(n, base) = [i \in 1..len |-> digit(i)]
  <2>1. Digits(n, base) = [i \in 1..DigitCount(n, base) |->
                             (n \div Pow(base, DigitCount(n, base) - i)) % base]
    BY Zenon DEF Digits, DigitCount, Pow
  <2> QED BY <2>1
<1>2. ASSUME NEW i \in 1..len PROVE digit(i) \in Nat
  <2> DEFINE power == Pow(base, len - i)
  <2>1. power \in Nat \ {0}
    BY SMT
  <2> HIDE DEF power
  <2>2. n \div power \in Nat
    BY <2>1, SMT
  <2>3. (n \div power) % base \in Nat
    BY <2>2, SMT
  <2> QED BY <2>3 DEF power
<1> HIDE DEF digit
<1>3. Digits(n, base) \in Seq(Nat) /\ Len(Digits(n, base)) = len
  BY <1>1, <1>2
<1>4. \A i \in 1..len : Digits(n, base)[i] = digit(i)
  BY <1>1
<1> QED BY <1>3, <1>4 DEF digit

\* A block number as text: its decimal digits, the first one not zero unless it is alone.
LEMMA DecimalText ==
  ASSUME NEW n \in U32, NEW len, len = DigitCount(n, 10)
  PROVE  /\ len \in 1..10 /\ Fits(n, 10, len)
         /\ Digits(n, 10) \in Seq(Nat) /\ Len(Digits(n, 10)) = len
         /\ \A i \in 1..len : Digits(n, 10)[i] = (n \div Pow(10, len - i)) % 10
<1>1. n \in Nat /\ len \in 1..10 /\ Fits(n, 10, len)
  BY DecimalCount DEF U32
<1>2. \A e \in 0..(len - 1) : Pow(10, e) \in Nat \ {0}
  BY <1>1, PowersArePositive, SMT
<1>3. 10 \in Nat \ {0} /\ len \in Nat
  BY <1>1, SMT
<1> QED BY <1>1, <1>2, <1>3, DigitsByPowers

\* A block number as text has at most ten digits.
LEMMA DecimalDigits ==
  ASSUME NEW n \in U32
  PROVE  Digits(n, 10) \in Seq(Nat) /\ Len(Digits(n, 10)) \in 1..10
BY DecimalText

\* In hexadecimal and padded to eight digits, digit i counts the multiples of 16^(8-i).
LEMMA HexDigits ==
  ASSUME NEW n \in U32
  PROVE  /\ Digits(n, 16) \in Seq(Nat)
         /\ Len(Digits(n, 16)) \in 1..8
         /\ \A i \in 1..8 : PadStart(Digits(n, 16))[i] = (n \div Pow(16, 8 - i)) % 16
<1> DEFINE len == DigitCount(n, 16)
           text == Digits(n, 16)
<1>1. n \in Nat /\ len \in 1..8 /\ n < Pow(16, len)
  BY HexCount DEF U32, Fits
<1> HIDE DEF len
<1>2. /\ text \in Seq(Nat) /\ Len(text) = len
      /\ \A i \in 1..len : text[i] = (n \div Pow(16, len - i)) % 16
  <2>1. len = DigitCount(n, 16) /\ 16 \in Nat \ {0} /\ len \in Nat
    BY <1>1, SMT DEF len
  <2>2. \A e \in 0..(len - 1) : Pow(16, e) \in Nat \ {0}
    BY <1>1, PowersArePositive, SMT
  <2> QED BY <1>1, <2>1, <2>2, DigitsByPowers
<1> HIDE DEF text
<1>3. ASSUME NEW i \in 1..8
      PROVE  PadStart(text)[i] = (n \div Pow(16, 8 - i)) % 16
  <2>1. PadStart(text)[i] = IF i <= 8 - len THEN 0 ELSE text[i - (8 - len)]
    <3>1. text \in Seq(Nat)
      BY <1>2
    <3>2. Len(text) <= 8 =>
            PadStart(text)[i] = IF i <= 8 - Len(text) THEN 0 ELSE text[i - (8 - Len(text))]
      BY <3>1, PadStartDigits
    <3> QED BY <1>1, <1>2, <3>2
  <2>2. CASE i <= 8 - len
    <3> DEFINE power == Pow(16, 8 - i)
    <3>1. power \in Nat \ {0} /\ Pow(16, len) <= power
      <4>1. \A e, f \in 0..8 : e <= f => Pow(16, e) <= Pow(16, f)
        BY PowersOf16, ExponentCases, SMT
      <4>2. 8 - i \in 0..8 /\ len \in 0..8 /\ len <= 8 - i
        BY <1>1, <2>2, SMT
      <4>3. Pow(16, 8 - i) \in Nat \ {0}
        BY <4>2, PowersArePositive, SMT
      <4> QED BY <4>1, <4>2, <4>3
    <3>2. Pow(16, len) \in Nat
      BY <1>1, PowersArePositive, SMT
    <3> HIDE DEF power
    <3>3. n < power
      BY <1>1, <3>1, <3>2, SMT
    <3>4. n \div power = 0
      BY <1>1, <3>1, <3>3, SMT
    <3>5. 0 % 16 = 0
      BY SMT
    <3> QED BY <2>1, <2>2, <3>4, <3>5 DEF power
  <2>3. CASE ~ (i <= 8 - len)
    <3>1. i - (8 - len) \in 1..len /\ len - (i - (8 - len)) = 8 - i
      BY <1>1, <2>3, SMT
    <3> QED BY <1>2, <2>1, <2>3, <3>1
  <2> QED BY <2>2, <2>3
<1> QED BY <1>1, <1>2, <1>3 DEF text
LEMMA PowersOf256 ==
  Pow(256, 0) = 1 /\ Pow(256, 1) = 256 /\ Pow(256, 2) = 65536 /\ Pow(256, 3) = 16777216
<1>1. Pow(256, 0) = 1 /\ Pow(256, 1) = 256
  BY SMT DEF Pow
<1>2. Pow(256, 2) = 65536 /\ Pow(256, 3) = 16777216
  BY SMT DEF Pow
<1> QED BY <1>1, <1>2, SMT

\* Two hexadecimal digits are one byte.
LEMMA TwoDigits == \A m \in Nat : 16 * ((m \div 16) % 16) + (m % 16) = m % 256
<1> SUFFICES ASSUME NEW m \in Nat PROVE 16 * ((m \div 16) % 16) + (m % 16) = m % 256
  OBVIOUS
<1> DEFINE q == m \div 256
           r == m % 256
           a == r \div 16
           b == r % 16
<1>1. q \in Nat /\ r \in 0..255 /\ m = 256 * q + r
  BY SMT
<1>2. a \in 0..15 /\ b \in 0..15 /\ r = 16 * a + b
  BY <1>1, SMT
<1> HIDE DEF q, r, a, b
<1>3. m = 16 * (16 * q + a) + b
  BY <1>1, <1>2, SMT
<1>4. m \div 16 = 16 * q + a /\ m % 16 = b
  BY <1>1, <1>2, <1>3, SMT
<1>5. (16 * q + a) % 16 = a
  BY <1>1, <1>2, SMT
<1>6. (m \div 16) % 16 = a
  BY <1>4, <1>5
<1> QED BY <1>2, <1>4, <1>6 DEF r

\* Byte e of a number, counted from the lowest.
Byte(n, e) == <<"number", (n \div Pow(256, e)) % 256>>

LEMMA BytesInOrder ==
  ASSUME NEW n
  PROVE  /\ Number(n)[1] = Byte(n, 3) /\ Number(n)[2] = Byte(n, 2)
         /\ Number(n)[3] = Byte(n, 1) /\ Number(n)[4] = Byte(n, 0)
         /\ Swapped(n)[4] = Byte(n, 3)
<1>1. /\ \A j \in 1..4 : Number(n)[j] = Byte(n, 4 - j)
      /\ \A j \in 1..4 : Swapped(n)[j] = Byte(n, j - 1)
  BY DEF Number, Swapped, Pow, Byte
<1>2. /\ 4 - 1 = 3 /\ 4 - 2 = 2 /\ 4 - 3 = 1 /\ 4 - 4 = 0
      /\ 1 \in 1..4 /\ 2 \in 1..4 /\ 3 \in 1..4 /\ 4 \in 1..4
  BY SMT
<1> QED BY <1>1, <1>2, Zenon

\* The bytes of eight hexadecimal digits are the number with its high byte first.
LEMMA EightDigits ==
  ASSUME NEW n \in Nat, NEW text,
         \A i \in 1..8 : text[i] = (n \div Pow(16, 8 - i)) % 16
  PROVE  \A j \in 1..4 : <<"number", 16 * text[2 * j - 1] + text[2 * j]>> = Number(n)[j]
<1>1. /\ text[1] = (n \div 268435456) % 16 /\ text[2] = (n \div 16777216) % 16
      /\ text[3] = (n \div 1048576) % 16 /\ text[4] = (n \div 65536) % 16
      /\ text[5] = (n \div 4096) % 16 /\ text[6] = (n \div 256) % 16
      /\ text[7] = (n \div 16) % 16 /\ text[8] = (n \div 1) % 16
  <2>1. /\ 8 - 1 = 7 /\ 8 - 2 = 6 /\ 8 - 3 = 5 /\ 8 - 4 = 4
        /\ 8 - 5 = 3 /\ 8 - 6 = 2 /\ 8 - 7 = 1 /\ 8 - 8 = 0
    BY SMT
  <2>2. \A k \in {1, 2, 3, 4, 5, 6, 7, 8} : text[k] = (n \div Pow(16, 8 - k)) % 16
    BY SMT
  <2> QED BY <2>1, <2>2, PowersOf16, SMT
<1>2. /\ n \div 268435456 = (n \div 16777216) \div 16 /\ n \div 1048576 = (n \div 65536) \div 16
      /\ n \div 4096 = (n \div 256) \div 16 /\ n \div 16 = (n \div 1) \div 16
  BY SMT
<1>3. /\ n \div 16777216 \in Nat /\ n \div 65536 \in Nat /\ n \div 256 \in Nat /\ n \div 1 \in Nat
  BY SMT
<1>4. /\ 16 * text[1] + text[2] = (n \div 16777216) % 256
      /\ 16 * text[3] + text[4] = (n \div 65536) % 256
      /\ 16 * text[5] + text[6] = (n \div 256) % 256
      /\ 16 * text[7] + text[8] = (n \div 1) % 256
  BY <1>1, <1>2, <1>3, TwoDigits, SMT
<1>5. /\ Number(n)[1] = Byte(n, 3) /\ Number(n)[2] = Byte(n, 2)
      /\ Number(n)[3] = Byte(n, 1) /\ Number(n)[4] = Byte(n, 0)
  BY BytesInOrder, Zenon
<1>6. /\ Number(n)[1] = <<"number", (n \div 16777216) % 256>>
      /\ Number(n)[2] = <<"number", (n \div 65536) % 256>>
      /\ Number(n)[3] = <<"number", (n \div 256) % 256>>
      /\ Number(n)[4] = <<"number", (n \div 1) % 256>>
  BY <1>5, PowersOf256, SMT DEF Byte
<1>7. \A j \in 1..4 : j = 1 \/ j = 2 \/ j = 3 \/ j = 4
  BY SMT
<1>8. /\ 2 * 1 - 1 = 1 /\ 2 * 1 = 2 /\ 2 * 2 - 1 = 3 /\ 2 * 2 = 4
      /\ 2 * 3 - 1 = 5 /\ 2 * 3 = 6 /\ 2 * 4 - 1 = 7 /\ 2 * 4 = 8
  BY SMT
<1> QED BY <1>4, <1>6, <1>7, <1>8, SMT

-----------------------------------------------------------------------------
(* What the pallet reads. *)

\* The fields of a voucher as bytes, before the pallet decodes its numbers.
RawFields(v) ==
  [oracle_block           |-> Slice(v.unsigned, 0, 4),
   difficulty             |-> Slice(v.unsigned, 4, 8),
   no_redeem_before_block |-> Slice(v.unsigned, 8, 12),
   value_if_paid          |-> Slice(v.unsigned, 12, 16),
   price_list_commit      |-> Slice(v.unsigned, 16, 32),
   sender_pk              |-> Slice(v.unsigned, 32, 64),
   recipient_pk           |-> Slice(v.unsigned, 64, 96),
   nonce                  |-> Slice(v.unsigned, 96, 128)]

\* The numbers of p are those of raw, decoded; the keys and the nonce are the same bytes.
Decoded(p, raw) ==
  /\ p.oracle_block = FromLeBytes(raw.oracle_block)
  /\ p.difficulty = FromLeBytes(raw.difficulty)
  /\ p.no_redeem_before_block = FromLeBytes(raw.no_redeem_before_block)
  /\ p.value_if_paid = FromLeBytes(raw.value_if_paid)
  /\ p.price_list_commit = FromLeBytes(raw.price_list_commit)
  /\ p.sender_pk = raw.sender_pk /\ p.recipient_pk = raw.recipient_pk /\ p.nonce = raw.nonce

LEMMA ParseDecodes == ASSUME NEW v PROVE Decoded(Parse(v), RawFields(v))
BY Zenon DEF Decoded, Parse, RawFields

\* The bytes of a number decode to the number with its bytes in the other order, and back.
LEMMA NumbersDecode ==
  ASSUME NEW n
  PROVE  FromLeBytes(Number(n)) = Swapped(n) /\ FromLeBytes(Swapped(n)) = Number(n)
<1> DEFINE digit(e) == <<"number", (n \div 256^e) % 256>>
<1>1. Len(Number(n)) = 4 /\ Len(Swapped(n)) = 4
  BY DEF Number, Swapped
<1>2. Number(n) = [i \in 1..4 |-> digit(4 - i)] /\ Swapped(n) = [i \in 1..4 |-> digit(i - 1)]
  BY Zenon DEF Number, Swapped
<1> HIDE DEF digit
<1>3. ASSUME NEW i \in 1..4
      PROVE  Number(n)[4 + 1 - i] = Swapped(n)[i] /\ Swapped(n)[4 + 1 - i] = Number(n)[i]
  <2>1. 4 + 1 - i \in 1..4 /\ 4 - (4 + 1 - i) = i - 1 /\ (4 + 1 - i) - 1 = 4 - i
    BY SMT
  <2> QED BY <1>2, <2>1, Zenon
<1>4. /\ FromLeBytes(Number(n)) = [i \in 1..4 |-> Number(n)[4 + 1 - i]]
      /\ FromLeBytes(Swapped(n)) = [i \in 1..4 |-> Swapped(n)[4 + 1 - i]]
  BY <1>1, Zenon DEF FromLeBytes
<1>5. Number(n) = [i \in 1..4 |-> Number(n)[i]] /\ Swapped(n) = [i \in 1..4 |-> Swapped(n)[i]]
  BY Zenon DEF Number, Swapped
<1> QED BY <1>3, <1>4, <1>5, Zenon

\* The numbers of the fields are the bytes of the texts.
NumbersAreBytes(p, bytes) ==
  /\ p.oracle_block = [i \in 1..4 |-> bytes[i]]
  /\ p.difficulty = [i \in 1..4 |-> bytes[4 + i]]
  /\ p.no_redeem_before_block = [i \in 1..4 |-> bytes[8 + i]]
  /\ p.value_if_paid = [i \in 1..4 |-> bytes[12 + i]]

\* The hashes and the keys of the fields are the ones the voucher was made of.
NamesAreOwn(p, data) ==
  /\ p.price_list_commit = [i \in 1..16 |-> <<data.priceListCommit, i>>]
  /\ p.sender_pk = Bytes32(data.senderPubKey)
  /\ p.recipient_pk = Bytes32(data.recipientPubKey)
  /\ p.nonce = Bytes32(data.nonce)

LEMMA WrittenBytes ==
  ASSUME NEW Names, "number" \in Names, NEW data \in Data(Names), NEW signer
  PROVE  /\ NumbersAreBytes(RawFields(PackAndSign(data, signer)), HexToU8a(NumberTexts(data)))
         /\ NamesAreOwn(RawFields(PackAndSign(data, signer)), data)
<1> DEFINE bytes == Pack(data)
           p == RawFields(PackAndSign(data, signer))
<1>1. /\ bytes \in Array(192, Names \X Nat)
      /\ \A i \in 1..16 : bytes[i] = HexToU8a(NumberTexts(data))[i]
      /\ \A i \in 1..16 : bytes[16 + i] = <<data.priceListCommit, i>>
      /\ \A i \in 1..32 : bytes[32 + i] = <<data.senderPubKey, i>>
      /\ \A i \in 1..32 : bytes[64 + i] = <<data.recipientPubKey, i>>
      /\ \A i \in 1..32 : bytes[96 + i] = <<data.nonce, i>>
  BY PackBytes
<1>2. /\ p.oracle_block = Part(bytes, 0, 4) /\ p.difficulty = Part(bytes, 4, 8)
      /\ p.no_redeem_before_block = Part(bytes, 8, 12) /\ p.value_if_paid = Part(bytes, 12, 16)
      /\ p.price_list_commit = Part(bytes, 16, 32) /\ p.sender_pk = Part(bytes, 32, 64)
      /\ p.recipient_pk = Part(bytes, 64, 96) /\ p.nonce = Part(bytes, 96, 128)
  <2> DEFINE u == Unsigned(bytes)
  <2>1. /\ p.oracle_block = Slice(u, 0, 4) /\ p.difficulty = Slice(u, 4, 8)
        /\ p.no_redeem_before_block = Slice(u, 8, 12) /\ p.value_if_paid = Slice(u, 12, 16)
        /\ p.price_list_commit = Slice(u, 16, 32) /\ p.sender_pk = Slice(u, 32, 64)
        /\ p.recipient_pk = Slice(u, 64, 96) /\ p.nonce = Slice(u, 96, 128)
    BY SMT DEF RawFields, PackAndSign
  <2>2. \A from \in 0..128 : \A to \in from..128 : Slice(u, from, to) = Part(bytes, from, to)
    <3> HIDE DEF bytes
    <3> QED BY <1>1, SliceBytes
  <2> HIDE DEF u, bytes, p
  <2>3. /\ Slice(u, 0, 4) = Part(bytes, 0, 4) /\ Slice(u, 4, 8) = Part(bytes, 4, 8)
        /\ Slice(u, 8, 12) = Part(bytes, 8, 12) /\ Slice(u, 12, 16) = Part(bytes, 12, 16)
    BY <2>2, SMT
  <2>4. /\ Slice(u, 16, 32) = Part(bytes, 16, 32) /\ Slice(u, 32, 64) = Part(bytes, 32, 64)
        /\ Slice(u, 64, 96) = Part(bytes, 64, 96) /\ Slice(u, 96, 128) = Part(bytes, 96, 128)
    BY <2>2, SMT
  <2> QED BY <2>1, <2>3, <2>4
<1> HIDE DEF bytes, p
<1>3. ASSUME NEW k \in {0, 4, 8, 12}
      PROVE  Part(bytes, k, k + 4) = [i \in 1..4 |-> HexToU8a(NumberTexts(data))[k + i]]
  <2>1. \A i \in 1..4 : k + i \in 1..16
    BY SMT
  <2>2. \A i \in 1..4 : bytes[k + i] = HexToU8a(NumberTexts(data))[k + i]
    BY <1>1, <2>1
  <2>3. (k + 4) - k = 4
    BY SMT
  <2>4. Part(bytes, k, k + 4) = [i \in 1..4 |-> bytes[k + i]]
    BY <2>3 DEF Part
  <2> QED BY <2>2, <2>4
<1>8. /\ Part(bytes, 0, 4) = [i \in 1..4 |-> HexToU8a(NumberTexts(data))[i]]
      /\ Part(bytes, 4, 8) = [i \in 1..4 |-> HexToU8a(NumberTexts(data))[4 + i]]
      /\ Part(bytes, 8, 12) = [i \in 1..4 |-> HexToU8a(NumberTexts(data))[8 + i]]
      /\ Part(bytes, 12, 16) = [i \in 1..4 |-> HexToU8a(NumberTexts(data))[12 + i]]
  <2>1. 0 + 4 = 4 /\ 4 + 4 = 8 /\ 8 + 4 = 12 /\ 12 + 4 = 16
    BY SMT
  <2>2. \A i \in 1..4 : 0 + i = i
    BY SMT
  <2>3. Part(bytes, 0, 4) = [i \in 1..4 |-> HexToU8a(NumberTexts(data))[0 + i]]
    BY <1>3, <2>1
  <2>4. Part(bytes, 0, 4) = [i \in 1..4 |-> HexToU8a(NumberTexts(data))[i]]
    BY <2>2, <2>3
  <2>5. Part(bytes, 4, 8) = [i \in 1..4 |-> HexToU8a(NumberTexts(data))[4 + i]]
    BY <1>3, <2>1
  <2>6. Part(bytes, 8, 12) = [i \in 1..4 |-> HexToU8a(NumberTexts(data))[8 + i]]
    BY <1>3, <2>1
  <2>7. Part(bytes, 12, 16) = [i \in 1..4 |-> HexToU8a(NumberTexts(data))[12 + i]]
    BY <1>3, <2>1
  <2> QED BY <2>4, <2>5, <2>6, <2>7
<1>4. Part(bytes, 16, 32) = [i \in 1..16 |-> <<data.priceListCommit, i>>]
  <2>1. \A i \in 1..16 : bytes[16 + i] = <<data.priceListCommit, i>>
    BY <1>1
  <2>2. 32 - 16 = 16
    BY SMT
  <2>3. Part(bytes, 16, 32) = [i \in 1..16 |-> bytes[16 + i]]
    BY <2>2 DEF Part
  <2> QED BY <2>1, <2>3
<1>5. Part(bytes, 32, 64) = Bytes32(data.senderPubKey)
  <2>1. \A i \in 1..32 : bytes[32 + i] = <<data.senderPubKey, i>>
    BY <1>1
  <2>2. 64 - 32 = 32
    BY SMT
  <2>3. Part(bytes, 32, 64) = [i \in 1..32 |-> bytes[32 + i]]
    BY <2>2 DEF Part
  <2> QED BY <2>1, <2>3 DEF Bytes32
<1>6. Part(bytes, 64, 96) = Bytes32(data.recipientPubKey)
  <2>1. \A i \in 1..32 : bytes[64 + i] = <<data.recipientPubKey, i>>
    BY <1>1
  <2>2. 96 - 64 = 32
    BY SMT
  <2>3. Part(bytes, 64, 96) = [i \in 1..32 |-> bytes[64 + i]]
    BY <2>2 DEF Part
  <2> QED BY <2>1, <2>3 DEF Bytes32
<1>7. Part(bytes, 96, 128) = Bytes32(data.nonce)
  <2>1. \A i \in 1..32 : bytes[96 + i] = <<data.nonce, i>>
    BY <1>1
  <2>2. 128 - 96 = 32
    BY SMT
  <2>3. Part(bytes, 96, 128) = [i \in 1..32 |-> bytes[96 + i]]
    BY <2>2 DEF Part
  <2> QED BY <2>1, <2>3 DEF Bytes32
<1>9. NumbersAreBytes(p, HexToU8a(NumberTexts(data)))
  BY <1>2, <1>8, Zenon DEF NumbersAreBytes
<1>10. NamesAreOwn(p, data)
  BY <1>2, <1>4, <1>5, <1>6, <1>7, Zenon DEF NamesAreOwn
<1> QED BY <1>9, <1>10 DEF p

\* Four bytes, made of the first eight digits of a text.
FourBytes(text) == [j \in 1..4 |-> <<"number", 16 * text[2 * j - 1] + text[2 * j]>>]

\* Turning four bytes round twice leaves them as they were.
LEMMA FourBytesTwice ==
  ASSUME NEW text
  PROVE  FromLeBytes(FromLeBytes(FourBytes(text))) = FourBytes(text)
<1> DEFINE b == FourBytes(text)
           c == FromLeBytes(b)
<1>1. b = [i \in 1..4 |-> b[i]] /\ Len(b) = 4
  BY DEF FourBytes
<1> HIDE DEF b
<1>2. c = [i \in 1..4 |-> b[4 + 1 - i]]
  BY <1>1, Zenon DEF FromLeBytes
<1> HIDE DEF c
<1>3. Len(c) = 4
  BY <1>2
<1>4. FromLeBytes(c) = [i \in 1..4 |-> c[4 + 1 - i]]
  BY <1>3, Zenon DEF FromLeBytes
<1>5. ASSUME NEW i \in 1..4 PROVE c[4 + 1 - i] = b[i]
  <2>1. 4 + 1 - i \in 1..4 /\ 4 + 1 - (4 + 1 - i) = i
    BY SMT
  <2> QED BY <1>2, <2>1, Zenon
<1>6. [i \in 1..4 |-> c[4 + 1 - i]] = [i \in 1..4 |-> b[i]]
  BY <1>5, Zenon
<1> QED BY <1>1, <1>4, <1>6 DEF c, b

LEMMA EightDigitsFit ==
  \A k \in {0, 4, 8, 12} : \A j \in 1..4 :
    /\ \A n \in 32..96 : k + j \in 1..(n \div 2)
    /\ 2 * (k + j) - 1 = 2 * k + (2 * j - 1) /\ 2 * (k + j) = 2 * k + 2 * j
    /\ 2 * j - 1 \in 1..8 /\ 2 * j \in 1..8
<1> SUFFICES ASSUME NEW k \in {0, 4, 8, 12}, NEW j \in 1..4
             PROVE  /\ \A n \in 32..96 : k + j \in 1..(n \div 2)
                    /\ 2 * (k + j) - 1 = 2 * k + (2 * j - 1) /\ 2 * (k + j) = 2 * k + 2 * j
                    /\ 2 * j - 1 \in 1..8 /\ 2 * j \in 1..8
  OBVIOUS
<1>1. k + j \in 1..16 /\ k \in Nat /\ j \in Nat
  BY SMT
<1>2. \A n \in 32..96 : \A i \in 1..16 : i \in 1..(n \div 2)
  BY SMT
<1>3. \A n \in 32..96 : k + j \in 1..(n \div 2)
  BY <1>1, <1>2
<1>4. 2 * (k + j) - 1 = 2 * k + (2 * j - 1) /\ 2 * (k + j) = 2 * k + 2 * j
  BY <1>1, SMT
<1>5. 2 * j - 1 \in 1..8 /\ 2 * j \in 1..8
  BY SMT
<1> QED BY <1>3, <1>4, <1>5

\* Eight digits that follow k bytes of the texts are the next four bytes.
LEMMA TextBytes ==
  ASSUME NEW texts \in Seq(Nat), Len(texts) \in 32..96, NEW k \in {0, 4, 8, 12}, NEW text,
         \A i \in 1..8 : texts[2 * k + i] = text[i]
  PROVE  [j \in 1..4 |-> HexToU8a(texts)[k + j]] = FourBytes(text)
<1>1. \A i \in 1..(Len(texts) \div 2) :
        HexToU8a(texts)[i] = <<"number", 16 * texts[2 * i - 1] + texts[2 * i]>>
  <2>1. "number" \in {"number"}
    OBVIOUS
  <2> QED BY <2>1, HexToU8aBytes
<1>2. \A j \in 1..4 : k + j \in 1..(Len(texts) \div 2)
  BY EightDigitsFit, Zenon
<1>3. \A j \in 1..4 : /\ 2 * (k + j) - 1 = 2 * k + (2 * j - 1) /\ 2 * (k + j) = 2 * k + 2 * j
                      /\ 2 * j - 1 \in 1..8 /\ 2 * j \in 1..8
  BY EightDigitsFit, Zenon
<1>4. ASSUME NEW j \in 1..4
      PROVE  HexToU8a(texts)[k + j] = <<"number", 16 * text[2 * j - 1] + text[2 * j]>>
  <2>1. k + j \in 1..(Len(texts) \div 2)
    BY <1>2
  <2>2. HexToU8a(texts)[k + j]
          = <<"number", 16 * texts[2 * (k + j) - 1] + texts[2 * (k + j)]>>
    BY <1>1, <2>1, Zenon
  <2>3. texts[2 * (k + j) - 1] = text[2 * j - 1] /\ texts[2 * (k + j)] = text[2 * j]
    BY <1>3, Zenon
  <2> QED BY <2>2, <2>3, Zenon
<1> QED BY <1>4, Zenon DEF FourBytes

\* Up to the first number with more than eight digits, each number has the bytes of its own text.
NumbersAreOwn(p, data) ==
  /\ p.oracle_block = FourBytes(PadStart(data.oracleBlock))
  /\ Len(data.oracleBlock) <= 8 => p.difficulty = FourBytes(PadStart(data.difficulty))
  /\ Len(data.oracleBlock) <= 8 /\ Len(data.difficulty) <= 8
       => p.no_redeem_before_block = FourBytes(PadStart(data.noRedeemBeforeBlock))
  /\ Len(data.oracleBlock) <= 8 /\ Len(data.difficulty) <= 8 /\ Len(data.noRedeemBeforeBlock) <= 8
       => p.value_if_paid = FourBytes(PadStart(data.valueIfPaid))

LEMMA NumbersInPlace ==
  ASSUME NEW Names, "number" \in Names, NEW data \in Data(Names), NEW p,
         NumbersAreBytes(p, HexToU8a(NumberTexts(data)))
  PROVE  NumbersAreOwn(p, data)
<1> DEFINE texts == NumberTexts(data)
           a == PadStart(data.oracleBlock)
           b == PadStart(data.difficulty)
           c == PadStart(data.noRedeemBeforeBlock)
           d == PadStart(data.valueIfPaid)
<1>1. /\ p.oracle_block = [i \in 1..4 |-> HexToU8a(texts)[i]]
      /\ p.difficulty = [i \in 1..4 |-> HexToU8a(texts)[4 + i]]
      /\ p.no_redeem_before_block = [i \in 1..4 |-> HexToU8a(texts)[8 + i]]
      /\ p.value_if_paid = [i \in 1..4 |-> HexToU8a(texts)[12 + i]]
  BY Zenon DEF NumbersAreBytes
<1>2. /\ data.oracleBlock \in Seq(Nat) /\ data.difficulty \in Seq(Nat)
      /\ data.noRedeemBeforeBlock \in Seq(Nat) /\ data.valueIfPaid \in Seq(Nat)
  BY DEF Data
<1>3. /\ texts \in Seq(Nat) /\ Len(texts) \in 32..96
      /\ \A i \in 1..Len(a) : texts[i] = a[i]
      /\ \A i \in 1..Len(b) : texts[Len(a) + i] = b[i]
      /\ \A i \in 1..Len(c) : texts[(Len(a) + Len(b)) + i] = c[i]
      /\ \A i \in 1..Len(d) : texts[((Len(a) + Len(b)) + Len(c)) + i] = d[i]
  BY NumberTextsDigits
<1>4. ASSUME NEW text \in Seq(Nat)
      PROVE  /\ \A i \in 1..8 : i \in 1..Len(PadStart(text))
             /\ Len(text) <= 8 => Len(PadStart(text)) = 8
  <2>1. Len(PadStart(text)) = IF Len(text) <= 8 THEN 8 ELSE Len(text)
    BY PadStartDigits
  <2>2. Len(text) \in Nat
    OBVIOUS
  <2>3. \A n \in Nat : \A i \in 1..8 : i \in 1..(IF n <= 8 THEN 8 ELSE n)
    BY SMT
  <2> QED BY <2>1, <2>2, <2>3
<1>5. /\ \A i \in 1..8 : i \in 1..Len(a) /\ i \in 1..Len(b) /\ i \in 1..Len(c) /\ i \in 1..Len(d)
      /\ Len(data.oracleBlock) <= 8 => Len(a) = 8
      /\ Len(data.difficulty) <= 8 => Len(b) = 8
      /\ Len(data.noRedeemBeforeBlock) <= 8 => Len(c) = 8
  BY <1>2, <1>4
<1>6. /\ \A i \in 1..8 : 2 * 0 + i = i /\ 0 + i = i
      /\ 2 * 4 = 8 /\ 2 * 8 = 8 + 8 /\ 2 * 12 = (8 + 8) + 8
  BY SMT
<1> HIDE DEF texts, a, b, c, d
<1>7. p.oracle_block = FourBytes(a)
  <2>5. \A i \in 1..8 : texts[i] = a[i]
    BY <1>3, <1>5, Zenon
  <2>1. \A i \in 1..8 : texts[2 * 0 + i] = a[i]
    BY <1>6, <2>5
  <2>2. [j \in 1..4 |-> HexToU8a(texts)[0 + j]] = FourBytes(a)
    BY <1>3, <2>1, TextBytes
  <2>3. \A j \in 1..4 : 0 + j = j
    BY SMT
  <2>4. [j \in 1..4 |-> HexToU8a(texts)[0 + j]] = [j \in 1..4 |-> HexToU8a(texts)[j]]
    BY <2>3, Zenon
  <2> QED BY <1>1, <2>2, <2>4
<1>8. ASSUME Len(data.oracleBlock) <= 8 PROVE p.difficulty = FourBytes(b)
  <2>3. Len(a) = 8
    BY <1>5, <1>8
  <2>4. \A i \in 1..Len(b) : texts[8 + i] = b[i]
    BY <1>3, <2>3, Zenon
  <2>5. \A i \in 1..8 : texts[8 + i] = b[i]
    BY <1>5, <2>4, Zenon
  <2>1. \A i \in 1..8 : texts[2 * 4 + i] = b[i]
    BY <1>6, <2>5
  <2>2. [j \in 1..4 |-> HexToU8a(texts)[4 + j]] = FourBytes(b)
    BY <1>3, <2>1, TextBytes
  <2> QED BY <1>1, <2>2
<1>9. ASSUME Len(data.oracleBlock) <= 8, Len(data.difficulty) <= 8
      PROVE  p.no_redeem_before_block = FourBytes(c)
  <2>3. Len(a) + Len(b) = 8 + 8
    BY <1>5, <1>9
  <2>4. \A i \in 1..Len(c) : texts[(8 + 8) + i] = c[i]
    BY <1>3, <2>3, Zenon
  <2>5. \A i \in 1..8 : texts[(8 + 8) + i] = c[i]
    BY <1>5, <2>4, Zenon
  <2>1. \A i \in 1..8 : texts[2 * 8 + i] = c[i]
    BY <1>6, <2>5
  <2>2. [j \in 1..4 |-> HexToU8a(texts)[8 + j]] = FourBytes(c)
    BY <1>3, <2>1, TextBytes
  <2> QED BY <1>1, <2>2
<1>10. ASSUME Len(data.oracleBlock) <= 8, Len(data.difficulty) <= 8,
              Len(data.noRedeemBeforeBlock) <= 8
       PROVE  p.value_if_paid = FourBytes(d)
  <2>3. (Len(a) + Len(b)) + Len(c) = (8 + 8) + 8
    BY <1>5, <1>10
  <2>4. \A i \in 1..Len(d) : texts[((8 + 8) + 8) + i] = d[i]
    BY <1>3, <2>3, Zenon
  <2>5. \A i \in 1..8 : texts[((8 + 8) + 8) + i] = d[i]
    BY <1>5, <2>4, Zenon
  <2>1. \A i \in 1..8 : texts[2 * 12 + i] = d[i]
    BY <1>6, <2>5
  <2>2. [j \in 1..4 |-> HexToU8a(texts)[12 + j]] = FourBytes(d)
    BY <1>3, <2>1, TextBytes
  <2> QED BY <1>1, <2>2
<1>11. Len(data.oracleBlock) <= 8 => p.difficulty = FourBytes(b)
  BY <1>8
<1>12. Len(data.oracleBlock) <= 8 /\ Len(data.difficulty) <= 8
         => p.no_redeem_before_block = FourBytes(c)
  BY <1>9
<1>13. Len(data.oracleBlock) <= 8 /\ Len(data.difficulty) <= 8 /\ Len(data.noRedeemBeforeBlock) <= 8
         => p.value_if_paid = FourBytes(d)
  BY <1>10
<1> QED BY <1>7, <1>11, <1>12, <1>13, Zenon DEF NumbersAreOwn, a, b, c, d

\* The text, of at most eight digits, is the number n in hexadecimal.
Eight(text, n) ==
  Len(text) <= 8 /\ \A i \in 1..8 : PadStart(text)[i] = (n \div Pow(16, 8 - i)) % 16

LEMMA EightReadsBack ==
  ASSUME NEW n \in Nat, NEW text, Eight(text, n)
  PROVE  FourBytes(PadStart(text)) = Number(n)
<1>1. \A j \in 1..4 : <<"number", 16 * PadStart(text)[2 * j - 1] + PadStart(text)[2 * j]>>
                        = Number(n)[j]
  <2> DEFINE a == PadStart(text)
  <2>1. \A i \in 1..8 : a[i] = (n \div Pow(16, 8 - i)) % 16
    BY DEF Eight
  <2> HIDE DEF a
  <2>2. \A j \in 1..4 : <<"number", 16 * a[2 * j - 1] + a[2 * j]>> = Number(n)[j]
    BY <2>1, EightDigits
  <2> QED BY <2>2 DEF a
<1>2. Number(n) = [j \in 1..4 |-> Number(n)[j]]
  BY Zenon DEF Number
<1> QED BY <1>1, <1>2, Zenon DEF FourBytes

\* The bytes of such a text decode to the number with its bytes in the other order.
LEMMA EightDecodes ==
  ASSUME NEW n \in Nat, NEW text, Eight(text, n)
  PROVE  FromLeBytes(FourBytes(PadStart(text))) = Swapped(n)
BY EightReadsBack, NumbersDecode, Zenon

\* Whatever the numbers are, and although they may take up to 32 bytes more than
\* their 16, the pallet gets the commitment, both keys and the nonce as they were
\* packed, and, up to the first number with more than eight hexadecimal digits, the
\* four bytes of each number, in the other order: packAndSignVoucher.js writes the high
\* byte first, Voucher::parse reads the low byte first.
THEOREM FieldsArriveSwapped ==
  ASSUME NEW Names, "number" \in Names, NEW data \in Data(Names), NEW signer,
         NEW oracle \in Nat, NEW difficulty \in Nat, NEW due \in Nat, NEW value \in Nat
  PROVE  LET p == Parse(PackAndSign(data, signer))
         IN  /\ p.price_list_commit = FromLeBytes([i \in 1..16 |-> <<data.priceListCommit, i>>])
             /\ p.sender_pk = Bytes32(data.senderPubKey)
             /\ p.recipient_pk = Bytes32(data.recipientPubKey)
             /\ p.nonce = Bytes32(data.nonce)
             /\ Eight(data.oracleBlock, oracle) => p.oracle_block = Swapped(oracle)
             /\ Len(data.oracleBlock) <= 8 /\ Eight(data.difficulty, difficulty)
                  => p.difficulty = Swapped(difficulty)
             /\ Len(data.oracleBlock) <= 8 /\ Len(data.difficulty) <= 8
                   /\ Eight(data.noRedeemBeforeBlock, due)
                  => p.no_redeem_before_block = Swapped(due)
             /\ Len(data.oracleBlock) <= 8 /\ Len(data.difficulty) <= 8
                   /\ Len(data.noRedeemBeforeBlock) <= 8 /\ Eight(data.valueIfPaid, value)
                  => p.value_if_paid = Swapped(value)
<1> DEFINE v == PackAndSign(data, signer)
           raw == RawFields(v)
           p == Parse(v)
<1>1. NumbersAreBytes(raw, HexToU8a(NumberTexts(data))) /\ NamesAreOwn(raw, data)
  BY WrittenBytes
<1>2. Decoded(p, raw)
  BY ParseDecodes
<1> HIDE DEF p, raw, v
<1>3. NumbersAreOwn(raw, data)
  BY <1>1, NumbersInPlace
<1>4. \A n \in Nat : \A text : Eight(text, n)
        => Len(text) <= 8 /\ FromLeBytes(FourBytes(PadStart(text))) = Swapped(n)
  BY EightDecodes, Zenon DEF Eight
<1>5. /\ Eight(data.oracleBlock, oracle) => p.oracle_block = Swapped(oracle)
      /\ Len(data.oracleBlock) <= 8 /\ Eight(data.difficulty, difficulty)
           => p.difficulty = Swapped(difficulty)
  BY <1>2, <1>3, <1>4, Zenon DEF NumbersAreOwn, Decoded
<1>6. Len(data.oracleBlock) <= 8 /\ Len(data.difficulty) <= 8
          /\ Eight(data.noRedeemBeforeBlock, due)
        => p.no_redeem_before_block = Swapped(due)
  BY <1>2, <1>3, <1>4, Zenon DEF NumbersAreOwn, Decoded
<1>7. Len(data.oracleBlock) <= 8 /\ Len(data.difficulty) <= 8
          /\ Len(data.noRedeemBeforeBlock) <= 8 /\ Eight(data.valueIfPaid, value)
        => p.value_if_paid = Swapped(value)
  BY <1>2, <1>3, <1>4, Zenon DEF NumbersAreOwn, Decoded
<1>8. /\ p.price_list_commit = FromLeBytes([i \in 1..16 |-> <<data.priceListCommit, i>>])
      /\ p.sender_pk = Bytes32(data.senderPubKey)
      /\ p.recipient_pk = Bytes32(data.recipientPubKey)
      /\ p.nonce = Bytes32(data.nonce)
  BY <1>1, <1>2, Zenon DEF NamesAreOwn, Decoded
<1> QED BY <1>5, <1>6, <1>7, <1>8, Zenon DEF p, v
=============================================================================
