------------------------------ MODULE RSProofs ------------------------------
(***************************************************************************)
(* Theorems of RSProposer: types, and what becomes of the blocks of a      *)
(* value that is decoded and encoded again.                                *)
(***************************************************************************)
EXTENDS RSInvariants, SequenceTheorems, FiniteSetTheorems, TLAPS

----------------------------------------------------------------------------
\* Sums in the field

\* gf_sum as a function, and the same without recursion for up to three terms.
SumOfTerms(s, k) ==
  CHOOSE sum : sum = [i \in 0 .. k |-> IF i = 0 THEN 0 ELSE sum[i - 1] ^^ s[i]]

ThreeTerms(s, k) ==
  [i \in 0 .. k |-> CASE i = 0 -> 0
                      [] i = 1 -> 0 ^^ s[1]
                      [] i = 2 -> (0 ^^ s[1]) ^^ s[2]
                      [] OTHER -> ((0 ^^ s[1]) ^^ s[2]) ^^ s[3]]

LEMMA SumUnrolled ==
  ASSUME NEW s, NEW k \in 1 .. 3
  PROVE  gf_sum(s, k) = CASE k = 1 -> 0 ^^ s[1]
                          [] k = 2 -> (0 ^^ s[1]) ^^ s[2]
                          [] OTHER -> ((0 ^^ s[1]) ^^ s[2]) ^^ s[3]
<1> DEFINE Rec(sum) == [i \in 0 .. k |-> IF i = 0 THEN 0 ELSE sum[i - 1] ^^ s[i]]
           h == ThreeTerms(s, k)
           f == SumOfTerms(s, k)
<1>1. h = Rec(h)
  <2>1. ASSUME NEW i \in 0 .. k PROVE h[i] = Rec(h)[i]
    BY DEF ThreeTerms
  <2> QED  BY <2>1 DEF ThreeTerms
<1>2. f = Rec(f)
  BY <1>1, Zenon DEF SumOfTerms
<1>3. gf_sum(s, k) = f[k]
  BY DEF gf_sum, SumOfTerms
<1>4. f[0] = 0 /\ f[1] = 0 ^^ s[1]
  BY <1>2
<1>5. k >= 2 => f[2] = (0 ^^ s[1]) ^^ s[2]
  <2> SUFFICES ASSUME k >= 2 PROVE f[2] = f[1] ^^ s[2]
    BY <1>4
  <2> QED  BY <1>2
<1>6. k = 3 => f[3] = ((0 ^^ s[1]) ^^ s[2]) ^^ s[3]
  <2> SUFFICES ASSUME k = 3 PROVE f[3] = f[2] ^^ s[3]
    BY <1>5
  <2> QED  BY <1>2
<1> HIDE DEF f
<1> QED  BY <1>3, <1>4, <1>5, <1>6

\* The rules of the field that decoding rests on, one by one.
LEMMA FieldRules ==
  /\ \A x, y \in Byte : x ^^ y \in Byte
  /\ \A x, y \in Byte : x ^^ y = y ^^ x
  /\ \A x, y, z \in Byte : (x ^^ y) ^^ z = x ^^ (y ^^ z)
  /\ \A x, y \in Byte : gf_mul(x, y) \in Byte
  /\ \A x, y, z \in Byte : gf_mul(gf_mul(x, y), z) = gf_mul(x, gf_mul(y, z))
  /\ \A x, y, z \in Byte : gf_mul(x, y ^^ z) = gf_mul(x, y) ^^ gf_mul(x, z)
  /\ \A x, y, z \in Byte : gf_mul(y ^^ z, x) = gf_mul(y, x) ^^ gf_mul(z, x)
  /\ \A x \in Byte : 0 ^^ x = x /\ x ^^ 0 = x
  /\ \A x \in Byte : gf_mul(0, x) = 0 /\ gf_mul(1, x) = x
  /\ 0 \in Byte /\ 1 \in Byte
<1>1. 0 \in Byte /\ 1 \in Byte
  BY DEF Byte
<1>2. /\ \A x, y \in Byte : x ^^ y \in Byte
      /\ \A x, y \in Byte : x ^^ y = y ^^ x
      /\ \A x, y \in Byte : gf_mul(x, y) \in Byte
      /\ \A x, y \in Byte : gf_mul(x, y) = gf_mul(y, x)
  BY FieldAssumption, Zenon
<1>3. /\ \A x, y, z \in Byte : (x ^^ y) ^^ z = x ^^ (y ^^ z)
      /\ \A x, y, z \in Byte : gf_mul(gf_mul(x, y), z) = gf_mul(x, gf_mul(y, z))
      /\ \A x, y, z \in Byte : gf_mul(x, y ^^ z) = gf_mul(x, y) ^^ gf_mul(x, z)
  BY FieldAssumption
<1>4. \A x \in Byte : 0 ^^ x = x /\ gf_mul(0, x) = 0 /\ gf_mul(1, x) = x
  BY FieldAssumption, Zenon
<1>5. \A x, y, z \in Byte : gf_mul(y ^^ z, x) = gf_mul(y, x) ^^ gf_mul(z, x)
  BY <1>2, <1>3
<1>6. \A x \in Byte : x ^^ 0 = x
  BY <1>1, <1>2, <1>4
<1> QED  BY <1>1, <1>2, <1>3, <1>4, <1>5, <1>6, Zenon

LEMMA BytesOfTwo ==
  ASSUME NEW a \in Byte, NEW b \in Byte
  PROVE  gf_mul(a, b) \in Byte /\ a ^^ b \in Byte
BY FieldRules

LEMMA ProductOfThree ==
  ASSUME NEW a \in Byte, NEW b \in Byte, NEW c \in Byte
  PROVE  gf_mul(a, gf_mul(b, c)) = gf_mul(gf_mul(a, b), c)
BY FieldRules

LEMMA SumIsByte ==
  ASSUME NEW k \in 1 .. 3, NEW s, \A i \in 1 .. k : s[i] \in Byte
  PROVE  gf_sum(s, k) \in Byte
<1>1. CASE k = 1
  <2>1. s[1] \in Byte
    BY <1>1
  <2>2. gf_sum(s, k) = 0 ^^ s[1]
    BY <1>1, SumUnrolled
  <2> QED  BY <2>1, <2>2, FieldRules
<1>2. CASE k = 2
  <2>1. s[1] \in Byte /\ s[2] \in Byte
    BY <1>2
  <2>2. gf_sum(s, k) = (0 ^^ s[1]) ^^ s[2]
    BY <1>2, SumUnrolled
  <2>3. 0 ^^ s[1] \in Byte
    BY <2>1, FieldRules
  <2>4. (0 ^^ s[1]) ^^ s[2] \in Byte
    BY <2>1, <2>3, FieldRules
  <2> QED  BY <2>2, <2>4
<1>3. CASE k = 3
  <2>1. s[1] \in Byte /\ s[2] \in Byte /\ s[3] \in Byte
    BY <1>3
  <2>2. gf_sum(s, k) = ((0 ^^ s[1]) ^^ s[2]) ^^ s[3]
    BY <1>3, SumUnrolled
  <2>3. 0 ^^ s[1] \in Byte
    BY <2>1, FieldRules
  <2>4. (0 ^^ s[1]) ^^ s[2] \in Byte
    BY <2>1, <2>3, FieldRules
  <2>5. ((0 ^^ s[1]) ^^ s[2]) ^^ s[3] \in Byte
    BY <2>1, <2>4, FieldRules
  <2> QED  BY <2>2, <2>5
<1> QED  BY <1>1, <1>2, <1>3

----------------------------------------------------------------------------
\* Blocks

\* What the proofs use of the parameters: at most three blocks make a value, and a
\* quorum has at least as many.
LEMMA Parameters ==
  ASSUME NEW n \in Sizes
  PROVE  /\ n \in Nat \ {0}
         /\ rs_x(n) \in 1 .. 3 /\ rs_x(n) <= n
         /\ rs_qr(n) \in Nat /\ rs_qr(n) >= rs_x(n) /\ rs_qr(n) <= n
         /\ rs_f(n) = n - rs_qr(n)
<1>1. n \in Nat \ {0}
  BY RSAssumption
<1>2. CASE n = 1
  BY <1>2 DEF rs_x, rs_qr, rs_f
<1>3. CASE n # 1 /\ n % 2 = 0
  <2>1. rs_x(n) = 2 /\ n >= 2
    BY <1>1, <1>3 DEF rs_x
  <2> QED  BY <1>1, <2>1 DEF rs_qr, rs_f
<1>4. CASE n # 1 /\ n % 2 # 0
  <2>1. rs_x(n) = 3 /\ n >= 3
    BY <1>1, <1>4 DEF rs_x
  <2> QED  BY <1>1, <2>1 DEF rs_qr, rs_f
<1> QED  BY <1>2, <1>3, <1>4

\* The first rows of the code are the identity.
LEMMA CodeRows ==
  ASSUME NEW n \in Sizes
  PROVE  /\ RSEncoder(n) \in [(0 .. n - 1) \X (0 .. rs_x(n) - 1) -> Byte]
         /\ \A r, c \in 0 .. rs_x(n) - 1 :
              RSEncoder(n)[<<r, c>>] = IF r = c THEN 1 ELSE 0
<1>1. RSEncoder(n) \in [(0 .. n - 1) \X (0 .. rs_x(n) - 1) -> Byte]
  BY CodeAssumption
<1>2. ASSUME NEW r \in 0 .. rs_x(n) - 1, NEW c \in 0 .. rs_x(n) - 1
      PROVE  RSEncoder(n)[<<r, c>>] = IF r = c THEN 1 ELSE 0
  <2>1. <<r, c>> \in (0 .. n - 1) \X (0 .. rs_x(n) - 1) /\ ~ (r >= rs_x(n))
    BY Parameters
  <2> QED  BY <2>1 DEF RSEncoder, fec_new
<1> QED  BY <1>1, <1>2

LEMMA BlockSizeIsNat ==
  ASSUME NEW d \in Seq(Byte), NEW k \in 1 .. 3
  PROVE  BlockSize(d, k) \in Nat
<1>1. Len(d) \in Nat
  BY LenProperties
<1>2. CASE k = 1
  BY <1>1, <1>2 DEF BlockSize
<1>3. CASE k = 2
  BY <1>1, <1>3 DEF BlockSize
<1>4. CASE k = 3
  BY <1>1, <1>4 DEF BlockSize
<1> QED  BY <1>2, <1>3, <1>4

LEMMA ByteAtIsByte ==
  ASSUME NEW d \in Seq(Byte), NEW j \in Nat \ {0}
  PROVE  ByteAt(d, j) \in Byte
<1>1. Len(d) \in Nat
  BY LenProperties
<1>2. CASE j <= Len(d)
  BY <1>1, <1>2, ElementOfSeq DEF ByteAt
<1>3. CASE ~ (j <= Len(d))
  BY <1>3 DEF ByteAt, Byte
<1> QED  BY <1>2, <1>3

\* A piece of a string.
LEMMA SubstrIs ==
  ASSUME NEW d \in Seq(Byte), NEW from \in Nat, NEW count \in Nat
  PROVE  /\ Substr(d, from, count) \in Seq(Byte)
         /\ Len(Substr(d, from, count)) = IF from + count <= Len(d) THEN count
                                         ELSE IF from <= Len(d) THEN Len(d) - from ELSE 0
         /\ \A j \in 1 .. Len(Substr(d, from, count)) :
              Substr(d, from, count)[j] = d[from + j]
<1> DEFINE last == IF from + count < Len(d) THEN from + count ELSE Len(d)
<1>1. Len(d) \in Nat
  BY LenProperties
<1>2. from + 1 \in Int /\ last \in Int /\ Substr(d, from, count) = SubSeq(d, from + 1, last)
  BY <1>1 DEF Substr
<1>3. \A i \in from + 1 .. last : d[i] \in Byte
  <2>1. from + 1 .. last \subseteq 1 .. Len(d)
    BY <1>1
  <2> QED  BY <2>1, ElementOfSeq
<1> HIDE DEF last
<1>4. /\ SubSeq(d, from + 1, last) \in Seq(Byte)
      /\ Len(SubSeq(d, from + 1, last))
           = IF from + 1 <= last THEN last - (from + 1) + 1 ELSE 0
      /\ \A i \in 1 .. last - (from + 1) + 1 :
           SubSeq(d, from + 1, last)[i] = d[from + 1 + i - 1]
  BY <1>2, <1>3, SubSeqProperties
<1>5. Len(Substr(d, from, count)) = IF from + count <= Len(d) THEN count
                                    ELSE IF from <= Len(d) THEN Len(d) - from ELSE 0
  BY <1>1, <1>2, <1>4 DEF last
<1>6. ASSUME NEW j \in 1 .. Len(Substr(d, from, count))
      PROVE  Substr(d, from, count)[j] = d[from + j]
  <2>1. j \in 1 .. last - (from + 1) + 1 /\ from + 1 + j - 1 = from + j
    BY <1>1, <1>2, <1>4 DEF last
  <2> QED  BY <1>2, <1>4, <2>1
<1> QED  BY <1>2, <1>4, <1>5, <1>6

LEMMA SourceIs ==
  ASSUME NEW d \in Seq(Byte), NEW k \in 1 .. 3
  PROVE  /\ Source(d, k) \in [1 .. k -> Seq(Byte)]
         /\ \A i \in 1 .. k : Len(Source(d, k)[i]) = BlockSize(d, k)
         /\ \A i \in 1 .. k, j \in 1 .. BlockSize(d, k) :
              Source(d, k)[i][j] = ByteAt(d, (i - 1) * BlockSize(d, k) + j)
<1> DEFINE sz == BlockSize(d, k)
           block(i) == [j \in 1 .. sz |-> ByteAt(d, (i - 1) * sz + j)]
<1>1. sz \in Nat
  BY BlockSizeIsNat
<1>2. Source(d, k) = [i \in 1 .. k |-> block(i)]
  BY DEF Source
<1>3. ASSUME NEW i \in 1 .. k
      PROVE  block(i) \in Seq(Byte) /\ Len(block(i)) = sz
  <2>1. ASSUME NEW j \in 1 .. sz
        PROVE  ByteAt(d, (i - 1) * sz + j) \in Byte
    <3>1. CASE i = 1
      BY <1>1, <3>1, ByteAtIsByte
    <3>2. CASE i = 2
      BY <1>1, <3>2, ByteAtIsByte
    <3>3. CASE i = 3
      BY <1>1, <3>3, ByteAtIsByte
    <3> QED  BY <3>1, <3>2, <3>3
  <2>2. block(i) \in [1 .. sz -> Byte]
    BY <2>1
  <2> HIDE DEF block, sz
  <2> QED  BY <1>1, <2>2
<1> HIDE DEF sz
<1>4. \A i \in 1 .. k, j \in 1 .. sz : block(i)[j] = ByteAt(d, (i - 1) * sz + j)
  OBVIOUS
<1> HIDE DEF block
<1> QED  BY <1>2, <1>3, <1>4 DEF sz

\* The bytes of a combination of up to three blocks.
IsCombination(b, c, t, k, sz) ==
  /\ Len(b) = sz
  /\ \A x \in 1 .. sz : b[x] = gf_sum([j \in 1 .. k |-> gf_mul(c[j], t[j][x])], k)

LEMMA CombineIs ==
  ASSUME NEW k \in 1 .. 3, NEW c \in [1 .. k -> Byte], NEW sz \in Nat,
         NEW blocks, \A i \in 1 .. k, x \in 1 .. sz : blocks[i][x] \in Byte
  PROVE  /\ Combine(c, blocks, k, sz) \in Seq(Byte)
         /\ IsCombination(Combine(c, blocks, k, sz), c, blocks, k, sz)
<1> DEFINE terms(x) == [i \in 1 .. k |-> gf_mul(c[i], blocks[i][x])]
<1>1. Combine(c, blocks, k, sz) = [x \in 1 .. sz |-> gf_sum(terms(x), k)]
  BY DEF Combine
<1>2. ASSUME NEW x \in 1 .. sz PROVE gf_sum(terms(x), k) \in Byte
  <2>1. \A i \in 1 .. k : terms(x)[i] \in Byte
    BY FieldRules
  <2> HIDE DEF terms
  <2> QED  BY <2>1, SumIsByte
<1>3. \A x \in 1 .. sz : terms(x) = [j \in 1 .. k |-> gf_mul(c[j], blocks[j][x])]
  OBVIOUS
<1> HIDE DEF terms
<1>4. Combine(c, blocks, k, sz) \in [1 .. sz -> Byte]
  BY <1>1, <1>2
<1>5. Combine(c, blocks, k, sz) \in Seq(Byte) /\ Len(Combine(c, blocks, k, sz)) = sz
  BY <1>4
<1> QED  BY <1>1, <1>3, <1>5 DEF IsCombination

LEMMA CombinationOfBlocks ==
  ASSUME NEW k \in 1 .. 3, NEW c \in [1 .. k -> Byte], NEW sz \in Nat,
         NEW t \in [1 .. k -> Seq(Byte)], \A j \in 1 .. k : Len(t[j]) = sz
  PROVE  IsCombination(Combine(c, t, k, sz), c, t, k, sz)
<1>1. ASSUME NEW j \in 1 .. k, NEW x \in 1 .. sz PROVE t[j][x] \in Byte
  BY ElementOfSeq
<1> QED  BY <1>1, CombineIs

\* The blocks of d in one list.
Encoding(d, n) ==
  [i \in 1 .. n |->
     IF i <= rs_x(n)
     THEN Substr(d, (i - 1) * BlockSize(d, rs_x(n)), BlockSize(d, rs_x(n)))
     ELSE Combine(Row(RSEncoder(n), i - 1, rs_x(n)), Source(d, rs_x(n)), rs_x(n),
                  BlockSize(d, rs_x(n)))]

LEMMA RowIsTyped ==
  ASSUME NEW n \in Sizes, NEW r \in 0 .. n - 1
  PROVE  Row(RSEncoder(n), r, rs_x(n)) \in [1 .. rs_x(n) -> Byte]
<1>1. \A i \in 1 .. rs_x(n) : RSEncoder(n)[<<r, i - 1>>] \in Byte
  <2> TAKE i \in 1 .. rs_x(n)
  <2>1. <<r, i - 1>> \in (0 .. n - 1) \X (0 .. rs_x(n) - 1)
    BY Parameters
  <2> QED  BY <2>1, CodeRows
<1> QED  BY <1>1 DEF Row

LEMMA CheckBlockIs ==
  ASSUME NEW n \in Sizes, NEW d \in Seq(Byte), NEW r \in 0 .. n - 1
  PROVE  LET k  == rs_x(n)
             sz == BlockSize(d, k)
             b  == Combine(Row(RSEncoder(n), r, k), Source(d, k), k, sz)
         IN  /\ b \in Seq(Byte) /\ Len(b) = sz
             /\ \A x \in 1 .. sz :
                  b[x] = gf_sum([i \in 1 .. k |-> gf_mul(Row(RSEncoder(n), r, k)[i],
                                                        Source(d, k)[i][x])], k)
<1> DEFINE k == rs_x(n)
<1>1. k \in 1 .. 3
  BY Parameters
<1>2. BlockSize(d, k) \in Nat
  BY <1>1, BlockSizeIsNat
<1>3. Row(RSEncoder(n), r, k) \in [1 .. k -> Byte]
  BY RowIsTyped
<1> HIDE DEF k
<1>4. \A i \in 1 .. k, x \in 1 .. BlockSize(d, k) : Source(d, k)[i][x] \in Byte
  BY <1>1, <1>2, SourceIs, ElementOfSeq
<1>5. LET sz == BlockSize(d, k)
          b  == Combine(Row(RSEncoder(n), r, k), Source(d, k), k, sz)
      IN  /\ b \in Seq(Byte) /\ Len(b) = sz
          /\ \A x \in 1 .. sz :
               b[x] = gf_sum([i \in 1 .. k |-> gf_mul(Row(RSEncoder(n), r, k)[i],
                                                     Source(d, k)[i][x])], k)
  <2> DEFINE sz == BlockSize(d, k)
             c  == Row(RSEncoder(n), r, k)
             b  == Combine(c, Source(d, k), k, sz)
  <2> HIDE DEF sz, c
  <2>1. /\ sz \in Nat /\ c \in [1 .. k -> Byte]
        /\ \A i \in 1 .. k, x \in 1 .. sz : Source(d, k)[i][x] \in Byte
    BY <1>2, <1>3, <1>4 DEF sz, c
  <2>2. b \in Seq(Byte) /\ IsCombination(b, c, Source(d, k), k, sz)
    BY <1>1, <2>1, CombineIs
  <2> QED  BY <2>2 DEF IsCombination, sz, c
<1> QED  BY <1>5 DEF k

\* What the encoder makes of any data.
LEMMA EncodingIs ==
  ASSUME NEW n \in Sizes, NEW d \in Seq(Byte)
  PROVE  Encoding(d, n) \in Seq(Seq(Byte)) /\ Len(Encoding(d, n)) = n
<1> DEFINE k == rs_x(n)
           sz == BlockSize(d, k)
<1>1. k \in 1 .. 3 /\ n \in Nat
  BY Parameters
<1>2. sz \in Nat
  BY <1>1, BlockSizeIsNat
<1>3. ASSUME NEW i \in 1 .. n PROVE Encoding(d, n)[i] \in Seq(Byte)
  <2>1. CASE i <= k
    <3>1. (i - 1) * sz \in Nat
      <4>1. i \in 1 .. 3
        BY <1>1, <2>1
      <4>2. CASE i = 1
        BY <1>2, <4>2
      <4>3. CASE i = 2
        BY <1>2, <4>3
      <4>4. CASE i = 3
        BY <1>2, <4>4
      <4> QED  BY <4>1, <4>2, <4>3, <4>4
    <3>2. Substr(d, (i - 1) * sz, sz) \in Seq(Byte)
      BY <1>2, <3>1, SubstrIs
    <3> QED  BY <2>1, <3>2 DEF Encoding
  <2>2. CASE ~ (i <= k)
    <3>1. i - 1 \in 0 .. n - 1
      BY <1>1
    <3>2. Combine(Row(RSEncoder(n), i - 1, k), Source(d, k), k, sz) \in Seq(Byte)
      BY <3>1, CheckBlockIs
    <3> QED  BY <2>2, <3>2 DEF Encoding
  <2> QED  BY <2>1, <2>2
<1>4. Encoding(d, n) \in [1 .. n -> Seq(Byte)]
  BY <1>3 DEF Encoding
<1> QED  BY <1>1, <1>4

LEMMA EncodeIs ==
  ASSUME NEW n \in Sizes, NEW d \in Seq(Byte), fec = RSEncoder(n)
  PROVE  rs_encode(d, n) = Encoding(d, n)
<1> DEFINE k     == rs_x(n)
           sz    == BlockSize(d, k)
           nums  == [i \in 1 .. n - k |-> k + i - 1]
           own   == [i \in 1 .. k |-> Substr(d, (i - 1) * sz, sz)]
           check == [i \in 1 .. n - k |->
                       Combine(Row(RSEncoder(n), nums[i], k), Source(d, k), k, sz)]
<1>1. k \in 1 .. 3 /\ n \in Nat /\ k <= n
  BY Parameters
<1>2. rs_encode(d, n) = own \o check
  BY DEF rs_encode, fec_encode
<1>3. Encoding(d, n) \in Seq(Seq(Byte)) /\ Len(Encoding(d, n)) = n
  BY EncodingIs
<1>4. \A i \in 1 .. n : Encoding(d, n)[i] \in Seq(Byte)
  BY <1>3, ElementOfSeq
<1>5. ASSUME NEW i \in 1 .. k PROVE own[i] = Encoding(d, n)[i]
  BY <1>1, <1>5 DEF Encoding
<1>6. ASSUME NEW i \in 1 .. n - k PROVE check[i] = Encoding(d, n)[k + i]
  <2>1. k + i \in 1 .. n /\ ~ (k + i <= k) /\ nums[i] = (k + i) - 1
    BY <1>1
  <2> HIDE DEF nums, k
  <2> QED  BY <2>1 DEF Encoding, k
<1>7. own \in Seq(Seq(Byte)) /\ Len(own) = k
  <2>1. \A i \in 1 .. k : own[i] \in Seq(Byte)
    BY <1>1, <1>4, <1>5
  <2>2. own \in [1 .. k -> Seq(Byte)]
    BY <2>1
  <2> HIDE DEF own
  <2> QED  BY <1>1, <2>2
<1>8. check \in Seq(Seq(Byte)) /\ Len(check) = n - k
  <2>1. \A i \in 1 .. n - k : check[i] \in Seq(Byte)
    BY <1>1, <1>4, <1>6
  <2>2. check \in [1 .. n - k -> Seq(Byte)]
    BY <2>1
  <2> HIDE DEF check
  <2> QED  BY <1>1, <2>2
<1> HIDE DEF own, check, k
<1>9. /\ own \o check \in Seq(Seq(Byte)) /\ Len(own \o check) = n
      /\ \A i \in 1 .. n : (own \o check)[i] = IF i <= k THEN own[i] ELSE check[i - k]
  <2>1. /\ own \o check \in Seq(Seq(Byte))
        /\ Len(own \o check) = Len(own) + Len(check)
        /\ \A i \in 1 .. Len(own) + Len(check) :
             (own \o check)[i] = IF i <= Len(own) THEN own[i] ELSE check[i - Len(own)]
    BY <1>7, <1>8, ConcatProperties
  <2>2. Len(own) + Len(check) = n
    BY <1>1, <1>7, <1>8
  <2> QED  BY <1>7, <2>1, <2>2
<1>10. ASSUME NEW i \in 1 .. n PROVE (own \o check)[i] = Encoding(d, n)[i]
  <2>1. CASE i <= k
    BY <1>1, <1>5, <1>9, <2>1
  <2>2. CASE ~ (i <= k)
    <3>1. i - k \in 1 .. n - k /\ k + (i - k) = i
      BY <1>1, <2>2
    <3> QED  BY <1>6, <1>9, <2>2, <3>1
  <2> QED  BY <2>1, <2>2
<1> QED  BY <1>2, <1>3, <1>9, <1>10, SeqEqual

----------------------------------------------------------------------------
\* Decoding

LEMMA PaddedIs ==
  ASSUME NEW s \in Seq(Byte), NEW sz \in Nat
  PROVE  /\ Padded(s, sz) \in Seq(Byte) /\ Len(Padded(s, sz)) = sz
         /\ \A j \in 1 .. sz : Padded(s, sz)[j] = ByteAt(s, j)
<1>1. \A j \in 1 .. sz : ByteAt(s, j) \in Byte
  BY ByteAtIsByte
<1>2. Padded(s, sz) \in [1 .. sz -> Byte]
  BY <1>1 DEF Padded
<1>3. \A j \in 1 .. sz : Padded(s, sz)[j] = ByteAt(s, j)
  BY DEF Padded
<1> QED  BY <1>2, <1>3

\* FlattenSeq as a function, and without recursion for up to three sequences.
FlattenFcn(s) ==
  CHOOSE flatten : flatten = [i \in 1 .. Len(s) |->
                                IF i = 1 THEN s[i] ELSE flatten[i - 1] \o s[i]]

LEMMA FlattenUnrolled ==
  ASSUME NEW k \in 1 .. 3, NEW s \in [1 .. k -> Seq(Byte)]
  PROVE  /\ k = 1 => FlattenSeq(s) = s[1]
         /\ k = 2 => FlattenSeq(s) = s[1] \o s[2]
         /\ k = 3 => FlattenSeq(s) = (s[1] \o s[2]) \o s[3]
<1> DEFINE cat(x, y) == x \o y
           Rec(flatten) == [i \in 1 .. Len(s) |->
                              IF i = 1 THEN s[i] ELSE cat(flatten[i - 1], s[i])]
           h == [i \in 1 .. Len(s) |-> CASE i = 1 -> s[1]
                                         [] i = 2 -> cat(s[1], s[2])
                                         [] OTHER -> cat(cat(s[1], s[2]), s[3])]
           f == FlattenFcn(s)
<1>1. s \in Seq(Seq(Byte)) /\ Len(s) = k
  OBVIOUS
<1>2. f = CHOOSE flatten : flatten = Rec(flatten)
  BY DEF FlattenFcn
<1>3. FlattenSeq(s) = f[k]
  <2>1. Len(s) # 0
    BY <1>1
  <2>2. FlattenSeq(s) = f[Len(s)]
    BY <2>1 DEF FlattenSeq, FlattenFcn
  <2> QED  BY <1>1, <2>2
<1> HIDE DEF cat, f
<1>4. h = Rec(h)
  <2>1. ASSUME NEW i \in 1 .. Len(s) PROVE h[i] = Rec(h)[i]
    <3>1. i \in 1 .. 3
      BY <1>1
    <3>2. CASE i = 1
      BY <3>2
    <3>3. CASE i = 2
      BY <3>3, <1>1
    <3>4. CASE i = 3
      BY <3>4, <1>1
    <3> QED  BY <3>1, <3>2, <3>3, <3>4
  <2> QED  BY <2>1
<1>5. f = Rec(f)
  BY <1>2, <1>4, Zenon
<1>6. f[1] = s[1]
  BY <1>1, <1>5
<1>7. k >= 2 => f[2] = cat(f[1], s[2])
  BY <1>1, <1>5
<1>8. k = 3 => f[3] = cat(f[2], s[3])
  BY <1>1, <1>5
<1>9. /\ k = 1 => FlattenSeq(s) = s[1]
      /\ k = 2 => FlattenSeq(s) = cat(s[1], s[2])
      /\ k = 3 => FlattenSeq(s) = cat(cat(s[1], s[2]), s[3])
  BY <1>3, <1>6, <1>7, <1>8
<1> QED  BY <1>9 DEF cat

\* The blocks fec_decode is given, and those rs_decode puts together.
Taken(blocks, map, n) ==
  [i \in 1 .. rs_x(n) |-> Padded(blocks[Index(map, rs_x(n))[i] + 1], Len(blocks[1]))]

Restored(blocks, map, n) ==
  [i \in 1 .. rs_x(n) |->
     IF i - 1 \in map THEN blocks[i]
     ELSE Combine(Row(build_decode_matrix_into_space(RSEncoder(n), Index(map, rs_x(n)),
                                                     rs_x(n)), i - 1, rs_x(n)),
                  Taken(blocks, map, n), rs_x(n), Len(blocks[1]))]

\* What CodeAssumption says of the blocks of a quorum.
LEMMA QuorumDecodes ==
  ASSUME NEW n \in Sizes, NEW map \in SUBSET (0 .. n - 1), Cardinality(map) >= rs_qr(n)
  PROVE  Decodes(RSEncoder(n), map, rs_x(n))
BY CodeAssumption

LEMMA DecodeIs ==
  ASSUME NEW n \in Sizes, NEW map \in SUBSET (0 .. n - 1), Cardinality(map) >= rs_qr(n),
         NEW blocks, fec = RSEncoder(n)
  PROVE  rs_decode(blocks, map, n) = FlattenSeq(Restored(blocks, map, n))
<1> DEFINE k     == rs_x(n)
           index == Index(map, k)
           src   == Taken(blocks, map, n)
           out   == fec_decode(fec, k, src, index, Len(blocks[1]))
           parts == [i \in 1 .. k |-> IF i - 1 \in map THEN blocks[i] ELSE out[i]]
<1>1. rs_decode(blocks, map, n) = FlattenSeq(parts)
  BY DEF rs_decode, Taken
<1>2. index \in [1 .. k -> map] /\ \A i \in 1 .. k : index[i] < k => index[i] = i - 1
  BY QuorumDecodes DEF Decodes
<1>3. ASSUME NEW i \in 1 .. k PROVE parts[i] = Restored(blocks, map, n)[i]
  <2>1. CASE i - 1 \in map
    BY <2>1 DEF Restored
  <2>2. CASE i - 1 \notin map
    <3>1. ~ (index[i] < k)
      BY <1>2, <2>2
    <3>2. out[i] = Combine(Row(build_decode_matrix_into_space(fec, index, k), i - 1, k),
                           src, k, Len(blocks[1]))
      BY <3>1 DEF fec_decode
    <3>3. parts[i] = out[i]
      BY <2>2
    <3> HIDE DEF parts, out, index, src
    <3>4. parts[i] = Combine(Row(build_decode_matrix_into_space(RSEncoder(n), index, k), i - 1, k),
                             src, k, Len(blocks[1]))
      BY <3>2, <3>3
    <3> QED  BY <2>2, <3>4 DEF Restored, index, src
  <2> QED  BY <2>1, <2>2
<1>4. parts = Restored(blocks, map, n)
  <2> HIDE DEF out
  <2>1. Restored(blocks, map, n) = [i \in 1 .. k |-> Restored(blocks, map, n)[i]]
    BY DEF Restored
  <2>2. parts = [i \in 1 .. k |-> parts[i]]
    OBVIOUS
  <2> HIDE DEF parts, k
  <2> QED  BY <1>3, <2>1, <2>2
<1> QED  BY <1>1, <1>4

LEMMA TakenIs ==
  ASSUME NEW n \in Sizes, NEW map \in SUBSET (0 .. n - 1), Cardinality(map) >= rs_qr(n),
         NEW blocks \in [1 .. n -> Seq(Byte)]
  PROVE  /\ Taken(blocks, map, n) \in [1 .. rs_x(n) -> Seq(Byte)]
         /\ Len(blocks[1]) \in Nat
         /\ \A i \in 1 .. rs_x(n) :
              /\ Index(map, rs_x(n))[i] \in map
              /\ Index(map, rs_x(n))[i] + 1 \in 1 .. n
              /\ Len(Taken(blocks, map, n)[i]) = Len(blocks[1])
              /\ \A x \in 1 .. Len(blocks[1]) :
                   Taken(blocks, map, n)[i][x]
                     = ByteAt(blocks[Index(map, rs_x(n))[i] + 1], x)
<1> DEFINE k  == rs_x(n)
           sz == Len(blocks[1])
<1>1. k \in 1 .. 3 /\ n \in Nat \ {0}
  BY Parameters
<1>2. sz \in Nat
  <2>1. blocks[1] \in Seq(Byte)
    BY <1>1
  <2> QED  BY <2>1, LenProperties
<1>3. Index(map, k) \in [1 .. k -> map]
  BY QuorumDecodes DEF Decodes
<1>4. ASSUME NEW i \in 1 .. k
      PROVE  /\ Index(map, k)[i] \in map
             /\ Index(map, k)[i] + 1 \in 1 .. n
             /\ Taken(blocks, map, n)[i] \in Seq(Byte)
             /\ Len(Taken(blocks, map, n)[i]) = sz
             /\ \A x \in 1 .. sz :
                  Taken(blocks, map, n)[i][x] = ByteAt(blocks[Index(map, k)[i] + 1], x)
  <2>1. Index(map, k)[i] \in map /\ Index(map, k)[i] + 1 \in 1 .. n
    <3> HIDE DEF k
    <3>1. Index(map, k)[i] \in map
      BY <1>3
    <3>2. Index(map, k)[i] \in 0 .. n - 1
      BY <3>1
    <3> QED  BY <1>1, <3>1, <3>2
  <2>2. blocks[Index(map, k)[i] + 1] \in Seq(Byte)
    BY <2>1
  <2>3. Taken(blocks, map, n)[i] = Padded(blocks[Index(map, k)[i] + 1], sz)
    BY DEF Taken
  <2> DEFINE b == blocks[Index(map, k)[i] + 1]
             t == Taken(blocks, map, n)[i]
  <2>4. b \in Seq(Byte) /\ t = Padded(b, sz)
    BY <2>2, <2>3
  <2> HIDE DEF k, sz, b, t
  <2>5. t \in Seq(Byte) /\ Len(t) = sz /\ \A x \in 1 .. sz : t[x] = ByteAt(b, x)
    BY <1>2, <2>4, PaddedIs
  <2> QED  BY <2>1, <2>5 DEF b, t
<1> QED  BY <1>2, <1>4 DEF Taken

LEMMA DecodeMatrixIs ==
  ASSUME NEW n \in Sizes, NEW map \in SUBSET (0 .. n - 1), Cardinality(map) >= rs_qr(n),
         NEW i \in 1 .. rs_x(n)
  PROVE  LET m_dec == build_decode_matrix_into_space(RSEncoder(n), Index(map, rs_x(n)), rs_x(n))
         IN  /\ Row(m_dec, i - 1, rs_x(n)) \in [1 .. rs_x(n) -> Byte]
             /\ \A j \in 1 .. rs_x(n) :
                  Row(m_dec, i - 1, rs_x(n))[j] = m_dec[<<i - 1, j - 1>>]
<1> DEFINE k     == rs_x(n)
           m_dec == build_decode_matrix_into_space(RSEncoder(n), Index(map, k), k)
<1>1. k \in 1 .. 3
  BY Parameters
<1>2. m_dec \in [Square(k) -> Byte]
  BY QuorumDecodes DEF Decodes
<1> HIDE DEF m_dec, k
<1>3. ASSUME NEW j \in 1 .. k PROVE m_dec[<<i - 1, j - 1>>] \in Byte
  <2>1. <<i - 1, j - 1>> \in Square(k)
    BY <1>1 DEF Square, k
  <2> QED  BY <1>2, <2>1
<1>4. /\ Row(m_dec, i - 1, k) \in [1 .. k -> Byte]
      /\ \A j \in 1 .. k : Row(m_dec, i - 1, k)[j] = m_dec[<<i - 1, j - 1>>]
  BY <1>3 DEF Row
<1> QED  BY <1>4 DEF m_dec, k

LEMMA RestoredIs ==
  ASSUME NEW n \in Sizes, NEW map \in SUBSET (0 .. n - 1), Cardinality(map) >= rs_qr(n),
         NEW blocks \in [1 .. n -> Seq(Byte)]
  PROVE  Restored(blocks, map, n) \in [1 .. rs_x(n) -> Seq(Byte)]
<1> DEFINE k == rs_x(n)
<1>1. k \in 1 .. 3 /\ k <= n
  BY Parameters
<1>2. ASSUME NEW i \in 1 .. k PROVE Restored(blocks, map, n)[i] \in Seq(Byte)
  <2>1. CASE i - 1 \in map
    <3>1. Restored(blocks, map, n)[i] = blocks[i] /\ i \in 1 .. n
      BY <1>1, <2>1, Parameters DEF Restored
    <3> QED  BY <3>1
  <2>2. CASE i - 1 \notin map
    <3> DEFINE m_dec == build_decode_matrix_into_space(RSEncoder(n), Index(map, k), k)
    <3>1. Restored(blocks, map, n)[i]
            = Combine(Row(m_dec, i - 1, k), Taken(blocks, map, n), k, Len(blocks[1]))
      BY <2>2 DEF Restored
    <3>2. Row(m_dec, i - 1, k) \in [1 .. k -> Byte]
      BY DecodeMatrixIs
    <3>3. ASSUME NEW j \in 1 .. k, NEW x \in 1 .. Len(blocks[1])
          PROVE  Taken(blocks, map, n)[j][x] \in Byte
      <4>1. Taken(blocks, map, n) \in [1 .. k -> Seq(Byte)]
        BY TakenIs
      <4>2. \A l \in 1 .. k : Len(Taken(blocks, map, n)[l]) = Len(blocks[1])
        BY TakenIs, ZenonT(60)
      <4> HIDE DEF k
      <4> QED  BY <4>1, <4>2, ElementOfSeq
    <3>4. Len(blocks[1]) \in Nat
      BY TakenIs
    <3> DEFINE c == Row(m_dec, i - 1, k)
               t == Taken(blocks, map, n)
               sz == Len(blocks[1])
    <3> HIDE DEF m_dec, k, c, t, sz
    <3>5. \A j \in 1 .. k, x \in 1 .. sz : t[j][x] \in Byte
      BY <3>3 DEF t, sz
    <3>6. c \in [1 .. k -> Byte] /\ sz \in Nat
      BY <3>2, <3>4 DEF c, sz
    <3>7. Combine(c, t, k, sz) \in Seq(Byte)
      BY <1>1, <3>5, <3>6, CombineIs
    <3> QED  BY <3>1, <3>7 DEF c, t, sz
  <2> QED  BY <2>1, <2>2
<1> QED  BY <1>2 DEF Restored

LEMMA DecodeIsTyped ==
  ASSUME NEW n \in Sizes, NEW map \in SUBSET (0 .. n - 1), Cardinality(map) >= rs_qr(n),
         NEW blocks \in [1 .. n -> Seq(Byte)], fec = RSEncoder(n)
  PROVE  rs_decode(blocks, map, n) \in Seq(Byte)
<1> DEFINE k == rs_x(n)
           s == Restored(blocks, map, n)
<1>1. k \in 1 .. 3
  BY Parameters
<1>2. s \in [1 .. k -> Seq(Byte)] /\ rs_decode(blocks, map, n) = FlattenSeq(s)
  BY RestoredIs, DecodeIs
<1> HIDE DEF k, s
<1>3. CASE k = 1
  <2>1. s[1] \in Seq(Byte)
    BY <1>2, <1>3
  <2> QED  BY <1>1, <1>2, <1>3, <2>1, FlattenUnrolled
<1>4. CASE k = 2
  <2>1. s[1] \in Seq(Byte) /\ s[2] \in Seq(Byte)
    BY <1>2, <1>4
  <2>2. s[1] \o s[2] \in Seq(Byte)
    BY <2>1, ConcatProperties
  <2>3. FlattenSeq(s) = s[1] \o s[2]
    BY <1>1, <1>2, <1>4, FlattenUnrolled, Zenon
  <2> QED  BY <1>2, <2>2, <2>3
<1>5. CASE k = 3
  <2>1. s[1] \in Seq(Byte) /\ s[2] \in Seq(Byte) /\ s[3] \in Seq(Byte)
    BY <1>2, <1>5
  <2>2. s[1] \o s[2] \in Seq(Byte)
    BY <2>1, ConcatProperties
  <2>3. (s[1] \o s[2]) \o s[3] \in Seq(Byte)
    BY <2>1, <2>2, ConcatProperties
  <2>4. FlattenSeq(s) = (s[1] \o s[2]) \o s[3]
    BY <1>1, <1>2, <1>5, FlattenUnrolled, Zenon
  <2> QED  BY <1>2, <2>3, <2>4
<1> QED  BY <1>1, <1>3, <1>4, <1>5

----------------------------------------------------------------------------
\* The algebra of decoding, for up to three blocks

LEMMA Interchange ==
  ASSUME NEW a \in Byte, NEW b \in Byte, NEW c \in Byte, NEW d \in Byte
  PROVE  (a ^^ b) ^^ (c ^^ d) = (a ^^ c) ^^ (b ^^ d)
<1>1. (a ^^ b) ^^ (c ^^ d) = a ^^ (b ^^ (c ^^ d))
  BY FieldRules
<1>2. b ^^ (c ^^ d) = (b ^^ c) ^^ d
  BY FieldRules
<1>3. b ^^ c = c ^^ b
  BY FieldRules
<1>4. (c ^^ b) ^^ d = c ^^ (b ^^ d)
  BY FieldRules
<1>5. a ^^ (c ^^ (b ^^ d)) = (a ^^ c) ^^ (b ^^ d)
  BY FieldRules
<1> QED  BY <1>1, <1>2, <1>3, <1>4, <1>5

LEMMA SumOfBytes ==
  ASSUME NEW k \in 1 .. 3, NEW s, \A i \in 1 .. k : s[i] \in Byte
  PROVE  /\ k = 1 => gf_sum(s, k) = s[1]
         /\ k = 2 => gf_sum(s, k) = s[1] ^^ s[2]
         /\ k = 3 => gf_sum(s, k) = (s[1] ^^ s[2]) ^^ s[3]
<1>1. 0 ^^ s[1] = s[1]
  <2>1. s[1] \in Byte
    OBVIOUS
  <2> QED  BY <2>1, FieldRules
<1> QED  BY <1>1, SumUnrolled

LEMMA Distribute ==
  ASSUME NEW m \in Byte, NEW a \in Byte, NEW b \in Byte, NEW c \in Byte
  PROVE  /\ gf_mul(m, a ^^ b) = gf_mul(m, a) ^^ gf_mul(m, b)
         /\ gf_mul(m, (a ^^ b) ^^ c) = (gf_mul(m, a) ^^ gf_mul(m, b)) ^^ gf_mul(m, c)
         /\ gf_mul(a ^^ b, m) = gf_mul(a, m) ^^ gf_mul(b, m)
         /\ gf_mul((a ^^ b) ^^ c, m) = (gf_mul(a, m) ^^ gf_mul(b, m)) ^^ gf_mul(c, m)
<1>1. a ^^ b \in Byte
  BY FieldRules
<1>2. /\ gf_mul(m, a ^^ b) = gf_mul(m, a) ^^ gf_mul(m, b)
      /\ gf_mul(a ^^ b, m) = gf_mul(a, m) ^^ gf_mul(b, m)
  BY FieldRules
<1>3. /\ gf_mul(m, (a ^^ b) ^^ c) = gf_mul(m, a ^^ b) ^^ gf_mul(m, c)
      /\ gf_mul((a ^^ b) ^^ c, m) = gf_mul(a ^^ b, m) ^^ gf_mul(c, m)
  BY <1>1, FieldRules
<1> QED  BY <1>2, <1>3

\* m * (C * x) = (m * C) * x for a row m, a matrix C and a column x.
LEMMA RowTimesMatrixTimesColumn ==
  ASSUME NEW k \in 1 .. 3, NEW m \in [1 .. k -> Byte],
         NEW C \in [1 .. k -> [1 .. k -> Byte]], NEW x \in [1 .. k -> Byte]
  PROVE  gf_sum([j \in 1 .. k |->
                   gf_mul(m[j], gf_sum([l \in 1 .. k |-> gf_mul(C[j][l], x[l])], k))], k)
           = gf_sum([l \in 1 .. k |->
                       gf_mul(gf_sum([j \in 1 .. k |-> gf_mul(m[j], C[j][l])], k), x[l])], k)
<1> DEFINE rowterms(j) == [l \in 1 .. k |-> gf_mul(C[j][l], x[l])]
           colterms(l) == [j \in 1 .. k |-> gf_mul(m[j], C[j][l])]
           left        == [j \in 1 .. k |-> gf_mul(m[j], gf_sum(rowterms(j), k))]
           right       == [l \in 1 .. k |-> gf_mul(gf_sum(colterms(l), k), x[l])]
           p(j, l)     == gf_mul(gf_mul(m[j], C[j][l]), x[l])
<1>1. ASSUME NEW j \in 1 .. k, NEW l \in 1 .. k
      PROVE  /\ m[j] \in Byte /\ x[l] \in Byte /\ C[j][l] \in Byte
             /\ rowterms(j)[l] \in Byte /\ colterms(l)[j] \in Byte
             /\ p(j, l) \in Byte
             /\ gf_mul(m[j], rowterms(j)[l]) = p(j, l)
             /\ gf_mul(colterms(l)[j], x[l]) = p(j, l)
  <2>1. m[j] \in Byte /\ x[l] \in Byte /\ C[j][l] \in Byte
    OBVIOUS
  <2>2. rowterms(j)[l] = gf_mul(C[j][l], x[l]) /\ colterms(l)[j] = gf_mul(m[j], C[j][l])
    OBVIOUS
  <2>3. gf_mul(C[j][l], x[l]) \in Byte /\ gf_mul(m[j], C[j][l]) \in Byte
    BY <2>1, FieldRules
  <2>4. p(j, l) \in Byte
    BY <2>1, <2>3, BytesOfTwo
  <2>5. gf_mul(m[j], gf_mul(C[j][l], x[l])) = p(j, l)
    BY <2>1, ProductOfThree
  <2> HIDE DEF rowterms, colterms
  <2> QED  BY <2>1, <2>2, <2>3, <2>4, <2>5
<1>2. \A j \in 1 .. k : left[j] = gf_mul(m[j], gf_sum(rowterms(j), k))
  OBVIOUS
<1>3. \A l \in 1 .. k : right[l] = gf_mul(gf_sum(colterms(l), k), x[l])
  OBVIOUS
<1> HIDE DEF rowterms, colterms, left, right, p
<1>4. ASSUME NEW j \in 1 .. k
      PROVE  /\ left[j] \in Byte
             /\ k = 1 => left[j] = p(j, 1)
             /\ k = 2 => left[j] = p(j, 1) ^^ p(j, 2)
             /\ k = 3 => left[j] = (p(j, 1) ^^ p(j, 2)) ^^ p(j, 3)
  <2>1. \A l \in 1 .. k : rowterms(j)[l] \in Byte
    BY <1>1
  <2>2. gf_sum(rowterms(j), k) \in Byte /\ m[j] \in Byte
    BY <2>1, SumIsByte
  <2>3. left[j] \in Byte
    BY <1>2, <2>2, BytesOfTwo
  <2>4. CASE k = 1
    BY <1>1, <1>2, <2>1, <2>3, <2>4, SumOfBytes
  <2>5. CASE k = 2
    <3>1. gf_sum(rowterms(j), k) = rowterms(j)[1] ^^ rowterms(j)[2]
      BY <2>1, <2>5, SumOfBytes
    <3>2. rowterms(j)[1] \in Byte /\ rowterms(j)[2] \in Byte
      BY <2>1, <2>5
    <3>3. left[j] = gf_mul(m[j], rowterms(j)[1]) ^^ gf_mul(m[j], rowterms(j)[2])
      BY <1>2, <2>2, <3>1, <3>2, Distribute
    <3> QED  BY <1>1, <2>3, <2>5, <3>3
  <2>6. CASE k = 3
    <3>1. gf_sum(rowterms(j), k) = (rowterms(j)[1] ^^ rowterms(j)[2]) ^^ rowterms(j)[3]
      BY <2>1, <2>6, SumOfBytes
    <3>2. rowterms(j)[1] \in Byte /\ rowterms(j)[2] \in Byte /\ rowterms(j)[3] \in Byte
      BY <2>1, <2>6
    <3>3. left[j] = (gf_mul(m[j], rowterms(j)[1]) ^^ gf_mul(m[j], rowterms(j)[2]))
                      ^^ gf_mul(m[j], rowterms(j)[3])
      BY <1>2, <2>2, <3>1, <3>2, Distribute
    <3> QED  BY <1>1, <2>3, <2>6, <3>3
  <2> QED  BY <2>4, <2>5, <2>6
<1>5. ASSUME NEW l \in 1 .. k
      PROVE  /\ right[l] \in Byte
             /\ k = 1 => right[l] = p(1, l)
             /\ k = 2 => right[l] = p(1, l) ^^ p(2, l)
             /\ k = 3 => right[l] = (p(1, l) ^^ p(2, l)) ^^ p(3, l)
  <2>1. \A j \in 1 .. k : colterms(l)[j] \in Byte
    BY <1>1
  <2>2. gf_sum(colterms(l), k) \in Byte /\ x[l] \in Byte
    BY <2>1, SumIsByte
  <2>3. right[l] \in Byte
    BY <1>3, <2>2, BytesOfTwo
  <2>4. CASE k = 1
    BY <1>1, <1>3, <2>1, <2>3, <2>4, SumOfBytes
  <2>5. CASE k = 2
    <3>1. gf_sum(colterms(l), k) = colterms(l)[1] ^^ colterms(l)[2]
      BY <2>1, <2>5, SumOfBytes
    <3>2. colterms(l)[1] \in Byte /\ colterms(l)[2] \in Byte
      BY <2>1, <2>5
    <3>3. gf_mul(colterms(l)[1] ^^ colterms(l)[2], x[l])
            = gf_mul(colterms(l)[1], x[l]) ^^ gf_mul(colterms(l)[2], x[l])
      BY <2>2, <3>2, Distribute
    <3> QED  BY <1>1, <1>3, <2>3, <2>5, <3>1, <3>3
  <2>6. CASE k = 3
    <3>1. gf_sum(colterms(l), k) = (colterms(l)[1] ^^ colterms(l)[2]) ^^ colterms(l)[3]
      BY <2>1, <2>6, SumOfBytes
    <3>2. colterms(l)[1] \in Byte /\ colterms(l)[2] \in Byte /\ colterms(l)[3] \in Byte
      BY <2>1, <2>6
    <3>3. right[l] = (gf_mul(colterms(l)[1], x[l]) ^^ gf_mul(colterms(l)[2], x[l]))
                       ^^ gf_mul(colterms(l)[3], x[l])
      BY <1>3, <2>2, <3>1, <3>2, Distribute
    <3> QED  BY <1>1, <2>3, <2>6, <3>3
  <2> QED  BY <2>4, <2>5, <2>6
<1>6. (\A j \in 1 .. k : left[j] \in Byte) /\ (\A l \in 1 .. k : right[l] \in Byte)
  BY <1>4, <1>5
<1>7. gf_sum(left, k) = gf_sum(right, k)
  <2>1. CASE k = 1
    <3>1. gf_sum(left, k) = left[1] /\ gf_sum(right, k) = right[1]
      BY <1>6, <2>1, SumOfBytes
    <3> QED  BY <1>4, <1>5, <2>1, <3>1
  <2>2. CASE k = 2
    <3>1. gf_sum(left, k) = left[1] ^^ left[2] /\ gf_sum(right, k) = right[1] ^^ right[2]
      BY <1>6, <2>2, SumOfBytes
    <3>2. /\ left[1] = p(1, 1) ^^ p(1, 2) /\ left[2] = p(2, 1) ^^ p(2, 2)
          /\ right[1] = p(1, 1) ^^ p(2, 1) /\ right[2] = p(1, 2) ^^ p(2, 2)
      BY <1>4, <1>5, <2>2
    <3>3. p(1, 1) \in Byte /\ p(1, 2) \in Byte /\ p(2, 1) \in Byte /\ p(2, 2) \in Byte
      BY <1>1, <2>2
    <3>4. (p(1, 1) ^^ p(1, 2)) ^^ (p(2, 1) ^^ p(2, 2))
            = (p(1, 1) ^^ p(2, 1)) ^^ (p(1, 2) ^^ p(2, 2))
      BY <3>3, Interchange
    <3> QED  BY <3>1, <3>2, <3>4
  <2>3. CASE k = 3
    <3>1. /\ gf_sum(left, k) = (left[1] ^^ left[2]) ^^ left[3]
          /\ gf_sum(right, k) = (right[1] ^^ right[2]) ^^ right[3]
      BY <1>6, <2>3, SumOfBytes
    <3>2. /\ left[1] = (p(1, 1) ^^ p(1, 2)) ^^ p(1, 3)
          /\ left[2] = (p(2, 1) ^^ p(2, 2)) ^^ p(2, 3)
          /\ left[3] = (p(3, 1) ^^ p(3, 2)) ^^ p(3, 3)
      BY <1>4, <2>3
    <3>3. /\ right[1] = (p(1, 1) ^^ p(2, 1)) ^^ p(3, 1)
          /\ right[2] = (p(1, 2) ^^ p(2, 2)) ^^ p(3, 2)
          /\ right[3] = (p(1, 3) ^^ p(2, 3)) ^^ p(3, 3)
      BY <1>5, <2>3
    <3>4. /\ p(1, 1) \in Byte /\ p(1, 2) \in Byte /\ p(1, 3) \in Byte
          /\ p(2, 1) \in Byte /\ p(2, 2) \in Byte /\ p(2, 3) \in Byte
          /\ p(3, 1) \in Byte /\ p(3, 2) \in Byte /\ p(3, 3) \in Byte
      BY <1>1, <2>3
    <3> DEFINE c(l) == p(1, l) ^^ p(2, l)
    <3>5. /\ p(1, 1) ^^ p(1, 2) \in Byte /\ p(2, 1) ^^ p(2, 2) \in Byte
          /\ p(3, 1) ^^ p(3, 2) \in Byte
          /\ c(1) \in Byte /\ c(2) \in Byte /\ c(3) \in Byte
      BY <3>4, BytesOfTwo
    <3>6. left[1] ^^ left[2] = (c(1) ^^ c(2)) ^^ c(3)
      <4>1. left[1] ^^ left[2] = ((p(1, 1) ^^ p(1, 2)) ^^ (p(2, 1) ^^ p(2, 2))) ^^ c(3)
        BY <3>2, <3>4, <3>5, Interchange
      <4>2. (p(1, 1) ^^ p(1, 2)) ^^ (p(2, 1) ^^ p(2, 2)) = c(1) ^^ c(2)
        BY <3>4, Interchange
      <4> QED  BY <4>1, <4>2
    <3>7. c(1) ^^ c(2) \in Byte
      BY <3>5, BytesOfTwo
    <3>8. /\ right[1] = c(1) ^^ p(3, 1) /\ right[2] = c(2) ^^ p(3, 2)
          /\ right[3] = c(3) ^^ p(3, 3)
      BY <3>3
    <3> HIDE DEF c
    <3>9. (left[1] ^^ left[2]) ^^ left[3]
            = ((c(1) ^^ c(2)) ^^ (p(3, 1) ^^ p(3, 2))) ^^ (c(3) ^^ p(3, 3))
      BY <3>2, <3>4, <3>5, <3>6, <3>7, Interchange
    <3>10. (c(1) ^^ c(2)) ^^ (p(3, 1) ^^ p(3, 2)) = right[1] ^^ right[2]
      BY <3>4, <3>5, <3>8, Interchange
    <3> QED  BY <3>1, <3>8, <3>9, <3>10
  <2> QED  BY <2>1, <2>2, <2>3
<1> QED  BY <1>7 DEF left, right, rowterms, colterms

\* A row of the identity picks one element.
LEMMA UnitRow ==
  ASSUME NEW k \in 1 .. 3, NEW i \in 1 .. k, NEW x \in [1 .. k -> Byte]
  PROVE  gf_sum([l \in 1 .. k |-> gf_mul(IF l = i THEN 1 ELSE 0, x[l])], k) = x[i]
<1> DEFINE s == [l \in 1 .. k |-> gf_mul(IF l = i THEN 1 ELSE 0, x[l])]
<1>1. ASSUME NEW l \in 1 .. k PROVE s[l] = IF l = i THEN x[l] ELSE 0
  <2>1. s[l] = gf_mul(IF l = i THEN 1 ELSE 0, x[l]) /\ x[l] \in Byte
    OBVIOUS
  <2>2. gf_mul(0, x[l]) = 0 /\ gf_mul(1, x[l]) = x[l]
    BY <2>1, FieldRules
  <2> HIDE DEF s
  <2> QED  BY <2>1, <2>2
<1>2. \A l \in 1 .. k : x[l] \in Byte /\ s[l] \in Byte
  BY <1>1, FieldRules
<1>3. 0 \in Byte /\ x[i] \in Byte /\ 0 ^^ x[i] = x[i] /\ x[i] ^^ 0 = x[i] /\ 0 ^^ 0 = 0
  BY <1>2, FieldRules
<1> HIDE DEF s
<1>4. CASE k = 1
  <2>1. gf_sum(s, k) = s[1]
    BY <1>2, <1>4, SumOfBytes
  <2> QED  BY <1>1, <1>4, <2>1 DEF s
<1>5. CASE k = 2
  <2>1. gf_sum(s, k) = s[1] ^^ s[2]
    BY <1>2, <1>5, SumOfBytes
  <2>2. gf_sum(s, k) = x[i]
    BY <1>1, <1>3, <1>5, <2>1
  <2> QED  BY <2>2 DEF s
<1>6. CASE k = 3
  <2>1. gf_sum(s, k) = (s[1] ^^ s[2]) ^^ s[3]
    BY <1>2, <1>6, SumOfBytes
  <2>2. gf_sum(s, k) = x[i]
    BY <1>1, <1>3, <1>6, <2>1
  <2> QED  BY <2>2 DEF s
<1> QED  BY <1>4, <1>5, <1>6

----------------------------------------------------------------------------
\* A value is decoded

\* The values: whole blocks, or the last one byte short.
LEMMA DatasIs ==
  ASSUME NEW n \in Sizes, NEW d \in Datas(n)
  PROVE  LET k  == rs_x(n)
             sz == BlockSize(d, k)
         IN  /\ d \in Seq(Byte) /\ Len(d) \in Nat /\ sz \in Nat \ {0}
             /\ \/ Len(d) = k * sz
                \/ k # 1 /\ Len(d) = k * sz - 1
<1>1. rs_x(n) \in 1 .. 3
  BY Parameters
<1>2. PICK sz \in BlockSizes, short \in IF rs_x(n) = 1 THEN {0} ELSE {0, 1} :
        d \in [1 .. rs_x(n) * sz - short -> Bytes]
  BY DEF Datas
<1>3. sz \in Nat \ {0} /\ Bytes \subseteq Byte
  BY RSAssumption
<1>4. CASE rs_x(n) = 1
  <2>1. d \in [1 .. sz -> Byte]
    BY <1>2, <1>3, <1>4
  <2>2. d \in Seq(Byte) /\ Len(d) = sz
    BY <1>3, <2>1
  <2>3. BlockSize(d, 1) = sz
    BY <1>3, <2>2 DEF BlockSize
  <2> QED  BY <1>3, <1>4, <2>2, <2>3
<1>5. CASE rs_x(n) = 2
  <2>1. short \in {0, 1} /\ 2 * sz - short \in Nat
    BY <1>2, <1>3, <1>5
  <2>2. d \in [1 .. 2 * sz - short -> Byte]
    BY <1>2, <1>3, <1>5
  <2>3. d \in Seq(Byte) /\ Len(d) = 2 * sz - short
    BY <2>1, <2>2
  <2>4. BlockSize(d, 2) = sz
    BY <1>3, <2>1, <2>3 DEF BlockSize
  <2> QED  BY <1>3, <1>5, <2>1, <2>3, <2>4
<1>6. CASE rs_x(n) = 3
  <2>1. short \in {0, 1} /\ 3 * sz - short \in Nat
    BY <1>2, <1>3, <1>6
  <2>2. d \in [1 .. 3 * sz - short -> Byte]
    BY <1>2, <1>3, <1>6
  <2>3. d \in Seq(Byte) /\ Len(d) = 3 * sz - short
    BY <2>1, <2>2
  <2>4. BlockSize(d, 3) = sz
    BY <1>3, <2>1, <2>3 DEF BlockSize
  <2> QED  BY <1>3, <1>6, <2>1, <2>3, <2>4
<1> QED  BY <1>1, <1>4, <1>5, <1>6

\* Where the piece of a string ends, both read as 0.
LEMMA SubstrByteAt ==
  ASSUME NEW d \in Seq(Byte), NEW from \in Nat, NEW count \in Nat, NEW x \in 1 .. count
  PROVE  ByteAt(Substr(d, from, count), x) = ByteAt(d, from + x)
<1> DEFINE s == Substr(d, from, count)
<1>1. Len(d) \in Nat
  BY LenProperties
<1>2. /\ Len(s) = IF from + count <= Len(d) THEN count
                  ELSE IF from <= Len(d) THEN Len(d) - from ELSE 0
      /\ \A j \in 1 .. Len(s) : s[j] = d[from + j]
  BY SubstrIs
<1> HIDE DEF s
<1>3. x <= Len(s) <=> from + x <= Len(d)
  BY <1>1, <1>2
<1>4. CASE x <= Len(s)
  <2>1. x \in 1 .. Len(s)
    BY <1>1, <1>2, <1>4
  <2>2. s[x] = d[from + x]
    BY <1>2, <2>1
  <2> QED  BY <1>3, <1>4, <2>2 DEF ByteAt, s
<1>5. CASE ~ (x <= Len(s))
  BY <1>3, <1>5 DEF ByteAt, s
<1> QED  BY <1>4, <1>5

\* Block i starts after i - 1 whole blocks.
LEMMA OffsetIsNat ==
  ASSUME NEW k \in 1 .. 3, NEW i \in 1 .. k, NEW sz \in Nat
  PROVE  (i - 1) * sz \in Nat
<1>1. i \in 1 .. 3
  OBVIOUS
<1>2. CASE i = 1
  BY <1>2
<1>3. CASE i = 2
  BY <1>3
<1>4. CASE i = 3
  BY <1>4
<1> QED  BY <1>1, <1>2, <1>3, <1>4

\* Every block that is sent is its row of the code times the data.
LEMMA BlockIsRowTimesSource ==
  ASSUME NEW n \in Sizes, NEW d \in Seq(Byte), NEW r \in 0 .. n - 1,
         NEW x \in 1 .. BlockSize(d, rs_x(n))
  PROVE  LET k == rs_x(n)
         IN  ByteAt(Encoding(d, n)[r + 1], x)
               = gf_sum([l \in 1 .. k |-> gf_mul(Row(RSEncoder(n), r, k)[l],
                                                Source(d, k)[l][x])], k)
<1> DEFINE k  == rs_x(n)
           sz == BlockSize(d, k)
           u  == Row(RSEncoder(n), r, k)
           y  == [l \in 1 .. k |-> Source(d, k)[l][x]]
<1>1. k \in 1 .. 3 /\ n \in Nat /\ k <= n
  BY Parameters
<1>2. sz \in Nat
  BY <1>1, BlockSizeIsNat
<1>3. r + 1 \in 1 .. n
  BY <1>1
<1>4. CASE r < k
  <2> HIDE DEF sz
  <2>1. r + 1 \in 1 .. k /\ (r + 1) - 1 = r
    BY <1>1, <1>4
  <2>2. r * sz \in Nat
    BY <1>1, <1>2, <2>1, OffsetIsNat
  <2>3. Encoding(d, n)[r + 1] = Substr(d, r * sz, sz)
    BY <1>1, <1>3, <2>1 DEF Encoding, sz
  <2>4. ByteAt(Encoding(d, n)[r + 1], x) = ByteAt(d, r * sz + x)
    BY <1>2, <2>2, <2>3, SubstrByteAt DEF sz
  <2>5. Source(d, k)[r + 1][x] = ByteAt(d, r * sz + x)
    BY <1>1, <2>1, SourceIs DEF sz
  <2>6. y \in [1 .. k -> Byte]
    <3>1. ASSUME NEW l \in 1 .. k PROVE Source(d, k)[l][x] \in Byte
      <4>1. x \in 1 .. sz
        BY DEF sz
      <4> HIDE DEF k
      <4>2. Source(d, k)[l] \in Seq(Byte) /\ Len(Source(d, k)[l]) = sz
        BY <1>1, <1>2, SourceIs DEF sz
      <4> QED  BY <4>1, <4>2, ElementOfSeq
    <3> QED  BY <3>1
  <2>7. ASSUME NEW l \in 1 .. k PROVE u[l] = IF l = r + 1 THEN 1 ELSE 0
    <3>1. l - 1 \in 0 .. k - 1 /\ r \in 0 .. k - 1 /\ (r = l - 1 <=> l = r + 1)
      BY <1>1, <1>4
    <3>2. RSEncoder(n)[<<r, l - 1>>] = IF r = l - 1 THEN 1 ELSE 0
      BY <3>1, CodeRows
    <3>3. u[l] = RSEncoder(n)[<<r, l - 1>>]
      BY DEF Row
    <3> QED  BY <3>1, <3>2, <3>3
  <2>8. y[r + 1] = Source(d, k)[r + 1][x]
    BY <2>1
  <2>9. [l \in 1 .. k |-> gf_mul(u[l], y[l])]
          = [l \in 1 .. k |-> gf_mul(u[l], Source(d, k)[l][x])]
    OBVIOUS
  <2> HIDE DEF u, y, k
  <2>10. gf_sum([l \in 1 .. k |-> gf_mul(u[l], y[l])], k) = y[r + 1]
    <3>1. [l \in 1 .. k |-> gf_mul(u[l], y[l])]
            = [l \in 1 .. k |-> gf_mul(IF l = r + 1 THEN 1 ELSE 0, y[l])]
      BY <2>7
    <3>2. gf_sum([l \in 1 .. k |-> gf_mul(IF l = r + 1 THEN 1 ELSE 0, y[l])], k)
            = y[r + 1]
      BY <1>1, <2>1, <2>6, UnitRow
    <3> QED  BY <3>1, <3>2
  <2> QED  BY <2>4, <2>5, <2>8, <2>9, <2>10 DEF u, k
<1>5. CASE ~ (r < k)
  <2> DEFINE b == Combine(u, Source(d, k), k, sz)
  <2>1. Encoding(d, n)[r + 1] = b
    <3>1. ~ (r + 1 <= k) /\ (r + 1) - 1 = r
      BY <1>1, <1>5
    <3> QED  BY <1>3, <3>1 DEF Encoding
  <2>2. /\ Len(b) = sz
        /\ b[x] = gf_sum([l \in 1 .. k |-> gf_mul(u[l], Source(d, k)[l][x])], k)
    BY CheckBlockIs
  <2>3. ByteAt(b, x) = b[x]
    <3> HIDE DEF b
    <3> QED  BY <1>2, <2>2 DEF ByteAt
  <2> QED  BY <2>1, <2>2, <2>3
<1> QED  BY <1>1, <1>4, <1>5

\* The blocks a proposer has, <<>> where the answer is missing.
Received(d, map, n) == [i \in 1 .. n |-> IF i - 1 \in map THEN Encoding(d, n)[i] ELSE <<>>]

LEMMA ReceivedIs ==
  ASSUME NEW n \in Sizes, NEW d \in Datas(n), NEW map \in SUBSET (0 .. n - 1)
  PROVE  /\ Received(d, map, n) \in [1 .. n -> Seq(Byte)]
         /\ 0 \in map => Len(Received(d, map, n)[1]) = BlockSize(d, rs_x(n))
<1> DEFINE k  == rs_x(n)
           sz == BlockSize(d, k)
<1>1. k \in 1 .. 3 /\ n \in Nat \ {0} /\ k <= n
  BY Parameters
<1>2. /\ d \in Seq(Byte) /\ Len(d) \in Nat /\ sz \in Nat \ {0}
      /\ \/ Len(d) = k * sz
         \/ k # 1 /\ Len(d) = k * sz - 1
  BY DatasIs
<1>3. Encoding(d, n) \in Seq(Seq(Byte)) /\ Len(Encoding(d, n)) = n
  BY <1>2, EncodingIs
<1>4. Received(d, map, n) \in [1 .. n -> Seq(Byte)]
  <2>1. \A i \in 1 .. n : Encoding(d, n)[i] \in Seq(Byte)
    BY <1>3, ElementOfSeq
  <2> QED  BY <2>1 DEF Received
<1>5. ASSUME 0 \in map PROVE Len(Received(d, map, n)[1]) = sz
  <2> HIDE DEF k, sz
  <2>1. Received(d, map, n)[1] = Encoding(d, n)[1]
    BY <1>1, <1>5 DEF Received
  <2>2. Encoding(d, n)[1] = Substr(d, 0, sz)
    BY <1>1, <1>2 DEF Encoding, k, sz
  <2>3. sz <= Len(d)
    <3>1. CASE k = 1
      BY <1>2, <3>1
    <3>2. CASE k = 2
      BY <1>2, <3>2
    <3>3. CASE k = 3
      BY <1>2, <3>3
    <3> QED  BY <1>1, <3>1, <3>2, <3>3
  <2>4. Len(Substr(d, 0, sz)) = sz
    <3>1. sz \in Nat /\ 0 + sz <= Len(d)
      BY <1>2, <2>3
    <3>2. Len(Substr(d, 0, sz)) = IF 0 + sz <= Len(d) THEN sz
                                  ELSE IF 0 <= Len(d) THEN Len(d) - 0 ELSE 0
      BY <1>2, <3>1, SubstrIs
    <3> QED  BY <3>1, <3>2
  <2> QED  BY <2>1, <2>2, <2>4
<1> QED  BY <1>4, <1>5

\* The decode matrix undoes the code: a missing block is computed from the others.
LEMMA MissingBlock ==
  ASSUME NEW n \in Sizes, NEW d \in Datas(n), NEW map \in SUBSET (0 .. n - 1),
         Cardinality(map) >= rs_qr(n), 0 \in map,
         NEW i \in 1 .. rs_x(n), i - 1 \notin map
  PROVE  LET sz == BlockSize(d, rs_x(n))
             b  == Restored(Received(d, map, n), map, n)[i]
         IN  /\ Len(b) = sz
             /\ \A x \in 1 .. sz : b[x] = ByteAt(d, (i - 1) * sz + x)
<1> DEFINE k      == rs_x(n)
           sz     == BlockSize(d, k)
           blocks == Received(d, map, n)
           code   == RSEncoder(n)
           index  == Index(map, k)
           m_dec  == build_decode_matrix_into_space(code, index, k)
           m      == Row(m_dec, i - 1, k)
           b      == Restored(blocks, map, n)[i]
<1>1. k \in 1 .. 3 /\ n \in Nat \ {0} /\ k <= n
  BY Parameters
<1>2. d \in Seq(Byte) /\ sz \in Nat
  BY DatasIs
<1>3. blocks \in [1 .. n -> Seq(Byte)] /\ Len(blocks[1]) = sz
  BY ReceivedIs
<1>4. m \in [1 .. k -> Byte] /\ \A j \in 1 .. k : m[j] = m_dec[<<i - 1, j - 1>>]
  BY DecodeMatrixIs
<1>5. b = Combine(m, Taken(blocks, map, n), k, sz)
  BY <1>3 DEF Restored
<1>6. ASSUME NEW j \in 1 .. k
      PROVE  /\ index[j] \in map /\ index[j] \in 0 .. n - 1
             /\ Taken(blocks, map, n)[j] \in Seq(Byte)
             /\ Len(Taken(blocks, map, n)[j]) = sz
             /\ \A x \in 1 .. sz :
                  Taken(blocks, map, n)[j][x] = ByteAt(Encoding(d, n)[index[j] + 1], x)
  <2>1. /\ index[j] \in map /\ index[j] + 1 \in 1 .. n
        /\ Taken(blocks, map, n)[j] \in Seq(Byte)
        /\ Len(Taken(blocks, map, n)[j]) = sz
        /\ \A x \in 1 .. sz : Taken(blocks, map, n)[j][x] = ByteAt(blocks[index[j] + 1], x)
    <3> HIDE DEF blocks, sz
    <3>1. \A l \in 1 .. k :
            /\ index[l] \in map
            /\ index[l] + 1 \in 1 .. n
            /\ Len(Taken(blocks, map, n)[l]) = Len(blocks[1])
            /\ \A x \in 1 .. Len(blocks[1]) :
                 Taken(blocks, map, n)[l][x] = ByteAt(blocks[index[l] + 1], x)
      BY <1>3, TakenIs
    <3>2. Taken(blocks, map, n) \in [1 .. k -> Seq(Byte)]
      BY <1>3, TakenIs
    <3> HIDE DEF k, index
    <3> QED  BY <1>3, <3>1, <3>2
  <2>2. index[j] \in 0 .. n - 1
    BY <2>1
  <2>3. blocks[index[j] + 1] = Encoding(d, n)[index[j] + 1]
    <3>1. (index[j] + 1) - 1 = index[j]
      BY <2>2
    <3> QED  BY <2>1, <3>1 DEF Received
  <2> QED  BY <2>1, <2>2, <2>3
<1>7. /\ Len(b) = sz
      /\ \A x \in 1 .. sz :
           b[x] = gf_sum([j \in 1 .. k |-> gf_mul(m[j], Taken(blocks, map, n)[j][x])], k)
  <2> DEFINE t == Taken(blocks, map, n)
  <2>1. t \in [1 .. k -> Seq(Byte)] /\ \A j \in 1 .. k : Len(t[j]) = sz
    BY <1>3, <1>6, TakenIs
  <2>2. k \in 1 .. 3 /\ sz \in Nat /\ m \in [1 .. k -> Byte]
    BY <1>1, <1>2, <1>4
  <2> HIDE DEF t, m, k, sz
  <2>3. IsCombination(Combine(m, t, k, sz), m, t, k, sz)
    BY <2>1, <2>2, CombinationOfBlocks
  <2> QED  BY <1>5, <2>3 DEF IsCombination, t
<1>8. ASSUME NEW x \in 1 .. sz PROVE b[x] = ByteAt(d, (i - 1) * sz + x)
  <2> DEFINE y    == [l \in 1 .. k |-> Source(d, k)[l][x]]
             C    == [j \in 1 .. k |-> [l \in 1 .. k |-> code[<<index[j], l - 1>>]]]
             u(l) == gf_sum([j \in 1 .. k |-> gf_mul(m[j], C[j][l])], k)
             inner(j) == gf_sum([l \in 1 .. k |-> gf_mul(C[j][l], y[l])], k)
  <2>1. y \in [1 .. k -> Byte]
    <3>1. ASSUME NEW l \in 1 .. k PROVE Source(d, k)[l][x] \in Byte
      <4> HIDE DEF k, sz
      <4>1. Source(d, k)[l] \in Seq(Byte) /\ Len(Source(d, k)[l]) = sz
        BY <1>1, <1>2, SourceIs DEF sz
      <4> QED  BY <4>1, ElementOfSeq
    <3> QED  BY <3>1
  <2>2. C \in [1 .. k -> [1 .. k -> Byte]]
    <3>1. ASSUME NEW j \in 1 .. k, NEW l \in 1 .. k
          PROVE  code[<<index[j], l - 1>>] \in Byte
      <4>1. <<index[j], l - 1>> \in (0 .. n - 1) \X (0 .. k - 1)
        BY <1>1, <1>6
      <4> QED  BY <4>1, CodeRows
    <3> QED  BY <3>1
  <2>3. ASSUME NEW j \in 1 .. k
        PROVE  Taken(blocks, map, n)[j][x] = inner(j)
    <3>1. ByteAt(Encoding(d, n)[index[j] + 1], x)
            = gf_sum([l \in 1 .. k |-> gf_mul(Row(code, index[j], k)[l],
                                              Source(d, k)[l][x])], k)
      BY <1>2, <1>6, BlockIsRowTimesSource
    <3>2. [l \in 1 .. k |-> gf_mul(Row(code, index[j], k)[l], Source(d, k)[l][x])]
            = [l \in 1 .. k |-> gf_mul(C[j][l], y[l])]
      BY DEF Row
    <3> QED  BY <1>6, <3>1, <3>2
  <2>4. b[x] = gf_sum([j \in 1 .. k |-> gf_mul(m[j], inner(j))], k)
    <3> HIDE DEF b, m, k, inner
    <3>1. [j \in 1 .. k |-> gf_mul(m[j], Taken(blocks, map, n)[j][x])]
            = [j \in 1 .. k |-> gf_mul(m[j], inner(j))]
      BY <2>3
    <3> QED  BY <1>7, <3>1
  <2>5. gf_sum([j \in 1 .. k |-> gf_mul(m[j], inner(j))], k)
          = gf_sum([l \in 1 .. k |-> gf_mul(u(l), y[l])], k)
    <3> HIDE DEF m, k, C, y
    <3>1. k \in 1 .. 3 /\ m \in [1 .. k -> Byte]
      BY <1>1, <1>4
    <3> QED  BY <2>1, <2>2, <3>1, RowTimesMatrixTimesColumn, ZenonT(60)
  <2>6. ASSUME NEW l \in 1 .. k PROVE u(l) = IF l = i THEN 1 ELSE 0
    <3> DEFINE rows == [rc \in Square(k) |-> code[<<index[rc[1] + 1], rc[2]>>]]
    <3>1. _matmul(m_dec, rows, k, 0 .. k - 1)
            = [rc \in Square(k) |-> IF rc[1] = rc[2] THEN 1 ELSE 0]
      BY QuorumDecodes DEF Decodes
    <3>2. <<i - 1, l - 1>> \in (0 .. k - 1) \X (0 .. k - 1)
      BY <1>1
    <3>3. _matmul(m_dec, rows, k, 0 .. k - 1)[<<i - 1, l - 1>>]
            = gf_sum([j \in 1 .. k |-> gf_mul(m_dec[<<i - 1, j - 1>>],
                                              rows[<<j - 1, l - 1>>])], k)
      <4> HIDE DEF m_dec, rows, k
      <4> QED  BY <3>2 DEF _matmul
    <3>4. ASSUME NEW j \in 1 .. k
          PROVE  /\ rows[<<j - 1, l - 1>>] = C[j][l]
                 /\ m_dec[<<i - 1, j - 1>>] = m[j]
      <4>1. <<j - 1, l - 1>> \in Square(k) /\ (j - 1) + 1 = j
        BY <1>1 DEF Square
      <4>2. rows[<<j - 1, l - 1>>] = code[<<index[(j - 1) + 1], l - 1>>]
        BY <4>1
      <4> QED  BY <1>4, <4>1, <4>2
    <3>5. _matmul(m_dec, rows, k, 0 .. k - 1)[<<i - 1, l - 1>>] = u(l)
      <4> HIDE DEF m_dec, rows, k, m, C
      <4>1. [j \in 1 .. k |-> gf_mul(m_dec[<<i - 1, j - 1>>], rows[<<j - 1, l - 1>>])]
              = [j \in 1 .. k |-> gf_mul(m[j], C[j][l])]
        BY <3>4
      <4> QED  BY <3>3, <4>1
    <3>6. (i - 1 = l - 1) <=> (l = i)
      BY <1>1
    <3> HIDE DEF u, k, m_dec, rows
    <3> QED  BY <3>1, <3>2, <3>5, <3>6 DEF Square
  <2>7. gf_sum([l \in 1 .. k |-> gf_mul(u(l), y[l])], k) = y[i]
    <3> HIDE DEF u, y, k
    <3>1. [l \in 1 .. k |-> gf_mul(u(l), y[l])]
            = [l \in 1 .. k |-> gf_mul(IF l = i THEN 1 ELSE 0, y[l])]
      BY <2>6
    <3>2. i \in 1 .. k /\ k \in 1 .. 3
      BY <1>1 DEF k
    <3>3. gf_sum([l \in 1 .. k |-> gf_mul(IF l = i THEN 1 ELSE 0, y[l])], k) = y[i]
      BY <2>1, <3>2, UnitRow
    <3> QED  BY <3>1, <3>3
  <2>8. y[i] = ByteAt(d, (i - 1) * sz + x)
    BY <1>1, <1>2, SourceIs
  <2> QED  BY <2>4, <2>5, <2>7, <2>8
<1> QED  BY <1>7, <1>8

\* A block that is there is a piece of the value.
LEMMA PresentBlock ==
  ASSUME NEW n \in Sizes, NEW d \in Datas(n), NEW map \in SUBSET (0 .. n - 1),
         NEW i \in 1 .. rs_x(n), i - 1 \in map
  PROVE  LET k  == rs_x(n)
             sz == BlockSize(d, k)
             b  == Restored(Received(d, map, n), map, n)[i]
         IN  /\ Len(b) = IF i = k THEN Len(d) - (k - 1) * sz ELSE sz
             /\ \A x \in 1 .. Len(b) : b[x] = ByteAt(d, (i - 1) * sz + x)
<1> DEFINE k   == rs_x(n)
           sz  == BlockSize(d, k)
           b   == Restored(Received(d, map, n), map, n)[i]
           off == (i - 1) * sz
           s   == Substr(d, off, sz)
<1>1. k \in 1 .. 3 /\ n \in Nat \ {0} /\ k <= n
  BY Parameters
<1>2. /\ d \in Seq(Byte) /\ Len(d) \in Nat /\ sz \in Nat \ {0}
      /\ \/ Len(d) = k * sz
         \/ k # 1 /\ Len(d) = k * sz - 1
  BY DatasIs
<1>3. b = s
  <2>1. i \in 1 .. n /\ i <= k
    BY <1>1
  <2>2. b = Received(d, map, n)[i]
    BY DEF Restored
  <2>3. Received(d, map, n)[i] = Encoding(d, n)[i]
    BY <2>1 DEF Received
  <2>4. Encoding(d, n)[i] = s
    BY <2>1 DEF Encoding
  <2> QED  BY <2>2, <2>3, <2>4
<1>4. off \in Nat
  BY <1>1, <1>2, OffsetIsNat
<1> HIDE DEF b, s, sz, k
<1>5. /\ off <= Len(d)
      /\ i # k => off + sz <= Len(d)
      /\ i = k => Len(d) - off <= sz
  <2>1. CASE k = 1
    BY <1>2, <2>1 DEF k
  <2>2. CASE k = 2 /\ i = 1
    BY <1>2, <2>2
  <2>3. CASE k = 2 /\ i = 2
    BY <1>2, <2>3
  <2>4. CASE k = 3 /\ i = 1
    BY <1>2, <2>4
  <2>5. CASE k = 3 /\ i = 2
    BY <1>2, <2>5
  <2>6. CASE k = 3 /\ i = 3
    BY <1>2, <2>6
  <2>7. i \in 1 .. k
    BY DEF k
  <2> QED  BY <1>1, <2>1, <2>2, <2>3, <2>4, <2>5, <2>6, <2>7
<1>6. i = k => off = (k - 1) * sz
  OBVIOUS
<1> HIDE DEF off
<1>7. /\ Len(s) = IF off + sz <= Len(d) THEN sz ELSE IF off <= Len(d) THEN Len(d) - off ELSE 0
      /\ \A j \in 1 .. Len(s) : s[j] = d[off + j]
  BY <1>2, <1>4, SubstrIs DEF s
<1>8. Len(s) = IF i = k THEN Len(d) - off ELSE sz
  BY <1>2, <1>4, <1>5, <1>7
<1>9. ASSUME NEW x \in 1 .. Len(s) PROVE s[x] = ByteAt(d, off + x)
  <2>1. off + x <= Len(d)
    BY <1>2, <1>4, <1>5, <1>8
  <2> QED  BY <1>7, <2>1 DEF ByteAt
<1> QED  BY <1>3, <1>6, <1>8, <1>9 DEF b, k, sz, off

\* s is what is read of d from off on.
Reads(s, d, off) == \A x \in 1 .. Len(s) : s[x] = ByteAt(d, off + x)

LEMMA Join ==
  ASSUME NEW d, NEW s \in Seq(Byte), NEW t \in Seq(Byte),
         Reads(s, d, 0), Reads(t, d, Len(s))
  PROVE  s \o t \in Seq(Byte) /\ Len(s \o t) = Len(s) + Len(t) /\ Reads(s \o t, d, 0)
<1> DEFINE f == s \o t
<1>1. Len(s) \in Nat /\ Len(t) \in Nat
  BY LenProperties
<1>2. /\ f \in Seq(Byte) /\ Len(f) = Len(s) + Len(t)
      /\ \A x \in 1 .. Len(s) + Len(t) : f[x] = IF x <= Len(s) THEN s[x] ELSE t[x - Len(s)]
  BY ConcatProperties
<1> HIDE DEF f
<1>3. ASSUME NEW x \in 1 .. Len(f) PROVE f[x] = ByteAt(d, 0 + x)
  <2>1. CASE x <= Len(s)
    <3>1. x \in 1 .. Len(s) /\ f[x] = s[x]
      BY <1>1, <1>2, <2>1
    <3> QED  BY <3>1 DEF Reads
  <2>2. CASE ~ (x <= Len(s))
    <3>1. /\ x - Len(s) \in 1 .. Len(t) /\ f[x] = t[x - Len(s)]
          /\ Len(s) + (x - Len(s)) = 0 + x
      BY <1>1, <1>2, <2>2
    <3> DEFINE y == x - Len(s)
    <3>2. y \in 1 .. Len(t) /\ f[x] = t[y] /\ Len(s) + y = 0 + x
      BY <3>1
    <3> HIDE DEF y
    <3>3. t[y] = ByteAt(d, Len(s) + y)
      BY <3>2 DEF Reads
    <3> QED  BY <3>2, <3>3
  <2> QED  BY <2>1, <2>2
<1> QED  BY <1>2, <1>3 DEF f, Reads

\* What is put together is the value, or the value and a NUL.
LEMMA RestoredBytes ==
  ASSUME NEW n \in Sizes, NEW d \in Datas(n), NEW map \in SUBSET (0 .. n - 1),
         Cardinality(map) >= rs_qr(n), 0 \in map, fec = RSEncoder(n)
  PROVE  LET k  == rs_x(n)
             f  == rs_decode(Received(d, map, n), map, n)
         IN  /\ f \in Seq(Byte)
             /\ Len(f) = IF k - 1 \in map THEN Len(d) ELSE k * BlockSize(d, k)
             /\ Reads(f, d, 0)
<1> DEFINE k  == rs_x(n)
           sz == BlockSize(d, k)
           f  == rs_decode(Received(d, map, n), map, n)
           s  == Restored(Received(d, map, n), map, n)
<1>1. k \in 1 .. 3 /\ n \in Nat \ {0} /\ k <= n
  BY Parameters
<1>2. d \in Seq(Byte) /\ Len(d) \in Nat /\ sz \in Nat
  BY DatasIs
<1>3. Received(d, map, n) \in [1 .. n -> Seq(Byte)]
  BY ReceivedIs
<1>4. s \in [1 .. k -> Seq(Byte)] /\ f = FlattenSeq(s)
  BY <1>3, RestoredIs, DecodeIs
<1>5. ASSUME NEW i \in 1 .. k
      PROVE  /\ s[i] \in Seq(Byte)
             /\ Len(s[i]) = IF i = k /\ i - 1 \in map THEN Len(d) - (k - 1) * sz ELSE sz
             /\ Reads(s[i], d, (i - 1) * sz)
  <2>1. s[i] \in Seq(Byte)
    BY <1>4
  <2>2. CASE i - 1 \in map
    BY <2>1, <2>2, PresentBlock DEF Reads
  <2>3. CASE i - 1 \notin map
    BY <2>1, <2>3, MissingBlock DEF Reads
  <2> QED  BY <2>2, <2>3
<1> HIDE DEF k, sz, f, s
<1>6. CASE k = 1
  <2>1. f = s[1]
    BY <1>1, <1>4, <1>6, FlattenUnrolled, Zenon
  <2>2. (1 - 1) * sz = 0 /\ Len(d) - (1 - 1) * sz = Len(d) /\ 1 - 1 = 0 /\ 1 * sz = sz
    BY <1>2
  <2>3. /\ s[1] \in Seq(Byte)
        /\ Len(s[1]) = IF 0 \in map THEN Len(d) ELSE sz
        /\ Reads(s[1], d, 0)
    BY <1>5, <1>6, <2>2
  <2> QED  BY <1>6, <2>1, <2>2, <2>3 DEF f, k, sz
<1>7. CASE k = 2
  <2>1. f = s[1] \o s[2]
    BY <1>1, <1>4, <1>7, FlattenUnrolled, Zenon
  <2>2. /\ (1 - 1) * sz = 0 /\ (2 - 1) * sz = sz /\ 2 - 1 = 1 /\ 1 - 1 = 0
        /\ 1 \in 1 .. k /\ 2 \in 1 .. k
    BY <1>2, <1>7
  <2>3. /\ s[1] \in Seq(Byte) /\ s[2] \in Seq(Byte)
        /\ Len(s[1]) = sz
        /\ Len(s[2]) = IF 1 \in map THEN Len(d) - sz ELSE sz
        /\ Reads(s[1], d, 0) /\ Reads(s[2], d, sz)
    BY <1>5, <1>7, <2>2
  <2>4. f \in Seq(Byte) /\ Len(f) = Len(s[1]) + Len(s[2]) /\ Reads(f, d, 0)
    BY <2>1, <2>3, Join
  <2>5. Len(f) = IF 1 \in map THEN Len(d) ELSE 2 * sz
    BY <1>2, <2>3, <2>4
  <2> QED  BY <1>7, <2>2, <2>4, <2>5 DEF f, k, sz
<1>8. CASE k = 3
  <2> DEFINE g == s[1] \o s[2]
  <2>1. f = g \o s[3]
    BY <1>1, <1>4, <1>8, FlattenUnrolled, Zenon
  <2>2. /\ (1 - 1) * sz = 0 /\ (2 - 1) * sz = sz /\ (3 - 1) * sz = 2 * sz
        /\ 3 - 1 = 2 /\ 2 - 1 = 1 /\ 1 - 1 = 0
        /\ 1 \in 1 .. k /\ 2 \in 1 .. k /\ 3 \in 1 .. k
    BY <1>2, <1>8
  <2>3. /\ s[1] \in Seq(Byte) /\ s[2] \in Seq(Byte) /\ s[3] \in Seq(Byte)
        /\ Len(s[1]) = sz /\ Len(s[2]) = sz
        /\ Len(s[3]) = IF 2 \in map THEN Len(d) - 2 * sz ELSE sz
        /\ Reads(s[1], d, 0) /\ Reads(s[2], d, sz) /\ Reads(s[3], d, 2 * sz)
    BY <1>5, <1>8, <2>2
  <2>4. g \in Seq(Byte) /\ Len(g) = Len(s[1]) + Len(s[2]) /\ Reads(g, d, 0)
    BY <2>3, Join
  <2> HIDE DEF g
  <2>5. Len(g) = 2 * sz
    BY <1>2, <2>3, <2>4
  <2>6. f \in Seq(Byte) /\ Len(f) = Len(g) + Len(s[3]) /\ Reads(f, d, 0)
    BY <2>1, <2>3, <2>4, <2>5, Join
  <2>7. Len(f) = IF 2 \in map THEN Len(d) ELSE 3 * sz
    <3>1. Len(f) = 2 * sz + Len(s[3])
      BY <2>5, <2>6
    <3>2. Len(s[3]) = IF 2 \in map THEN Len(d) - 2 * sz ELSE sz
      BY <2>3
    <3> DEFINE w == 2 * sz
    <3>3. w \in Nat /\ w + sz = 3 * sz
      BY <1>2
    <3>4. CASE 2 \in map
      <4>1. Len(f) = w + (Len(d) - w)
        BY <3>1, <3>2, <3>4
      <4> HIDE DEF w
      <4> QED  BY <1>2, <3>3, <3>4, <4>1
    <3>5. CASE 2 \notin map
      BY <3>1, <3>2, <3>3, <3>5
    <3> QED  BY <3>4, <3>5
  <2> QED  BY <1>8, <2>2, <2>6, <2>7 DEF f, k, sz
<1> QED  BY <1>1, <1>6, <1>7, <1>8

LEMMA DecodedIsValue ==
  ASSUME NEW n \in Sizes, NEW d \in Datas(n), NEW map \in SUBSET (0 .. n - 1),
         Cardinality(map) >= rs_qr(n), 0 \in map, fec = RSEncoder(n)
  PROVE  \/ rs_decode(Received(d, map, n), map, n) = d
         \/ /\ Len(d) % rs_x(n) # 0 /\ rs_x(n) - 1 \notin map
            /\ rs_decode(Received(d, map, n), map, n) = Append(d, 0)
<1> DEFINE k  == rs_x(n)
           sz == BlockSize(d, k)
           f  == rs_decode(Received(d, map, n), map, n)
<1>1. k \in 1 .. 3
  BY Parameters
<1>2. /\ d \in Seq(Byte) /\ Len(d) \in Nat /\ sz \in Nat \ {0}
      /\ \/ Len(d) = k * sz
         \/ k # 1 /\ Len(d) = k * sz - 1
  BY DatasIs
<1>3. /\ f \in Seq(Byte) /\ Len(f) = IF k - 1 \in map THEN Len(d) ELSE k * sz
      /\ Reads(f, d, 0)
  BY RestoredBytes
<1> HIDE DEF k, sz, f
<1>4. CASE Len(f) = Len(d)
  <2>1. ASSUME NEW x \in 1 .. Len(f) PROVE f[x] = d[x]
    <3>1. f[x] = ByteAt(d, 0 + x) /\ 0 + x = x /\ x <= Len(d)
      BY <1>2, <1>3, <1>4 DEF Reads
    <3> QED  BY <3>1 DEF ByteAt
  <2>2. f = d
    BY <1>2, <1>3, <1>4, <2>1, SeqEqual
  <2> QED  BY <2>2 DEF f
<1>5. CASE Len(f) # Len(d)
  <2>1. k - 1 \notin map /\ Len(f) = Len(d) + 1 /\ k # 1 /\ Len(d) = k * sz - 1
    <3>1. k - 1 \notin map /\ Len(f) = k * sz /\ k # 1 /\ Len(d) = k * sz - 1
      BY <1>2, <1>3, <1>5
    <3>2. k * sz \in Nat
      BY <1>1, <1>2
    <3> QED  BY <3>1, <3>2
  <2>2. Len(d) % k # 0
    <3>1. CASE k = 2
      BY <1>2, <2>1, <3>1
    <3>2. CASE k = 3
      BY <1>2, <2>1, <3>2
    <3> QED  BY <1>1, <2>1, <3>1, <3>2
  <2>3. 0 \in Byte
    BY DEF Byte
  <2>4. /\ Append(d, 0) \in Seq(Byte) /\ Len(Append(d, 0)) = Len(d) + 1
        /\ \A x \in 1 .. Len(d) : Append(d, 0)[x] = d[x]
        /\ Append(d, 0)[Len(d) + 1] = 0
    BY <1>2, <2>3, AppendProperties
  <2>5. ASSUME NEW x \in 1 .. Len(f) PROVE f[x] = Append(d, 0)[x]
    <3>1. f[x] = ByteAt(d, x)
      <4>1. f[x] = ByteAt(d, 0 + x) /\ 0 + x = x
        BY <1>3 DEF Reads
      <4> QED  BY <4>1
    <3>2. CASE x <= Len(d)
      BY <2>1, <2>4, <3>1, <3>2 DEF ByteAt
    <3>3. CASE ~ (x <= Len(d))
      <4>1. x = Len(d) + 1
        BY <1>2, <2>1, <3>3
      <4> QED  BY <2>4, <3>1, <3>3, <4>1 DEF ByteAt
    <3> QED  BY <3>2, <3>3
  <2>6. f = Append(d, 0)
    <3>1. Len(f) = Len(Append(d, 0))
      BY <2>1, <2>4
    <3> QED  BY <1>3, <2>4, <2>5, <3>1, SeqEqual
  <2> QED  BY <2>1, <2>2, <2>6 DEF f, k
<1> QED  BY <1>4, <1>5

\* SameBlocks for any number of nodes.
Agree(a, b, n) == \A i \in 1 .. n : Padded(a[i], Len(b[1])) = Padded(b[i], Len(b[1]))

\* The NUL at the end makes no difference when the value is encoded again.
LEMMA EncodedAgain ==
  ASSUME NEW n \in Sizes, NEW d \in Datas(n), Len(d) % rs_x(n) # 0
  PROVE  /\ Append(d, 0) \in Seq(Byte)
         /\ Agree(Encoding(Append(d, 0), n), Encoding(d, n), n)
<1> DEFINE k  == rs_x(n)
           sz == BlockSize(d, k)
           e  == Append(d, 0)
<1>1. k \in 1 .. 3 /\ n \in Nat \ {0} /\ k <= n
  BY Parameters
<1>2. /\ d \in Seq(Byte) /\ Len(d) \in Nat /\ sz \in Nat \ {0}
      /\ \/ Len(d) = k * sz
         \/ k # 1 /\ Len(d) = k * sz - 1
  BY DatasIs
<1>3. /\ e \in Seq(Byte) /\ Len(e) = Len(d) + 1
      /\ \A x \in 1 .. Len(d) : e[x] = d[x]
      /\ e[Len(d) + 1] = 0
  <2>1. 0 \in Byte
    BY DEF Byte
  <2> QED  BY <1>2, <2>1, AppendProperties
<1>4. BlockSize(e, k) = sz
  <2> HIDE DEF e, k
  <2>1. CASE k = 1
    BY <1>2, <2>1 DEF k
  <2>2. CASE k = 2
    <3>1. Len(d) % 2 # 0
      BY <2>2 DEF k
    <3> QED  BY <1>2, <1>3, <2>2, <3>1 DEF BlockSize
  <2>3. CASE k = 3
    <3>1. Len(d) % 3 # 0
      BY <2>3 DEF k
    <3> QED  BY <1>2, <1>3, <2>3, <3>1 DEF BlockSize
  <2> QED  BY <1>1, <2>1, <2>2, <2>3
<1>5. ASSUME NEW x \in Nat \ {0} PROVE ByteAt(e, x) = ByteAt(d, x)
  <2> HIDE DEF e
  <2>1. CASE x <= Len(d)
    BY <1>2, <1>3, <2>1 DEF ByteAt
  <2>2. CASE x = Len(d) + 1
    BY <1>2, <1>3, <2>2 DEF ByteAt
  <2>3. CASE x > Len(d) + 1
    BY <1>2, <1>3, <2>3 DEF ByteAt
  <2> QED  BY <1>2, <2>1, <2>2, <2>3
<1>6. Source(e, k) = Source(d, k)
  <2>1. ASSUME NEW i \in 1 .. k, NEW j \in 1 .. sz
        PROVE  ByteAt(e, (i - 1) * sz + j) = ByteAt(d, (i - 1) * sz + j)
    <3>1. (i - 1) * sz \in Nat
      BY <1>1, <1>2, OffsetIsNat
    <3>2. (i - 1) * sz + j \in Nat \ {0}
      BY <1>2, <3>1
    <3> HIDE DEF e, sz, k
    <3> QED  BY <1>5, <3>2
  <2> HIDE DEF e, sz, k
  <2> QED  BY <1>4, <2>1 DEF Source, sz
<1>7. Len(Encoding(d, n)[1]) = sz
  <2>1. Encoding(d, n)[1] = Substr(d, 0, sz)
    <3>1. 1 \in 1 .. n /\ 1 <= k /\ (1 - 1) * sz = 0
      BY <1>1, <1>2
    <3> QED  BY <3>1 DEF Encoding
  <2>2. sz <= Len(d)
    <3> HIDE DEF k, sz
    <3>1. CASE k = 1
      BY <1>2, <3>1
    <3>2. CASE k = 2
      BY <1>2, <3>2
    <3>3. CASE k = 3
      BY <1>2, <3>3
    <3> QED  BY <1>1, <3>1, <3>2, <3>3
  <2> HIDE DEF k, sz
  <2>3. sz \in Nat /\ 0 + sz <= Len(d)
    BY <1>2, <2>2
  <2>4. Len(Substr(d, 0, sz)) = IF 0 + sz <= Len(d) THEN sz
                                ELSE IF 0 <= Len(d) THEN Len(d) - 0 ELSE 0
    BY <1>2, <2>3, SubstrIs
  <2> QED  BY <2>1, <2>3, <2>4
<1>8. ASSUME NEW i \in 1 .. n, NEW x \in 1 .. sz
      PROVE  ByteAt(Encoding(e, n)[i], x) = ByteAt(Encoding(d, n)[i], x)
  <2> DEFINE r == i - 1
  <2>1. r \in 0 .. n - 1 /\ r + 1 = i
    BY <1>1
  <2> HIDE DEF r, e
  <2>2. ByteAt(Encoding(d, n)[r + 1], x)
          = gf_sum([l \in 1 .. k |-> gf_mul(Row(RSEncoder(n), r, k)[l],
                                           Source(d, k)[l][x])], k)
    BY <1>2, <2>1, BlockIsRowTimesSource
  <2>3. ByteAt(Encoding(e, n)[r + 1], x)
          = gf_sum([l \in 1 .. k |-> gf_mul(Row(RSEncoder(n), r, k)[l],
                                           Source(e, k)[l][x])], k)
    BY <1>3, <1>4, <2>1, BlockIsRowTimesSource
  <2> QED  BY <1>6, <2>1, <2>2, <2>3
<1>9. ASSUME NEW i \in 1 .. n
      PROVE  Padded(Encoding(e, n)[i], sz) = Padded(Encoding(d, n)[i], sz)
  <2> HIDE DEF e, sz
  <2> QED  BY <1>8 DEF Padded
<1> QED  BY <1>3, <1>7, <1>9 DEF Agree

----------------------------------------------------------------------------
\* The invariant

LEMMA DatasAreBytes ==
  ASSUME NEW n \in Sizes, NEW d \in Datas(n)
  PROVE  d \in Seq(Bytes) /\ d \in Seq(Byte)
<1>1. d \in Seq(Byte)
  BY DatasIs
<1>2. PICK sz \in BlockSizes, short \in IF rs_x(n) = 1 THEN {0} ELSE {0, 1} :
        d \in [1 .. rs_x(n) * sz - short -> Bytes]
  BY DEF Datas
<1>3. Len(d) \in Nat /\ d \in [1 .. Len(d) -> Byte]
  BY <1>1, LenProperties
<1>4. \A i \in 1 .. Len(d) : d[i] \in Bytes
  <2>1. 1 .. Len(d) = 1 .. rs_x(n) * sz - short
    <3>1. DOMAIN d = 1 .. Len(d)
      BY <1>3
    <3>2. DOMAIN d = 1 .. rs_x(n) * sz - short
      BY <1>2
    <3> QED  BY <3>1, <3>2
  <2> QED  BY <1>2, <2>1
<1>5. d \in [1 .. Len(d) -> Bytes]
  BY <1>3, <1>4
<1> QED  BY <1>1, <1>3, <1>5

LEMMA BlocksOfIs ==
  ASSUME rs_n \in Nat \ {0}, NEW s \in Seq(Seq(Byte)), Len(s) >= rs_n
  PROVE  /\ BlocksOf(s) \in Seq(Seq(Byte)) /\ Len(BlocksOf(s)) = rs_n
         /\ Len(s) = rs_n => BlocksOf(s) = s
         /\ \A t \in Seq(Seq(Byte)) :
              /\ BlocksOf(s \o t) = BlocksOf(s)
              /\ s \o t \in Seq(Seq(Byte)) /\ Len(s \o t) = Len(s) + Len(t)
<1>1. Len(s) \in Nat /\ \A i \in 1 .. Len(s) : s[i] \in Seq(Byte)
  BY LenProperties, ElementOfSeq
<1>2. \A i \in 1 .. rs_n : s[i] \in Seq(Byte)
  BY <1>1
<1>3. BlocksOf(s) \in Seq(Seq(Byte)) /\ Len(BlocksOf(s)) = rs_n
  BY <1>2, SubSeqProperties DEF BlocksOf
<1>4. Len(s) = rs_n => BlocksOf(s) = s
  BY SubSeqFull DEF BlocksOf
<1>5. ASSUME NEW t \in Seq(Seq(Byte))
      PROVE  /\ BlocksOf(s \o t) = BlocksOf(s)
             /\ s \o t \in Seq(Seq(Byte)) /\ Len(s \o t) = Len(s) + Len(t)
  <2>1. s \o t \in Seq(Seq(Byte)) /\ Len(s \o t) = Len(s) + Len(t)
    BY ConcatProperties
  <2>2. 1 \in 1 .. Len(s) /\ rs_n \in 1 .. Len(s)
    BY <1>1
  <2>3. SubSeq(s \o t, 1, rs_n) = SubSeq(s, 1, rs_n)
    BY <2>2, SubSeqOfConcat1
  <2> QED  BY <2>1, <2>3 DEF BlocksOf
<1> QED  BY <1>3, <1>4, <1>5

\* What the coder writes for a value, and its length.
LEMMA WrittenIs ==
  ASSUME TypeOK, ValuesInv, NEW id \in Ids
  PROVE  /\ Written(id) = Encoding(data[id], rs_n)
         /\ Written(id) \in Seq(Seq(Byte)) /\ Len(Written(id)) = rs_n
         /\ data[id] \in Datas(rs_n) /\ data[id] \in Seq(Byte)
<1>1. rs_n \in Sizes /\ data[id] \in Datas(rs_n) /\ fec = RSEncoder(rs_n)
  BY DEF TypeOK, ValuesInv, Ids
<1>2. data[id] \in Seq(Byte)
  BY <1>1, DatasAreBytes
<1>3. Written(id) = Encoding(data[id], rs_n)
  BY <1>1, <1>2, EncodeIs DEF Written
<1> QED  BY <1>1, <1>2, <1>3, EncodingIs

LEMMA InitInv == Init => RSInv
<1> SUFFICES ASSUME Init PROVE RSInv
  OBVIOUS
<1> USE DEF Init
<1>1. rs_n \in Sizes /\ fec = RSEncoder(rs_n) /\ data \in [Ids -> Datas(rs_n)]
  BY DEF Ids
<1>2. ASSUME NEW id \in Ids
      PROVE  /\ data[id] \in Seq(Bytes) /\ data[id] \in Seq(Byte)
             /\ Written(id) \in Seq(Seq(Byte)) /\ Len(Written(id)) = rs_n
  <2>1. data[id] \in Datas(rs_n)
    BY <1>1
  <2>2. data[id] \in Seq(Bytes) /\ data[id] \in Seq(Byte)
    BY <1>1, <2>1, DatasAreBytes
  <2>3. Written(id) = Encoding(data[id], rs_n)
    BY <1>1, <2>2, EncodeIs DEF Written
  <2> QED  BY <1>1, <2>2, <2>3, EncodingIs
<1>3. sent["own"] = <<>> /\ sent["rival"] = Written("rival")
  BY DEF Written
<1>4. TypeOK
  <2>1. fec \in [(0 .. rs_n - 1) \X (0 .. rs_x(rs_n) - 1) -> Byte]
    BY <1>1, CodeRows
  <2>2. data \in [Ids -> Seq(Bytes)]
    BY <1>1, <1>2
  <2>3. sent["rival"] \in Seq(Seq(Byte)) /\ Len(sent["rival"]) >= rs_n
    BY <1>1, <1>2, <1>3, Parameters DEF Ids
  <2>4. <<>> \in Seq(Seq(Byte)) /\ <<>> \in Seq(Byte)
    OBVIOUS
  <2>5. 0 \in 0 .. MaxRounds /\ 1 \in 0 .. 2
    BY RSAssumption
  <2>6. sent \in [Ids -> Seq(Seq(Byte))]
    <3>1. \A id \in Ids : sent[id] \in Seq(Seq(Byte))
      BY <1>3, <2>3, <2>4 DEF Ids
    <3> QED  BY <3>1 DEF Ids
  <2> QED  BY <1>1, <1>3, <2>1, <2>2, <2>3, <2>4, <2>5, <2>6 DEF TypeOK, Ids
<1>5. ValuesInv
  BY <1>1 DEF ValuesInv, NoData
<1>6. EncoderInv
  BY <1>3 DEF EncoderInv, RivalAdopted, CleanRival, NoData
<1>7. AdoptedIsValue
  BY DEF AdoptedIsValue
<1> QED  BY <1>4, <1>5, <1>6, <1>7 DEF RSInv

\* A step that leaves the coder and the data alone leaves what is written alone.
LEMMA SameWritten ==
  ASSUME UNCHANGED <<rs_n, fec, data>>
  PROVE  \A id \in Ids : Written(id)' = Written(id)
BY DEF Written, rs_encode

LEMMA UseInitValueInv ==
  ASSUME RSInv, UseInitValue
  PROVE  RSInv'
<1> USE DEF RSInv
<1>1. /\ phase = 1 /\ rounds < MaxRounds /\ adopted = NoData
      /\ UNCHANGED <<rs_n, fec, data, sent, rs_values, encoded_data, decoded_data, adopted>>
      /\ rounds' = rounds + 1 /\ phase' = 2
      /\ curr' = [is |-> "own", data |-> data["own"]]
  BY DEF UseInitValue, InPhaseOne
<1>2. data["own"] \in Seq(Byte)
  BY WrittenIs DEF Ids
<1>3. curr' # NoData /\ curr'.is = "own" /\ curr'.data = data["own"]
  BY <1>1 DEF NoData
<1>4. TypeOK'
  BY <1>1, <1>2, <1>3, RSAssumption DEF TypeOK
<1>5. ValuesInv'
  BY <1>1, <1>2, <1>3 DEF ValuesInv, Ids
<1>6. \A id \in Ids : Written(id)' = Written(id)
  BY <1>1, SameWritten
<1>7. EncoderInv'
  BY <1>1, <1>6 DEF EncoderInv, RivalAdopted, CleanRival, SameBlocks, BlocksOf, Ids
<1>8. AdoptedIsValue'
  BY <1>1 DEF AdoptedIsValue
<1> QED  BY <1>4, <1>5, <1>7, <1>8

\* What an adoption works on: a quorum, whole blocks, and a typed result.
LEMMA AdoptFacts ==
  ASSUME RSInv, NEW id \in Ids, NEW from \in SUBSET (0 .. rs_n - 1), Adopt(id, from)
  PROVE  LET blocks  == [i \in 1 .. rs_n |-> IF i - 1 \in from THEN sent[id][i] ELSE <<>>]
             decoded == decoded_data \o rs_decode(blocks, from, rs_n)
             encoded == encoded_data \o rs_encode(decoded, rs_n)
         IN  /\ Cardinality(from) >= rs_qr(rs_n)
             /\ rs_decode(blocks, from, rs_n) \in Seq(Byte)
             /\ decoded \in Seq(Byte)
             /\ rs_encode(decoded, rs_n) = Encoding(decoded, rs_n)
             /\ Encoding(decoded, rs_n) \in Seq(Seq(Byte))
             /\ Len(Encoding(decoded, rs_n)) = rs_n
             /\ encoded \in Seq(Seq(Byte)) /\ Len(encoded) = Len(encoded_data) + rs_n
             /\ encoded # <<>> /\ Len(encoded) >= rs_n
<1> DEFINE blocks  == [i \in 1 .. rs_n |-> IF i - 1 \in from THEN sent[id][i] ELSE <<>>]
           dec     == rs_decode(blocks, from, rs_n)
           decoded == decoded_data \o dec
           enc     == rs_encode(decoded, rs_n)
           encoded == encoded_data \o enc
<1>1. rs_n \in Sizes /\ rs_n \in Nat \ {0} /\ fec = RSEncoder(rs_n)
  BY Parameters DEF RSInv, TypeOK, ValuesInv
<1>2. Cardinality(from) >= rs_qr(rs_n)
  <2>1. IsFiniteSet(0 .. rs_n - 1)
    BY <1>1, FS_Interval
  <2>2. Cardinality(from) \in Nat
    BY <2>1, FS_Subset, FS_CardinalityType
  <2>3. ~ (rs_n - Cardinality(from) > rs_f(rs_n))
    BY DEF Adopt, TooMany
  <2> QED  BY <1>1, <2>2, <2>3, Parameters
<1>3. blocks \in [1 .. rs_n -> Seq(Byte)]
  <2>1. sent[id] \in Seq(Seq(Byte)) /\ Len(sent[id]) >= rs_n
    BY DEF RSInv, TypeOK, Adopt, Reported, Ids
  <2>2. \A i \in 1 .. rs_n : sent[id][i] \in Seq(Byte)
    BY <1>1, <2>1, LenProperties, ElementOfSeq
  <2> QED  BY <2>2
<1>4. dec \in Seq(Byte)
  <2> HIDE DEF blocks
  <2> QED  BY <1>1, <1>2, <1>3, DecodeIsTyped
<1>5. decoded_data \in Seq(Byte) /\ encoded_data \in Seq(Seq(Byte))
  BY DEF RSInv, TypeOK
<1> HIDE DEF dec
<1>6. decoded \in Seq(Byte)
  BY <1>4, <1>5, ConcatProperties
<1> HIDE DEF decoded
<1>7. /\ enc = Encoding(decoded, rs_n) /\ enc \in Seq(Seq(Byte)) /\ Len(enc) = rs_n
  BY <1>1, <1>6, EncodeIs, EncodingIs
<1> HIDE DEF enc
<1>8. encoded \in Seq(Seq(Byte)) /\ Len(encoded) = Len(encoded_data) + rs_n
  BY <1>5, <1>7, ConcatProperties
<1> HIDE DEF encoded
<1>9. encoded # <<>> /\ Len(encoded) >= rs_n
  <2>1. Len(encoded_data) \in Nat
    BY <1>5, LenProperties
  <2>2. Len(encoded) >= rs_n /\ Len(encoded) # 0
    BY <1>1, <1>8, <2>1
  <2> QED  BY <2>2, EmptySeq
<1> QED  BY <1>2, <1>4, <1>6, <1>7, <1>8, <1>9 DEF encoded, enc, decoded, dec

\* A first adoption, with block 0 at hand: the value that was written.
LEMMA FirstAdoption ==
  ASSUME RSInv, NEW id \in Ids, NEW from \in SUBSET (0 .. rs_n - 1), Adopt(id, from),
         adopted = NoData, 0 \in from
  PROVE  IsValue(decoded_data', id, from)
<1> DEFINE blocks == [i \in 1 .. rs_n |-> IF i - 1 \in from THEN sent[id][i] ELSE <<>>]
           dec    == rs_decode(blocks, from, rs_n)
<1>1. rs_n \in Sizes /\ fec = RSEncoder(rs_n) /\ data[id] \in Datas(rs_n)
  BY WrittenIs DEF RSInv, TypeOK, ValuesInv
<1>2. sent[id] = Encoding(data[id], rs_n)
  <2>1. Len(sent[id]) >= rs_n /\ rs_n \in Nat \ {0}
    BY <1>1, Parameters DEF Adopt, Reported
  <2>2. sent[id] # <<>>
    BY <2>1, EmptySeq
  <2>3. sent[id] = Written(id)
    BY <2>2 DEF RSInv, EncoderInv, RivalAdopted, Ids
  <2> QED  BY <2>3, WrittenIs DEF RSInv
<1>3. blocks = Received(data[id], from, rs_n)
  BY <1>2 DEF Received
<1>4. decoded_data' = <<>> \o dec /\ dec \in Seq(Byte)
  <2>1. decoded_data' = decoded_data \o dec
    BY DEF Adopt
  <2>2. decoded_data = <<>>
    BY DEF RSInv, ValuesInv
  <2>3. dec \in Seq(Byte)
    BY AdoptFacts
  <2> QED  BY <2>1, <2>2, <2>3
<1>5. decoded_data' = rs_decode(Received(data[id], from, rs_n), from, rs_n)
  <2> HIDE DEF blocks
  <2>1. dec = rs_decode(Received(data[id], from, rs_n), from, rs_n)
    BY <1>3
  <2> HIDE DEF dec
  <2> QED  BY <1>4, <2>1, ConcatEmptySeq
<1>6. Cardinality(from) >= rs_qr(rs_n)
  BY AdoptFacts
<1> QED  BY <1>1, <1>5, <1>6, DecodedIsValue DEF IsValue

LEMMA AdoptInv ==
  ASSUME RSInv, NEW id \in Ids, NEW from \in SUBSET (0 .. rs_n - 1), Adopt(id, from)
  PROVE  RSInv'
<1> DEFINE blocks  == [i \in 1 .. rs_n |-> IF i - 1 \in from THEN sent[id][i] ELSE <<>>]
           decoded == decoded_data \o rs_decode(blocks, from, rs_n)
           encoded == encoded_data \o rs_encode(decoded, rs_n)
<1>1. /\ phase = 1 /\ rounds < MaxRounds /\ rounds' = rounds + 1
      /\ UNCHANGED <<rs_n, fec, data, sent>>
      /\ decoded_data' = decoded /\ encoded_data' = encoded /\ rs_values' = encoded
      /\ curr' = [is |-> id, data |-> decoded]
      /\ adopted' = [is |-> id, from |-> from, first |-> adopted = NoData,
                     encoder_new |-> encoded_data = <<>>]
      /\ phase' \in {0, 2}
      /\ Len(sent[id]) >= rs_n
      /\ id = "own" => adopted \in {NoData} \/ adopted.is = "own"
  BY DEF Adopt, Reported, InPhaseOne
<1>2. /\ decoded \in Seq(Byte)
      /\ encoded \in Seq(Seq(Byte)) /\ encoded # <<>> /\ Len(encoded) >= rs_n
      /\ rs_encode(decoded, rs_n) = Encoding(decoded, rs_n)
      /\ Encoding(decoded, rs_n) \in Seq(Seq(Byte))
      /\ Len(Encoding(decoded, rs_n)) = rs_n
      /\ encoded = encoded_data \o Encoding(decoded, rs_n)
  BY AdoptFacts
<1>3. rs_n \in Sizes /\ rs_n \in Nat \ {0}
  BY Parameters DEF RSInv, TypeOK
<1>4. adopted = NoData /\ 0 \in from => IsValue(decoded, id, from)
  BY <1>1, FirstAdoption
<1>5. Adopt(id, from) /\ RSInv
  OBVIOUS
<1> HIDE DEF decoded, encoded
<1>6. curr' # NoData /\ curr'.is = id /\ curr'.data = decoded
  BY <1>1 DEF NoData, Ids
<1>7. /\ adopted' # NoData /\ adopted'.is = id /\ adopted'.from = from
      /\ adopted'.first <=> adopted = NoData
      /\ adopted'.encoder_new <=> encoded_data = <<>>
  BY <1>1 DEF NoData, Ids
<1>8. TypeOK'
  <2>1. TypeOK
    BY DEF RSInv
  <2>2. rounds' \in 0 .. MaxRounds
    BY <1>1, <2>1, RSAssumption DEF TypeOK
  <2>3. curr'.is \in Ids /\ curr'.data \in Seq(Byte)
    BY <1>2, <1>6
  <2>4. \A s \in {rs_values', encoded_data', sent'["own"], sent'["rival"]} :
          s \in Seq(Seq(Byte)) /\ (s = <<>> \/ Len(s) >= rs_n)
    BY <1>1, <1>2, <2>1 DEF TypeOK
  <2>5. /\ rs_n' \in Sizes
        /\ fec' \in [(0 .. rs_n' - 1) \X (0 .. rs_x(rs_n') - 1) -> Byte]
        /\ data' \in [{"own", "rival"} -> Seq(Bytes)]
        /\ sent' \in [{"own", "rival"} -> Seq(Seq(Byte))]
    BY <1>1, <2>1 DEF TypeOK
  <2>6. decoded_data' \in Seq(Byte) /\ phase' \in 0 .. 2 /\ rs_n' = rs_n
    BY <1>1, <1>2
  <2> QED  BY <2>2, <2>3, <2>4, <2>5, <2>6 DEF TypeOK, Ids
<1>9. ValuesInv'
  <2>1. ValuesInv
    BY DEF RSInv
  <2>2. curr' \in [is : Ids, data : Seq(Byte)]
    BY <1>1, <1>2
  <2>3. adopted' \in [is : Ids, from : SUBSET (0 .. rs_n - 1),
                      first : BOOLEAN, encoder_new : BOOLEAN]
    BY <1>1
  <2> QED  BY <1>1, <1>6, <1>7, <2>1, <2>2, <2>3 DEF ValuesInv
<1>10. \A i \in Ids : Written(i)' = Written(i)
  BY <1>1, SameWritten
<1>11. EncoderInv'
  <2>1. EncoderInv
    BY DEF RSInv
  <2>2. rs_values' = encoded_data'
    BY <1>1
  <2>3. encoded_data' # <<>>
    BY <1>1, <1>2
  <2>4. ASSUME ~ RivalAdopted'
        PROVE  BlocksOf(encoded_data)' = Written("own")'
    <3>1. id = "own" /\ ~ RivalAdopted
      BY <1>1, <1>7, <2>4 DEF RivalAdopted, Ids
    <3>2. sent["own"] # <<>>
      BY <1>1, <1>3, <3>1, EmptySeq
    <3>3. encoded_data # <<>> /\ BlocksOf(encoded_data) = Written("own")
      BY <2>1, <3>1, <3>2 DEF EncoderInv
    <3>4. encoded_data \in Seq(Seq(Byte)) /\ Len(encoded_data) >= rs_n
      BY <3>3 DEF RSInv, TypeOK
    <3>5. BlocksOf(encoded) = BlocksOf(encoded_data)
      BY <1>2, <1>3, <3>4, BlocksOfIs
    <3>6. BlocksOf(encoded_data)' = BlocksOf(encoded)
      BY <1>1 DEF BlocksOf
    <3> QED  BY <1>10, <3>3, <3>5, <3>6 DEF Ids
  <2>5. ASSUME CleanRival'
        PROVE  /\ SameBlocks(BlocksOf(encoded_data), Written("rival"))'
               /\ SameBlocks(sent["rival"], Written("rival"))'
    <3>1. id = "rival" /\ adopted = NoData /\ encoded_data = <<>> /\ 0 \in from
      BY <1>7, <2>5 DEF CleanRival, RivalAdopted
    <3>2. IsValue(decoded, "rival", from)
      BY <1>4, <3>1
    <3>3. encoded = Encoding(decoded, rs_n)
      BY <1>2, <3>1, ConcatEmptySeq
    <3>4. BlocksOf(encoded) = Encoding(decoded, rs_n)
      BY <1>2, <1>3, <3>3, BlocksOfIs
    <3>5. Written("rival") = Encoding(data["rival"], rs_n) /\ data["rival"] \in Datas(rs_n)
      BY WrittenIs DEF RSInv, Ids
    <3>6. Agree(BlocksOf(encoded), Written("rival"), rs_n)
      <4>1. CASE decoded = data["rival"]
        BY <3>4, <3>5, <4>1 DEF Agree
      <4>2. CASE Len(data["rival"]) % rs_x(rs_n) # 0 /\ decoded = Append(data["rival"], 0)
        BY <1>3, <3>4, <3>5, <4>2, EncodedAgain
      <4> QED  BY <3>2, <4>1, <4>2 DEF IsValue
    <3>7. SameBlocks(BlocksOf(encoded_data), Written("rival"))'
      <4>1. BlocksOf(encoded_data)' = BlocksOf(encoded)
        BY <1>1 DEF BlocksOf
      <4>2. Written("rival")' = Written("rival") /\ rs_n' = rs_n
        BY <1>1, <1>10 DEF Ids
      <4> QED  BY <3>6, <4>1, <4>2 DEF Agree, SameBlocks
    <3>8. sent["rival"] = Written("rival")
      BY <2>1, <3>1 DEF EncoderInv, RivalAdopted
    <3>9. SameBlocks(sent["rival"], Written("rival"))'
      BY <1>1, <1>10, <3>8 DEF SameBlocks, Ids
    <3> QED  BY <3>7, <3>9
  <2>6. sent["own"]' \in {<<>>, Written("own")'}
    BY <1>1, <1>10, <2>1 DEF EncoderInv, Ids
  <2>7. ASSUME ~ RivalAdopted' PROVE sent["rival"]' = Written("rival")'
    <3>1. ~ RivalAdopted
      BY <1>1, <1>7, <2>7 DEF RivalAdopted, Ids
    <3> QED  BY <1>1, <1>10, <2>1, <3>1 DEF EncoderInv, Ids
  <2> QED  BY <2>2, <2>3, <2>4, <2>5, <2>6, <2>7 DEF EncoderInv
<1>12. AdoptedIsValue'
  <2>1. adopted'.first /\ 0 \in adopted'.from => IsValue(curr'.data, curr'.is, adopted'.from)
    BY <1>4, <1>6, <1>7
  <2>2. ASSUME adopted'.first, 0 \in adopted'.from
        PROVE  IsValue(curr.data, curr.is, adopted.from)'
    BY <1>1, <2>1, <2>2 DEF IsValue
  <2> QED  BY <2>2 DEF AdoptedIsValue
<1> QED  BY <1>8, <1>9, <1>11, <1>12 DEF RSInv

LEMMA RetryInv ==
  ASSUME RSInv, NEW id \in Ids, NEW from \in SUBSET (0 .. rs_n - 1), Retry(id, from)
  PROVE  RSInv'
<1>1. /\ rounds < MaxRounds /\ rounds' = rounds + 1
      /\ UNCHANGED <<rs_n, fec, data, sent, curr, rs_values, encoded_data, decoded_data,
                     adopted, phase>>
  BY DEF Retry, Reported, InPhaseOne
<1>2. \A i \in Ids : Written(i)' = Written(i)
  BY <1>1, SameWritten
<1>3. TypeOK'
  BY <1>1, RSAssumption DEF RSInv, TypeOK
<1>4. ValuesInv'
  BY <1>1 DEF RSInv, ValuesInv
<1>5. EncoderInv'
  BY <1>1, <1>2 DEF RSInv, EncoderInv, RivalAdopted, CleanRival, SameBlocks, BlocksOf, Ids
<1>6. AdoptedIsValue'
  BY <1>1 DEF RSInv, AdoptedIsValue, IsValue
<1> QED  BY <1>3, <1>4, <1>5, <1>6 DEF RSInv

LEMMA StutterInv ==
  ASSUME RSInv, UNCHANGED vars
  PROVE  RSInv'
<1>1. UNCHANGED <<rs_n, fec, data, sent, curr, rs_values, encoded_data, decoded_data,
                  adopted, phase, rounds>>
  BY DEF vars
<1>2. \A i \in Ids : Written(i)' = Written(i)
  BY <1>1, SameWritten
<1>3. TypeOK'
  BY <1>1 DEF RSInv, TypeOK
<1>4. ValuesInv'
  BY <1>1 DEF RSInv, ValuesInv
<1>5. EncoderInv'
  BY <1>1, <1>2 DEF RSInv, EncoderInv, RivalAdopted, CleanRival, SameBlocks, BlocksOf, Ids
<1>6. AdoptedIsValue'
  BY <1>1 DEF RSInv, AdoptedIsValue, IsValue
<1> QED  BY <1>3, <1>4, <1>5, <1>6 DEF RSInv

LEMMA AcceptRefusedInv ==
  ASSUME RSInv, AcceptRefused
  PROVE  RSInv'
<1> DEFINE values == IF rs_values # <<>> THEN rs_values
                     ELSE encoded_data \o rs_encode(curr.data, rs_n)
<1>1. /\ phase = 2 /\ phase' = 1 /\ curr' = NoData
      /\ rs_values' = values
      /\ encoded_data' = IF rs_values # <<>> THEN encoded_data ELSE values
      /\ sent' = [sent EXCEPT ![curr.is] = BlocksOf(values)]
      /\ UNCHANGED <<rs_n, fec, data, decoded_data, rounds, adopted>>
  BY DEF AcceptRefused
<1>2. TypeOK /\ ValuesInv /\ EncoderInv
  BY DEF RSInv
<1>3. rs_n \in Sizes /\ rs_n \in Nat \ {0}
  BY <1>2, Parameters DEF TypeOK
<1>4. curr # NoData /\ curr.is \in Ids /\ curr.data \in Seq(Byte)
  BY <1>1, <1>2 DEF ValuesInv
\* Either the encoder was used already, or the blocks are those of the own value.
<1>5. \/ rs_values # <<>> /\ values = rs_values /\ values = encoded_data
      \/ /\ rs_values = <<>> /\ encoded_data = <<>> /\ adopted = NoData
         /\ curr.is = "own" /\ values = Written("own")
  <2>1. rs_values = encoded_data
    BY <1>2 DEF EncoderInv
  <2>2. CASE rs_values # <<>>
    BY <2>1, <2>2
  <2>3. CASE rs_values = <<>>
    <3>1. encoded_data = <<>> /\ adopted = NoData
      BY <1>2, <2>1, <2>3 DEF EncoderInv
    <3>2. curr.is = "own" /\ curr.data = data["own"]
      BY <1>2, <1>4, <3>1 DEF ValuesInv
    <3>3. values = <<>> \o Written("own")
      BY <2>3, <3>1, <3>2 DEF Written
    <3>4. Written("own") \in Seq(Seq(Byte))
      BY <1>2, WrittenIs DEF Ids
    <3> HIDE DEF values
    <3>5. values = Written("own")
      BY <3>3, <3>4, ConcatEmptySeq
    <3> QED  BY <2>3, <3>1, <3>2, <3>5
  <2> QED  BY <2>2, <2>3
<1> HIDE DEF values
<1>6. encoded_data' = values /\ rs_values' = values
  BY <1>1, <1>5
<1>7. values \in Seq(Seq(Byte)) /\ Len(values) >= rs_n /\ values # <<>>
  <2>1. Written("own") \in Seq(Seq(Byte)) /\ Len(Written("own")) = rs_n
    BY <1>2, WrittenIs DEF Ids
  <2>2. values \in Seq(Seq(Byte)) /\ Len(values) >= rs_n
    BY <1>2, <1>3, <1>5, <2>1 DEF TypeOK
  <2> QED  BY <1>3, <2>2, EmptySeq
<1>8. BlocksOf(values) \in Seq(Seq(Byte)) /\ Len(BlocksOf(values)) = rs_n
  BY <1>3, <1>7, BlocksOfIs
<1>9. adopted # NoData => curr.is = adopted.is
  BY <1>2, <1>4 DEF ValuesInv
<1>10. adopted = NoData => curr.is = "own"
  BY <1>2, <1>4 DEF ValuesInv
<1>11. ~ RivalAdopted => BlocksOf(values) = Written("own")
  <2>1. CASE rs_values # <<>>
    BY <1>2, <1>5, <2>1 DEF EncoderInv
  <2>2. CASE rs_values = <<>>
    <3>1. Written("own") \in Seq(Seq(Byte)) /\ Len(Written("own")) = rs_n
      BY <1>2, WrittenIs DEF Ids
    <3>2. values = Written("own")
      BY <1>5, <2>2
    <3> QED  BY <1>3, <1>7, <3>1, <3>2, BlocksOfIs
  <2> QED  BY <2>1, <2>2
<1>12. CleanRival => SameBlocks(BlocksOf(values), Written("rival"))
  <2> SUFFICES ASSUME CleanRival PROVE SameBlocks(BlocksOf(values), Written("rival"))
    OBVIOUS
  <2>1. values = encoded_data
    BY <1>5 DEF CleanRival, RivalAdopted
  <2> QED  BY <1>2, <2>1 DEF EncoderInv
<1>13. curr.is = "own" <=> ~ RivalAdopted
  BY <1>4, <1>9, <1>10 DEF RivalAdopted, Ids
<1>14. /\ curr.is = "own" => sent'["own"] = BlocksOf(values) /\ sent'["rival"] = sent["rival"]
       /\ curr.is = "rival" => sent'["rival"] = BlocksOf(values) /\ sent'["own"] = sent["own"]
  <2>1. sent \in [Ids -> Seq(Seq(Byte))]
    BY <1>2 DEF TypeOK, Ids
  <2> QED  BY <1>1, <2>1 DEF Ids

<1>15. TypeOK'
  <2>1. sent' \in [{"own", "rival"} -> Seq(Seq(Byte))]
    BY <1>1, <1>2, <1>8 DEF TypeOK
  <2>2. \A s \in {rs_values', encoded_data', sent'["own"], sent'["rival"]} :
          s \in Seq(Seq(Byte)) /\ (s = <<>> \/ Len(s) >= rs_n)
    <3>1. /\ sent'["own"] \in Seq(Seq(Byte))
          /\ (sent'["own"] = <<>> \/ Len(sent'["own"]) >= rs_n)
      BY <1>2, <1>3, <1>4, <1>8, <1>14 DEF TypeOK, Ids
    <3>2. /\ sent'["rival"] \in Seq(Seq(Byte))
          /\ (sent'["rival"] = <<>> \/ Len(sent'["rival"]) >= rs_n)
      BY <1>2, <1>3, <1>4, <1>8, <1>14 DEF TypeOK, Ids
    <3> QED  BY <1>6, <1>7, <3>1, <3>2
  <2>3. /\ rs_n' = rs_n /\ rs_n \in Sizes
        /\ fec' \in [(0 .. rs_n' - 1) \X (0 .. rs_x(rs_n') - 1) -> Byte]
        /\ data' \in [{"own", "rival"} -> Seq(Bytes)]
        /\ decoded_data' \in Seq(Byte) /\ phase' \in 0 .. 2 /\ rounds' \in 0 .. MaxRounds
    BY <1>1, <1>2 DEF TypeOK
  <2> QED  BY <1>1, <2>1, <2>2, <2>3 DEF TypeOK
<1>16. ValuesInv'
  BY <1>1, <1>2 DEF ValuesInv
<1>17. \A i \in Ids : Written(i)' = Written(i)
  BY <1>1, SameWritten
<1>18. /\ RivalAdopted' <=> RivalAdopted
       /\ CleanRival' <=> CleanRival
       /\ BlocksOf(encoded_data)' = BlocksOf(values)
  BY <1>1, <1>6 DEF RivalAdopted, CleanRival, BlocksOf
<1>19. EncoderInv'
  <2>1. rs_values' = encoded_data' /\ encoded_data' # <<>>
    BY <1>6, <1>7
  <2>2. ~ RivalAdopted' => BlocksOf(encoded_data)' = Written("own")'
    BY <1>11, <1>17, <1>18 DEF Ids
  <2>3. CleanRival' => SameBlocks(BlocksOf(encoded_data), Written("rival"))'
    <3>1. Written("rival")' = Written("rival") /\ rs_n' = rs_n
      BY <1>1, <1>17 DEF Ids
    <3> QED  BY <1>12, <1>18, <3>1 DEF SameBlocks
  <2>4. sent["own"]' \in {<<>>, Written("own")'}
    <3>1. CASE curr.is = "own"
      BY <1>11, <1>13, <1>14, <1>17, <3>1 DEF Ids
    <3>2. CASE curr.is = "rival"
      BY <1>2, <1>14, <1>17, <3>2 DEF EncoderInv, Ids
    <3> QED  BY <1>4, <3>1, <3>2 DEF Ids
  <2>5. ~ RivalAdopted' => sent["rival"]' = Written("rival")'
    BY <1>2, <1>13, <1>14, <1>17, <1>18 DEF EncoderInv, Ids
  <2>6. ASSUME CleanRival' PROVE SameBlocks(sent["rival"], Written("rival"))'
    <3>1. CleanRival /\ RivalAdopted
      BY <1>18, <2>6 DEF CleanRival
    <3>2. sent["rival"]' = BlocksOf(values)
      BY <1>4, <1>13, <1>14, <3>1 DEF Ids
    <3>3. Written("rival")' = Written("rival") /\ rs_n' = rs_n
      BY <1>1, <1>17 DEF Ids
    <3> QED  BY <1>12, <3>1, <3>2, <3>3 DEF SameBlocks
  <2> QED  BY <2>1, <2>2, <2>3, <2>4, <2>5, <2>6 DEF EncoderInv
<1>20. AdoptedIsValue'
  BY <1>1 DEF AdoptedIsValue
<1> QED  BY <1>15, <1>16, <1>19, <1>20 DEF RSInv

\* The parts of RSInv hold in every reachable state.
THEOREM RSInvariant == Spec => []RSInv
<1>1. Init => RSInv
  BY InitInv
<1>2. RSInv /\ [Next]_vars => RSInv'
  <2> SUFFICES ASSUME RSInv, [Next]_vars PROVE RSInv'
    OBVIOUS
  <2>1. CASE UseInitValue
    BY <2>1, UseInitValueInv
  <2>2. ASSUME NEW id \in {"own", "rival"}, NEW from \in SUBSET (0 .. rs_n - 1),
               Adopt(id, from)
        PROVE  RSInv'
    BY <2>2, AdoptInv DEF Ids
  <2>3. ASSUME NEW id \in {"own", "rival"}, NEW from \in SUBSET (0 .. rs_n - 1),
               Retry(id, from)
        PROVE  RSInv'
    BY <2>3, RetryInv DEF Ids
  <2>4. CASE AcceptRefused
    BY <2>4, AcceptRefusedInv
  <2>5. CASE UNCHANGED vars
    BY <2>5, StutterInv
  <2> QED  BY <2>1, <2>2, <2>3, <2>4, <2>5 DEF Next
<1> QED  BY <1>1, <1>2, PTL DEF Spec

\* Every variable of the proposer of the Reed-Solomon build, the matrix and all
\* blocks included, keeps its type (rs_encoder.hpp, rs_decoder.hpp, proposer.cpp).
THEOREM TypeInvariant == Spec => []TypeOK
<1>1. RSInv => TypeOK
  BY DEF RSInv
<1> QED  BY <1>1, RSInvariant, PTL

\* What a proposer decodes first, from a quorum with block 0 in it, is the value that
\* was written, up to a NUL at the end (proposer.cpp gen_next_value, rs_decode).
THEOREM AdoptedIsValueHolds == Spec => []AdoptedIsValue
<1>1. RSInv => AdoptedIsValue
  BY DEF RSInv
<1> QED  BY <1>1, RSInvariant, PTL

\* Blocks of different rounds that were sent under the id of the own value fit
\* together (rs_msg_accept and the encoder's encoded_data_).
THEOREM OwnBlocksAgreeHolds == Spec => []OwnBlocksAgree
<1>1. RSInv => OwnBlocksAgree
  <2> SUFFICES ASSUME RSInv PROVE OwnBlocksAgree
    OBVIOUS
  <2>1. sent["own"] # <<>> => sent["own"] = rs_encode(data["own"], rs_n)
    BY DEF RSInv, EncoderInv, Written
  <2> QED  BY <2>1 DEF OwnBlocksAgree, SameBlocks
<1> QED  BY <1>1, RSInvariant, PTL

\* So do those of a rival's value that was decoded as in AdoptedIsValue and was the
\* first to be encoded.
THEOREM RivalBlocksAgreeHolds == Spec => []RivalBlocksAgree
<1>1. RSInv => RivalBlocksAgree
  <2> SUFFICES ASSUME RSInv PROVE RivalBlocksAgree
    OBVIOUS
  <2>1. CASE CleanRival
    BY <2>1 DEF RSInv, EncoderInv, RivalBlocksAgree, Written
  <2>2. CASE ~ RivalAdopted
    <3>1. sent["rival"] = rs_encode(data["rival"], rs_n)
      BY <2>2 DEF RSInv, EncoderInv, Written
    <3> QED  BY <3>1 DEF RivalBlocksAgree, SameBlocks
  <2>3. CASE RivalAdopted /\ ~ CleanRival
    BY <2>3 DEF RivalBlocksAgree, CleanRival, RivalAdopted
  <2> QED  BY <2>1, <2>2, <2>3
<1> QED  BY <1>1, RSInvariant, PTL
=============================================================================
