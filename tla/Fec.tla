-------------------------------- MODULE Fec ---------------------------------
(***************************************************************************)
(* The erasure code of libzfec (fec.cc): arithmetic in GF(2^8), a          *)
(* systematic n x k matrix made from a Vandermonde matrix, and decoding by *)
(* Gauss-Jordan elimination.  A matrix is a function on pairs <<row,       *)
(* column>> counted from 0, a block is a sequence of bytes.                *)
(***************************************************************************)
EXTENDS Integers, Sequences, FiniteSets, SequencesExt, FiniteSetsExt

Byte == 0 .. 255

\* Exclusive or of two bytes, from the lowest bit on.
xor ==
  LET bits[x \in Byte, y \in Byte] ==
        IF x = 0 THEN y ELSE ((x + y) % 2) + 2 * bits[x \div 2, y \div 2]
  IN  [x \in Byte |-> [y \in Byte |-> bits[x, y]]]

a ^^ b == xor[a][b]

\* The polynomial "101110001", lowest bit first, without x^8.
Pp == 1 + 4 + 8 + 16

\* gf_exp, filled twice: the powers of alpha.  times[x, j] is x * alpha^j; the
\* powers are reached in steps of 16, so that the recursion is not deep.
gf_exp ==
  LET times_alpha == [x \in 0 .. 255 |-> IF x < 128 THEN 2 * x
                                         ELSE (2 * (x - 128)) ^^ Pp]
      times[x \in 0 .. 255, j \in 0 .. 16] ==
        IF j = 0 THEN x ELSE times_alpha[times[x, j - 1]]
      sixteens[a \in 0 .. 15] == IF a = 0 THEN 1 ELSE times[sixteens[a - 1], 16]
  IN  [i \in 0 .. 509 |-> times[sixteens[(i % 255) \div 16], (i % 255) % 16]]

\* gf_log; 0 has a special value.
gf_log == [x \in 0 .. 255 |->
             IF x = 0 THEN 255 ELSE CHOOSE i \in 0 .. 254 : gf_exp[i] = x]

modnn(x) == x % 255

gf_mul_table ==
  [x \in Byte |-> [y \in Byte |->
     IF 0 \in {x, y} THEN 0 ELSE gf_exp[modnn(gf_log[x] + gf_log[y])]]]

gf_mul(x, y) == gf_mul_table[x][y]

inverse(x) == IF x = 0 THEN 0 ELSE gf_exp[255 - gf_log[x]]

\* The sum of s[1], ..., s[k], added up in this order.
gf_sum(s, k) ==
  LET sum[i \in 0 .. k] == IF i = 0 THEN 0 ELSE sum[i - 1] ^^ s[i]
  IN  sum[k]

----------------------------------------------------------------------------
\* Matrices

Row(m, r, k) == [i \in 1 .. k |-> m[<<r, i - 1>>]]

_matmul(a, b, k, rows) ==
  [rc \in rows \X (0 .. k - 1) |->
     gf_sum([i \in 1 .. k |-> gf_mul(a[<<rc[1], i - 1>>], b[<<i - 1, rc[2]>>])], k)]

\* The number i after i and j were exchanged.
Swap(i, j, x) == CASE x = i -> j [] x = j -> i [] OTHER -> x

\* One column of _invert_mat.  s.ipiv holds the pivots used so far, s.swaps the
\* exchanges of rows, the newest first.
PivotStep(s, col, k) ==
  LET I == 0 .. k - 1
      free(r, c) == s.m[<<r, c>>] # 0 /\ r \notin s.ipiv /\ c \notin s.ipiv
      irow == IF free(col, col) THEN col ELSE Min({r \in I : \E c \in I : free(r, c)})
      icol == IF free(col, col) THEN col ELSE Min({c \in I : free(irow, c)})
      swapped == [rc \in I \X I |-> s.m[<<Swap(irow, icol, rc[1]), rc[2]>>]]
      c == inverse(swapped[<<icol, icol>>])
      pivot_row == [x \in I |-> IF x = icol THEN c ELSE gf_mul(c, swapped[<<icol, x>>])]
      rest(r, x) == IF x = icol THEN 0 ELSE swapped[<<r, x>>]
  IN  [ ipiv  |-> s.ipiv \cup {icol},
        swaps |-> <<<<irow, icol>>>> \o s.swaps,
        m     |-> [rc \in I \X I |->
                     IF rc[1] = icol THEN pivot_row[rc[2]]
                     ELSE rest(rc[1], rc[2])
                            ^^ gf_mul(swapped[<<rc[1], icol>>], pivot_row[rc[2]])] ]

\* Gauss-Jordan: all columns, then the exchanges undone on the columns.
_invert_mat(src, k) ==
  LET s == FoldLeft(LAMBDA t, col : PivotStep(t, col, k),
                    [ipiv |-> {}, swaps |-> <<>>, m |-> src],
                    [i \in 1 .. k |-> i - 1])
      column(x) == FoldRight(LAMBDA sw, y : Swap(sw[1], sw[2], y), s.swaps, x)
  IN  [rc \in DOMAIN src |-> s.m[<<rc[1], column(rc[2])>>]]

\* The inverse of the Vandermonde matrix whose row i has the powers of p[i]:
\* c are the coefficients of the product of all (x - p[i]); dividing it by
\* (x - p[row]) gives b, and t is b at p[row].
_invert_vdm(p, k) ==
  LET multiply(c, i) ==
        [j \in 0 .. k - 1 |->
           CASE j = k - 1              -> c[j] ^^ p[i]
             [] j \in k - i .. k - 2   -> c[j] ^^ gf_mul(p[i], c[j + 1])
             [] OTHER                  -> c[j]]
      c == FoldLeft(multiply, [j \in 0 .. k - 1 |-> IF j = k - 1 THEN p[0] ELSE 0],
                    [i \in 1 .. k - 1 |-> i])
      b[row \in 0 .. k - 1, i \in 0 .. k - 1] ==
        IF i = k - 1 THEN 1 ELSE c[i + 1] ^^ gf_mul(p[row], b[row, i + 1])
      t(row) == FoldLeft(LAMBDA x, i : gf_mul(p[row], x) ^^ b[row, k - 1 - i],
                         1, [i \in 1 .. k - 1 |-> i])
  IN  IF k = 1 THEN [rc \in {<<0, 0>>} |-> 1]
      ELSE [rc \in (0 .. k - 1) \X (0 .. k - 1) |->
              gf_mul(inverse(t(rc[2])), b[rc[2], rc[1]])]

----------------------------------------------------------------------------
\* The code

\* The matrix fec_new starts from: the powers of 0, and of alpha^0, alpha^1, ...
Vandermonde(k, n) ==
  [rc \in (0 .. n - 1) \X (0 .. k - 1) |->
     IF rc[1] = 0 THEN (IF rc[2] = 0 THEN 1 ELSE 0)
     ELSE gf_exp[modnn((rc[1] - 1) * rc[2])]]

\* The encoding matrix of fec_new: its first k rows are the identity.
fec_new(k, n) ==
  LET v == Vandermonde(k, n)
      points == [i \in 0 .. k - 1 |-> IF k = 1 THEN 1 ELSE v[<<i, 1>>]]
      bottom == _matmul(v, _invert_vdm(points, k), k, k .. n - 1)
  IN  [rc \in (0 .. n - 1) \X (0 .. k - 1) |->
         CASE rc[1] >= k      -> bottom[rc]
           [] rc[1] = rc[2]   -> 1
           [] OTHER           -> 0]

\* The sum of c[i] * blocks[i] for the k blocks, byte by byte.
Combine(c, blocks, k, sz) ==
  [x \in 1 .. sz |-> gf_sum([i \in 1 .. k |-> gf_mul(c[i], blocks[i][x])], k)]

\* fec_encode: the check blocks with the numbers nums, from k blocks.
fec_encode(code, k, src, nums, sz) ==
  [i \in DOMAIN nums |-> Combine(Row(code, nums[i], k), src, k, sz)]

build_decode_matrix_into_space(code, index, k) ==
  _invert_mat([rc \in (0 .. k - 1) \X (0 .. k - 1) |-> code[<<index[rc[1] + 1], rc[2]>>]], k)

\* Mutant: the rows of the decode matrix are used in the order of the output.
BugFecDecode(code, k, inpkts, index, sz) ==
  LET m_dec == build_decode_matrix_into_space(code, index, k)
      outix(i) == Cardinality({j \in 1 .. i - 1 : index[j] >= k})
  IN  [i \in 1 .. k |-> IF index[i] < k THEN inpkts[i]
                        ELSE Combine(Row(m_dec, outix(i), k), inpkts, k, sz)]

\* fec_decode: block number i for every i < k, from the blocks whose numbers are
\* index; those that are there are not computed.
fec_decode(code, k, inpkts, index, sz) ==
  LET m_dec == build_decode_matrix_into_space(code, index, k) IN
  [i \in 1 .. k |-> IF index[i] < k THEN inpkts[i]
                    ELSE Combine(Row(m_dec, i - 1, k), inpkts, k, sz)]
=============================================================================
