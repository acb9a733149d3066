---------------------------- MODULE RSInvariants ----------------------------
(***************************************************************************)
(* What the proofs about RSProposer need: two facts about the tables and   *)
(* matrices of the code, which TLC computes, and the inductive invariant.  *)
(***************************************************************************)
EXTENDS RSProposer

\* The tables are those of a field: what decoding uses of it.
ASSUME FieldAssumption ==
  /\ \A x, y \in Byte : /\ x ^^ y \in Byte /\ x ^^ y = y ^^ x
                        /\ gf_mul(x, y) \in Byte /\ gf_mul(x, y) = gf_mul(y, x)
  /\ \A x \in Byte : 0 ^^ x = x /\ gf_mul(0, x) = 0 /\ gf_mul(1, x) = x
  /\ \A x, y, z \in Byte :
       /\ (x ^^ y) ^^ z = x ^^ (y ^^ z)
       /\ gf_mul(gf_mul(x, y), z) = gf_mul(x, gf_mul(y, z))
       /\ gf_mul(x, y ^^ z) = gf_mul(x, y) ^^ gf_mul(x, z)

Square(k) == (0 .. k - 1) \X (0 .. k - 1)

\* With this code and the blocks of the nodes in map, rs_decode takes blocks that
\* are there, those of the data at their own places, and fec_decode inverts their
\* rows of the code.
Decodes(code, map, k) ==
  LET index == Index(map, k)
      rows  == [rc \in Square(k) |-> code[<<index[rc[1] + 1], rc[2]>>]]
      m_dec == build_decode_matrix_into_space(code, index, k)
  IN  /\ index \in [1 .. k -> map]
      /\ \A i \in 1 .. k : index[i] < k => index[i] = i - 1
      /\ m_dec \in [Square(k) -> Byte]
      /\ _matmul(m_dec, rows, k, 0 .. k - 1)
           = [rc \in Square(k) |-> IF rc[1] = rc[2] THEN 1 ELSE 0]

\* For every number of nodes looked at, the matrix of the coders holds bytes, and
\* what any quorum has is decoded.
ASSUME CodeAssumption ==
  \A n \in Sizes :
    LET code == RSEncoder(n) IN
    /\ code \in [(0 .. n - 1) \X (0 .. rs_x(n) - 1) -> Byte]
    /\ \A map \in SUBSET (0 .. n - 1) :
         Cardinality(map) >= rs_qr(n) => Decodes(code, map, rs_x(n))

----------------------------------------------------------------------------
\* The inductive invariant

Ids == {"own", "rival"}

RivalAdopted == adopted # NoData /\ adopted.is = "rival"

\* The rival's value was adopted from block 0 and others, before anything else was
\* decoded or encoded.
CleanRival ==
  RivalAdopted /\ 0 \in adopted.from /\ adopted.first /\ adopted.encoder_new

Written(id) == rs_encode(data[id], rs_n)

\* curr and adopted, and what phase says about them.
ValuesInv ==
  /\ fec = RSEncoder(rs_n)
  /\ data \in [Ids -> Datas(rs_n)]
  /\ curr = NoData <=> phase = 1
  /\ curr = NoData \/ curr \in [is : Ids, data : Seq(Byte)]
  /\ adopted = NoData \/ adopted \in [is : Ids, from : SUBSET (0 .. rs_n - 1),
                                      first : BOOLEAN, encoder_new : BOOLEAN]
  /\ adopted = NoData =>
       decoded_data = <<>> /\ curr \in {NoData, [is |-> "own", data |-> data["own"]]}
  /\ adopted # NoData /\ curr # NoData => curr.is = adopted.is

\* The encoder only ever appends, and the first blocks are the ones that are sent.
\* After a rival's value was adopted the own one never comes back.
EncoderInv ==
  /\ rs_values = encoded_data
  /\ adopted # NoData \/ sent["own"] # <<>> => encoded_data # <<>>
  /\ ~ RivalAdopted /\ encoded_data # <<>> => BlocksOf(encoded_data) = Written("own")
  /\ CleanRival => SameBlocks(BlocksOf(encoded_data), Written("rival"))
  /\ sent["own"] \in {<<>>, Written("own")}
  /\ ~ RivalAdopted => sent["rival"] = Written("rival")
  /\ CleanRival => SameBlocks(sent["rival"], Written("rival"))

\* What the proposer knows of a value, what its coders kept and what it sent fit
\* each other, in every state: the blocks it adopts from are right because the
\* values it adopted before were.
RSInv == TypeOK /\ ValuesInv /\ EncoderInv /\ AdoptedIsValue
=============================================================================
