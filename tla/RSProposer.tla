----------------------------- MODULE RSProposer -----------------------------
(***************************************************************************)
(* The values of one slot in the Reed-Solomon build (MODE_TYPE 1): the     *)
(* default parameters of view.cpp, the coder objects of rs_encoder.hpp and *)
(* rs_decoder.hpp, and what a Proposer does with them (proposer.cpp): each *)
(* node is sent one block of the value, and a value another proposer got   *)
(* through is put together again from the blocks in the promises.  Ballots *)
(* and quorums of answers are in module Proposer; here a promise round is  *)
(* the set of nodes that report one and the same value.                    *)
(***************************************************************************)
EXTENDS Fec, RSParameters

CONSTANTS
  Sizes,      \* the numbers of nodes looked at
  Bytes,      \* the bytes the values are made of
  BlockSizes, \* the sizes of the blocks of these values
  MaxRounds   \* bound on the promise rounds of the proposer

ASSUME RSAssumption ==
  /\ Sizes \subseteq Nat \ {0}
  /\ Bytes \subseteq Byte
  /\ BlockSizes \subseteq Nat \ {0}
  /\ MaxRounds \in Nat

\* RSEncoder(rs_x, rs_n) and RSDecoder(rs_x, rs_n) make the same matrix.
RSEncoder(n) == fec_new(rs_x(n), n)

NoData == [is |-> "NULL"]

VARIABLES
  rs_n,          \* the number of nodes
  fec,           \* the matrix of both coders, made by their constructors
  data,          \* data[id]: the value with that id; "own" is init_value_,
                 \* "rival" one that another proposer wrote to the acceptors
  curr,          \* the id and the data of curr_value_
  rs_values,     \* rs_values_
  encoded_data,  \* encoded_data_ of rs_encoder_
  decoded_data,  \* decoded_data_ of rs_decoder_
  phase,         \* 1 or 2, or 0 after an exception
  rounds,        \* promise rounds so far
  sent,          \* what the acceptors were sent: per id the list of blocks
  adopted        \* history: how curr was found

vars == <<rs_n, fec, data, curr, rs_values, encoded_data, decoded_data, phase,
          rounds, sent, adopted>>

----------------------------------------------------------------------------
\* The coder objects

\* The byte at position j of a string; the terminating NUL follows the last.
ByteAt(s, j) == IF j <= Len(s) THEN s[j] ELSE 0

Substr(s, from, count) == SubSeq(s, from + 1, IF from + count < Len(s)
                                              THEN from + count ELSE Len(s))

Padded(s, sz) == [j \in 1 .. sz |-> ByteAt(s, j)]

BlockSize(d, k) == (Len(d) + k - 1) \div k

\* The k whole blocks the coder reads for d, past its end if d is short.
Source(d, k) ==
  LET sz == BlockSize(d, k)
  IN  [i \in 1 .. k |-> [j \in 1 .. sz |-> ByteAt(d, (i - 1) * sz + j)]]

\* Mutant: the blocks of the data itself are not kept.
BugEncode(d, n) ==
  LET k == rs_x(n)
  IN  fec_encode(fec, k, Source(d, k), [i \in 1 .. n - k |-> k + i - 1], BlockSize(d, k))

\* The blocks rs_encode adds to encoded_data_ for d: those of d, as long as they
\* are, and the check blocks.
rs_encode(d, n) ==
  LET k    == rs_x(n)
      sz   == BlockSize(d, k)
      nums == [i \in 1 .. n - k |-> k + i - 1]
  IN  [i \in 1 .. k |-> Substr(d, (i - 1) * sz, sz)]
        \o fec_encode(fec, k, Source(d, k), nums, sz)

\* The numbers rs_decode takes: i itself, or the next check block that is there.
Index(map, k) ==
  LET missing(i) == Cardinality({j \in 0 .. i - 1 : j \notin map})
      check(m)   == CHOOSE r \in map :
                      r >= k /\ Cardinality({q \in map : k <= q /\ q < r}) = m
  IN  [i \in 1 .. k |-> IF i - 1 \in map THEN i - 1 ELSE check(missing(i - 1))]

\* What rs_decode adds to decoded_data_: the size of block 0 is the size of all.
rs_decode(blocks, map, n) ==
  LET k     == rs_x(n)
      sz    == Len(blocks[1])
      index == Index(map, k)
      src   == [i \in 1 .. k |-> Padded(blocks[index[i] + 1], sz)]
      out   == fec_decode(fec, k, src, index, sz)
  IN  FlattenSeq([i \in 1 .. k |-> IF i - 1 \in map THEN blocks[i] ELSE out[i]])

----------------------------------------------------------------------------
\* The proposer

\* Values as long as their blocks, or one byte shorter, where reading past the end
\* of the string meets its NUL and nothing else.
Datas(n) ==
  UNION {[1 .. rs_x(n) * sz - short -> Bytes] :
           sz \in BlockSizes, short \in IF rs_x(n) = 1 THEN {0} ELSE {0, 1}}

Init ==
  /\ rs_n \in Sizes
  /\ fec = RSEncoder(rs_n)
  /\ data \in [{"own", "rival"} -> Datas(rs_n)]
  /\ curr = NoData
  /\ rs_values = <<>> /\ encoded_data = <<>> /\ decoded_data = <<>>
  /\ phase = 1 /\ rounds = 0
  /\ sent = [id \in {"own", "rival"} |->
               IF id = "own" THEN <<>> ELSE rs_encode(data[id], rs_n)]
  /\ adopted = NoData

InPhaseOne ==
  /\ phase = 1
  /\ rounds < MaxRounds
  /\ rounds' = rounds + 1
  /\ UNCHANGED <<rs_n, fec, data, sent>>

\* No promise of any round reported a value: the own one.
UseInitValue ==
  /\ InPhaseOne
  /\ adopted = NoData
  /\ curr' = [is |-> "own", data |-> data["own"]]
  /\ phase' = 2
  /\ UNCHANGED <<rs_values, encoded_data, decoded_data, adopted>>

TooMany(lost_num) == lost_num > rs_f(rs_n)

\* The promises of the nodes in from report the value id, and it has the highest
\* ballot.  What a rival wrote after the own value is not followed by that again.
Reported(id, from) ==
  /\ InPhaseOne
  /\ Len(sent[id]) >= rs_n
  /\ id = "own" => adopted \in {NoData} \/ adopted.is = "own"
  /\ from # {}

\* Substr throws when a block begins past the end of the string.
Throws(d) == Len(d) < (rs_x(rs_n) - 1) * BlockSize(d, rs_x(rs_n))

\* The value is decoded, and encoded again to be sent on.  An exception ends the
\* event loop (Commo::start): phase 0.  (Only a value that was decoded wrongly is
\* so short, or needs bytes that lie past its NUL: the model reads zeros there.)
Adopt(id, from) ==
  LET blocks  == [i \in 1 .. rs_n |-> IF i - 1 \in from THEN sent[id][i] ELSE <<>>]
      decoded == decoded_data \o rs_decode(blocks, from, rs_n)
      encoded == encoded_data \o rs_encode(decoded, rs_n)
  IN
  /\ Reported(id, from)
  /\ ~ TooMany(rs_n - Cardinality(from))
  /\ decoded_data' = decoded
  /\ encoded_data' = encoded
  /\ rs_values' = encoded
  /\ curr' = [is |-> id, data |-> decoded]
  /\ adopted' = [is |-> id, from |-> from, first |-> adopted = NoData,
                 encoder_new |-> encoded_data = <<>>]
  /\ phase' = IF Throws(decoded) THEN 0 ELSE 2

\* Too few blocks: RESTART.
Retry(id, from) ==
  /\ Reported(id, from)
  /\ TooMany(rs_n - Cardinality(from))
  /\ UNCHANGED <<curr, rs_values, encoded_data, decoded_data, adopted, phase>>

\* Mutant: what the encoder returned last is sent.
BugBlocksOf(values) == SubSeq(values, Len(values) - rs_n + 1, Len(values))

\* The blocks rs_msg_accept sends, one to each node.
BlocksOf(values) == SubSeq(values, 1, rs_n)

\* rs_msg_accept, and then the round is refused: restart_msg_prepare.
AcceptRefused ==
  LET values == IF rs_values # <<>> THEN rs_values
                ELSE encoded_data \o rs_encode(curr.data, rs_n)
  IN
  /\ phase = 2
  /\ rs_values' = values
  /\ encoded_data' = IF rs_values # <<>> THEN encoded_data ELSE values
  /\ sent' = [sent EXCEPT ![curr.is] = BlocksOf(values)]
  /\ curr' = NoData
  /\ phase' = 1
  /\ UNCHANGED <<rs_n, fec, data, decoded_data, rounds, adopted>>

Next ==
  \/ UseInitValue
  \/ \E id \in {"own", "rival"}, from \in SUBSET (0 .. rs_n - 1) :
       Adopt(id, from) \/ Retry(id, from)
  \/ AcceptRefused

Spec == Init /\ [][Next]_vars

----------------------------------------------------------------------------
\* Properties

\* Every variable holds what the code can put there.
TypeOK ==
  /\ rs_n \in Sizes
  /\ fec \in [(0 .. rs_n - 1) \X (0 .. rs_x(rs_n) - 1) -> Byte]
  /\ data \in [{"own", "rival"} -> Seq(Bytes)]
  /\ curr = NoData \/ (curr.is \in {"own", "rival"} /\ curr.data \in Seq(Byte))
  /\ sent \in [{"own", "rival"} -> Seq(Seq(Byte))]
  /\ \A s \in {rs_values, encoded_data, sent["own"], sent["rival"]} :
       s \in Seq(Seq(Byte)) /\ (s = <<>> \/ Len(s) >= rs_n)
  /\ decoded_data \in Seq(Byte)
  /\ phase \in 0 .. 2 /\ rounds \in 0 .. MaxRounds

\* The data is the value of id, except that a short value whose last block was
\* computed gets a NUL at its end.
IsValue(d, id, from) ==
  \/ d = data[id]
  \/ /\ Len(data[id]) % rs_x(rs_n) # 0
     /\ rs_x(rs_n) - 1 \notin from
     /\ d = Append(data[id], 0)

\* The first value that a proposer decodes, from enough blocks with block 0 among
\* them, is the one that was written: the matrices of the two coders fit, for
\* every choice of the missing blocks.
AdoptedIsValue ==
  curr # NoData /\ adopted # NoData =>
    (curr.is = adopted.is /\ adopted.first /\ 0 \in adopted.from
       => IsValue(curr.data, curr.is, adopted.from))

SameBlocks(a, b) ==
  \A i \in 1 .. rs_n : Padded(a[i], Len(b[1])) = Padded(b[i], Len(b[1]))

\* All blocks that were ever sent under the id of the own value are blocks of that
\* value, whatever was decoded and encoded in between: the acceptors may mix blocks
\* of different rounds.
OwnBlocksAgree ==
  sent["own"] # <<>> => SameBlocks(sent["own"], rs_encode(data["own"], rs_n))

\* The same for the value of a rival, only when it was adopted as in AdoptedIsValue
\* and before the encoder was used.
RivalBlocksAgree ==
  \/ /\ adopted # NoData /\ adopted.is = "rival"
     /\ ~ (0 \in adopted.from /\ adopted.first /\ adopted.encoder_new)
  \/ SameBlocks(sent["rival"], rs_encode(data["rival"], rs_n))

\* What fec.h says of the code: k is "the number of blocks required to
\* reconstruct".  A proposer that decodes for the first time, from at least that
\* many blocks, has the value that was written.
EnoughBlocksReconstruct ==
  curr # NoData /\ adopted # NoData =>
    (curr.is = adopted.is /\ adopted.first
       => IsValue(curr.data, curr.is, adopted.from))
=============================================================================
