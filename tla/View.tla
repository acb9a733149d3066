-------------------------------- MODULE View --------------------------------
(***************************************************************************)
(* The static configuration every node reads (view.cpp) and what follows   *)
(* from it for message delivery (commo.cpp): which nodes a broadcast       *)
(* addresses in each build mode, and which nodes an NDN Interest can       *)
(* reach.                                                                  *)
(***************************************************************************)
EXTENDS Integers, FiniteSets, RSParameters

CONSTANTS
  NodesSize,   \* number of configured hosts
  MODE_TYPE,   \* build mode: 0 basic, 1 Reed-Solomon, 2 multi (master skips phase 1),
               \* 3 quorum
  MasterOf,    \* MasterOf[n]: the master_id in the configuration node n loaded
  Values,      \* identities of the values handed to Captain::commit
  NULL         \* the C++ null pointer

\* node_id_t is uint16_t.  A ballot (and a value id) is a 48-bit counter
\* shifted left by 16 bits, plus the node's identity.
BallotStep == 65536

Nodes == 0 .. NodesSize - 1

\* One node takes the thread-pool path of broadcast_msg; this module and those
\* that use it are about two nodes or more.  In the multi mode the master skips
\* phase 1 and every node pre-promises that ballot, so all nodes must have been
\* given the same master.
ASSUME ViewAssumption ==
  /\ NodesSize \in Nat
  /\ 2 <= NodesSize
  /\ NodesSize <= BallotStep
  /\ MODE_TYPE \in {0, 1, 2, 3}
  /\ MasterOf \in [Nodes -> Nodes]
  /\ MODE_TYPE = 2 => \A n, m \in Nodes : MasterOf[n] = MasterOf[m]
  /\ NULL \notin Values

\* ceil((size_ + 1) / 2.0)
quorum_size == (NodesSize + 2) \div 2

\* qr_ and qw_ of every Proposer: the answers it needs in either phase.
qr == IF MODE_TYPE = 1 THEN rs_qr(NodesSize) ELSE quorum_size

if_master(n) == MasterOf[n] = n

Masters == {n \in Nodes : if_master(n)}

\* Mutant: the first copy of a TEACH is not sent.
BugTargets(type) ==
  IF MODE_TYPE < 2 THEN Nodes
  ELSE IF type = "TEACH" THEN quorum_size + 1 .. NodesSize - 1
  ELSE 0 .. quorum_size - 1

\* The nodes broadcast_msg addresses, the sender included.
Targets(type) ==
  IF MODE_TYPE < 2 THEN Nodes
  ELSE IF type = "TEACH" THEN quorum_size .. NodesSize - 1
  ELSE 0 .. quorum_size - 1

\* A master registers the client prefix and NOT its own host name: Interests
\* sent to a master's host name reach nobody.
Listeners == {n \in Nodes : ~ if_master(n)}

\* The nodes that can receive an Interest of a broadcast by n.
Reach(n, type) == {m \in Targets(type) \ {n} : m \in Listeners}

\* The ballots a node can generate in at most maxRound rounds.
BallotsOf(n, maxRound) == {r * BallotStep + n : r \in 1 .. maxRound}
=============================================================================
