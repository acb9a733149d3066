---------------------------- MODULE RSParameters ----------------------------
(***************************************************************************)
(* The parameters of the Reed-Solomon build that View::View computes for n *)
(* nodes when the configuration has no rs section (view.cpp).              *)
(***************************************************************************)
EXTENDS Integers

\* The number of blocks that make a value.
rs_x(n) == CASE n = 1 -> 1 [] n # 1 /\ n % 2 = 0 -> 2 [] OTHER -> 3

\* The quorum of both phases (rs_qw is the same), so large that two quorums share
\* as many nodes as a value has blocks.
rs_qr(n) == (n + rs_x(n)) \div 2

\* The number of nodes that may be missing.
rs_f(n) == n - rs_qr(n)
=============================================================================
