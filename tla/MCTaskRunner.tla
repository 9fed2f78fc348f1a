---------------------------- MODULE MCTaskRunner ----------------------------
(***************************************************************************)
(* TaskRunner on a branch of three nodes: the leaf l under m under the     *)
(* selected root.                                                          *)
(***************************************************************************)
EXTENDS TaskRunner, TLC

CONSTANTS root, m, l

MCNodes == {root, m, l}
MCTarget == [t \in Rollups |-> IF t = 1 THEN m ELSE root]
MCFirstChildren == [n \in MCNodes |-> CASE n = root -> {m} [] n = m -> {l} [] OTHER -> {}]
WriteRoot == [tool |-> "write_node", node |-> root]
MCWrites == {WriteRoot, [tool |-> "other", node |-> l]}
MCEndWrites == {WriteRoot}
RunnerSymmetry == Permutations(Runners)
MCMoves == {<<l, root>>}
=============================================================================
