----------------------------- MODULE MCNodeTree -----------------------------
(***************************************************************************)
(* NodeTree on a small vault.  Two requests at a time suffice to age a     *)
(* check; the ids that are neither the root nor a source are alike.        *)
(***************************************************************************)
EXTENDS NodeTree, TLC

Symmetry == Permutations(Sessions) \cup Permutations(Nodes \ (Sources \cup {Root}))

\* The runs stop at the first call committed on an aged check, or on none: what
\* they say is about the states before, and about that call.  Nor do calls begin
\* and go on beside one whose check has aged: it could as well have been abandoned
\* before it aged, as far as the states with ~ unchecked are concerned.
Checked == ~ unchecked /\ (aged = {} \/ Busy \subseteq aged)
=============================================================================
