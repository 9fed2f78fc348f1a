----------------------------- MODULE MCVaultAccess -----------------------------
(***************************************************************************)
(* A small instance of VaultAccess.                                        *)
(***************************************************************************)
EXTENDS VaultAccess, TLC

CONSTANTS ann, ben, bot, n

Symmetry == Permutations(Sessions)

\* A name somebody typed, and the one an inherited vault of ben's gets beside
\* it; that of a vault of ann's is too long.
MCNames == {<<n>>, <<n, ben>>}
MCTooLong == {<<n, ann>>}
=============================================================================
