--------------------------- MODULE MCNodeContent ---------------------------
(***************************************************************************)
(* NodeContent on a small node: two bodies, a replacement list that turns  *)
(* the first into the second, and one that turns the second into the first *)
(* but does not match the first.  What a list makes of a body is computed  *)
(* by NodePatch, and NodePatch is compared with what it promises.          *)
(***************************************************************************)
EXTENDS NodeContent

CONSTANTS t1, t2, a, b

NodePatch == INSTANCE NodePatch

MCTitles == {t1, t2}
MCContents == {<<a, a, a>>, <<b, a>>}
MCFirstDoc == [title |-> t1, content |-> <<a, a, a>>]

Item(old, new, expected) == [old_text |-> old, new_text |-> new, expected_matches |-> expected]

MCReplacements == {<<Item(<<a, a>>, <<b>>, 1)>>, <<Item(<<a>>, <<a, a>>, 1), Item(<<b>>, <<a>>, 1)>>}

MCApply ==
    [p \in MCContents \X MCReplacements |-> NodePatch!ApplyReplacements(p[1], p[2], NoMatch)]

\* Texts of up to four letters, patches of one or two items.
Texts(n) == UNION {[1..k -> {a, b}] : k \in 0..n}
Items == {Item(old, new, e) : old \in Texts(3) \ {<<>>}, new \in {<<>>, <<a>>}, e \in 1..2}
Patches == {<<i>> : i \in Items} \cup (Items \X Items)

\* node_patch.py:28, "New text is never searched again, so the order cannot cause
\* cascading edits": a patch is refused exactly if an item does not match as
\* often as expected or two items want the same letter, and else replaces all
\* matches at once, in whatever order the items are given.
ASSUME PatchAssumption ==
    \A text \in Texts(4), items \in Patches :
        /\ NodePatch!PatchedAtOnce(text, items, NoMatch)
        /\ NodePatch!OrderIsNoMatter(text, items, NoMatch)
=============================================================================
