------------------------------- MODULE NodePatch -------------------------------
(***************************************************************************)
(* apply_replacements of node_patch.py: a patch is a list of literal       *)
(* replacements, "evaluated against one unchanged source snapshot".        *)
(*                                                                         *)
(* Its steps as the code takes them, and below what a patch is without     *)
(* them.  NodeContent, which has a patch as a function of the content, is  *)
(* run with this one.  Texts are sequences; positions count from 1, and    *)
(* end is the first position after a match.                                *)
(***************************************************************************)
EXTENDS Integers, SequencesExt

\* Where a text stands in another, overlapping or not.
Occurrences(content, old) ==
    {i \in 1..(Len(content) - Len(old) + 1) : SubSeq(content, i, i + Len(old) - 1) = old}

\* content.find in a loop: each search starts where the last match ended.
Matches(content, old) ==
    LET from[i \in 1..Len(content) + 1] ==
          LET ahead == {j \in Occurrences(content, old) : j >= i}
          IN  IF ahead = {} THEN {}
              ELSE {Min(ahead)} \cup from[Min(ahead) + Len(old)]
    IN  from[1]

Edits(content, items) ==
    UNION {{[item |-> k, start |-> i, end |-> i + Len(items[k].old_text),
             new_text |-> items[k].new_text] : i \in Matches(content, items[k].old_text)}
           : k \in DOMAIN items}

\* edits.sort, which is stable.
Before(e, f) ==
    \/ e.start < f.start
    \/ e.start = f.start /\ e.end < f.end
    \/ e.start = f.start /\ e.end = f.end /\ e.item < f.item

Unexpected(content, items) ==
    \E k \in DOMAIN items :
        Cardinality(Matches(content, items[k].old_text)) # items[k].expected_matches

\* Neighbours only are compared.
Overlap(sorted) == \E i \in 1..(Len(sorted) - 1) : sorted[i].end > sorted[i + 1].start

\* One round of the loop over the sorted edits.
Splice(content, done, e) ==
    [text |-> done.text \o SubSeq(content, done.cursor, e.start - 1) \o e.new_text,
     cursor |-> e.end]

\* The patched text, or noMatch where NodePatchConflictError is raised.
ApplyReplacements(content, items, noMatch) ==
    LET sorted == SetToSortSeq(Edits(content, items), Before)
        done == FoldLeft(LAMBDA d, e : Splice(content, d, e), [text |-> <<>>, cursor |-> 1], sorted)
    IN  IF Unexpected(content, items) \/ Overlap(sorted) THEN noMatch
        ELSE done.text \o SubSeq(content, done.cursor, Len(content))

-----------------------------------------------------------------------------
(***************************************************************************)
(* What a patch is, without the algorithm.                                 *)
(***************************************************************************)
Disjoint(starts, len) == \A i, j \in starts : i < j => i + len <= j

\* As many occurrences as can be replaced at once.
MostMatches(content, old) ==
    Max({Cardinality(M) : M \in {S \in SUBSET Occurrences(content, old) : Disjoint(S, Len(old))}})

\* The leftmost ones: what is left out begins within one that is taken.
Leftmost(content, old) ==
    CHOOSE M \in SUBSET Occurrences(content, old) :
        /\ Disjoint(M, Len(old))
        /\ \A i \in Occurrences(content, old) \ M : \E j \in M : j < i /\ i < j + Len(old)

\* The items, with the starts of their matches, that want the letter at p.
Wanting(content, items, p) ==
    {<<k, i>> \in (DOMAIN items) \X (DOMAIN content) :
        /\ i \in Leftmost(content, items[k].old_text)
        /\ p \in i..(i + Len(items[k].old_text) - 1)}

\* Each item matches as often as expected, counted without overlap, and no two
\* items want the same letter; matches that only touch are no conflict.
Applicable(content, items) ==
    /\ \A k \in DOMAIN items : MostMatches(content, items[k].old_text) = items[k].expected_matches
    /\ \A p \in DOMAIN content : Cardinality(Wanting(content, items, p)) <= 1

\* All items at once, in the text as it was: a letter stays, or gives way with
\* its match to one new text.
ReplacedAtOnce(content, items) ==
    FlattenSeq([p \in DOMAIN content |->
        LET wanting == Wanting(content, items, p)
        IN  IF wanting = {} THEN <<content[p]>>
            ELSE LET w == CHOOSE w \in wanting : TRUE
                 IN  IF w[2] = p THEN items[w[1]].new_text ELSE <<>>])

\* apply_replacements does just that.
PatchedAtOnce(content, items, noMatch) ==
    ApplyReplacements(content, items, noMatch) =
        IF Applicable(content, items) THEN ReplacedAtOnce(content, items) ELSE noMatch

\* "The order cannot cause cascading edits": the items in another order give the
\* same text or the same refusal.
OrderIsNoMatter(content, items, noMatch) ==
    ApplyReplacements(content, Reverse(items), noMatch) = ApplyReplacements(content, items, noMatch)
=============================================================================
