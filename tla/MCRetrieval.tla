----------------------------- MODULE MCRetrieval -----------------------------
(***************************************************************************)
(* Small vaults for Retrieval: four ids of which one may be free, two      *)
(* titles of which the second holds the first, one image.                  *)
(***************************************************************************)
EXTENDS Retrieval

MCTitleHas(t, q) == q <= t

\* Forests: a chain, a star, and two trees.
MCParents == {<<0, 1, 2, 3>>, <<0, 1, 1, 1>>, <<0, 1, 0, 3>>}

MCPolicies ==
    {<<0, 0, 0, 0>>, <<0, 2, 0, 0>>, <<0, 0, 1, 0>>, <<0, 1, 0, 2>>, <<0, 0, 0, 2>>,
     <<2, 0, 0, 0>>}

MCTitles == {<<1, 2, 1, 2>>, <<1, 1, 2, 2>>}

Id(n) == [kind |-> "uuid", to |-> n]
Title(t) == [kind |-> "title", to |-> t]
Image == [kind |-> "image", to |-> 1]

MCTexts ==
    {<<<<Id(4)>>, <<Image>>, <<Id(2), Id(2)>>, <<Title(2), Image>>>>,
     <<<<Title(2), Id(3)>>, <<Title(1), Id(1)>>, <<>>, <<Id(1)>>>>,
     <<<<>>, <<Id(4), Title(1)>>, <<Image, Id(2)>>, <<Title(2), Image>>>>,
     <<<<Id(3), Id(4)>>, <<Image>>, <<Title(1), Id(4)>>, <<>>>>}

\* An image and a title that only a summary has.
MCSummaries == {<<<<>>, <<>>, <<Image>>, <<Title(1)>>>>}

\* Links to 1 by 2 and 3 and to 4 by 3 are of another case than the titles.
MCSpelled == {<<{2, 3, 4}, {4}, {1, 2}, {1, 2}>>}

MCVaultStates ==
    [nodes : {{1, 2, 4}}, parent : {<<0, 1, 0, 2>>}, policy : MCPolicies, title : MCTitles,
     text : MCTexts, summary : MCSummaries, spelled : MCSpelled,
     versions : {<<1, 1, 1, 2>>}, size : {<<2, 2, 0, 2>>}]
    \cup
    [nodes : {{1, 2, 3, 4}}, parent : MCParents, policy : MCPolicies, title : MCTitles,
     text : MCTexts, summary : MCSummaries, spelled : MCSpelled,
     versions : {<<1, 2, 1, 1>>}, size : {<<1, 3, 2, 1>>}]

\* The chain, before and after its second node was denied.
MCCachedStates ==
    {v \in MCVaultStates : /\ v.nodes = 1..4 /\ v.parent = <<0, 1, 2, 3>>
                          /\ v.policy \in {<<0, 0, 0, 0>>, <<0, 2, 0, 0>>}
                          /\ v.title = <<1, 2, 1, 2>> /\ v.text[3] = <<>>}

All == {"parent", "child", "outlink", "backlink"}
Bundle(depth, kinds, items, seeds, chars, mode) ==
    [depth |-> depth, kinds |-> kinds, max_items |-> items, seed_limit |-> seeds,
     max_chars |-> chars, mode |-> mode]

MCBundleRequests ==
    {Bundle(2, All, 2, 2, 4, "snippets"), Bundle(1, All, 1, 1, 4, "full"),
     Bundle(2, {"outlink", "backlink"}, 4, 1, 2, "full"), Bundle(3, All, 3, 2, 9, "none")}

MCBatches == {<<1, 2>>, <<4, 3>>, <<2, 2>>}
==============================================================================
