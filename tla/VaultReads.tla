------------------------------ MODULE VaultReads ------------------------------
(***************************************************************************)
(* What node_service and node_policy_service answer about one vault as it  *)
(* is committed, a record v:                                               *)
(*   v.nodes     the rows, a set of ids                                    *)
(*   v.parent    parent_id of each, NoNode for NULL                        *)
(*   v.policy    ai_read_policy of each, as its level                      *)
(*   v.title     title of each, case folded                                *)
(*   v.text      the marks in each content, in order: [kind, to]           *)
(*   v.summary   the marks in each AI summary, likewise                    *)
(*   v.versions  the number of the current version of each                 *)
(* Content is what the reads tell apart in it: strong links ("uuid"), weak *)
(* links ("title") and references to managed images ("image").             *)
(* Every caller has access to the vault: VaultAccess is about that.        *)
(***************************************************************************)
EXTENDS Naturals, Sequences, FiniteSets, SequencesExt

CONSTANTS
    N,                  \* ids are 1..N, and compare as ids do
    TitleCount,         \* titles are 1..TitleCount, and compare as titles do
    TitleHas(_, _),     \* title t has q somewhere in it
    AutocompleteLimit   \* rows that an autocomplete looks at (10 in the code)

Nodes == 1..N
NoNode == 0
Titles == 1..TitleCount

ASSUME SizeAssumption == N \in Nat /\ TitleCount \in Nat /\ AutocompleteLimit \in Nat

ASSUME TitleHasAssumption == \A t, q \in Titles : TitleHas(t, q) \in BOOLEAN /\ TitleHas(t, t)

\* AI_READ_LEVEL.
Allow == 0
ExplicitOnly == 1
Deny == 2

\* Who asks: whether is_ai_actor holds, and whether include_quarantined is set,
\* which is asked of an AI only.
Viewers == {w \in [ai : BOOLEAN, quarantined : BOOLEAN] : w.quarantined => w.ai}

-----------------------------------------------------------------------------
\* The node and its ancestors; the way up stops where it meets itself.
Lineage(v, n) ==
    LET up[k \in 0..N] ==
          IF k = 0 THEN {n}
          ELSE LET nearer == up[k - 1]
               IN  nearer \cup ({v.parent[m] : m \in nearer} \ {NoNode})
    IN  up[N]

\* effective_policy, of which the write locks are left to NodeTree's callers.
EffectivePolicy(v, n) ==
    LET levels == {v.policy[m] : m \in Lineage(v, n)}
        strongest == CHOOSE l \in levels : \A k \in levels : k <= l
    IN  [ai_read |-> strongest, inherited |-> strongest > v.policy[n]]

\* assert_readable does not raise.
Readable(v, w, n) ==
    w.ai => EffectivePolicy(v, n).ai_read \in {Allow} \cup (IF w.quarantined THEN {ExplicitOnly}
                                                           ELSE {})

ReadableNodes(v, w) == {n \in v.nodes : Readable(v, w, n)}

\* The entries of q that are in S, in their order.
Kept(q, S) ==
    LET upto[i \in 0..Len(q)] ==
          IF i = 0 THEN <<>>
          ELSE IF q[i] \in S THEN Append(upto[i - 1], q[i]) ELSE upto[i - 1]
    IN  upto[Len(q)]

\* All ids in the order of a key, and of ids where it does not decide.
Sorted(key) ==
    LET Before(n) == {m \in Nodes : key[m] < key[n] \/ (key[m] = key[n] /\ m < n)}
    IN  [i \in Nodes |-> CHOOSE n \in Nodes : Cardinality(Before(n)) = i - 1]

InOrder(S, key) == Kept(Sorted(key), S)

ByTitle(v, S) == InOrder(S, v.title)

Smaller(a, b) == IF a < b THEN a ELSE b

Children(v, n) == {m \in v.nodes : v.parent[m] = n}

-----------------------------------------------------------------------------
Refused == [refused |-> "forbidden"]
Absent == [refused |-> "not found"]

\* The checks of a read of one node, in their order.
WithNode(v, w, n, reply) ==
    IF n \notin v.nodes THEN Absent
    ELSE IF ~Readable(v, w, n) THEN Refused
    ELSE reply

\* get_node_by_id; version 0 asks for the current one.  Every version up to
\* the current one exists; only the current one has a summary.
GetNodeById(v, w, n, version) ==
    WithNode(v, w, n,
        IF version > v.versions[n] THEN Absent
        ELSE [nodes |-> {n},
              version |-> IF version = 0 THEN v.versions[n] ELSE version,
              summary |-> version \in {0, v.versions[n]},
              policy |-> EffectivePolicy(v, n),
              version_count |-> v.versions[n]])

\* get_node_versions, newest first.
GetNodeVersions(v, w, n) ==
    WithNode(v, w, n,
        [nodes |-> {n}, versions |-> [i \in 1..v.versions[n] |-> v.versions[n] + 1 - i]])

\* get_version_by_id: a version's id is <<its node, its number>>.
GetVersionById(v, w, n, id) ==
    WithNode(v, w, n,
        IF id[1] = n /\ id[2] \in 1..v.versions[n] THEN [nodes |-> {n}, version |-> id[2]]
        ELSE Absent)

\* _get_nodes_by_ids_and_verify_access: everything or nothing.
GetNodesByIds(v, w, ids) ==
    IF ~(ids \subseteq v.nodes) THEN Absent
    ELSE IF \E n \in ids : ~Readable(v, w, n) THEN Refused
    ELSE [nodes |-> ids]

\* get_content_for_nodes, in the order of the request.
GetContentForNodes(v, w, ids) ==
    LET bulk == GetNodesByIds(v, w, Range(ids))
    IN  IF "refused" \in DOMAIN bulk THEN bulk
        ELSE [nodes |-> Range(ids), content |-> [i \in 1..Len(ids) |-> v.text[ids[i]]]]

-----------------------------------------------------------------------------
\* rebuild_vault_tree_cache: every node under its parent, a node whose parent
\* is no row of the vault among the roots, siblings in the order of titles.
BuildTree(v) ==
    [nodes    |-> v.nodes,
     roots    |-> ByTitle(v, {n \in v.nodes : v.parent[n] \notin v.nodes}),
     children |-> [n \in v.nodes |-> ByTitle(v, Children(v, n))],
     entry    |-> [n \in v.nodes |-> [title |-> v.title[n], parent_id |-> v.parent[n],
                                      policy |-> EffectivePolicy(v, n)]]]

\* Mutant: an item that is hidden is dropped and its children take its place.
VisibleTree_ChildrenStay(t, w) ==
    LET kept == {n \in t.nodes : ~w.ai \/ t.entry[n].policy.ai_read = Allow}
    IN  [nodes    |-> t.nodes,
         roots    |-> Kept(t.roots, kept),
         children |-> t.children,
         entry    |-> t.entry]

\* get_nodes_as_tree's visible, on the tree as cached: an item goes with all
\* that is under it.
VisibleTree(t, w) ==
    LET shown(n) == t.entry[n].policy.ai_read = Allow
                      \/ (t.entry[n].policy.ai_read = ExplicitOnly /\ w.quarantined)
        reached[k \in 0..N] ==
            IF k = 0 THEN {n \in Range(t.roots) : shown(n)}
            ELSE reached[k - 1] \cup
                 {n \in t.nodes : shown(n) /\ \E m \in reached[k - 1] : n \in Range(t.children[m])}
        kept == reached[N]
    IN  IF ~w.ai THEN t
        ELSE [nodes    |-> kept,
              roots    |-> Kept(t.roots, kept),
              children |-> [n \in kept |-> Kept(t.children[n], kept)],
              entry    |-> [n \in kept |-> t.entry[n]]]

\* get_nodes_as_tree, over the cached tree, where v is what the vault held when
\* that was built: its policies are in it, and nothing else is asked.  The ETag
\* is a hash of the reply, and stands for it.
GetNodesAsTree(v, w, etag) ==
    LET reply == VisibleTree(BuildTree(v), w)
    IN  IF etag = reply THEN [nodes |-> {}, not_modified |-> TRUE] ELSE reply

\* get_nodes_as_list.
GetNodesAsList(v, w) ==
    LET listed == Kept(ByTitle(v, v.nodes), ReadableNodes(v, w))
    IN  [nodes |-> Range(listed), order |-> listed]

\* find_node_by_title: an exact title goes first, then the order of titles.
FindNodeByTitle(v, w, q) ==
    LET hits == InOrder({n \in v.nodes : TitleHas(v.title[n], q)},
                        [n \in Nodes |-> IF v.title[n] = q THEN 0 ELSE v.title[n]])
        readable == Kept(hits, ReadableNodes(v, w))
    IN  [nodes |-> IF readable = <<>> THEN {} ELSE {readable[1]}]

\* is_in_subtree.
IsInSubtree(v, n, root) == root \in Lineage(v, n)

\* What a node says, in its content and then in its summary.
Written(v, n) == v.text[n] \o v.summary[n]

\* The full-text match of a row: its title has the query in it, or its content or
\* its summary has the words of it.  A lower number is more relevant: the bonus
\* of a title is taken to outweigh ts_rank.
Mentions(v, n, q) == [kind |-> "title", to |-> q] \in Range(Written(v, n))
Matches(v, n, q) == TitleHas(v.title[n], q) \/ Mentions(v, n, q)
Relevance(v, n, q) ==
    IF v.title[n] = q THEN 0 ELSE IF TitleHas(v.title[n], q) THEN 1 ELSE 2

\* search_nodes_fulltext: the limit counts what the caller may see of it.
SearchNodesFulltext(v, w, q, limit, root) ==
    LET hits == InOrder({n \in v.nodes : Matches(v, n, q)}, [n \in Nodes |-> Relevance(v, n, q)])
        results == Kept(hits, {n \in ReadableNodes(v, w) : root = NoNode \/ IsInSubtree(v, n, root)})
    IN  SubSeq(results, 1, Smaller(limit, Len(results)))

\* search_nodes_for_autocomplete: here the limit comes before the policies.
Autocomplete(v, w, q) ==
    LET rows == ByTitle(v, {n \in v.nodes : TitleHas(v.title[n], q)})
        some == SubSeq(rows, 1, Smaller(AutocompleteLimit, Len(rows)))
        visible == Kept(some, ReadableNodes(v, w))
    IN  [nodes |-> Range(visible), order |-> visible]

\* resolve_link_targets, for one of the targets.
Resolved(v, w, target) ==
    LET found == {n \in v.nodes :
                    /\ IF target.kind = "uuid" THEN n = target.to ELSE v.title[n] = target.to
                    /\ Readable(v, w, n)}
    IN  IF found = {} THEN [status |-> "unresolved"]
        ELSE IF Cardinality(found) > 1
             THEN [status |-> "ambiguous", matches |-> Cardinality(found)]
        ELSE [status |-> "resolved", node |-> CHOOSE n \in found : TRUE]

ResolveLinkTargets(v, w, targets) ==
    [nodes |-> {Resolved(v, w, t).node : t \in {u \in targets : Resolved(v, w, u).status = "resolved"}},
     results |-> [t \in targets |-> Resolved(v, w, t)]]
=============================================================================
