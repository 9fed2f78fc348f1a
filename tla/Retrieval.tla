------------------------------- MODULE Retrieval -------------------------------
(***************************************************************************)
(* The read requests of api/nodes and the context bundles of               *)
(* retrieval_service, over a vault that does not change while one request  *)
(* is answered.  The tree is answered from the copy that is cached of it,  *)
(* which may be of another state of the vault: TreeCache is about when.    *)
(*                                                                         *)
(* A bundle is the neighbourhood of a node, or of the hits of a search,    *)
(* breadth first.  A content is as long as v.size says, in units of        *)
(* characters; a snippet is cut at SnippetChars of them, and where         *)
(* _snap_window would move that cut is left out.                           *)
(***************************************************************************)
EXTENDS VaultReads

CONSTANTS
    VaultStates,    \* what a vault may be found to hold
    CachedStates,   \* those that a cached tree may have been built of
    Queries,        \* titles that are searched for
    Limits,         \* of a search
    Batches,        \* sequences of ids read at once
    BundleRequests, \* the limits bundles are asked for with
    SnippetChars,
    NoReply

Relations == <<"parent", "child", "outlink", "backlink">>

Marks == [kind : {"uuid", "title", "image"}, to : Nat]

\* What the tables hold of a vault.  A content spells a node if it has its id, or
\* its title in the brackets of a link, letter by letter as LIKE compares; the
\* links of the text are read without case and without outer blanks.
VaultType ==
    [nodes : SUBSET Nodes, parent : [Nodes -> Nodes \cup {NoNode}],
     policy : [Nodes -> Allow..Deny], title : [Nodes -> Titles],
     text : [Nodes -> Seq(Marks)], summary : [Nodes -> Seq(Marks)],
     spelled : [Nodes -> SUBSET Nodes], versions : [Nodes -> Nat], size : [Nodes -> Nat]]

\* A vault is a forest: NodeTree is about that.
ASSUME VaultsAssumption == \A v \in VaultStates :
    /\ v \in VaultType
    /\ \A n \in v.nodes : v.parent[n] # NoNode =>
          v.parent[n] \in v.nodes /\ n \notin Lineage(v, v.parent[n])

ASSUME CachedAssumption == CachedStates \subseteq VaultStates

\* What the limits MAX_DEPTH and MAX_ITEMS leave of a request.
ASSUME RequestsAssumption ==
    /\ Queries \subseteq Titles
    /\ Limits \subseteq Nat \ {0}
    /\ \A r \in BundleRequests :
          /\ r.depth \in 0..3 /\ r.max_items \in 1..100 /\ r.seed_limit \in 1..20
          /\ r.max_chars \in Nat /\ r.kinds \subseteq Range(Relations)
          /\ r.mode \in {"none", "snippets", "full"}
    /\ SnippetChars \in Nat

VARIABLES
    vault,      \* the vault as it is committed
    answer      \* the last request and its reply, until the client has read it

vars == <<vault, answer>>

-----------------------------------------------------------------------------
\* list_node_assets: the images of a content and then of its summary, each once,
\* in order.  Which of them have a row and a file is ImageAssets' matter.
ImagesIn(text) ==
    FoldLeft(LAMBDA found, m : IF m.kind = "image" /\ m.to \notin Range(found)
                               THEN Append(found, m.to) ELSE found,
             <<>>, text)
ImagesOf(v, n) == ImagesIn(Written(v, n))

ListNodeAssets(v, w, n) ==
    WithNode(v, w, n, [nodes |-> {n}, assets |-> ImagesOf(v, n)])

\* get_node_asset: only through a node that embeds it.
GetNodeAsset(v, w, n, a) ==
    WithNode(v, w, n, IF a \in Range(ImagesOf(v, n)) THEN [nodes |-> {n}, asset |-> a] ELSE Absent)

\* asset_readable_by_ai, for a URL that names no node.
AssetReadableByAi(v, w, a) ==
    IF ~w.ai \/ \E n \in v.nodes : a \in Range(ImagesOf(v, n)) /\ Readable(v, w, n)
    THEN [nodes |-> {}, asset |-> a] ELSE Refused

-----------------------------------------------------------------------------
\* _Edge; at is where the link stands in source's text, 0 where there is none.
Edge(n, relation, via, source, at) ==
    [node |-> n, relation |-> relation, via |-> via, source |-> source, at |-> at]

\* outlinks: the places of the links in a text.
Links(v, n) == Kept([i \in DOMAIN v.text[n] |-> i],
                    {i \in DOMAIN v.text[n] : v.text[n][i].kind \in {"uuid", "title"}})

\* Mutant: the namesakes that a weak link could mean are counted before the
\* policies are asked.
Meant_HiddenCount(v, w, mark) ==
    LET found == {m \in v.nodes :
                    IF mark.kind = "uuid" THEN m = mark.to ELSE v.title[m] = mark.to}
    IN  IF Cardinality(found) = 1 THEN {m \in found : Readable(v, w, m)} ELSE {}

\* The node a link means: none if it is hidden, or the title is ambiguous.
Meant(v, w, mark) ==
    LET found == {m \in v.nodes :
                    /\ IF mark.kind = "uuid" THEN m = mark.to ELSE v.title[m] = mark.to
                    /\ Readable(v, w, m)}
    IN  IF Cardinality(found) = 1 THEN found ELSE {}

\* A link of a text that leads to n, by its id or by its title.
LeadsTo(v, mark, n) ==
    \/ mark.kind = "uuid" /\ mark.to = n
    \/ mark.kind = "title" /\ mark.to = v.title[n]

\* m is found to link to n: its content spells n, and some link in it leads there.
LinksBack(v, m, n) ==
    n \in v.spelled[m] /\ \E i \in DOMAIN v.text[m] : LeadsTo(v, v.text[m][i], n)

\* neighbours: the parent, the children, the links out and the links back.
Neighbours(v, w, n, kinds) ==
    LET readable == ReadableNodes(v, w)
        up == IF v.parent[n] \in readable THEN <<v.parent[n]>> ELSE <<>>
        down == Kept(ByTitle(v, Children(v, n)), readable)
        out == Kept(Links(v, n), {i \in DOMAIN v.text[n] : Meant(v, w, v.text[n][i]) \ {n} # {}})
        back == Kept(ByTitle(v, {m \in v.nodes \ {n} : LinksBack(v, m, n)}), readable)
        first(m) == CHOOSE i \in DOMAIN v.text[m] :
                       /\ LeadsTo(v, v.text[m][i], n)
                       /\ \A j \in 1..(i - 1) : ~LeadsTo(v, v.text[m][j], n)
        Of(relation, edges) == IF relation \in kinds THEN edges ELSE <<>>
    IN  Of("parent", [i \in DOMAIN up |-> Edge(up[i], "parent", n, NoNode, 0)])
        \o Of("child", [i \in DOMAIN down |-> Edge(down[i], "child", n, NoNode, 0)])
        \o Of("outlink", [i \in DOMAIN out |->
                 Edge(CHOOSE m \in Meant(v, w, v.text[n][out[i]]) : TRUE, "outlink", n, n, out[i])])
        \o Of("backlink", [i \in DOMAIN back |->
                 Edge(back[i], "backlink", n, back[i], first(back[i]))])

-----------------------------------------------------------------------------
\* _BundleBuilder, whose included and items are one here.
NewBuilder(r) ==
    [items |-> <<>>, seen |-> {}, omitted |-> 0, chars_left |-> r.max_chars,
     exhausted |-> FALSE, frontier |-> <<>>]

Wanted(v, r, n) ==
    CASE r.mode = "full" -> v.size[n]
      [] r.mode = "snippets" -> Smaller(v.size[n], SnippetChars)
      [] r.mode = "none" -> 0

Allowed(v, r, b, n) == Smaller(Wanted(v, r, n), b.chars_left)

\* text_for: what the budget leaves of a text is taken from the budget.  A
\* mutant that counts the budget per item.
TextFor_NotCharged(v, r, b, n) ==
    [b EXCEPT !.exhausted = @ \/ Allowed(v, r, b, n) < Wanted(v, r, n)]
TextFor(v, r, b, n) ==
    [b EXCEPT !.chars_left = @ - Allowed(v, r, b, n),
              !.exhausted = @ \/ Allowed(v, r, b, n) < Wanted(v, r, n)]

\* describe, and the text the budget allows.
Describe(v, r, b, n) ==
    [node |-> n, title |-> v.title[n], parent_id |-> v.parent[n], version |-> v.versions[n],
     policy |-> EffectivePolicy(v, n), content |-> Allowed(v, r, b, n), content_chars |-> v.size[n]]

\* add, of the node an edge leads to, at its distance.
Add(v, r, b, e, distance) ==
    [TextFor(v, r, b, e.node) EXCEPT
        !.items = Append(@, [node |-> e.node, edge |-> e, distance |-> distance,
                             other_relations |-> {}, shown |-> Describe(v, r, b, e.node)]),
        !.frontier = Append(@, e.node)]

\* Mutant: what the limit leaves out is not remembered as seen.
Visit_OmittedUnseen(v, r, b, e, distance) ==
    IF e.node \in b.seen THEN b
    ELSE IF Len(b.items) >= r.max_items THEN [b EXCEPT !.omitted = @ + 1]
    ELSE Add(v, r, [b EXCEPT !.seen = @ \cup {e.node}], e, distance)

\* A node that was met keeps what it was met by, and an edge from the same
\* node is noted beside it.
Noted(item, e, distance) ==
    IF item.node = e.node /\ item.edge.via = e.via
    THEN [item EXCEPT !.other_relations = @ \cup {[edge |-> e, distance |-> distance]}]
    ELSE item

\* One edge of expand.
Visit(v, r, b, e, distance) ==
    IF e.node \in b.seen
    THEN [b EXCEPT !.items = [i \in DOMAIN @ |-> Noted(@[i], e, distance)]]
    ELSE IF Len(b.items) >= r.max_items
    THEN [b EXCEPT !.seen = @ \cup {e.node}, !.omitted = @ + 1]
    ELSE Add(v, r, [b EXCEPT !.seen = @ \cup {e.node}], e, distance)

VisitAll(v, r, b, edges, distance) ==
    LET met[i \in 0..Len(edges)] ==
          IF i = 0 THEN b ELSE Visit(v, r, met[i - 1], edges[i], distance)
    IN  met[Len(edges)]

\* Edges sorted by RELATION_ORDER, and as they were within a relation.
InRelationOrder(edges) ==
    LET Of(relation) == Kept(edges, {e \in Range(edges) : e.relation = relation})
    IN  Of("parent") \o Of("child") \o Of("outlink") \o Of("backlink")

\* The edges of a frontier, in the order of discovery before they are sorted.
EdgesOf(v, w, r, frontier) ==
    InRelationOrder(FlattenSeq([i \in DOMAIN frontier |->
                                  Neighbours(v, w, frontier[i], r.kinds)]))

\* expand, one distance after the other.
Expand(v, w, r, start, seeds) ==
    LET level[d \in 0..r.depth] ==
          IF d = 0 THEN [start EXCEPT !.seen = @ \cup Range(seeds), !.frontier = seeds]
          ELSE VisitAll(v, r, [level[d - 1] EXCEPT !.frontier = <<>>],
                        EdgesOf(v, w, r, level[d - 1].frontier), d)
    IN  level[r.depth]

\* envelope.
Envelope(b) ==
    [items |-> b.items, truncated |-> b.omitted > 0 \/ b.exhausted,
     omitted_count |-> b.omitted, content_budget_exhausted |-> b.exhausted]

NodesOf(b) == {b.items[i].node : i \in DOMAIN b.items}

\* build_context_bundle.
BuildContextBundle(v, w, r, root) ==
    LET start == NewBuilder(r)
        b == Expand(v, w, r, TextFor(v, r, start, root), <<root>>)
    IN  WithNode(v, w, root,
            [nodes |-> {root} \cup NodesOf(b), root |-> Describe(v, r, start, root),
             assets |-> ImagesOf(v, root), bundle |-> Envelope(b)])

\* A hit is an item of its own.  One that max_items leaves no room for is counted
\* but not yet seen.
Seed(v, r, b, n) ==
    IF Len(b.items) >= r.max_items THEN [b EXCEPT !.omitted = @ + 1]
    ELSE Add(v, r, b, Edge(n, "seed", NoNode, NoNode, 0), 0)

\* build_search_context_bundle.
BuildSearchContextBundle(v, w, r, query, subtree) ==
    LET hits == SearchNodesFulltext(v, w, query, r.seed_limit, subtree)
        seeded[k \in 0..Len(hits)] ==
            IF k = 0 THEN NewBuilder(r) ELSE Seed(v, r, seeded[k - 1], hits[k])
        start == seeded[Len(hits)]
        b == Expand(v, w, r, start, start.frontier)
    IN  [nodes |-> NodesOf(b), hits |-> hits, seed_count |-> Len(start.frontier),
         bundle |-> Envelope(b)]
-----------------------------------------------------------------------------
Init == vault \in VaultStates /\ answer = NoReply

\* A request of w is answered, one at a time; nothing is written.
Reply(op, w, r, reply) ==
    /\ answer' = [op |-> op, viewer |-> w, request |-> r, reply |-> reply]
    /\ UNCHANGED vault

\* The handlers.  get_nodes has three of them, by its format and its title.  A
\* tree that is cached is taken as it is; where none is, or one without nodes, it
\* is built of the rows as they are.
GetTree(w) ==
    \E built \in {vault} \cup {v \in CachedStates : v.nodes # {}} :
    \E etag \in {NoReply, VisibleTree(BuildTree(built), w)} :
        Reply("tree", w, [etag |-> etag, built |-> built], GetNodesAsTree(built, w, etag))

GetList(w) == Reply("list", w, [etag |-> NoReply], GetNodesAsList(vault, w))

GetByTitle(w) == \E q \in Queries :
    Reply("title", w, [query |-> q], FindNodeByTitle(vault, w, q))

SearchNodesByTitle(w) == \E q \in Queries :
    Reply("autocomplete", w, [query |-> q], Autocomplete(vault, w, q))

FullTextSearch(w) == \E q \in Queries, limit \in Limits, root \in vault.nodes \cup {NoNode} :
    LET results == SearchNodesFulltext(vault, w, q, limit, root)
    IN  Reply("search", w, [query |-> q, limit |-> limit, subtree |-> root],
              [nodes |-> Range(results), order |-> results])

ResolveInternalLinks(w) ==
    LET targets == [kind : {"uuid"}, to : Nodes] \cup [kind : {"title"}, to : Titles]
    IN  Reply("resolve", w, [targets |-> targets], ResolveLinkTargets(vault, w, targets))

GetMultipleNodes(w) == \E ids \in Batches :
    Reply("read", w, [ids |-> ids], GetNodesByIds(vault, w, Range(ids)))

PostNodesContent(w) == \E ids \in Batches :
    Reply("read", w, [ids |-> ids, content |-> TRUE], GetContentForNodes(vault, w, ids))

GetSingleNode(w) == \E n \in Nodes, version \in 0..2 :
    Reply("read", w, [ids |-> {n}, version |-> version], GetNodeById(vault, w, n, version))

GetNodeVersionsRoute(w) == \E n \in Nodes :
    Reply("read", w, [ids |-> {n}], GetNodeVersions(vault, w, n))

GetSingleVersion(w) == \E n \in Nodes : \E of \in {n, 1} :
    Reply("read", w, [ids |-> {n}, version |-> <<of, 1>>], GetVersionById(vault, w, n, <<of, 1>>))

ListNodeAssetsRoute(w) == \E n \in Nodes :
    Reply("read", w, [ids |-> {n}], ListNodeAssets(vault, w, n))

Images == UNION {Range(ImagesOf(vault, n)) : n \in vault.nodes}

GetNodeAssetRoute(w) == \E n \in Nodes, a \in Images :
    Reply("read", w, [ids |-> {n}, asset |-> a], GetNodeAsset(vault, w, n, a))

\* The URL of the image itself.
GetAsset(w) == \E a \in Images :
    Reply("asset", w, [asset |-> a], AssetReadableByAi(vault, w, a))

GetContextBundle(w) == \E r \in BundleRequests, n \in Nodes :
    Reply("bundle", w, [limits |-> r, root |-> n], BuildContextBundle(vault, w, r, n))

SearchContextBundle(w) == \E r \in BundleRequests, q \in Queries, root \in {NoNode, 1} :
    Reply("search bundle", w, [limits |-> r, query |-> q, subtree |-> root],
          BuildSearchContextBundle(vault, w, r, q, root))

\* The client has the answer.
Deliver == answer # NoReply /\ answer' = NoReply /\ UNCHANGED vault

Next ==
    \/ /\ answer = NoReply
       /\ \E w \in Viewers :
             \/ GetTree(w) \/ GetList(w) \/ GetByTitle(w) \/ SearchNodesByTitle(w)
             \/ FullTextSearch(w) \/ ResolveInternalLinks(w) \/ GetMultipleNodes(w)
             \/ PostNodesContent(w) \/ GetSingleNode(w) \/ GetNodeVersionsRoute(w)
             \/ GetSingleVersion(w) \/ ListNodeAssetsRoute(w) \/ GetNodeAssetRoute(w)
             \/ GetAsset(w) \/ GetContextBundle(w) \/ SearchContextBundle(w)
    \/ Deliver

Spec == Init /\ [][Next]_vars

-----------------------------------------------------------------------------
\* The reply of a request that was answered, of one of these operations.
Replied(ops) ==
    answer # NoReply /\ answer.op \in ops /\ "refused" \notin DOMAIN answer.reply

\* The vault as it would be without the nodes a viewer may not read.
Revealed(v, w) == [v EXCEPT !.nodes = {n \in @ : Readable(v, w, n)}]

\* What a request would be answered over another vault.
AnswerOver(v, a) ==
    LET w == a.viewer
        r == a.request
    IN  CASE a.op = "tree" -> GetNodesAsTree(v, w, r.etag)
          [] a.op = "list" -> GetNodesAsList(v, w)
          [] a.op = "title" -> FindNodeByTitle(v, w, r.query)
          [] a.op = "search" ->
               LET found == SearchNodesFulltext(v, w, r.query, r.limit, r.subtree)
               IN  [nodes |-> Range(found), order |-> found]
          [] a.op = "resolve" -> ResolveLinkTargets(v, w, r.targets)
          [] a.op = "asset" -> AssetReadableByAi(v, w, r.asset)
          [] a.op = "bundle" -> BuildContextBundle(v, w, r.limits, r.root)
          [] a.op = "search bundle" -> BuildSearchContextBundle(v, w, r.limits, r.query, r.subtree)

\* The vault that an answer is about: for a tree, as it was when the cached copy
\* was built.
Basis(a) == IF a.op = "tree" THEN a.request.built ELSE vault

\* Nodes hidden from the caller leave no trace in what a tree, a list, a search,
\* a resolution or a bundle answers: not by a node, a count, an order, an
\* ambiguity or a limit.  The answer is the one that a vault without them gives.
\* For a tree they are the nodes that its cached policies hide: one that was
\* hidden since is still shown, until the cached copy is built anew.
\* Reads by id tell "forbidden" from "not found", and an autocomplete counts its
\* ten before it filters: they are not held to this.
HiddenLeaveNoTrace ==
    Replied({"tree", "list", "title", "search", "resolve", "asset", "bundle", "search bundle"})
    => answer.reply = AnswerOver(Revealed(Basis(answer), answer.viewer), answer)

\* Everything that an answer names may be read by the caller, the tree and the
\* list show all of that, and the URL of an image gives an AI nothing that no
\* node it may read would have given it.  Of a tree this is said of the policies
\* cached in it, which the policies of the rows may have left behind.
AllAndOnlyReadable ==
    LET readable == ReadableNodes(Basis(answer), answer.viewer)
    IN  /\ answer # NoReply /\ "refused" \notin DOMAIN answer.reply
           => answer.reply.nodes \subseteq readable
        /\ Replied({"list", "tree"}) /\ "not_modified" \notin DOMAIN answer.reply
           => answer.reply.nodes = readable
        /\ Replied({"asset"}) /\ answer.viewer.ai
           => \E n \in readable : "asset" \in DOMAIN
                 GetNodeAsset(vault, answer.viewer, n, answer.request.asset)

-----------------------------------------------------------------------------
\* A step of a bundle from a to b, as the release notes name its relations.  A
\* link is a backlink only where LIKE finds it, so an outlink need not be one.
Adjacent(v, w, a, b, relation) ==
    /\ a # b /\ b \in v.nodes /\ Readable(v, w, b)
    /\ CASE relation = "parent"   -> v.parent[a] = b
         [] relation = "child"    -> v.parent[b] = a
         [] relation = "outlink"  -> \E i \in Range(Links(v, a)) : b \in Meant(v, w, v.text[a][i])
         [] relation = "backlink" -> LinksBack(v, b, a)

\* The nodes within a distance of some, for the distances up to depth.
Balls(v, w, kinds, seeds, depth) ==
    LET within[d \in 0..depth] ==
          IF d = 0 THEN seeds
          ELSE LET nearer == within[d - 1]
               IN  nearer \cup
                   {b \in v.nodes \ nearer : \E a \in nearer, k \in kinds : Adjacent(v, w, a, b, k)}
    IN  [d \in 0..depth |-> within[d]]

\* A bundle is what lies within depth of its root, or of its seeds: each node
\* once, at its shortest distance, reached by the first relation that reaches it
\* there, nearest first.  Items are left out only when there are max_items,
\* and omitted_count is exactly the nodes next to an included one that are not
\* in it.  (Of a search, if no hit was left out: a hit that is, is counted
\* again where it is met.)
BundleIsTheBall ==
    Replied({"bundle", "search bundle"}) =>
        LET r == answer.request.limits
            w == answer.viewer
            bundle == answer.reply.bundle
            items == bundle.items
            seeds == IF answer.op = "bundle" THEN {answer.request.root}
                     ELSE {items[i].node : i \in {j \in DOMAIN items : items[j].edge.relation = "seed"}}
            found == {i \in DOMAIN items : items[i].edge.relation # "seed"}
            place(i) == <<items[i].distance,
                          CHOOSE k \in DOMAIN Relations : Relations[k] = items[i].edge.relation>>
            included == answer.reply.nodes
            ball == Balls(vault, w, r.kinds, seeds, r.depth)
            distance(n) == CHOOSE d \in 0..r.depth :
                              n \in ball[d] /\ (d > 0 => n \notin ball[d - 1])
            next_to == {n \in vault.nodes \ included :
                          \E m \in included, k \in r.kinds :
                             distance(m) < r.depth /\ Adjacent(vault, w, m, n, k)}
        IN  /\ included \subseteq ball[r.depth]
            /\ \A i, j \in DOMAIN items : i # j => items[i].node # items[j].node
            /\ \A i \in found :
                  /\ items[i].distance = distance(items[i].node)
                  /\ items[i].node \notin seeds
                  /\ \A m \in included, k \in 1..(place(i)[2] - 1) :
                        Relations[k] \in r.kinds /\ distance(m) < items[i].distance
                           => ~Adjacent(vault, w, m, items[i].node, Relations[k])
            /\ \A i, j \in found : i < j =>
                  \/ place(i)[1] < place(j)[1]
                  \/ place(i)[1] = place(j)[1] /\ place(i)[2] <= place(j)[2]
            /\ Len(items) <= r.max_items
            /\ bundle.omitted_count > 0 => Len(items) = r.max_items
            /\ answer.op # "bundle" => seeds \subseteq Range(answer.reply.hits)
            /\ answer.op = "bundle" \/ seeds = Range(answer.reply.hits)
                  => bundle.omitted_count = Cardinality(next_to)

\* The characters a bundle shows of its items, beside those of its root.
Spent(own, items) ==
    LET total[i \in 0..Len(items)] ==
          IF i = 0 THEN own ELSE total[i - 1] + items[i].shown.content
    IN  total[Len(items)]

\* The texts of a bundle together are no longer than max_chars, a text is cut
\* only where the budget ends, and the caller is told of it.
BudgetKept ==
    Replied({"bundle", "search bundle"}) =>
        LET r == answer.request.limits
            items == answer.reply.bundle.items
            shown == {items[i].shown : i \in DOMAIN items}
                     \cup (IF answer.op = "bundle" THEN {answer.reply.root} ELSE {})
            spent == Spent(IF answer.op = "bundle" THEN answer.reply.root.content ELSE 0, items)
            cut == {text \in shown : text.content < Wanted(vault, r, text.node)}
        IN  /\ spent <= r.max_chars
            /\ answer.reply.bundle.content_budget_exhausted = (cut # {})
            /\ cut # {} => spent = r.max_chars
=============================================================================
