------------------------------ MODULE NodeTree ------------------------------
(***************************************************************************)
(* The nodes of one vault: who is whose parent, and which nodes have a     *)
(* policy of their own: ai_read_policy is explicit_only (a quarantine),    *)
(* deny (closed to AIs whatever they ask for) or allow.                    *)
(*                                                                         *)
(* Every operation is a request that first reads and checks (Begin...) and *)
(* later commits what it decided (Commit...), without holding any row in   *)
(* between.  One that quarantines a subtree walks it first, with a query   *)
(* for the children of each node (Walk).  Postgres adds only the foreign key: a committed parent exists.*)
(* What a commit writes is decided on the values loaded when the request   *)
(* began; a column equal to its loaded value is not written at all.        *)
(*                                                                         *)
(* The callers are people and no node is write-locked, so that only the    *)
(* checks of the tree refuse a call.  The cached tree each operation goes  *)
(* on to rebuild is the matter of TreeCache, the contents of NodeContent.  *)
(***************************************************************************)
EXTENDS FiniteSets

CONSTANTS
    Sessions,   \* API threads, the agent, the ingestion worker
    Nodes,      \* ids: every node that may ever be created
    Root,       \* the node create_vault makes
    Sources,    \* ids of nodes a connector creates and keeps frozen
    NoNode      \* parent_id is NULL

ASSUME ConstantsAssumption ==
    /\ Root \in Nodes
    /\ Sources \subseteq Nodes \ {Root}
    /\ NoNode \notin Nodes

VARIABLES
    nodes,          \* the rows of the table
    gone,           \* ids deleted: an id is not used twice
    parent,         \* parent_id
    quarantined,    \* nodes whose own ai_read_policy is explicit_only
    denied,         \* nodes whose own ai_read_policy is deny
    call,           \* what each session has decided to do
    aged,           \* history: sessions whose checks predate the last commit
    unchecked,      \* history: a call committed on an aged check, or on none
    unmarked        \* history: nodes below a quarantine with no policy of their own
                    \* because their owner set them so, or a deny masked it

tree_vars == <<nodes, gone, parent, quarantined, denied, unmarked>>

vars == <<nodes, gone, parent, quarantined, denied, call, aged, unchecked, unmarked>>

-----------------------------------------------------------------------------
OrNone(S) == S \cup {NoNode}

Policies == {"allow", "explicit_only", "deny"}

\* A call under way: its node and its target, what was loaded of the node, the
\* policy it sets and the nodes whose column it will write, and of the subtree it
\* quarantines the nodes whose children it has read and those it has still to.
Call == [kind : {"create", "move", "reparent", "delete", "policy"},
         node : OrNone(Nodes), target : OrNone(Nodes),
         loaded_parent : OrNone(Nodes), loaded_children : SUBSET Nodes,
         ai_read : Policies, to_set : SUBSET Nodes,
         to_walk : SUBSET Nodes, walked : SUBSET Nodes]

\* A session between requests.
NoCall == [kind |-> "none"]

Children(n) == {m \in nodes : parent[m] = n}

\* A set of nodes that holds the parents of its members.
UpClosed(S) == \A m \in S : parent[m] \in OrNone(S)

\* _is_descendant, whose recursive query starts at the node itself: ancestor
\* lies on the way up from n.
IsDescendant(ancestor, n) ==
    \A S \in SUBSET nodes : n \in S /\ UpClosed(S) => ancestor \in S

\* The way up from n ends.  On a cycle the recursive query (UNION ALL) never does.
Rooted(n) == \E m \in nodes : parent[m] = NoNode /\ IsDescendant(m, n)

Subtree(n) == {m \in nodes : IsDescendant(n, m)}

OwnPolicy(n) == IF n \in denied THEN "deny"
                ELSE IF n \in quarantined THEN "explicit_only" ELSE "allow"

BelowQuarantine(n) == \E q \in quarantined : IsDescendant(q, n)

\* effective_policy(n).ai_read = "explicit_only": of the policies on the way up
\* the strongest counts, and a deny is stronger than a quarantine.
EffectivelyQuarantined(n) ==
    BelowQuarantine(n) /\ \A d \in denied : ~ IsDescendant(d, n)

-----------------------------------------------------------------------------
Init ==
    /\ nodes = {Root}
    /\ gone = {}
    /\ parent = [n \in Nodes |-> NoNode]
    /\ quarantined = {}
    /\ denied = {}
    /\ call = [s \in Sessions |-> NoCall]
    /\ aged = {}
    /\ unchecked = FALSE
    /\ unmarked = {}

\* A session has made its checks on the tree as it is, and remembers of it what
\* its commit will go by.  A quarantine of a node that is there starts its walk.
Begin(s, kind, n, target, ai_read, to_set) ==
    /\ call[s] = NoCall
    /\ call' = [call EXCEPT ![s] =
          [kind |-> kind, node |-> n, target |-> target,
           loaded_parent   |-> IF kind \in {"move", "delete"} THEN parent[n] ELSE NoNode,
           loaded_children |-> IF kind = "delete" THEN Children(n) ELSE {},
           ai_read |-> ai_read, to_set |-> to_set,
           to_walk |-> IF kind \in {"move", "policy"} /\ ai_read = "explicit_only"
                       THEN {n} ELSE {},
           walked |-> {}]]
    /\ aged' = aged \ {s}
    /\ UNCHANGED <<tree_vars, unchecked>>

\* The session commits, and the checks of the sessions in outdated no longer
\* describe the tree.
Commit(s, outdated) ==
    /\ call' = [call EXCEPT ![s] = NoCall]
    /\ aged' = (aged \cup outdated) \ {s}
    /\ unchecked' = (unchecked \/ s \in aged \/ call[s].kind = "reparent")

\* Sessions with a call under way.
Busy == {p \in Sessions : call[p] # NoCall}

\* The policy a call sets becomes the one the nodes in S have of their own.
SetPolicy(S, ai_read) ==
    /\ quarantined' = IF ai_read = "explicit_only" THEN quarantined \cup S ELSE quarantined \ S
    /\ denied' = IF ai_read = "deny" THEN denied \cup S ELSE denied \ S

\* What a node inherits that is put under target.
Inherited(target) ==
    IF target # NoNode /\ EffectivelyQuarantined(target) THEN "explicit_only" ELSE "allow"

\* A deny on the way up from target masks the quarantine there.
MaskedBelow(target) ==
    target # NoNode /\ BelowQuarantine(target) /\ ~ EffectivelyQuarantined(target)

\* The nodes in S have a reason to lie unmarked below a quarantine; of them, and
\* of those that had one, we keep the nodes that do.
Excuse(S) ==
    unmarked' = {m \in nodes' \cap (unmarked \cup S) :
                    BelowQuarantine(m)' /\ OwnPolicy(m)' = "allow"}

\* Mutant: what lies below a deny is not walked.
Walk_StopsAtDeny(s) ==
    /\ call[s] # NoCall
    /\ \E n \in call[s].to_walk :
          LET found == {m \in Children(n) \ (call[s].walked \cup {n}) : OwnPolicy(m) # "deny"}
          IN  call' = [call EXCEPT
                 ![s].to_walk = (@ \ {n}) \cup found,
                 ![s].walked = @ \cup {n},
                 ![s].to_set = @ \cup {m \in found : OwnPolicy(m) = "allow"}]
    /\ UNCHANGED <<tree_vars, aged, unchecked>>

\* stamp_quarantine_subtree: one turn of its loop reads the children a node has
\* by now.  Those with a deny keep it, but what is below them is walked too.
Walk(s) ==
    /\ call[s] # NoCall
    /\ \E n \in call[s].to_walk :
          LET found == Children(n) \ (call[s].walked \cup {n})
          IN  call' = [call EXCEPT
                 ![s].to_walk = (@ \ {n}) \cup found,
                 ![s].walked = @ \cup {n},
                 ![s].to_set = @ \cup {m \in found : OwnPolicy(m) = "allow"}]
    /\ UNCHANGED <<tree_vars, aged, unchecked>>

-----------------------------------------------------------------------------
\* create_node.
BeginCreate(s) ==
    \E target \in OrNone(nodes) :
        Begin(s, "create", NoNode, target, Inherited(target), {})

\* The checks a new leaf outdates: the list of its parent's children that a
\* deletion has loaded, and a walk that has read them.
OutdatedByLeaf(target) ==
    {p \in Busy : \/ call[p].kind = "delete" /\ call[p].node = target
                  \/ target \in call[p].walked}

\* Mutant: without the foreign key on parent_id.
CommitCreate_NoForeignKey(s) ==
    /\ call[s].kind = "create"
    /\ \E n \in Nodes \ (nodes \cup gone) :
          /\ nodes' = nodes \cup {n}
          /\ parent' = [parent EXCEPT ![n] = call[s].target]
          /\ SetPolicy({n}, call[s].ai_read)
          /\ Excuse(IF MaskedBelow(call[s].target) THEN {n} ELSE {})
    /\ Commit(s, OutdatedByLeaf(call[s].target))
    /\ UNCHANGED gone

CommitCreate(s) ==
    /\ call[s].kind = "create"
    /\ call[s].target \in OrNone(nodes)
    /\ \E n \in Nodes \ (nodes \cup gone) :
          /\ nodes' = nodes \cup {n}
          /\ parent' = [parent EXCEPT ![n] = call[s].target]
          /\ SetPolicy({n}, call[s].ai_read)
          /\ Excuse(IF MaskedBelow(call[s].target) THEN {n} ELSE {})
    /\ Commit(s, OutdatedByLeaf(call[s].target))
    /\ UNCHANGED gone

BeginMoveTo(s, n, target) ==
    Begin(s, "move", n, target, Inherited(target),
          IF Inherited(target) = "explicit_only" /\ OwnPolicy(n) = "allow" THEN {n} ELSE {})

\* Mutant: a move under one's own descendant is not refused.
BeginMove_NoCycleCheck(s) ==
    \E n \in nodes, target \in OrNone(nodes) :
        /\ n # target
        /\ BeginMoveTo(s, n, target)

\* move_node.
BeginMove(s) ==
    \E n \in nodes, target \in OrNone(nodes) :
        /\ n # target
        /\ target # NoNode => Rooted(target) /\ ~ IsDescendant(n, target)
        /\ BeginMoveTo(s, n, target)

CommitMove(s) ==
    LET n == call[s].node
        target == call[s].target
    IN  /\ call[s].kind = "move"
        /\ call[s].to_walk = {}
        /\ call[s].to_set \cup {n} \subseteq nodes
        /\ target \in OrNone(nodes)
        /\ parent' = IF target = call[s].loaded_parent
                     THEN parent ELSE [parent EXCEPT ![n] = target]
        /\ SetPolicy(call[s].to_set, call[s].ai_read)
        /\ UNCHANGED <<nodes, gone>>
        /\ Excuse(IF MaskedBelow(target) THEN Subtree(n) ELSE {})
        /\ Commit(s, Busy)

\* run_connector, for a document it has imported before: the node goes under
\* the parent the upload names, and nothing is checked.
BeginReparent(s) ==
    \E n \in nodes \cap Sources, target \in OrNone(nodes) :
        /\ parent[n] # target
        /\ Begin(s, "reparent", n, target, "allow", {})

CommitReparent(s) ==
    /\ call[s].kind = "reparent"
    /\ call[s].node \in nodes
    /\ call[s].target \in OrNone(nodes)
    /\ parent' = [parent EXCEPT ![call[s].node] = call[s].target]
    /\ Commit(s, Busy)
    /\ UNCHANGED <<nodes, gone, quarantined, denied, unmarked>>

\* delete_node: neither a root nor a frozen source.
BeginDelete(s) ==
    \E n \in nodes \ Sources :
        /\ parent[n] # NoNode
        /\ Begin(s, "delete", n, NoNode, "allow", {})

\* Mutant: the children become roots.
Adopter_Nobody(s) == NoNode

\* Who takes the children of the node being deleted.
Adopter(s) ==
    IF call[s].loaded_parent = call[s].node THEN NoNode ELSE call[s].loaded_parent

\* One UPDATE hands the children to the parent that was loaded.  Children that
\* arrive after it, before the row goes, are set free by the ORM instead.
CommitDelete(s) ==
    LET n == call[s].node
        adopter == Adopter(s)
    IN  /\ call[s].kind = "delete"
        /\ n \in nodes
        /\ \E late \in SUBSET (Children(n) \ call[s].loaded_children) :
              /\ Children(n) \ {n} # late => adopter \in OrNone(nodes)
              /\ parent' = [m \in Nodes |->
                    CASE m = n \/ m \in late -> NoNode
                      [] m \in Children(n) \ (late \cup {n}) -> adopter
                      [] OTHER -> parent[m]]
        /\ nodes' = nodes \ {n}
        /\ gone' = gone \cup {n}
        /\ quarantined' = quarantined \ {n}
        /\ denied' = denied \ {n}
        /\ Excuse({})
        /\ Commit(s, Busy)

\* update_node_access_policy.
BeginSetPolicy(s) ==
    \E n \in nodes, ai_read \in Policies :
        Begin(s, "policy", n, NoNode, ai_read, IF OwnPolicy(n) = ai_read THEN {} ELSE {n})

CommitSetPolicy(s) ==
    LET n == call[s].node
    IN  /\ call[s].kind = "policy"
        /\ call[s].to_walk = {}
        /\ call[s].to_set \cup {n} \subseteq nodes
        /\ SetPolicy(call[s].to_set, call[s].ai_read)
        /\ UNCHANGED <<nodes, gone, parent>>
        /\ Excuse(IF call[s].ai_read = "allow" THEN {n} ELSE {})
        /\ Commit(s, Busy)

\* The call fails, at the latest when its commit meets a foreign key or a row
\* that is gone, or its request dies.
Abandon(s) ==
    /\ call[s] # NoCall
    /\ call' = [call EXCEPT ![s] = NoCall]
    /\ aged' = aged \ {s}
    /\ UNCHANGED <<tree_vars, unchecked>>

-----------------------------------------------------------------------------
Step(s) ==
    \/ BeginCreate(s)   \/ CommitCreate(s)
    \/ BeginMove(s)     \/ CommitMove(s)
    \/ BeginReparent(s) \/ CommitReparent(s)
    \/ BeginDelete(s)   \/ CommitDelete(s)
    \/ BeginSetPolicy(s) \/ CommitSetPolicy(s)
    \/ Walk(s)
    \/ Abandon(s)

Next == \E s \in Sessions : Step(s)

Spec == Init /\ [][Next]_vars

-----------------------------------------------------------------------------
TypeOK ==
    /\ nodes \subseteq Nodes
    /\ gone \subseteq Nodes \ nodes
    /\ parent \in [Nodes -> OrNone(nodes)]
    /\ \A n \in Nodes \ nodes : parent[n] = NoNode
    /\ quarantined \subseteq nodes
    /\ denied \subseteq nodes \ quarantined
    /\ call \in [Sessions -> Call \cup {NoCall}]
    /\ aged \subseteq Sessions
    /\ unchecked \in BOOLEAN
    /\ unmarked \subseteq nodes

\* "Each node can have content, a title, and a parent node, forming a tree"
\* (models.py:134): among any nodes, one has its parent outside them.
Acyclic == \A S \in (SUBSET nodes) \ {{}} : \E n \in S : parent[n] \notin S

\* The checks of move_node and the adoption of delete_node are enough to keep a
\* tree, as long as each call's check still describes the tree it changes.
AcyclicUnlessUnchecked == ~ unchecked => Acyclic

\* A quarantine sticks: what ever came to lie below a quarantined node carries
\* a quarantine of its own, or a deny, and keeps it when the one above is lifted,
\* until its own owner sets it otherwise ("never clears descendants that were
\* stamped earlier", node_policy_service.py:98).  Not so what was put there while
\* a deny masked the quarantine: it inherits no mark.  Nor, as in AcyclicUnlessUnchecked,
\* after a commit that others overtook: a child created in a place the walk has
\* passed has no mark either.
QuarantineSticks ==
    ~ unchecked =>
        \A n \in nodes \ unmarked : BelowQuarantine(n) => OwnPolicy(n) # "allow"

\* Deleting a node takes nobody else out of their place: of the nodes that
\* stay, each keeps exactly its ancestors.
DeleteKeepsAncestry ==
    [][ nodes' \subseteq nodes /\ nodes' # nodes /\ ~ unchecked' =>
           \A a, n \in nodes' : IsDescendant(a, n)' <=> IsDescendant(a, n) ]_vars
=============================================================================
