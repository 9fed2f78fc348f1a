------------------------------- MODULE Transfer -------------------------------
(***************************************************************************)
(* Nodes that leave their vault: export_service writes a vault into a      *)
(* file, import_service makes a new vault of a file, node_copy_service     *)
(* copies a node, with what is under it if asked, into another vault.      *)
(* An export reads its vault at one instant; a copy is a walk of many      *)
(* queries, each of which sees what was committed by then.  In between,    *)
(* nodes change: a file may be imported when its vault has other policies, *)
(* a copy may find rows that have moved.                                   *)
(*                                                                         *)
(* The store is a record as VaultReads has it, over the nodes of all       *)
(* vaults.  Beside its parent and its policy a node has                    *)
(*   store.vault     its vault                                             *)
(*   store.lock      who may not write it (node_policy_service's flags)    *)
(*   store.history   its versions, oldest first: [number, text]; numbers   *)
(*                   have gaps where versions were deleted                 *)
(*   store.current   current_version                                       *)
(* A text is the set of the ids it has strong links to, and Image if it    *)
(* shows a managed image of its vault.                                     *)
(***************************************************************************)
EXTENDS VaultReads

CONSTANTS
    Vaults,         \* vaults there are from the start
    NewVault,       \* the vault an import makes; the model imports once
    MaxChanges,     \* bound: policies set, nodes deleted or moved, copies begun
    Stores          \* the stores to begin with

Image == 0

\* Levels of write lock: nobody, an AI, anyone.
Open == 0
AiLocked == 1
HumanLocked == 2

NoFile == <<>>
NoTransfer == [kind |-> "none"]
NoCopy == <<>>

ASSUME TransferAssumption == NewVault \notin Vaults /\ MaxChanges \in Nat

VARIABLES
    store,
    issued,     \* ids given so far are 1..issued: uuid4 gives none twice
    file,       \* an exported file: node records in their order
    taken,      \* history: the store when the file was written, and its vault
    last,       \* history: the transfer made last, if nothing happened since
    changes,
    copying,    \* the copy under way and the rows it has loaded; one at a time
    overtaken   \* history: the nodes that others have changed since it began

transferVars == <<store, issued, file, taken, last, changes, copying, overtaken>>

-----------------------------------------------------------------------------
Max2(a, b) == IF a >= b THEN a ELSE b

\* Two stores hold the same of a node.
SameRow(s, t, n) ==
    /\ n \in s.nodes <=> n \in t.nodes
    /\ s.parent[n] = t.parent[n] /\ s.vault[n] = t.vault[n]
    /\ s.policy[n] = t.policy[n] /\ s.lock[n] = t.lock[n]
    /\ s.history[n] = t.history[n] /\ s.current[n] = t.current[n]

\* A step of another request while a copy is under way.
Meanwhile ==
    /\ overtaken' = IF copying = NoCopy THEN {}
                    ELSE overtaken \cup {n \in Nodes : ~SameRow(store, store', n)}
    /\ UNCHANGED copying

\* What the tables hold in the fields of a store.  Of an id that no node has, they
\* hold nothing, and the fields may be anything.
Versions == [number : Nat, text : SUBSET (Nodes \cup {Image})]

StoreType ==
    [nodes : SUBSET Nodes, vault : [Nodes -> Vaults \cup {NewVault}],
     parent : [Nodes -> Nodes \cup {NoNode}], policy : [Nodes -> Allow..Deny],
     lock : [Nodes -> Open..HumanLocked], history : [Nodes -> Seq(Versions)],
     current : [Nodes -> Nat]]

\* A parent is a node of the same vault, and the current version is the newest.
\* set_local_policy keeps the AI from writing what it may not freely read.
Consistent(s) ==
    \A n \in s.nodes :
        /\ s.parent[n] # NoNode => s.parent[n] \in s.nodes /\ s.vault[s.parent[n]] = s.vault[n]
        /\ s.policy[n] # Allow => s.lock[n] # Open
        /\ \E i \in DOMAIN s.history[n] :
              /\ s.history[n][i].number = s.current[n]
              /\ \A k \in DOMAIN s.history[n] : s.history[n][k].number <= s.current[n]

ASSUME StoresAssumption == \A s \in Stores :
    s \in StoreType /\ Consistent(s) /\ s.nodes = 1..Cardinality(s.nodes)

InVault(s, u) == {n \in s.nodes : s.vault[n] = u}

\* The strongest lock of a node and its ancestors.
EffectiveLock(s, n) ==
    LET locks == {s.lock[m] : m \in Lineage(s, n)}
    IN  CHOOSE l \in locks : \A k \in locks : k <= l

Below(s, n) == {m \in s.nodes : n \in Lineage(s, m)}

CurrentText(s, n) ==
    LET i == CHOOSE i \in DOMAIN s.history[n] : s.history[n][i].number = s.current[n]
    IN  s.history[n][i].text

\* The store with a new node copy[m] for each m that is copied, as made[m] says.
With(copy, made) ==
    LET new == Range(copy)
        Row(id) == made[CHOOSE m \in DOMAIN copy : copy[m] = id]
    IN  [nodes |-> store.nodes \cup new,
         vault |-> [n \in Nodes |-> IF n \in new THEN Row(n).vault ELSE store.vault[n]],
         parent |-> [n \in Nodes |-> IF n \in new THEN Row(n).parent ELSE store.parent[n]],
         policy |-> [n \in Nodes |-> IF n \in new THEN Row(n).policy ELSE store.policy[n]],
         lock |-> [n \in Nodes |-> IF n \in new THEN Row(n).lock ELSE store.lock[n]],
         history |-> [n \in Nodes |-> IF n \in new THEN Row(n).history ELSE store.history[n]],
         current |-> [n \in Nodes |-> IF n \in new THEN Row(n).current ELSE store.current[n]]]

\* Every id of a text that map knows is replaced.
Rewrite(text, map) == {IF x \in DOMAIN map THEN map[x] ELSE x : x \in text}

-----------------------------------------------------------------------------
\* Mutant: the rows as the query returns them.
ExportOrders_NoWalk(s, u) == SetToSeqs(InVault(s, u))

\* _export_nodes_bfs: the queue of roots; each node, as its turn comes, puts its
\* children at the end.  The query names no order, so that siblings come in any.
\* A node that hangs on a cycle is under no root.
ExportOrders(s, u) ==
    LET Under(p) == SetToSeqs({n \in InVault(s, u) : s.parent[n] = p})
        queues[k \in 0..N] ==
            IF k = 0 THEN Under(NoNode)
            ELSE LET before == queues[k - 1]
                 IN  {q \in before : k > Len(q)} \cup
                     UNION {{q \o c : c \in Under(q[k])} : q \in {q \in before : k <= Len(q)}}
    IN  queues[N]

\* export_vault, by its owner: _serialise_node of each.  Bound: one file, as any
\* written earlier would change nothing.
Serialised(s, n) ==
    [id |-> n, parent_id |-> s.parent[n], ai_read |-> s.policy[n], lock |-> s.lock[n],
     versions |-> s.history[n]]

ExportVault(u) ==
    /\ file = NoFile
    /\ \E order \in ExportOrders(store, u) :
          file' = [i \in DOMAIN order |-> Serialised(store, order[i])]
    /\ taken' = [store |-> store, vault |-> u]
    /\ last' = NoTransfer
    /\ UNCHANGED <<store, issued, changes, copying, overtaken>>

\* The place in the file of the node that had an id.
Place(old) == CHOOSE i \in DOMAIN file : file[i].id = old

\* _create_node_from_export and _apply_exported_attributes: entry i of the file,
\* under the copy of its parent if that came before it, and then the ids in the
\* text of every version.
Imported(i, copy) ==
    LET entry == file[i]
        before == {file[k].id : k \in 1..(i - 1)}
        numbers == {entry.versions[k].number : k \in DOMAIN entry.versions}
    IN  [vault |-> NewVault,
         parent |-> IF entry.parent_id \in before THEN copy[entry.parent_id] ELSE NoNode,
         policy |-> entry.ai_read,
         lock |-> Max2(entry.lock, IF entry.ai_read # Allow THEN AiLocked ELSE Open),
         history |-> [k \in DOMAIN entry.versions |->
                        [number |-> entry.versions[k].number,
                         text |-> Rewrite(entry.versions[k].text, copy)]],
         current |-> CHOOSE m \in numbers : \A k \in numbers : k <= m]

\* import_vault.
ImportVault ==
    /\ file # NoFile
    /\ InVault(store, NewVault) = {} /\ issued + Len(file) <= N
    /\ LET olds == {file[i].id : i \in DOMAIN file}
           copy == [old \in olds |-> issued + Place(old)]
       IN  /\ store' = With(copy, [old \in olds |-> Imported(Place(old), copy)])
           /\ last' = [kind |-> "import", copy |-> copy, from |-> taken.store]
    /\ issued' = issued + Len(file)
    /\ Meanwhile
    /\ UNCHANGED <<file, taken, changes>>

-----------------------------------------------------------------------------
\* What a copy loads of a node: its row, and with it the row of its version.
Loaded(n) ==
    [parent |-> store.parent[n], policy |-> store.policy[n], lock |-> store.lock[n],
     text |-> CurrentText(store, n)]

\* The nodes as the session of c sees them: what it has loaded stays as it was.
AsLoaded(c) ==
    LET known == DOMAIN c.rows
        Parent(n) == IF n \notin known THEN store.parent[n]
                     ELSE IF c.rows[n].parent \in known \cup store.nodes THEN c.rows[n].parent
                     ELSE NoNode
    IN  [policy |-> [n \in Nodes |-> IF n \in known THEN c.rows[n].policy ELSE store.policy[n]],
         parent |-> [n \in Nodes |-> Parent(n)]]

\* effective_policy of the source, whose ancestors are loaded for it.
Inherited(c) == EffectivePolicy(AsLoaded(c), c.node).ai_read

\* assert_writable of the parent.
WritableParent(p, w) ==
    p # NoNode => EffectiveLock(store, p) \in {Open} \cup (IF w.ai THEN {} ELSE {AiLocked})

\* copy_node_to_vault looks at the source and at the place for the copies.  Of the
\* place it keeps the rows as they are now, up to the top.
BeginCopy(n, u, p, recursive, w) ==
    /\ copying = NoCopy /\ changes < MaxChanges
    /\ store.vault[n] # u
    /\ p # NoNode => p \in InVault(store, u)
    /\ WritableParent(p, w)
    /\ copying' = [node |-> n, to |-> u, under |-> p, recursive |-> recursive, by |-> w,
                   asked |-> store, rows |-> [m \in {n} |-> Loaded(m)], queue |-> <<n>>]
    /\ overtaken' = {}
    /\ changes' = changes + 1
    /\ last' = NoTransfer
    /\ UNCHANGED <<store, issued, file, taken>>

\* Mutant: only the node that is asked for is looked at.
Withheld_RootOnly(c, m) == c.by.ai /\ m = c.node /\ Inherited(c) # Allow

\* _assert_node_readable raises.  Of a node below the source the ancestors are
\* loaded, and none of them was withheld as its turn came.
Withheld(c, m) ==
    c.by.ai /\ (IF m = c.node THEN Inherited(c) ELSE c.rows[m].policy) # Allow

\* One turn of the walk: the next node is asked for its policy, and then its
\* children, as they are now, are loaded.  A node that is loaded already, and was
\* moved since, would be met twice: such a copy ends at the primary key.
WalkCopy ==
    /\ copying # NoCopy /\ copying.queue # <<>>
    /\ LET m == Head(copying.queue)
           known == DOMAIN copying.rows
           found == IF copying.recursive THEN Children(store, m) ELSE {}
       IN  /\ ~Withheld(copying, m)
           /\ found \cap known = {}
           /\ copying' = [copying EXCEPT
                 !.queue = Tail(@) \o InOrder(found, [k \in Nodes |-> k]),
                 !.rows = [k \in known \cup found |->
                             IF k \in known THEN copying.rows[k] ELSE Loaded(k)]]
    /\ last' = NoTransfer
    /\ UNCHANGED <<store, issued, file, taken, changes, overtaken>>

\* Mutant: what the ancestors forbid is left behind.
StampedRoot_OwnOnly(c) == c.rows[c.node].policy

\* The policy the copied root gets: that of the source and its ancestors.  For an
\* AI these were loaded by the walk, and allowed all.
StampedRoot(c) == IF c.by.ai THEN c.rows[c.node].policy ELSE Inherited(c)

\* A parent that was quarantined when it was looked at stamps each node that is
\* copied under it.
UnderParent(c, policy) ==
    IF c.under # NoNode /\ EffectivePolicy(c.asked, c.under).ai_read = ExplicitOnly
    THEN Max2(policy, ExplicitOnly)
    ELSE policy

\* uuid4 ids for the nodes of S.  Ids are not compared, and any will do.
Fresh(S) == CHOOSE copy \in [S -> (issued + 1)..(issued + Cardinality(S))] : IsInjective(copy)

\* The copy of m, one of the rows that c has loaded.
CopyOf(c, m, copy) ==
    LET row == c.rows[m]
        policy == UnderParent(c, IF m = c.node THEN StampedRoot(c) ELSE row.policy)
    IN  [vault |-> c.to,
         parent |-> IF m = c.node THEN c.under ELSE copy[row.parent],
         policy |-> policy,
         lock |-> Max2(row.lock, IF policy # Allow THEN AiLocked ELSE Open),
         history |-> << [number |-> 1, text |-> Rewrite(row.text, copy)] >>,
         current |-> 1]

\* The walk is over, no text shows a managed image, and the copies are made of the
\* rows as they were loaded.  Of all that has changed since, the commit sees that
\* the parent is gone: its foreign key refuses.
CommitCopy ==
    /\ copying # NoCopy /\ copying.queue = <<>>
    /\ \A m \in DOMAIN copying.rows : Image \notin copying.rows[m].text
    /\ copying.under \in store.nodes \cup {NoNode}
    /\ LET S == DOMAIN copying.rows
           copy == Fresh(S)
       IN  /\ issued + Cardinality(S) <= N
           /\ store' = With(copy, [m \in S |-> CopyOf(copying, m, copy)])
           /\ last' = [kind |-> "copy", copy |-> copy, request |-> copying,
                       overtaken |-> overtaken]
           /\ issued' = issued + Cardinality(S)
    /\ copying' = NoCopy /\ overtaken' = {}
    /\ UNCHANGED <<file, taken, changes>>

\* The copy is refused, or its request dies.
AbandonCopy ==
    /\ copying # NoCopy
    /\ copying' = NoCopy /\ overtaken' = {}
    /\ last' = NoTransfer
    /\ UNCHANGED <<store, issued, file, taken, changes>>

-----------------------------------------------------------------------------
\* set_node_policy, by a person: quarantine is stamped on all that is below.  The
\* walks of this and of move_node are one step each here; NodeTree has them apart.
SetPolicy(n, policy, lock) ==
    /\ changes < MaxChanges
    /\ LET stamped == IF policy = ExplicitOnly THEN Below(store, n) \ {n} ELSE {}
       IN  store' = [store EXCEPT
              !.policy = [m \in Nodes |-> IF m = n THEN policy
                                          ELSE IF m \in stamped THEN Max2(@[m], ExplicitOnly)
                                          ELSE @[m]],
              !.lock = [m \in Nodes |->
                          IF m = n THEN Max2(lock, IF policy # Allow THEN AiLocked ELSE Open)
                          ELSE IF m \in stamped THEN Max2(@[m], AiLocked)
                          ELSE @[m]]]
    /\ changes' = changes + 1
    /\ last' = NoTransfer
    /\ Meanwhile
    /\ UNCHANGED <<issued, file, taken>>

\* move_node, by a person, to p or to the top: below a quarantined parent all of
\* it is stamped.
MoveNode(n, p) ==
    /\ changes < MaxChanges
    /\ p # store.parent[n] /\ EffectiveLock(store, n) # HumanLocked
    /\ p # NoNode => /\ store.vault[p] = store.vault[n] /\ n \notin Lineage(store, p)
                     /\ EffectiveLock(store, p) # HumanLocked
    /\ LET stamped == IF p # NoNode /\ EffectivePolicy(store, p).ai_read = ExplicitOnly
                      THEN Below(store, n) ELSE {}
       IN  store' = [store EXCEPT
              !.parent = [m \in Nodes |-> IF m = n THEN p ELSE @[m]],
              !.policy = [m \in Nodes |-> IF m \in stamped THEN Max2(@[m], ExplicitOnly)
                                          ELSE @[m]],
              !.lock = [m \in Nodes |-> IF m \in stamped THEN Max2(@[m], AiLocked) ELSE @[m]]]
    /\ changes' = changes + 1
    /\ last' = NoTransfer
    /\ Meanwhile
    /\ UNCHANGED <<issued, file, taken>>

\* delete_node, of a node that is not at the top: its children go to its parent.
\* Where a node of a cycle is its own parent, they are set free.
DeleteNode(n) ==
    /\ changes < MaxChanges
    /\ store.parent[n] # NoNode /\ EffectiveLock(store, n) # HumanLocked
    /\ LET adopter == IF store.parent[n] = n THEN NoNode ELSE store.parent[n]
       IN  store' = [store EXCEPT
              !.nodes = @ \ {n},
              !.parent = [m \in Nodes |-> IF @[m] = n THEN adopter ELSE @[m]]]
    /\ changes' = changes + 1
    /\ last' = NoTransfer
    /\ Meanwhile
    /\ UNCHANGED <<issued, file, taken>>

TransferInit ==
    /\ store \in Stores
    /\ issued = Cardinality(store.nodes)
    /\ file = NoFile
    /\ taken = [store |-> store, vault |-> NewVault]
    /\ last = NoTransfer
    /\ changes = 0
    /\ copying = NoCopy
    /\ overtaken = {}

TransferNext ==
    \/ \E u \in Vaults : ExportVault(u)
    \/ ImportVault
    \/ \E n \in store.nodes, u \in Vaults, p \in store.nodes \cup {NoNode},
          recursive \in BOOLEAN, w \in {v \in Viewers : ~v.quarantined} :
          BeginCopy(n, u, p, recursive, w)
    \/ WalkCopy
    \/ CommitCopy
    \/ AbandonCopy
    \/ \E n \in store.nodes :
          \/ \E policy \in {Allow, ExplicitOnly, Deny}, lock \in {Open, AiLocked} :
                SetPolicy(n, policy, lock)
          \/ \E p \in store.nodes \cup {NoNode} : MoveNode(n, p)
          \/ DeleteNode(n)

TransferSpec == TransferInit /\ [][TransferNext]_transferVars

-----------------------------------------------------------------------------
\* The ids of a text that were copied are those of the copies, all others stay.
SameText(old, new, copy) ==
    /\ \A x \in old : IF x \in DOMAIN copy THEN copy[x] \in new ELSE x \in new
    /\ \A y \in new : y \in old \ DOMAIN copy \/ \E x \in old \cap DOMAIN copy : copy[x] = y

\* An import is the vault that was exported: one new node for each one that was
\* under a root, in the same tree, with all versions under their numbers and
\* the newest one current; links among the nodes lead to the new ones.  And
\* whatever is done to the old vault since, nothing is more open to an AI, or
\* to a writer, than it was when the file was written.
ImportIsTheVault ==
    last.kind = "import" =>
        LET old == last.from
            copy == last.copy
        IN  /\ DOMAIN copy = {n \in InVault(old, taken.vault) :
                                \E r \in Lineage(old, n) : old.parent[r] = NoNode}
            /\ \A m, n \in DOMAIN copy : copy[m] = copy[n] => m = n
            /\ InVault(store, NewVault) = {copy[n] : n \in DOMAIN copy}
            /\ \A n \in DOMAIN copy :
                  /\ store.parent[copy[n]] =
                        (IF old.parent[n] = NoNode THEN NoNode ELSE copy[old.parent[n]])
                  /\ store.current[copy[n]] = old.current[n]
                  /\ DOMAIN store.history[copy[n]] = DOMAIN old.history[n]
                  /\ \A i \in DOMAIN old.history[n] :
                        /\ store.history[copy[n]][i].number = old.history[n][i].number
                        /\ SameText(old.history[n][i].text, store.history[copy[n]][i].text, copy)
                  /\ EffectivePolicy(store, copy[n]) = EffectivePolicy(old, n)
                  /\ EffectiveLock(store, copy[n]) >= EffectiveLock(old, n)

\* The nodes of the request's subtree, as they were when it began.
Requested(c) == IF c.recursive THEN Below(c.asked, c.node) ELSE {c.node}

\* Whatever others have moved, deleted or withheld since a copy began, it is one
\* tree below the parent named, with links and places that stay among the
\* copies, of new ids, with no image that would stay in the other vault and,
\* for an AI, with nothing whose own row was withheld as it was loaded.  What
\* nobody has touched meanwhile is in it, just as it was asked for: each node
\* of the subtree once with its current text, if no node was touched from it up
\* to the one named; and none that is elsewhere, or was withheld, up to the top.
\* What was moved within the subtree meanwhile may be missing.
CopyIsTheSubtree ==
    last.kind = "copy" =>
        LET c == last.request
            copy == last.copy
            Untouched(n) == Lineage(c.asked, n) \cap last.overtaken = {}
            Path(n) == {m \in Lineage(c.asked, n) : c.node \in Lineage(c.asked, m)} \ {c.node}
        IN  /\ \A n \in Requested(c) : Path(n) \cap last.overtaken = {} => n \in DOMAIN copy
            /\ \A m, n \in DOMAIN copy : copy[m] = copy[n] => m = n
            /\ \A n \in DOMAIN copy :
                  /\ copy[n] \in store.nodes \ c.asked.nodes
                  /\ copy[c.node] \in Lineage(store, copy[n])
                  /\ store.parent[copy[n]] =
                        (IF n = c.node THEN c.under ELSE copy[c.rows[n].parent])
                  /\ SameText(c.rows[n].text, CurrentText(store, copy[n]), copy)
                  /\ Image \notin CurrentText(store, copy[n])
                  /\ c.by.ai => c.rows[n].policy = Allow
                  /\ n \notin last.overtaken => c.rows[n].text = CurrentText(c.asked, n)
                  /\ Untouched(n) => n \in Requested(c) /\ Readable(c.asked, c.by, n)

\* Copying makes nothing readable to an AI: each copy is at least as closed as
\* the row it was made of and, if nobody has touched that or what is above it
\* meanwhile, as its source was there; and it is as closed as the node it was
\* put under.  What is put under a node that was quarantined when the copy
\* looked at it carries that mark itself, so that it stays when the quarantine
\* of the node is lifted.  A quarantine set later, before the copies are
\* committed, closes them as long as it stands and leaves them no mark.
CopyStaysClosed ==
    last.kind = "copy" =>
        LET c == last.request
            copy == last.copy
            Closed(n) == EffectivePolicy(store, copy[n]).ai_read
        IN  \A n \in DOMAIN copy :
                /\ store.policy[copy[n]] >= c.rows[n].policy
                /\ Lineage(c.asked, n) \cap last.overtaken = {} =>
                      Closed(n) >= EffectivePolicy(c.asked, n).ai_read
                /\ Closed(n) # Allow => EffectiveLock(store, copy[n]) # Open
                /\ c.under # NoNode =>
                      /\ Closed(n) >= EffectivePolicy(store, c.under).ai_read
                      /\ EffectivePolicy(c.asked, c.under).ai_read = ExplicitOnly =>
                            store.policy[copy[n]] >= ExplicitOnly
=============================================================================
