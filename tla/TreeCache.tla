------------------------------ MODULE TreeCache ------------------------------
(***************************************************************************)
(* The cached trees of one vault: cached_ui_tree, cached_agent_tree and    *)
(* their ETags, columns of the vault's own row.                            *)
(*                                                                         *)
(* Most writers commit their change and then rebuild both trees in a       *)
(* transaction of their own; some only empty the cache with their change,  *)
(* and the next reader rebuilds it.  Nothing orders these transactions:    *)
(* a rebuild writes what it has read of the nodes, whatever was committed  *)
(* since.  An UPDATE writes the columns that differ from the loaded row.   *)
(*                                                                         *)
(* The nodes are two values here: structure, what both trees show, and     *)
(* summary, what the agent's tree shows besides.  A tree is what it shows  *)
(* and an ETag the tree it is the hash of.  A reader that finds its tree   *)
(* in the cache changes nothing and is left out.                           *)
(***************************************************************************)
EXTENDS Naturals

CONSTANTS
    Sessions,   \* API threads, the agent, task runners, the ingestion worker
    Structures, \* what the UI's tree can show: titles, parents, policies, icons
    Summaries,  \* what the agent's tree shows besides: summaries and their flags
    Null,       \* a column that is NULL
    MaxDeaths   \* bound: requests that die on the way

ASSUME ConstantsAssumption ==
    /\ Null \notin Structures \cup (Structures \X Summaries)
    /\ MaxDeaths \in Nat

VARIABLES
    structure, summary,     \* the nodes as they are committed
    cache,                  \* the four columns of the vault's row
    op,                     \* what each session is doing
    overlapped,             \* history: sessions that were not alone all along
    deaths                  \* requests that died

vars == <<structure, summary, cache, op, overlapped, deaths>>

-----------------------------------------------------------------------------
UiTrees == Structures
AgentTrees == Structures \X Summaries

\* The columns, filled from the nodes as they are.
View == [ui |-> structure, ui_etag |-> structure,
         agent |-> <<structure, summary>>, agent_etag |-> <<structure, summary>>]

Columns == [ui : UiTrees \cup {Null}, ui_etag : UiTrees \cup {Null},
            agent : AgentTrees \cup {Null}, agent_etag : AgentTrees \cup {Null}]

\* The columns of a new vault.
NoTrees == [ui |-> Null, ui_etag |-> Null, agent |-> Null, agent_etag |-> Null]

\* Mutants: an ETag that outlives its tree, an agent's tree that is kept, and a
\* tree emptied in another way.
Emptied_EtagKept == [ui |-> Null, ui_etag |-> Null,
                     agent |-> Null, agent_etag |-> cache.agent_etag]
Emptied_UiOnly == [cache EXCEPT !.ui = Null, !.ui_etag = Null]
Emptied_EmptyTree == [ui |-> {}, ui_etag |-> Null, agent |-> Null, agent_etag |-> Null]

\* invalidate_vault_tree_cache.
Emptied == NoTrees

\* The UPDATE of a session that loaded one row and now holds another.
Written(loaded, new) ==
    [c \in DOMAIN cache |-> IF new[c] = loaded[c] THEN cache[c] ELSE new[c]]

\* Writers that rebuild the trees after their commit, and writers that empty
\* the cache within it.  update_node_ai_summary (manual) does both.
Rebuilds(kind) == kind \in {"write", "manual"}
Empties(kind) == kind \in {"patch", "copy", "manual"}

Op == [kind : {"write", "manual", "patch", "copy", "read"},
       stage : {"checked", "committed", "built", "loaded"},
       loaded : Columns, built : Columns]

Idle == [kind |-> "idle"]
Busy == {s \in Sessions : op[s] # Idle}

Init ==
    /\ structure \in Structures
    /\ summary \in Summaries
    /\ cache = NoTrees
    /\ op = [s \in Sessions |-> Idle]
    /\ overlapped = {}
    /\ deaths = 0

-----------------------------------------------------------------------------
\* The access check loads the vault's row.  A reader goes on only where a tree
\* is missing.
Begin(s, kind) ==
    /\ op[s] = Idle
    /\ kind = "read" => Null \in {cache.ui, cache.agent}
    /\ op' = [op EXCEPT ![s] = [kind |-> kind, stage |-> "checked",
                                loaded |-> cache, built |-> NoTrees]]
    /\ overlapped' = IF Busy = {} THEN overlapped ELSE overlapped \cup Busy \cup {s}
    /\ UNCHANGED <<structure, summary, cache, deaths>>

\* What a writer's commit makes of the nodes.  A patch or a summary shows in
\* the agent's tree only.
ChangeNodes(kind) ==
    /\ IF kind \in {"patch", "manual"} THEN UNCHANGED structure ELSE structure' \in Structures
    /\ summary' \in Summaries

Finish(s) ==
    /\ op' = [op EXCEPT ![s] = Idle]
    /\ overlapped' = overlapped \ {s}

\* create_node, update_node, move_node, update_node_icon, delete_node,
\* update_node_access_policy, import_vault: the commit before the rebuild.
CommitWrite(s) ==
    /\ op[s] # Idle
    /\ op[s].stage = "checked"
    /\ op[s].kind = "write"
    /\ ChangeNodes("write")
    /\ op' = [op EXCEPT ![s].stage = "committed"]
    /\ UNCHANGED <<cache, overlapped, deaths>>

\* patch_node and complete_summary (patch), copy_node_to_vault and the end of
\* run_connector (copy), update_node_ai_summary: the nodes and the emptied
\* columns in one commit.
CommitEmptied(s) ==
    /\ op[s] # Idle
    /\ op[s].stage = "checked"
    /\ Empties(op[s].kind)
    /\ ChangeNodes(op[s].kind)
    /\ cache' = Written(op[s].loaded, Emptied)
    /\ IF Rebuilds(op[s].kind)
       THEN op' = [op EXCEPT ![s].stage = "committed"] /\ UNCHANGED overlapped
       ELSE Finish(s)
    /\ UNCHANGED deaths

\* rebuild_vault_tree_cache reads the nodes and builds both trees ...
Build(s) ==
    /\ op[s] # Idle
    /\ op[s].stage = IF op[s].kind = "read" THEN "checked" ELSE "committed"
    /\ op' = [op EXCEPT ![s].built = View, ![s].stage = "built"]
    /\ UNCHANGED <<structure, summary, cache, overlapped, deaths>>

\* ... gets the vault, which the writer's commit has expired and the reader
\* still holds as it loaded it ...
GetVault(s) ==
    /\ op[s] # Idle
    /\ op[s].stage = "built"
    /\ op' = [op EXCEPT ![s].stage = "loaded",
                        ![s].loaded = IF op[s].kind = "read" THEN @ ELSE cache]
    /\ UNCHANGED <<structure, summary, cache, overlapped, deaths>>

\* ... and commits the columns.
Store(s) ==
    /\ op[s] # Idle
    /\ op[s].stage = "loaded"
    /\ cache' = Written(op[s].loaded, op[s].built)
    /\ Finish(s)
    /\ UNCHANGED <<structure, summary, deaths>>

\* The request fails or its process dies; a rebuild it owed is not made up for.
Die(s) ==
    /\ op[s] # Idle
    /\ deaths < MaxDeaths
    /\ deaths' = deaths + 1
    /\ Finish(s)
    /\ UNCHANGED <<structure, summary, cache>>

-----------------------------------------------------------------------------
Step(s) ==
    \/ \E kind \in {"write", "manual", "patch", "copy", "read"} : Begin(s, kind)
    \/ CommitWrite(s)
    \/ CommitEmptied(s)
    \/ Build(s)
    \/ GetVault(s)
    \/ Store(s)
    \/ Die(s)

Next == \E s \in Sessions : Step(s)

Spec == Init /\ [][Next]_vars

-----------------------------------------------------------------------------
TypeOK ==
    /\ structure \in Structures
    /\ summary \in Summaries
    /\ cache \in Columns
    /\ op \in [Sessions -> Op \cup {Idle}]
    /\ overlapped \subseteq Sessions
    /\ deaths \in Nat

\* An ETag stands beside the tree it is the hash of, although each column is
\* written on its own and only where it differs from a row that may have aged:
\* a client told "not modified" has the tree the cache holds.
EtagMatchesTree == cache.ui_etag = cache.ui /\ cache.agent_etag = cache.agent

\* The next reader sees the nodes as they are.
Fresh ==
    /\ cache.ui \in {Null, View.ui}
    /\ cache.agent \in {Null, View.agent}

\* Whatever stale tree overlapping or dying requests have left behind, the next
\* request that runs alone leaves the cache fresh.
LoneRequestRefreshes ==
    [][\A s \in Sessions \ overlapped :
          op[s] # Idle /\ op'[s] = Idle /\ deaths' = deaths => Fresh']_vars
=============================================================================
