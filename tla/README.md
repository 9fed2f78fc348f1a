# Nexidion in TLA+

TLA+ models of Nexidion's backend and of its task runner, model-checked with TLC,
with theorems about them proved with TLAPS. Everything here is translated from the
code in `src/`; where a document or a comment says something else than the code does,
it is a finding or a known divergence (section 5). `PROJECT.json` maps each definition to its lines.

## 1. The system

Nexidion keeps *vaults* of Markdown *nodes* in a tree. A Flask backend on Postgres
serves a React frontend and imports PDFs; a separate *task runner* lets a language
model work on the nodes.

| part | code | state | operations |
|---|---|---|---|
| Node content | `backend/services/node_service.py`, `node_patch.py`, `summary_service.py`, `summary_generation.py`, `agent/loop.py` | `nodes` (current version, summary and its flag), `versions`, `summary_artifacts` | create, update, patch; write a summary, request one, generate it |
| Node tree and access policies | `node_service.py`, `node_policy_service.py`, `ingestion_service.py` | `nodes.parent_id`, `ai_read_policy` | create, move, delete, re-import, set a policy |
| Cached trees | `node_service.py`, and everything that changes nodes | `cached_ui_tree`, `cached_agent_tree` and their ETags on the vault's row | rebuild, empty, read |
| PDF ingestion queue | `ingestion_worker.py`, `pdf_ingestion_service.py`, `ingestion_service.py`, `agent/loop.py` | `ingestion_runs` | enqueue, claim, beat, recover, execute, fail; synchronous imports |
| Task queue and agent | `agent/loop.py`, `agent/agent.py`, `agent/audit.py`, `task_service.py`, `api/tasks.py` | `tasks`, the locals of `run_agent` | queue, claim, turns, tools, finish, fail |
| Vaults, users, access | `vault_service.py`, `user_service.py`, `auth_service.py`, `api/vaults.py`, `api/admin.py` | `vaults`, `users`, `vault_access`, cached vault lists | create, rename, delete, share; create and delete accounts, make administrators |
| Search and retrieval | `node_service.py`, `node_policy_service.py`, `retrieval_service.py`, the reading handlers of `api/nodes.py`, `api/images.py` | none of their own | trees, lists, searches, links, images, context bundles |
| PDF curation | `curation_service.py`, `agent/loop.py` | `curation_jobs`, `node_source_links` | queue, claim, ask, repair, create node by node |
| Image assets | `image_asset_service.py`, `legacy_image_conversion.py` | `image_assets`, the storage folder, references in texts | upload, deduplicate, delete |
| Import, export, copies | `import_service.py`, `export_service.py`, `node_copy_service.py` | none of their own | carry trees, histories, links and policies over |
| LLM providers, HTTP layer, connectors, migrations, frontend | see `PROJECT.json` | | |

**How they interact.** The processes share nothing but the database: gunicorn with one
process of four threads, whose requests may take 600 s, the in-app ingestion worker (a
thread of it), and one or more task runners, each polling four queues in turn
(ingestion runs, curation jobs, summaries, tasks). Transactions are READ COMMITTED.
SQLAlchemy writes, at a flush, the columns whose value differs from the one it loaded,
and forgets what it has loaded at each commit or rollback. Nothing but `FOR UPDATE` in
the content writers, `FOR UPDATE SKIP LOCKED` in the queues and the foreign keys orders
the transactions.

**What is hard**, and a test would hardly reach, is therefore what happens *between* a
read and the commit that goes by it: two moves that each pass their cycle check, a
summary generated while its node is edited, a cache rebuilt from nodes read too early;
then processes that die or fall silent between two commits; and the limits of the loop
in which a model, which may call anything, must be kept within its scope and budget
and brought to an end. `PROJECT.json` lists these under `hazards`, each at its line, with
the properties that cover it or the reason none does yet.

**What makes each part correct**

- *content*: the history is linear, no update is lost, a patch hits the version it
  names, a summary marked current is one of the current content, a requested summary is
  answered once;
- *tree*: it stays a tree, a deletion displaces nobody, a quarantine sticks to whatever
  came below it;
- *cached trees*: an ETag belongs to the tree beside it; a stale tree does not last;
- *ingestion*: a run is not executed for ever, not by two executors, not again after it
  ended, and it ends;
- *tasks*: claimed oldest first, executed once, written within scope and evidence,
  reported faithfully, and ended;
- *vaults*: an administrator remains, an owner keeps a vault, an account's vaults go to
  its heir and nowhere else, a check that has not aged is enough for the commit, cached
  lists show the tables;
- *retrieval*: a policy hides a node *without a trace* in what is computed from the
  vault; a bundle is the neighbourhood it says, counts what it leaves out and keeps its
  budget;
- *transfer*: a tree arrives whole, with its histories and links, and nothing becomes
  readable to an AI by being moved;
- *curation*: a completed job is one whole tree; a broken one leaves at most one
  node that does not say where it comes from; *images*: no row without its file, no
  text that loses its image to a deletion that could have known.

## 2. Modules

### NodeContent, NodeHistory, NodePatch

One node. A session takes the row lock (`LockRow`, `_get_node_for_content_write`) with
a snapshot of the row and its document, and commits (`CommitUpdate`, `CommitPatch`) or
ends without a write. Summary writers load the row without a lock (`LoadRow`,
`LoadForModel`), compute, and commit (`CommitManualSummary`, `CommitRequest`,
`CompleteSummary`, `FailSummary`); `Written` is what SQLAlchemy makes of a column
whose loaded value has aged. Runners claim artifacts with SKIP LOCKED (`Claim`) and may
be killed (`CrashWorker`); nothing takes an artifact back.

Abstracted: a document is a title and a body from small sets, a hash is the document
it is taken of, `apply_replacements` is a constant function `Apply` that returns
`NoMatch` where it raises. Three variables are history: `last_call`, `overtaken` (a
summary was completed from an aged snapshot), `crashes`.

*NodeHistory* is the abstract specification: calls that take turns, each applied whole to the newest
document. `ImplementsHistory` is the refinement, by `current_version`, `CurrentDoc`,
`last_call` and `summary_is_current`.

*NodePatch* has the operators of `apply_replacements`, one per step: matches are searched item
by item, counted, sorted, compared with their neighbours and spliced. MCNodeContent
gives `Apply` their value on its two bodies, and its `PatchAssumption` compares them, for each
text of up to four letters and each patch of one or two items with old texts of up to
three, with what a patch is without the algorithm: refused exactly if an item
does not match as often as expected (counted without overlap) or two items want the same
letter, and else replacing all matches at once, in whatever order the items are given.
TLC evaluates it before the run `content`. A search that goes on inside a match, a
cursor left before one, edits left unsorted and touching matches refused all fail it.

### NodeTree

All nodes of one vault. Every operation is a pair: `Begin...` reads and checks,
`Commit...` writes what was decided, with nothing locked between. `IsDescendant` is
`_is_descendant`, defined by upward-closed sets instead of recursion so that it can be
proved about; `Rooted` says that the recursive query terminates. `aged` says which
sessions' checks predate a commit that could matter, and `unchecked` that a call
committed on such a check, or (the connector's re-import) on none: the properties hold
up to that call, and the run `tree_moves` shows what lies behind it.
A node's own policy is allow, explicit_only (`quarantined`) or deny (`denied`), and
`EffectivelyQuarantined` is `effective_policy`, in which a deny outweighs a quarantine:
what is created or moved below a quarantine that a deny masks inherits nothing, as
in the code. `stamp_quarantine_subtree` is a `Walk` between `Begin...` and `Commit...`, one
turn of its loop at a time, each reading the children there are by then; nodes with a
deny keep it and are walked through. A child that comes to a place the walk has passed ages
the call, as it outdates it.
`unmarked` is history: nodes below a quarantine that have no mark because their owner
lifted it or a deny masked the quarantine when they came.
Abstracted: titles, icons, roles and write locks; the ancestors that `effective_policy`
loads one by one are read at the instant of `Begin...`.

### TreeCache

The four cached columns of one vault, and the nodes as two values: what both trees show, and what only
the agent's shows. Writers that commit and then rebuild (`CommitWrite`, `Build`,
`GetVault`, `Store`), writers that empty the columns within their commit
(`CommitEmptied`), and readers that rebuild a missing tree. `Written` is again the
column-wise UPDATE: it decides what two rebuilds make of the row together.

### IngestionQueue

Rows of `ingestion_runs`, the workers that `Recover`, `Claim` and execute them (the
in-app thread and the runner use the same code), and requests that import
synchronously (`StartNow`). Time is one bit per run: its heartbeat is fresh, or older
than `STALE_AFTER`. `GoStale` is the passing of that time where no heartbeat thread is;
`MissHeartbeats` the same where one is but its updates failed. What a run imports is
abstract; what it leaves behind are its status and the curation jobs it queued.

### TaskRunner

Tasks queued one by one or as a roll-up (`create_task_batch`, leaves first), runners
that claim them, and `run_agent` with its locals in a record: the tree it was shown,
what it fetched, its budget, its turns. `BeginTurn` is an answer of the model, which is
any finite sequence of calls; each tool is an action. `write_node` and `create_node`
are two commits (`WriteContent`, `WriteItsSummary`), the second of which may be refused.
After each commit the node service reloads the node and rebuilds the cached tree; if that
raises, `svc.py` reports a failed call although the write is there (`FailsAfterCommit`).
A rename to the title a node has and a move to its parent report a write and make none
(`WriteNothing`). `unreported` and `vacuous` are history: the writes of either kind.
`Fail` is an exception anywhere, `SaveAudit` may turn a completed task into a failed one,
`Crash` leaves a task in processing for ever.
Abstracted: a task's scope is an attribute of its row; fetches outside the branch are
`FetchOther`; without a write scope nothing depends on what is fetched. That the tree
shown may itself be a stale cached one is TreeCache's matter. The 3 turns without a call that fail a
task are a literal as in the code.

### VaultAccess, VaultBook

The tables of vaults, users and grants, and each user's cached vault list. A request is
`Begin` (everything it reads and decides, a record of what it will write) and `Commit`:
the writes are applied to the tables as they are by then (`After`), if their rows are
still there (`RowsThere`) and the constraints hold (`Integrity`: `Keys`, over several rows,
and `Lengths`, since a vault's name has 255 characters and a username 80; which names are
longer is a constant, `TooLong`, and no service checks it). `aged`
says whose reads predate a commit. `VaultRequest` and `AdminRequest` are the routes.
Deletion of an account renames the vaults its heir already has a name for
(`HeirName`), in any order, since the query has none (`HeirNames`). `overtaken` and
`excused` delimit what the properties promise: an administrator count read too early may
take away the last one, and a list that was built before a commit may be stored after
it. `held`, who ever owned a vault, is history for VaultBook.
*VaultBook* is the abstract specification: who owns a vault and who may do what there,
one founding, razing, grant or handing over at a time. `ImplementsVaultBook` is the refinement; its `access`
is what `get_vault_access` answers, not the rows. `HandOver` may take along vaults that
the closed account has *once* owned: see section 5.

### VaultReads, Retrieval

VaultReads holds what the services answer about a committed vault, a record of rows; it
has no state, and is shared by Retrieval and Transfer. Retrieval adds images and context
bundles, and an action for each reading handler: `answer` is the reply until the client
has read it. A tree is not answered from the rows: `GetTree` takes the cached copy, which
holds the nodes, titles and policies of the vault it was built of, and screens an AI by
those policies. That vault is the present one or any of `CachedStates`; which copies may
be old, and for how long, is TreeCache's matter. The properties of a tree are therefore
relative to what its copy was built of (`Basis`).
Bundles follow `_BundleBuilder` and `_Assembler` step by step
(`Neighbours`, `Visit`, `Seed`, `Expand`), and are compared with a declarative neighbourhood
(`Balls`, `Adjacent`). Links out and links back are not inverse to each other: a backlink is
looked for with a LIKE that minds case and blanks (`[[Title]]`, `[[Title|`, the id as it is
stored), while an outlink is stripped and folded. `spelled` says for each node which others
its content spells in the LIKE's sense, whatever its links mean (`LinksBack`). Searches and
the images of a node look at its content and its summary (`Written`), links at the content
alone. The loops are recursive functions (`VisitAll`, `Kept` for a filter,
`Sorted` for ORDER BY), because the provers have no definition of the library's SelectSeq
and SortSeq. A content is its marks (strong and weak links, images) and a
length; a full-text rank is a count of matches. But for the tree, an answer is one
of the rows at one instant: the queries of a request see no concurrent write.

### Transfer

Two vaults and the one an import makes, in one store. `ExportVault` writes a file and
`ImportVault` reads it later, each one step. A copy is many queries at READ COMMITTED with
no lock, and is modelled as such: `BeginCopy` finds the source and the parent, each
`WalkCopy` asks the policy of the next node of the queue and loads its children as they are
by then, `CommitCopy` makes the copies of the rows as they were loaded, and `AbandonCopy` is
a refusal or the death of the request. In between, policies are set and nodes moved and deleted.
`AsLoaded` is what the copy's session sees: what it has loaded stays as it was, the
ancestors of the parent among it, since `assert_writable` has gone through them; the
ancestors of the source are loaded at its turn in the walk for an AI, and only
before the commit for a person. A node that is loaded and then moved to where the walk
will meet it again makes the copy fail at the primary key.
`copying` is that session, `overtaken` (history) the nodes that others have
changed since it began; `taken` and `last` are history: the store when the file was written,
and the last import or copy with its request. A text is a set of ids it links to.
`ExportOrders` has every order the file may have: the breadth-first walk fixes that
parents come first, but the query names no order for siblings. Which fresh ids a copy
gets is left to a CHOOSE (`Fresh`), since ids are only compared for equality. A node of a
cycle may be its own parent, once the others are deleted; deleting it sets its children
free, as the ORM nulls the reference.
Simplified: one copy at a time and one file; the calls of others are one step each here,
their walks being NodeTree's matter; they change no texts during a copy; the
ancestors of source and parent are each read at one instant.

### PdfCuration

Jobs, runners and the nodes of one vault. What a commit of `create_node` leaves in the
session (the provenance of the node) is `Waiting` until the next commit. Nodes may be
deleted, the model may answer anything in `Answers`, a runner may be killed at any step,
and nothing takes its job back.

### ImageAssets

Rows, files (temporary and final) and references of one vault's images. `create_asset`
is four steps and `delete_asset` three, with a crash possible between any two; `leaked`
and `late` are history: files left behind, and references written when
the deletion had already counted. An I/O error of `write_bytes` or `unlink` leaves what the
crash of that one call does, and has no action of its own.

### Composition

The components meet in the database, and each module holds all writers of the rows it
is about, whichever component they belong to. NodeContent is composed with
NodeHistory by refinement. VaultAccess is composed with VaultBook, Retrieval and
Transfer with VaultReads. TreeCache takes the calls of NodeTree and NodeContent as writers by the
shape of their transactions. A composition of NodeTree and TreeCache (the cached tree is
that of *some* committed tree) is planned.

## 3. Runs

| run | module, configuration | what it asks | bounds |
|---|---|---|---|
| `content` | MCNodeContent | overlapping writers keep a linear history, lose no update, settle each summary once, and implement NodeHistory; every requested summary is answered | 2 sessions, 1 runner, 3 versions, 2 artifacts, 1 kill; 640,000 states |
| `tree` | MCNodeTree | overlapping calls keep a tree and its quarantines while checks and walks are up to date | 2 sessions; a root, a node, an imported source; 3 policies; TREESTATES states |
| `tree_moves` | MCNodeTreeMoves | *finding*: two moves close a cycle | 2 sessions, 3 nodes |
| `ingestion` | IngestionQueue | executions, executors and curations bounded; an ended run is over; every upload ends | 2 workers, 1 request, 2 runs, 2 attempts, 1 kill, 1 silence; 70,000 states |
| `tree_cache` | TreeCache | ETags stay with their trees; a lone request repairs the cache | 2 sessions, 2x2 node states, 1 death; 510,000 states |
| `tasks` | MCTaskRunner | order, single execution, scope and evidence, faithful operations | 2 runners, 2 tasks, 3 nodes, 2 turns, 2 fetches, 1 kill; 1.5 million states |
| `tasks_end` | MCTaskRunnerEnd | every task ends | 1 runner, 4 turns; 93,000 states |
| `vaults` | MCVaultAccess | ownership, grants, administrators and cached lists under overlapping requests; VaultBook is implemented | 2 sessions, 2 people, 1 agent, 2 vaults, 4 requests; VAULTSTATES states |
| `retrieval` | MCRetrieval | policies, of a tree those cached, hide without a trace; bundles are exact | 192 vaults of up to 4 nodes, 3 kinds of callers, 2 cached copies; 52,000 states |
| `transfer` | MCTransfer | imports are whole, copies too of what nobody touches meanwhile, and neither is more readable than its source | 5 pairs of vaults, 4 nodes and 3 more, 2 changes, copies included; 393,000 states |
| `curation` | MCPdfCuration | completed jobs are whole, broken ones leave one node unlinked at most, all end | 2 runners, 2 jobs, 3 answers of up to 3 nodes, 1 kill; 250,000 states |
| `images` | ImageAssets | rows and files match, deletion spares what is referred to | 2 calls, 2 payloads, 3 files; 160,000 states |

**Why these bounds.** Every hazard here takes two parties: a reader whose snapshot ages
and a writer that makes it age; two sessions (in the queues two workers and a third
process) show it. Three versions are two writes one after the other, by different
sessions, with a summary between. Two artifacts, runs or tasks make "the oldest" mean
something. Two attempts are an execution, its recovery, and recovery's refusal. In
`tree`, a source and a node besides the root give a chain of three, so that a node has a
proper ancestor other than the root; ids other than the root and the sources are
interchangeable. Its `CONSTRAINT` stops exploration after the first call on an
outdated check or walk, of which the properties say nothing more, and where one session begins a call beside
another's outdated one: as far as the states before `unchecked` go, that other call
could as well have been abandoned earlier. With `MAX_TOOL_FETCHES = 2`, a node with one child can be evidenced
and one with two cannot, and `Move` makes it one with two while a task runs.
`MAX_LOOP_TURNS` is 25 in the code and 2 here, except in `tasks_end`, where it is 4 so
that the limit of 3 turns without a call is reached before it. In `vaults`, four
requests are what the longest story needs: a vault each for two people, and two requests
that overlap. The vaults of `retrieval` are all trees of the listed shapes
with each mix of policies, titles (one of which holds the other) and links, so that
ambiguous titles, cycles of links and hidden nodes between visible ones occur; bundles
are asked for with room and without, some links are spelled otherwise than the titles they
lead to, and the cached copies are a chain before and after its second node was denied.
In `transfer` ids do not run down from the root, one vault has a cycle, and one has a
quarantined destination; two changes are one copy and what somebody else does to its
source or its destination during the walk, or two changes between an export and its
import. Runs with the wrong property show that it happens there: a node moved within the
subtree is missed, a later quarantine of the destination leaves no mark, and an AI copies
what is denied after the walk has passed. In
`curation` the two good answers have one node and three, the bad one must be repaired
or fails the job. The proofs do without bounds.

Deadlock is not checked (`CHECK_DEADLOCK FALSE`) where the system may stop: all ids, runs or
tasks used up by the bounds, and nobody obliged to call.

**Fairness.** NodeContent: a request that holds a lock ends (weakly fair: by its
answer, an error or gunicorn's timeout), a runner polls for ever; no one must call.
PdfCuration (`FairSpec`): a runner that has claimed a job goes on, and
the loop comes to the queue; nobody need queue or delete. IngestionQueue: workers loop for ever, an import ends with an outcome, and time passes
(`GoStale`); a heartbeat need not succeed. TaskRunner: a runner polls for ever; an answer
has finitely many calls, so the end of a turn, of the task, or its failure is strongly
fair, `Fail` because the call to the model has a timeout. The runner's other queues are assumed
to run empty now and then: with an endless stream of ingestion runs its tasks would
starve, as the code serves the queues in that order.

**Mutants.** Each property of a passing run comes with a plausible slip of the code
(an operator named after the one it replaces: `Claim_AnyOrder`, `LockRow_NoWait`, ...) under which TLC finds it violated. They stand before the
definitions they replace and are used by no specification.

## 4. Proofs

All hold for every value of the constants that satisfies the assumptions of the
component's module (`ConstantsAssumption`; `MaxAssetsAssumption` in ImageAssets; in
TaskRunner also `ParentAssumption`: no node is its own parent, at first or by a move, as
`move_node` refuses that; in Retrieval `VaultsAssumption`: the vaults that are read are
forests, which is NodeTree's matter, and `RequestsAssumption`: the limits that `MAX_DEPTH`,
`MAX_ITEMS` and the rest leave of a request): any number of processes, nodes and
documents, any bounds.

**NodeContentProofs**: `TypeCorrect`, `LinearHistory` (`NumberedOnce`), `FlagHonest`
(`HonestUnlessOvertaken`), `SettledOnce`, `HistoryRefined`. No property is inductive by
itself: what makes versions unique is that the number comes from a *snapshot*. The
invariant `IInv` therefore adds `LockInv` (whoever computes a content write holds the
lock and its snapshot is still the row), `JobInv` (two runners never have one artifact,
and a runner's artifact is in processing) and `PcInv`. `NextKeepsIInv` puts together one
lemma per action; the refinement maps each commit to `NodeHistory!Write`, each summary to
`Summarize`, and everything else to a stutter.

**NodeTreeProofs**: `TypeCorrect`, `RemainsATree`, `QuarantineIsSticky`,
`DeletionIsLocal`. The strengthening is `CheckInv`: a check that has not aged still
describes the tree. It carries most of the proof, since every commit must either keep
the other sessions' checks true or age them. For a call that quarantines it says
what the walk has done so far: of each node walked, all children are walked or waiting, and those
with no policy of their own are to be set; when nothing waits, that is the subtree, by the
definition of descent. `QuarantineSticks` then needs no more than the masking: what
a call inherits is the effective policy of its target, and where that is not
explicit_only although a quarantine is above, the nodes are in `unmarked`. Descent is defined by upward-closed sets,
so that each lemma builds, from a set closed before the step, one closed after it
(`LeafDescent`, `MoveDescent`, ...); no induction over paths is needed, and the
set of nodes may be infinite.

**CacheAndImagesProofs**, on cached trees: `TypeCorrect`, `EtagsCorrect`,
`LoneRequestIsFresh`. ETags stay beside their trees because every session's loaded and built
columns are paired as well (`OpsPaired`), and an UPDATE that writes only differences
preserves pairing. That a lone request leaves the cache fresh needs `Alone`: what a session
that nobody overlapped has loaded is still the row, and what it has built still the nodes.

The same module, on images (the two components share no variable; they stand together as
what is kept beside the nodes): `RowsHaveFiles` (`FilesMatchRows`), `DeletionSparesReferred`
(`ReferredAreKept`). `Owned`: a call that stores an image has its id to itself until the row
is there; `RowGone`: a file is unlinked only after its row; `TempIsFresh` and `Accounted`:
each file has a row, a call or a recorded leak. `Asked`: between the count of references and
the deletion, whoever adds one is recorded in `late`.

**IngestionQueueProofs**: `BoundedExecutions` (`ExecutionsBounded`), `OneExecutorEach`
(`OneExecutor`), `EndsAreFinal` (`EndIsFinal`). `QueueInv` ties the rows together: a
pending run came through the queue and has an attempt left, a worker has only such runs, a
request never one. `HoldInv` is why nobody takes a run from the living: while no
heartbeat was missed, a worker's run is fresh and not pending, and still in processing until
its import starts; it is why an end is final although `StartImport`, the claims and recovery
all write the status. `CountInv` bounds
curations although a run may be in several hands: those queued, and the executors
that may yet queue one, are together at most its attempts.

**TaskRunnerProofs**: `ExecutedOnce` (`EndsOnce`), `DeepestFirst` (`OldestFirst`),
`BudgetedEvidence` (`EvidenceWithinBudget`), `TruthfulReports` (`OperationsTellWrites`).
`HoldInv` gives each task one runner at most, `QueueInv` keeps the rows in order. What
is true of a run half way is in `RunOK`: `Audited` (what it will report is what it has
made, the write under way and what is in `unreported` and `vacuous` excepted), `Charged` (it was charged for
all that it has fetched) and `Evident` (what it has written or is writing, it had all
the evidence for). `EvidenceWithinBudget` is then a count of a set.

**VaultAccessProofs**: `AnAdminRemains` (`AdminRemains`), `OwnersKeepAVault`
(`OwnerKeepsAVault`). Both rest on one fact about a request that no commit has
overtaken, `Spares`: what it is about to write still leaves the administrator, or the
vault, that its check counted. `Lasting` says so of all requests at once, and every
commit either keeps it or ages the request.

`TypeCorrect`, `ChecksAreEnough` (`ChecksSuffice`), `ListsStayFresh` (`ListsFresh`) and
`BookRefined` (`ImplementsVaultBook`) come from a second invariant, `BookInv`. It says
of a request that nobody has overtaken that the tables would accept its writes (`Fits`)
and the lists would be right after them (`Refreshes`). One lemma per request shows
both (of the constraints `Keys`; `Lengths` can fail only by `NamesWritten`), most of them through `QuietBook`, which is about writes that neither found nor hand over
a vault nor delete a user; `CommitBook` need then show neither, since a commit ages all others.
What remains true of an aged request is its `Shape`: one vault, one grant, or one account,
so that its commit, if the database accepts it at all, is one step of VaultBook
(`CommitMapped`) on whatever the tables are by then. `Apart` keeps ids apart (no two requests found the
same vault), which is why a vault that is founded has no grants yet. The delicate part is
that `delete_user` cannot be refused for a name: its last resort, "n (from u, vault
v)", is free because `NamesOK` says that a name in the tables with such a mark is of a
user who is gone, and u is still there (`HeirNameForm`, `HeirNamesDistinct`). It uses
`NamesAssumption`, that nobody types a name of that form; the code does not check this,
and such a name, taken by the heir, would make the deletion fail.

**ReadsAndTransferProofs**, on reads: `NoTraceIsLeft` (`HiddenLeaveNoTrace`),
`ReadsAreScreened` (`AllAndOnlyReadable`), `BudgetIsKept` (`BudgetKept`). The invariants
(`Traced`, `Screened`, `Budgeted`) only add that the vault is one of `VaultStates`, as the vault
of a cached copy is one of `CachedStates` (both forests), since a request changes nothing but
`answer`: all of the proof is about what the read computes, one
lemma per kind of request. That hidden nodes leave no trace compares the vault with the one
`Revealed` makes. A hidden node is no ancestor of a readable one, so readable nodes have in
both the same ancestors, policies and links (`Alike`: the same columns, and the rows the
viewer may read); each read is then shown to give the same value on alike vaults, the
bundle's loops edge by edge. The tree is pruned from the top on the cached copy;
`DescentEnds` and `TreeIsReadable` show that what remains is exactly what is readable by the
policies of the vault it was built of. It needs forests: a cycle that no root reaches is in the list and in no tree. The budget is
kept because every builder that seeds and edges can lead to is in `Builders`, whose
`Balanced` relates what was spent to what is left and to the cuts made, and because `Visit`
and `Seed` do not leave that set.

The same module, on transfers (the two share the lemmas about ancestors, and no variable):
`StoreStaysSound`, `ImportsAreTheVault` (`ImportIsTheVault`), `CopiesAreTheSubtree`
(`CopyIsTheSubtree`), `CopiesStayClosed` (`CopyStaysClosed`), for any stores that the tables
can hold (`StoresAssumption`), cycles included. The inductive invariant is `TransferInv`.
Its first part, `Sound`, says what the properties of a step need of the tables: a parent is
a node of the same vault, the newest version is current, what the AI may not freely read it
may not write, new ids are new. `Held` says that the file is still one of the orders in
which the vault it was taken from can be exported, and that this vault was sound. `Going` is
the invariant of a copy's walk: what it has loaded is one tree below the node asked
for (`IsTree`); nodes nobody has touched are as when it began, and were loaded so
(`IsAsItWas`); of a node whose turn has come all such children are loaded, and for an AI it
was not withheld (`IsWalked`). Every step of another
request keeps it by putting what it changes into `overtaken` (`MeanwhileGoes`), and when the
queue is empty, it says that the copy is closed downward as far as nobody interfered
(`WalkMeetsAll`). The rest is about data. `LineageIsLeast`: the ancestors of a node are the least upward-closed set
with it, although they are computed by N steps; so the ancestors in two stores are compared
by carrying such sets over (`SameLineage`, `CopyLineage`, `ImportLineage`).
`ExportIsTheForest`: after k turns of the export's queue, `Walk` holds (no node twice, each
behind its parent, all children of the first k in it), and a queue without repetition has at
most N turns. `ImportStep` and `CopyStep` then say what a commit makes of the store
field by field (`Restored`, `Copied`), and the properties follow: what is exported is under
a root, what is imported has the images of its ancestors as ancestors and therefore the same
policies, what is copied is stamped with what the ancestors of its source, as loaded, forbade.

**PdfCurationProofs**: `JobsAreWhole` (`CompletedIsWhole`), `OneIsUnlinked`
(`OneUnlinkedAtMost`). `Built` says what a runner has made of its list so far: the job's
nodes are those it remembers, in the order of their ids, each with the pages and under
the parent the list gives it. It survives because one runner at most holds a job
(`HoldInv`) and begins it once (`FreshInv`); a completed job keeps the `Built` of its whole
list (`DoneInv`). That only the newest node waits for its provenance then follows from the
order of ids.

**Only model-checked**: liveness (`SummariesAnswered`, `RunsEnd`, `TasksEnd`, `JobsEnd`),
which rests on fairness and ENABLED and is beyond the prover; `BundleIsTheBall`, which
compares a bundle with the nodes at their shortest distances, each counted once; and
NodePatch, which compares a fold over a text with what a patch is. Either would be a longer
induction over data than those in ReadsAndTransferProofs, and has not been carried through.

## 5. Findings and known divergences

`tree_moves` is a run that TLC refutes with a behaviour of the code: `move_node` checks
for cycles without a lock; of two concurrent moves both pass and close a cycle, on which
`_is_descendant`'s query does not end. Nor does a recursive copy from such a node
(`node_copy_service.py:68`), and an export leaves its nodes out (`export_service.py:97`).

Where the code does something else than its words or a reader would expect, the
properties say exactly what does hold, and the exception is named in the model:

- A summary generated while its node is patched is stored and marked current for content
  it does not describe: both hashes are of the snapshot (`summary_service.py:63`;
  `overtaken` in NodeContent).
- A synchronous import longer than `STALE_AFTER` has no heartbeat and is failed by
  recovery although its worker lives (`ingestion_worker.py:66`); it then completes or fails
  the run it has lost, which is why `EndIsFinal` is about the set of outcomes. A worker whose heartbeats
  were missed may put an ended run back to processing, and recovery may then queue it again
  (`misses` in IngestionQueue).
- A rebuild that read the nodes before a commit and stores after it leaves the old tree
  in the cache until the next change (`node_service.py:305`; `overlapped` in TreeCache), and
  so does a request that dies between its commit and its rebuild. An AI that asks
  for the tree is then screened by the policies of that copy (`node_service.py:337`): a node
  quarantined or denied since shows its title and summary (`CachedStates` in Retrieval).
- A deny hides a quarantine from `effective_policy`: what is created or moved below both
  gets no mark, and is open once both are lifted (`node_policy_service.py:48`,
  `node_service.py:781`, `:948`; `unmarked` in NodeTree).
- A quarantine does not reach a node that is created or moved, while its walk goes on,
  to a place it has passed (`node_policy_service.py:111`; such a commit is `unchecked`).
- A copy reads its source query by query: what is moved within the subtree meanwhile may be
  missing, and a quarantine set on the destination after its policy was read is not
  stamped on the copies (`node_copy_service.py:73`, `:123`; `overtaken` in Transfer).
- A write of the agent whose summary is refused, or whose reload or rebuild of the cache
  fails after the commit, is missing from the task's operations (`agent/svc.py:90`,
  `agent/agent.py:733`; `unreported` in TaskRunner); a rename or move that changes nothing is among
  them (`vacuous`).
- The length of a vault's name is checked by nobody but the database (`models.py:94`): a
  name that is too long, one that `delete_user` lengthens included, makes the request fail
  (`TooLong` in VaultAccess).
- A re-import moves a node under any parent without the checks of `move_node`
  (`unchecked` in NodeTree).
- `delete_user` empties neither the heir's cached vault list nor those of the grantees of
  a vault it renames (`user_service.py:98`; `LeftStale` in VaultAccess). An heir who had
  a grant on an inherited vault keeps it. The last administrator may be an assistant's
  account.
- `delete_user` hands over the vaults it has read, whoever owns them at its commit
  (`user_service.py:99`): of three overlapping deletions one may take a vault from an
  administrator who had just inherited it and stays. So `HandOver` in VaultBook is about
  vaults the closed account has once owned.
- An autocomplete takes ten rows before it filters by policy, so hidden nodes can push
  readable ones out (`node_service.py:729`), and a read by id tells "forbidden" from
  "not found": `HiddenLeaveNoTrace` is not about these two.
- In a search bundle a hit left out by `max_items` is counted again in `omitted_count`
  when it is met as a neighbour (`retrieval_service.py:640`); `BundleIsTheBall` is exact
  where no hit is left out. A node that links by an ambiguous title is a backlink,
  though an ambiguous title is no outlink; a link of another case than the title, or with
  blanks around it, is an outlink and no backlink (`retrieval_service.py:447`; `spelled`).
- An import keeps links to nodes that are not in the file and references to the old vault's images,
  and replaces ids in versions but not in summaries (`import_service.py:190`). Write
  locks that a copied node inherited do not travel; read policies do.
- Tasks, summaries and curations in processing stay there when their runner dies; a run
  that dies between its import and its curation job loses the curation.
- Files of a deleted vault's images, and of uploads that a crash or a
  duplicate cut short, stay in the folder (`leaked` in ImageAssets).
- On the page of a node (not modelled), AgentTab does not reload the open node "if the
  user is mid-edit, which would silently discard their unsaved changes"
  (`AgentTab.jsx:486`), but looks only when it notices that a task completed; the
  document it then asks for arrives later, and `NodeContent.jsx:138` puts it into an editor
  that was opened, and typed into, meanwhile.

## 6. Not modelled, and why

Snippets, heading paths, previews and the chapters of a PDF are text and image work, and
no state hangs on them. LLM providers, connectors and PDF extraction are clients of other
systems: here a free choice of outcome. The HTTP layer parses and maps errors; its checks
stand as guards where they decide a state change, rate limits and status codes
are left out. Passwords and tokens decide only who calls. Migrations run once, by an
operator. Streaming, prompts, wording and layout have no property about them. The
frontend appears only in the order in which its roll-up dialog queues tasks: what it shows
is what the server sent it, but for the page of a node while it is edited, which is not modelled.

## 7. Plan

In order of what the system depends on; all but 9 is done.

1. NodeContent, NodeHistory, with proofs.
2. NodeTree, with proofs.
3. IngestionQueue, with proofs.
4. TreeCache, with proofs.
5. TaskRunner, with proofs.
6. VaultAccess with its first proofs, VaultBook; VaultReads, Retrieval, Transfer.
7. PdfCuration and ImageAssets, with proofs.
8. NodePatch: `apply_replacements` against what a patch is.
9. The frontend's page of a node: edits, reloads and answers that cross (open).
10. Theorems, each with the invariant it needs: the rest of VaultAccess, Transfer and
    Retrieval (done).
