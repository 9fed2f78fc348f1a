------------------------------ MODULE TaskRunner ------------------------------
(***************************************************************************)
(* The queue of AI tasks and the runners that execute them: rows of tasks, *)
(* the loop of agent/loop.py and the agent of agent/agent.py.              *)
(*                                                                         *)
(* The tasks of a roll-up are queued together, the deepest parent first;   *)
(* each may write its one target, and only after fetching the content of   *)
(* the target and of its children.  A task without a write scope may write *)
(* what it likes.  What the model answers is chosen freely, turn by turn   *)
(* and call by call; people move nodes meanwhile.                          *)
(*                                                                         *)
(* write_node and create_node are two commits, the content and then its    *)
(* summary; every other tool that writes is one.  Tools that only read,    *)
(* calls the agent rejects and writes the service refuses are one action:  *)
(* they use up the call.  A runner turns to the tasks when nothing waits   *)
(* in its other queues (IngestionQueue, Curation, NodeContent).            *)
(***************************************************************************)
EXTENDS Naturals, FiniteSets

CONSTANTS
    Runners,            \* task runner processes
    Nodes,
    NTasks,             \* tasks are numbered in the order of created_at
    Rollups,            \* the tasks of the one roll-up
    Target,             \* the node each of them may write
    Anywhere,           \* no write scope
    Scopes,             \* the scopes of tasks queued alone
    FirstChildren,      \* children of each node at first
    MAX_LOOP_TURNS, MAX_TOOL_FETCHES,
    Writes,             \* the writes models ask for: a tool and a node
    Moves,              \* the moves people make: a node and its new parent
    MaxCrashes          \* bound: runners killed

Tasks == 1 .. NTasks
Tools == {"write_node", "create_node", "other"}

ASSUME ConstantsAssumption ==
    /\ NTasks \in Nat
    /\ Rollups \subseteq Tasks
    /\ Target \in [Rollups -> Nodes]
    /\ Anywhere \notin Nodes
    /\ Scopes \subseteq Nodes \cup {Anywhere}
    /\ FirstChildren \in [Nodes -> SUBSET Nodes]
    /\ Writes \subseteq [tool : Tools, node : Nodes] /\ Writes # {}
    /\ Moves \subseteq Nodes \X Nodes
    /\ MAX_LOOP_TURNS \in Nat /\ MAX_TOOL_FETCHES \in Nat
    /\ MaxCrashes \in Nat

\* No node is its own parent, and nobody can make it so (move_node).
ASSUME ParentAssumption ==
    /\ \A n \in Nodes : n \notin FirstChildren[n]
    /\ \A n \in Nodes : <<n, n>> \notin Moves

VARIABLES
    status,         \* of each task
    scope,          \* the node each may write with write_node, or Anywhere
    operations,     \* what each task reports to have written, once it has ended
    made,           \* history: what each task has written
    unreported,     \* history: writes whose tool failed after their commit
    vacuous,        \* history: reported writes that changed nothing
    children,       \* the tree as it is
    runner,         \* what each runner is doing
    crashes

vars == <<status, scope, operations, made, unreported, vacuous, children, runner, crashes>>

-----------------------------------------------------------------------------
Ended == {"completed", "failed"}

Idle == [stage |-> "idle"]

\* run_agent's locals.  tree is the one fetched at the start, full_content the
\* nodes whose content it has fetched, writes the audit's, half the write whose
\* summary is still to come.
Run == [task : Tasks,
        stage : {"claimed", "turn", "calls", "summary", "completed"},
        tree : [Nodes -> SUBSET Nodes], full_content : SUBSET Nodes,
        fetch_call_count : Nat, loop_count : Nat, tool_executed : BOOLEAN, no_tool_streak : Nat,
        finish_summary : BOOLEAN, writes : SUBSET Writes, half : Writes]

Init ==
    /\ status = [t \in Tasks |-> "absent"]
    /\ scope = [t \in Tasks |-> Anywhere]
    /\ operations = [t \in Tasks |-> {}]
    /\ made = [t \in Tasks |-> {}]
    /\ unreported = {}
    /\ vacuous = {}
    /\ children = FirstChildren
    /\ runner = [r \in Runners |-> Idle]
    /\ crashes = 0

-----------------------------------------------------------------------------
(***************************************************************************)
(* People                                                                  *)
(***************************************************************************)

\* create_task_batch: the whole roll-up is queued in one commit.
QueueRollup ==
    /\ Rollups # {}
    /\ \A t \in Rollups : status[t] = "absent"
    /\ \A t \in Rollups, u \in Tasks \ Rollups : u < t => status[u] # "absent"
    /\ status' = [t \in Tasks |-> IF t \in Rollups THEN "pending" ELSE status[t]]
    /\ scope' = [t \in Tasks |-> IF t \in Rollups THEN Target[t] ELSE scope[t]]
    /\ UNCHANGED <<operations, made, unreported, vacuous, children, runner, crashes>>

\* create_task_batch or create_task, with one task.
QueueTask(t, s) ==
    /\ status[t] = "absent"
    /\ \A u \in 1 .. t - 1 : status[u] # "absent"
    /\ status' = [status EXCEPT ![t] = "pending"]
    /\ scope' = [scope EXCEPT ![t] = s]
    /\ UNCHANGED <<operations, made, unreported, vacuous, children, runner, crashes>>

\* A node goes under another parent.
Move(n, p) ==
    /\ <<n, p>> \in Moves
    /\ n \notin children[p]
    /\ children' = [q \in Nodes |-> IF q = p THEN children[q] \cup {n} ELSE children[q] \ {n}]
    /\ UNCHANGED <<status, scope, operations, made, unreported, vacuous, runner, crashes>>

-----------------------------------------------------------------------------
(***************************************************************************)
(* The runner's loop                                                       *)
(***************************************************************************)
Unchanged == UNCHANGED <<scope, children, crashes>>

In(r, stage) == runner[r].stage = stage

Claimed(t) ==
    [task |-> t, stage |-> "claimed", tree |-> [n \in Nodes |-> {}],
     full_content |-> {}, fetch_call_count |-> 0, loop_count |-> 0,
     tool_executed |-> FALSE, no_tool_streak |-> 0, finish_summary |-> FALSE, writes |-> {},
     half |-> CHOOSE w \in Writes : TRUE]

\* claim_oldest_task: FOR UPDATE SKIP LOCKED, oldest first.  The mutant forgets
\* ORDER BY created_at.
Claim_AnyOrder(r, t) ==
    /\ runner[r] = Idle
    /\ status[t] = "pending"
    /\ status' = [status EXCEPT ![t] = "processing"]
    /\ runner' = [runner EXCEPT ![r] = Claimed(t)]
    /\ UNCHANGED <<operations, made, unreported, vacuous>> /\ Unchanged

Claim(r, t) ==
    /\ runner[r] = Idle
    /\ status[t] = "pending"
    /\ \A u \in 1 .. t - 1 : status[u] # "pending"
    /\ status' = [status EXCEPT ![t] = "processing"]
    /\ runner' = [runner EXCEPT ![r] = Claimed(t)]
    /\ UNCHANGED <<operations, made, unreported, vacuous>> /\ Unchanged

\* The runner is no longer executing; its task has the status and operations.
End(r, outcome, writes) ==
    /\ status' = [status EXCEPT ![runner[r].task] = outcome]
    /\ operations' = [operations EXCEPT ![runner[r].task] = writes]

\* The agent has lost its access to the vault.  The mutants leave the task
\* processing, and go on with it.
RefuseTask_Silent(r) ==
    /\ In(r, "claimed")
    /\ runner' = [runner EXCEPT ![r] = Idle]
    /\ UNCHANGED <<status, operations, made, unreported, vacuous>> /\ Unchanged

RefuseTask_GoesOn(r) ==
    /\ In(r, "claimed")
    /\ End(r, "failed", {})
    /\ UNCHANGED <<runner, made, unreported, vacuous>> /\ Unchanged

RefuseTask(r) ==
    /\ In(r, "claimed")
    /\ End(r, "failed", {})
    /\ runner' = [runner EXCEPT ![r] = Idle]
    /\ UNCHANGED <<made, unreported, vacuous>> /\ Unchanged

\* run_agent, up to its loop: the tree.
StartAgent(r) ==
    /\ In(r, "claimed")
    /\ runner' = [runner EXCEPT ![r].stage = "turn", ![r].tree = children]
    /\ UNCHANGED <<status, operations, made, unreported, vacuous>> /\ Unchanged

\* An exception anywhere in run_agent, the limit on turns and the one on turns
\* without a call included: the task fails, with the writes it has recorded.
\* The mutant loses the writes.
Fail_WritesLost(r) ==
    /\ runner[r].stage \in {"claimed", "turn", "calls"}
    /\ End(r, "failed", {})
    /\ runner' = [runner EXCEPT ![r] = Idle]
    /\ UNCHANGED <<made, unreported, vacuous>> /\ Unchanged

Fail(r) ==
    /\ runner[r].stage \in {"claimed", "turn", "calls"}
    /\ End(r, "failed", runner[r].writes)
    /\ runner' = [runner EXCEPT ![r] = Idle]
    /\ UNCHANGED <<made, unreported, vacuous>> /\ Unchanged

\* The model answers.
BeginTurn(r) ==
    /\ In(r, "turn")
    /\ runner[r].loop_count < MAX_LOOP_TURNS
    /\ runner' = [runner EXCEPT ![r].stage = "calls", ![r].tool_executed = FALSE,
                                 ![r].loop_count = @ + 1]
    /\ UNCHANGED <<status, operations, made, unreported, vacuous>> /\ Unchanged

\* One of the calls of its answer, and what it does to the run.
Call(r, run) ==
    /\ In(r, "calls")
    /\ ~ runner[r].finish_summary
    /\ runner' = [runner EXCEPT ![r] = [run EXCEPT !.tool_executed = TRUE]]

\* The answer is through.
EndTurn(r) ==
    LET streak == IF runner[r].tool_executed THEN 0 ELSE runner[r].no_tool_streak + 1
    IN  /\ In(r, "calls")
        /\ ~ runner[r].finish_summary
        /\ streak < 3
        /\ runner' = [runner EXCEPT ![r].stage = "turn", ![r].no_tool_streak = streak]
        /\ UNCHANGED <<status, operations, made, unreported, vacuous>> /\ Unchanged

\* Returned from run_agent: the task is completed, then its audit saved.
Complete(r) ==
    /\ In(r, "calls")
    /\ runner[r].finish_summary
    /\ End(r, "completed", runner[r].writes)
    /\ runner' = [runner EXCEPT ![r].stage = "completed"]
    /\ UNCHANGED <<made, unreported, vacuous>> /\ Unchanged

\* The audit cannot be saved: the handler of _execute_task fails the task that
\* was completed, and fails to save the audit again.
SaveAudit(r) ==
    /\ In(r, "completed")
    /\ \/ UNCHANGED <<status, operations>>
       \/ End(r, "failed", runner[r].writes)
    /\ runner' = [runner EXCEPT ![r] = Idle]
    /\ UNCHANGED <<made, unreported, vacuous>> /\ Unchanged

\* The process is killed and started again: nothing takes its task back.
Crash(r) ==
    /\ runner[r] # Idle
    /\ crashes < MaxCrashes
    /\ crashes' = crashes + 1
    /\ runner' = [runner EXCEPT ![r] = Idle]
    /\ UNCHANGED <<status, scope, operations, made, unreported, vacuous, children>>

-----------------------------------------------------------------------------
(***************************************************************************)
(* The agent's tools                                                       *)
(***************************************************************************)

\* A call that changes nothing: a search, a rejected or a failed call.
OtherCall(r) ==
    /\ In(r, "calls")
    /\ Call(r, runner[r])
    /\ UNCHANGED <<status, operations, made, unreported, vacuous>> /\ Unchanged

\* A fetch within _check_budget.  Without a write scope nothing depends on what
\* was fetched, and a fetch is an OtherCall.
MayFetch(r) ==
    /\ In(r, "calls")
    /\ scope[runner[r].task] # Anywhere
    /\ runner[r].fetch_call_count < MAX_TOOL_FETCHES

\* One that brings no evidence: get_node_summary, and either call for a node
\* elsewhere in the vault.
FetchOther(r) ==
    /\ MayFetch(r)
    /\ Call(r, [runner[r] EXCEPT !.fetch_call_count = @ + 1])
    /\ UNCHANGED <<status, operations, made, unreported, vacuous>> /\ Unchanged

\* get_node_content.  The mutant charges nothing.
Fetch_Uncharged(r, n) ==
    /\ MayFetch(r)
    /\ n \notin runner[r].full_content
    /\ Call(r, [runner[r] EXCEPT !.full_content = @ \cup {n}])
    /\ UNCHANGED <<status, operations, made, unreported, vacuous>> /\ Unchanged

Fetch(r, n) ==
    /\ MayFetch(r)
    /\ n \notin runner[r].full_content
    /\ Call(r, [runner[r] EXCEPT !.full_content = @ \cup {n}, !.fetch_call_count = @ + 1])
    /\ UNCHANGED <<status, operations, made, unreported, vacuous>> /\ Unchanged

\* The write scope and, for write_node, the evidence.
MayWrite(r, w) ==
    scope[runner[r].task] # Anywhere =>
          /\ w.tool = "write_node"
          /\ w.node = scope[runner[r].task]
          /\ runner[r].tree[w.node] \cup {w.node} \subseteq runner[r].full_content

\* What the tool is asked for is committed, and it reports a failure all the
\* same: node_service reloads the node and rebuilds the cached tree after its
\* commit, and svc.py turns any exception into a failed call.
FailsAfterCommit(r, w) ==
    /\ Call(r, runner[r])
    /\ unreported' = unreported \cup {<<runner[r].task, w>>}

\* A tool that writes with one commit, and write_node on a protected node or
\* with the content the node has, when it writes the summary only.
Write(r, w) ==
    /\ In(r, "calls")
    /\ w.tool # "create_node"
    /\ MayWrite(r, w)
    /\ \/ Call(r, [runner[r] EXCEPT !.writes = @ \cup {w}]) /\ UNCHANGED unreported
       \/ FailsAfterCommit(r, w)
    /\ made' = [made EXCEPT ![runner[r].task] = @ \cup {w}]
    /\ UNCHANGED <<status, operations, vacuous>> /\ Unchanged

\* rename_node to the title a node has and move_node to the parent it has report
\* a write.
WriteNothing(r, w) ==
    /\ In(r, "calls")
    /\ w.tool = "other"
    /\ MayWrite(r, w)
    /\ Call(r, [runner[r] EXCEPT !.writes = @ \cup {w}])
    /\ vacuous' = vacuous \cup {<<runner[r].task, w>>}
    /\ UNCHANGED <<status, operations, made, unreported>> /\ Unchanged

\* The first of two commits ...
WriteContent(r, w) ==
    /\ In(r, "calls")
    /\ w.tool # "other"
    /\ MayWrite(r, w)
    /\ \/ Call(r, [runner[r] EXCEPT !.stage = "summary", !.half = w]) /\ UNCHANGED unreported
       \/ FailsAfterCommit(r, w)
    /\ made' = [made EXCEPT ![runner[r].task] = @ \cup {w}]
    /\ UNCHANGED <<status, operations, vacuous>> /\ Unchanged

\* ... and the second, which may be refused, or fail after its commit; without
\* either the write is recorded.
WriteItsSummary(r) ==
    /\ In(r, "summary")
    /\ \/ /\ runner' = [runner EXCEPT ![r].stage = "calls",
                                      ![r].writes = @ \cup {runner[r].half}]
          /\ UNCHANGED unreported
       \/ /\ runner' = [runner EXCEPT ![r].stage = "calls"]
          /\ unreported' = unreported \cup {<<runner[r].task, runner[r].half>>}
    /\ UNCHANGED <<status, operations, made, vacuous>> /\ Unchanged

\* finish, with a summary.
Finish(r) ==
    /\ In(r, "calls")
    /\ Call(r, [runner[r] EXCEPT !.finish_summary = TRUE])
    /\ UNCHANGED <<status, operations, made, unreported, vacuous>> /\ Unchanged

-----------------------------------------------------------------------------
People ==
    \/ QueueRollup
    \/ \E t \in Tasks, s \in Scopes : QueueTask(t, s)
    \/ \E n, p \in Nodes : Move(n, p)

RunnerStep(r) ==
    \/ \E t \in Tasks : Claim(r, t)
    \/ RefuseTask(r) \/ StartAgent(r) \/ Fail(r)
    \/ BeginTurn(r) \/ EndTurn(r) \/ Complete(r) \/ SaveAudit(r)
    \/ OtherCall(r)
    \/ FetchOther(r)
    \/ \E n \in Nodes : Fetch(r, n)
    \/ \E w \in Writes : Write(r, w) \/ WriteNothing(r, w) \/ WriteContent(r, w)
    \/ WriteItsSummary(r)
    \/ Finish(r)

Next ==
    \/ People
    \/ \E r \in Runners : RunnerStep(r) \/ Crash(r)

Spec == Init /\ [][Next]_vars

\* A runner polls for ever, and its other queues run empty now and then; the
\* model answers or the turn times out, and an answer has finitely many calls.
FairSpec ==
    /\ Spec
    /\ \A r \in Runners :
          /\ WF_vars(RunnerStep(r))
          /\ SF_vars(EndTurn(r) \/ Complete(r) \/ Fail(r))

-----------------------------------------------------------------------------
Executing(t) == \E r \in Runners : runner[r] # Idle /\ runner[r].task = t

\* Died with the runner that had claimed it.
Orphaned(t) == status[t] = "processing" /\ ~ Executing(t)

\* A task is executed by one runner, once: what has ended stays ended.
EndsOnce ==
    [][\A t \in Tasks :
          /\ status[t] \in Ended => status'[t] \in Ended
          /\ status[t] = "failed" => UNCHANGED <<status[t], operations[t], made[t]>>]_vars

\* A roll-up goes upward: while a task writes, each task queued before it has
\* ended, or another runner has it, or it died with its runner.
OldestFirst ==
    [][\A t, u \in Tasks :
          made'[t] # made[t] /\ u < t =>
              status[u] \in Ended \/ Orphaned(u) \/ Executing(u)]_vars

\* "Before writing, it must fetch the full current Markdown of that parent and
\* each immediate child" (docs/agent.md): each that it was told of.  Since every
\* fetch is charged, a parent of MAX_TOOL_FETCHES children is never written.
EvidenceWithinBudget ==
    \A r \in Runners : runner[r] # Idle =>
        LET run == runner[r]
        IN  scope[run.task] # Anywhere /\ made[run.task] # {} =>
                Cardinality(run.tree[scope[run.task]]) < MAX_TOOL_FETCHES

\* The operations of a task that has ended are what it wrote, but for the writes
\* whose tool failed after a commit, and for those that changed nothing.
OperationsTellWrites ==
    \A t \in Tasks : status[t] \in Ended =>
        /\ \A w \in operations[t] \ made[t] : <<t, w>> \in vacuous
        /\ \A w \in made[t] \ operations[t] : <<t, w>> \in unreported

\* Every task comes to an end, whatever the model answers, unless its runner is
\* killed.
TasksEnd ==
    \A t \in Tasks :
        status[t] = "pending" ~> status[t] \in Ended \/ (Orphaned(t) /\ crashes > 0)
=============================================================================
