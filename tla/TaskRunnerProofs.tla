---------------------------- MODULE TaskRunnerProofs ----------------------------
(***************************************************************************)
(* TaskRunner for any runners, tasks, nodes and limits: a task is executed *)
(* once and in its turn, reports what it wrote, and writes a scoped node   *)
(* only on evidence that the budget can pay for.                           *)
(*                                                                         *)
(* All rests on a task having one runner at most (HoldInv): what a runner  *)
(* remembers of its task is then the whole story of it (RunOK), from the   *)
(* claim, before which nothing was written, to the outcome.                *)
(***************************************************************************)
EXTENDS TaskRunner, FiniteSetTheorems, TLAPS

Queued == {"absent", "pending"}
Begun == {"processing"} \cup Ended

TypeOK ==
    /\ status \in [Tasks -> Queued \cup Begun]
    /\ scope \in [Tasks -> Nodes \cup {Anywhere}]
    /\ operations \in [Tasks -> SUBSET Writes]
    /\ made \in [Tasks -> SUBSET Writes]
    /\ children \in [Nodes -> SUBSET Nodes]
    /\ runner \in [Runners -> {Idle} \cup Run]

NoLoops == \A n \in Nodes : n \notin children[n]

\* Tasks are queued, and begun, in the order of their numbers.
QueueInv ==
    /\ \A t, u \in Tasks : u < t => /\ status[t] # "absent" => status[u] # "absent"
                                    /\ status[t] \in Begun => status[u] \in Begun
    /\ \A t \in Tasks : status[t] \in Queued => made[t] = {}

\* A runner's task is in processing, until it completes it, and its alone.
HoldInv ==
    /\ \A r \in Runners : runner[r] # Idle =>
          status[runner[r].task] = IF In(r, "completed") THEN "completed" ELSE "processing"
    /\ \A r, q \in Runners : runner[r] # Idle /\ runner[q] # Idle /\ r # q =>
          runner[r].task # runner[q].task

\* What a run has recorded is what its task has made, but for tools that failed
\* after a commit, for writes that changed nothing and for the one under way.
Audited(run) ==
    /\ \A w \in run.writes \ made[run.task] : <<run.task, w>> \in vacuous
    /\ run.stage = "summary" => run.half \in made[run.task]
    /\ \A w \in made[run.task] \ run.writes :
          <<run.task, w>> \in unreported \/ (run.stage = "summary" /\ w = run.half)

\* Each content fetched was charged.
Charged(run) ==
    /\ IsFiniteSet(run.full_content)
    /\ Cardinality(run.full_content) <= run.fetch_call_count
    /\ run.fetch_call_count <= MAX_TOOL_FETCHES

\* A scoped task that has written had fetched the target and its children.
Evident(run) ==
    scope[run.task] # Anywhere /\ made[run.task] # {} =>
        run.tree[scope[run.task]] \cup {scope[run.task]} \subseteq run.full_content

RunOK(run) ==
    /\ Audited(run) /\ Charged(run) /\ Evident(run)
    /\ \A n \in Nodes : n \notin run.tree[n]
    /\ run.stage = "claimed" => made[run.task] = {}

RunsOK == \A r \in Runners : runner[r] # Idle => RunOK(runner[r])

TaskInv == TypeOK /\ NoLoops /\ QueueInv /\ HoldInv /\ RunsOK /\ OperationsTellWrites

-----------------------------------------------------------------------------
(***************************************************************************)
(* A runner at work: its run changes, and perhaps what its task has made.  *)
(***************************************************************************)
LEMMA IdleIsNoRun == Idle \notin Run /\ Idle.stage = "idle" /\ \A run \in Run : run.stage # "idle"
  <1>1. Idle.stage = "idle"
    BY DEF Idle
  <1>2. \A run \in Run : run.stage # "idle"
    BY DEF Run
  <1>3. QED
    BY <1>1, <1>2

\* A runner in some stage has a run, and its task is in processing.
LEMMA AtWork ==
    ASSUME TaskInv, NEW r \in Runners, runner[r].stage \in {"claimed", "turn", "calls", "summary"}
    PROVE  /\ runner[r] \in Run /\ runner[r] # Idle
           /\ runner[r].task \in Tasks
           /\ status[runner[r].task] = "processing"
           /\ RunOK(runner[r])
  <1>1. runner[r] # Idle
    BY IdleIsNoRun
  <1>2. runner[r] \in Run
    BY <1>1 DEF TaskInv, TypeOK
  <1>3. runner[r].task \in Tasks
    BY <1>2 DEF Run
  <1>4. QED
    BY <1>1, <1>2, <1>3 DEF TaskInv, HoldInv, RunsOK, In

LEMMA NowRunOK ==
    ASSUME NEW run, NEW q, runner'[q] = run, RunOK(run)'
    PROVE  RunOK(runner[q])'
  BY DEF RunOK, Audited, Charged, Evident

\* Nothing else than the run's own account is at stake.
LEMMA WorkKeeps ==
    ASSUME TaskInv, NEW r \in Runners,
           runner[r].stage \in {"claimed", "turn", "calls", "summary"},
           NEW run \in Run, run.task = runner[r].task, run.stage # "completed",
           runner' = [runner EXCEPT ![r] = run],
           NEW m \in SUBSET Writes, made' = [made EXCEPT ![runner[r].task] = m],
           unreported \subseteq unreported', vacuous \subseteq vacuous',
           status' = status, scope' = scope, operations' = operations, children' = children,
           RunOK(run)'
    PROVE  TaskInv'
  <1> DEFINE t == runner[r].task
  <1>1. /\ runner[r] # Idle /\ run # Idle /\ runner[r].stage # "completed"
        /\ t \in Tasks /\ status[t] = "processing"
    BY AtWork, IdleIsNoRun
  <1>2. TypeOK'
    BY <1>1 DEF TaskInv, TypeOK
  <1>3. NoLoops' /\ QueueInv'
    BY <1>1 DEF TaskInv, TypeOK, NoLoops, QueueInv, Queued
  <1>4. HoldInv'
    BY <1>1 DEF TaskInv, TypeOK, HoldInv, In
  <1>5. RunsOK'
    <2> SUFFICES ASSUME NEW q \in Runners, runner'[q] # Idle
                 PROVE  RunOK(runner[q])'
      BY DEF RunsOK
    <2>1. CASE q = r
      <3>1. runner'[q] = run
        BY <2>1 DEF TaskInv, TypeOK
      <3>2. QED
        BY <3>1, NowRunOK
    <2>2. CASE q # r
      <3>1. runner'[q] = runner[q] /\ runner[q] # Idle /\ RunOK(runner[q])
        BY <2>2 DEF TaskInv, TypeOK, RunsOK
      <3>2. runner[q].task # t /\ runner[q].task \in Tasks
        BY <1>1, <2>2, <3>1 DEF TaskInv, TypeOK, HoldInv, Run
      <3>3. made'[runner[q].task] = made[runner[q].task]
        BY <3>2 DEF TaskInv, TypeOK
      <3>4. QED
        BY <3>1, <3>3 DEF RunOK, Audited, Charged, Evident
    <2>3. QED
      BY <2>1, <2>2
  <1>6. OperationsTellWrites'
    BY <1>1 DEF TaskInv, TypeOK, OperationsTellWrites, Ended
  <1>7. QED
    BY <1>2, <1>3, <1>4, <1>5, <1>6 DEF TaskInv

\* Most steps only move the run on.
LEMMA QuietWorkKeeps ==
    ASSUME TaskInv, NEW r \in Runners, runner[r].stage \in {"claimed", "turn", "calls"},
           NEW run \in Run, run.task = runner[r].task,
           run.stage \in {"turn", "calls"},
           runner' = [runner EXCEPT ![r] = run],
           run.writes = runner[r].writes,
           run.full_content = runner[r].full_content,
           run.fetch_call_count = runner[r].fetch_call_count,
           run.tree = runner[r].tree \/ (runner[r].stage = "claimed" /\ run.tree = children),
           UNCHANGED <<status, scope, operations, made, unreported, vacuous, children>>
    PROVE  TaskInv'
  <1>1. runner[r].task \in Tasks /\ RunOK(runner[r])
    BY AtWork
  <1>2. made' = [made EXCEPT ![runner[r].task] = made[runner[r].task]]
    BY <1>1 DEF TaskInv, TypeOK
  <1>3. Audited(run)' /\ Charged(run)'
    BY <1>1 DEF RunOK, Audited, Charged
  <1>4. Evident(run)' /\ \A n \in Nodes : n \notin run.tree[n]
    BY <1>1 DEF RunOK, Evident, TaskInv, NoLoops
  <1>5. RunOK(run)'
    BY <1>1, <1>3, <1>4 DEF RunOK
  <1>6. made[runner[r].task] \in SUBSET Writes
    BY <1>1 DEF TaskInv, TypeOK
  <1>7. QED
    BY <1>2, <1>5, <1>6, WorkKeeps

LEMMA StartAgentKeeps ==
    ASSUME TaskInv, NEW r \in Runners, StartAgent(r)
    PROVE  TaskInv'
  <1> DEFINE run == [runner[r] EXCEPT !.stage = "turn", !.tree = children]
  <1>1. runner[r].stage = "claimed" /\ runner[r] \in Run
    BY AtWork DEF StartAgent, In
  <1>2. /\ run \in Run /\ run.task = runner[r].task
        /\ run.stage = "turn" /\ run.tree = children
        /\ run.writes = runner[r].writes /\ run.full_content = runner[r].full_content
        /\ run.fetch_call_count = runner[r].fetch_call_count
    BY <1>1 DEF Run, TaskInv, TypeOK
  <1>3. runner' = [runner EXCEPT ![r] = run]
    BY DEF StartAgent
  <1> HIDE DEF run
  <1>4. QED
    BY <1>1, <1>2, <1>3, QuietWorkKeeps DEF StartAgent, Unchanged

LEMMA BeginTurnKeeps ==
    ASSUME TaskInv, NEW r \in Runners, BeginTurn(r)
    PROVE  TaskInv'
  <1> DEFINE run == [runner[r] EXCEPT !.stage = "calls", !.tool_executed = FALSE,
                                   !.loop_count = @ + 1]
  <1>1. runner[r].stage = "turn" /\ runner[r] \in Run
    BY AtWork DEF BeginTurn, In
  <1>2. /\ run \in Run /\ run.task = runner[r].task
        /\ run.stage = "calls" /\ run.tree = runner[r].tree
        /\ run.writes = runner[r].writes /\ run.full_content = runner[r].full_content
        /\ run.fetch_call_count = runner[r].fetch_call_count
    <2>1. runner[r].loop_count + 1 \in Nat
      BY <1>1 DEF Run
    <2>2. run \in Run
      BY <1>1, <2>1 DEF Run
    <2>3. QED
      BY <1>1, <2>2 DEF Run
  <1>3. runner' = [runner EXCEPT ![r] = run]
    BY DEF BeginTurn
  <1> HIDE DEF run
  <1>4. QED
    BY <1>1, <1>2, <1>3, QuietWorkKeeps DEF BeginTurn, Unchanged

LEMMA EndTurnKeeps ==
    ASSUME TaskInv, NEW r \in Runners, EndTurn(r)
    PROVE  TaskInv'
  <1> DEFINE streak == IF runner[r].tool_executed THEN 0 ELSE runner[r].no_tool_streak + 1
  <1> DEFINE run == [runner[r] EXCEPT !.stage = "turn", !.no_tool_streak = streak]
  <1>1. runner[r].stage = "calls" /\ runner[r] \in Run
    BY AtWork DEF EndTurn, In
  <1>2. /\ run \in Run /\ run.task = runner[r].task
        /\ run.stage = "turn" /\ run.tree = runner[r].tree
        /\ run.writes = runner[r].writes /\ run.full_content = runner[r].full_content
        /\ run.fetch_call_count = runner[r].fetch_call_count
    <2>1. streak \in Nat
      BY <1>1 DEF Run
    <2> HIDE DEF streak
    <2>2. run \in Run
      BY <1>1, <2>1 DEF Run
    <2>3. QED
      BY <1>1, <2>2 DEF Run
  <1>3. runner' = [runner EXCEPT ![r] = run]
    BY DEF EndTurn
  <1> HIDE DEF run
  <1>4. QED
    BY <1>1, <1>2, <1>3, QuietWorkKeeps DEF EndTurn, Unchanged

LEMMA OtherCallKeeps ==
    ASSUME TaskInv, NEW r \in Runners, OtherCall(r)
    PROVE  TaskInv'
  <1> DEFINE run == [runner[r] EXCEPT !.tool_executed = TRUE]
  <1>1. runner[r].stage = "calls" /\ runner[r] \in Run
    BY AtWork DEF OtherCall, In
  <1>2. /\ run \in Run /\ run.task = runner[r].task
        /\ run.stage = "calls" /\ run.tree = runner[r].tree
        /\ run.writes = runner[r].writes /\ run.full_content = runner[r].full_content
        /\ run.fetch_call_count = runner[r].fetch_call_count
    BY <1>1 DEF Run
  <1>3. runner' = [runner EXCEPT ![r] = run]
    BY DEF OtherCall, Call
  <1> HIDE DEF run
  <1>4. QED
    BY <1>1, <1>2, <1>3, QuietWorkKeeps DEF OtherCall, Unchanged

LEMMA FinishKeeps ==
    ASSUME TaskInv, NEW r \in Runners, Finish(r)
    PROVE  TaskInv'
  <1> DEFINE run == [[runner[r] EXCEPT !.finish_summary = TRUE] EXCEPT !.tool_executed = TRUE]
  <1>1. runner[r].stage = "calls" /\ runner[r] \in Run
    BY AtWork DEF Finish, In
  <1>2. /\ run \in Run /\ run.task = runner[r].task
        /\ run.stage = "calls" /\ run.tree = runner[r].tree
        /\ run.writes = runner[r].writes /\ run.full_content = runner[r].full_content
        /\ run.fetch_call_count = runner[r].fetch_call_count
    BY <1>1 DEF Run
  <1>3. runner' = [runner EXCEPT ![r] = run]
    BY DEF Finish, Call
  <1> HIDE DEF run
  <1>4. QED
    BY <1>1, <1>2, <1>3, QuietWorkKeeps DEF Finish, Unchanged

-----------------------------------------------------------------------------
(***************************************************************************)
(* Fetches and writes.                                                     *)
(***************************************************************************)
\* A fetch, charged, of evidence or of something else.
LEMMA FetchKeeps ==
    ASSUME TaskInv, NEW r \in Runners, MayFetch(r),
           NEW more, more = {} \/ \E n \in Nodes : more = {n},
           Call(r, [runner[r] EXCEPT !.full_content = @ \cup more, !.fetch_call_count = @ + 1]),
           UNCHANGED <<status, scope, operations, made, unreported, vacuous, children>>
    PROVE  TaskInv'
  <1>0. PICK run : run = [[runner[r] EXCEPT !.full_content = @ \cup more, !.fetch_call_count = @ + 1]
                        EXCEPT !.tool_executed = TRUE]
    OBVIOUS
  <1>1. runner[r].stage = "calls" /\ runner[r] \in Run /\ runner[r].task \in Tasks /\ RunOK(runner[r])
    BY AtWork DEF MayFetch, In
  <1>2. runner[r].full_content \cup more \in SUBSET Nodes /\ runner[r].fetch_call_count + 1 \in Nat
    BY <1>0, <1>1 DEF Run
  <1>3. run \in Run
    BY <1>0, <1>1, <1>2 DEF Run
  <1>4. /\ run.task = runner[r].task /\ run.stage = "calls" /\ run.tree = runner[r].tree
        /\ run.writes = runner[r].writes /\ run.half = runner[r].half
        /\ run.full_content = runner[r].full_content \cup more
        /\ run.fetch_call_count = runner[r].fetch_call_count + 1
    BY <1>0, <1>1, <1>2 DEF Run
  <1>5. runner' = [runner EXCEPT ![r] = run]
    BY <1>0 DEF Call
  <1>6. Audited(run)'
    BY <1>1, <1>4 DEF RunOK, Audited
  <1>7. Charged(run)'
    <2>1. IsFiniteSet(runner[r].full_content) /\ Cardinality(runner[r].full_content) \in Nat
      BY <1>1, FS_CardinalityType DEF RunOK, Charged
    <2>2. /\ IsFiniteSet(runner[r].full_content \cup more)
          /\ \/ Cardinality(runner[r].full_content \cup more) = Cardinality(runner[r].full_content)
             \/ Cardinality(runner[r].full_content \cup more) = Cardinality(runner[r].full_content) + 1
      <3>1. CASE more = {}
        <4>1. runner[r].full_content \cup more = runner[r].full_content
          BY <3>1
        <4>2. QED
          BY <2>1, <4>1, Zenon
      <3>2. ASSUME NEW n \in Nodes, more = {n}
            PROVE  /\ IsFiniteSet(runner[r].full_content \cup {n})
                   /\ \/ Cardinality(runner[r].full_content \cup {n})
                           = Cardinality(runner[r].full_content)
                      \/ Cardinality(runner[r].full_content \cup {n})
                           = Cardinality(runner[r].full_content) + 1
        BY <2>1, FS_AddElement
      <3>3. QED
        BY <3>1, <3>2
    <2>3. runner[r].fetch_call_count \in Nat /\ runner[r].fetch_call_count < MAX_TOOL_FETCHES
      BY <1>1 DEF Run, MayFetch
    <2>4. /\ Cardinality(runner[r].full_content \cup more) <= runner[r].fetch_call_count + 1
          /\ runner[r].fetch_call_count + 1 <= MAX_TOOL_FETCHES
      BY <1>1, <2>1, <2>2, <2>3, ConstantsAssumption DEF RunOK, Charged
    <2>5. QED
      BY <1>4, <2>2, <2>4 DEF Charged
  <1>8. Evident(run)'
    BY <1>1, <1>4 DEF RunOK, Evident
  <1>9. RunOK(run)'
    BY <1>1, <1>4, <1>6, <1>7, <1>8 DEF RunOK
  <1>10. made' = [made EXCEPT ![runner[r].task] = made[runner[r].task]]
         /\ made[runner[r].task] \in SUBSET Writes
    BY <1>1 DEF TaskInv, TypeOK
  <1>11. QED
    BY <1>1, <1>3, <1>4, <1>5, <1>9, <1>10, WorkKeeps

LEMMA FetchOtherKeeps ==
    ASSUME TaskInv, NEW r \in Runners, FetchOther(r)
    PROVE  TaskInv'
  <1>1. runner[r] \in Run
    BY AtWork DEF FetchOther, MayFetch, In
  <1>2. [runner[r] EXCEPT !.fetch_call_count = @ + 1]
           = [runner[r] EXCEPT !.full_content = @ \cup {}, !.fetch_call_count = @ + 1]
    BY <1>1 DEF Run
  <1>3. QED
    BY <1>2, FetchKeeps DEF FetchOther, Unchanged

LEMMA FetchContentKeeps ==
    ASSUME TaskInv, NEW r \in Runners, NEW n \in Nodes, Fetch(r, n)
    PROVE  TaskInv'
  BY FetchKeeps DEF Fetch, Unchanged

\* What every write has: evidence, and a place among what the task has made.
LEMMA WriteIsEvident ==
    ASSUME TaskInv, NEW r \in Runners, In(r, "calls"), NEW w \in Writes, MayWrite(r, w),
           NEW run, run.task = runner[r].task, run.tree = runner[r].tree,
           run.full_content = runner[r].full_content, UNCHANGED scope
    PROVE  Evident(run)'
  BY DEF MayWrite, Evident

\* What the tool has committed is made, and noted as unreported.
LEMMA FailedWriteKeeps ==
    ASSUME TaskInv, NEW r \in Runners, NEW w \in Writes, In(r, "calls"), MayWrite(r, w),
           FailsAfterCommit(r, w),
           made' = [made EXCEPT ![runner[r].task] = @ \cup {w}],
           UNCHANGED <<status, operations, vacuous>>, Unchanged
    PROVE  TaskInv'
  <1>0. PICK run : run = [runner[r] EXCEPT !.tool_executed = TRUE]
    OBVIOUS
  <1>1. runner[r].stage = "calls" /\ runner[r] \in Run /\ runner[r].task \in Tasks /\ RunOK(runner[r])
    BY AtWork DEF In
  <1>2. run \in Run
    BY <1>0, <1>1 DEF Run
  <1>3. /\ run.task = runner[r].task /\ run.stage = "calls" /\ run.tree = runner[r].tree
        /\ run.writes = runner[r].writes /\ run.full_content = runner[r].full_content
        /\ run.fetch_call_count = runner[r].fetch_call_count
    BY <1>0, <1>1 DEF Run
  <1>4. /\ runner' = [runner EXCEPT ![r] = run]
        /\ unreported' = unreported \cup {<<runner[r].task, w>>}
    BY <1>0 DEF FailsAfterCommit, Call
  <1>5. made' = [made EXCEPT ![runner[r].task] = made[runner[r].task] \cup {w}]
        /\ made[runner[r].task] \cup {w} \in SUBSET Writes
    BY <1>1 DEF TaskInv, TypeOK
  <1>6. made'[run.task] = made[runner[r].task] \cup {w}
    BY <1>1, <1>3, <1>5 DEF TaskInv, TypeOK
  <1>7. Audited(run)'
    BY <1>1, <1>3, <1>4, <1>6 DEF RunOK, Audited
  <1>8. Charged(run)'
    BY <1>1, <1>3 DEF RunOK, Charged
  <1>9. Evident(run)'
    BY <1>3, WriteIsEvident DEF Unchanged
  <1>10. RunOK(run)'
    BY <1>1, <1>3, <1>7, <1>8, <1>9 DEF RunOK
  <1>11. QED
    BY <1>1, <1>2, <1>3, <1>4, <1>5, <1>10, WorkKeeps DEF Unchanged

LEMMA WriteKeeps ==
    ASSUME TaskInv, NEW r \in Runners, NEW w \in Writes, Write(r, w)
    PROVE  TaskInv'
  <1>a. CASE FailsAfterCommit(r, w)
    BY <1>a, FailedWriteKeeps DEF Write
  <1>b. SUFFICES ASSUME Call(r, [runner[r] EXCEPT !.writes = @ \cup {w}]), UNCHANGED unreported
                 PROVE  TaskInv'
    BY <1>a DEF Write
  <1>0. PICK run : run = [[runner[r] EXCEPT !.writes = @ \cup {w}] EXCEPT !.tool_executed = TRUE]
    OBVIOUS
  <1>1. runner[r].stage = "calls" /\ runner[r] \in Run /\ runner[r].task \in Tasks /\ RunOK(runner[r])
    BY AtWork DEF Write, In
  <1>2. run \in Run
    BY <1>0, <1>1 DEF Run
  <1>3. /\ run.task = runner[r].task /\ run.stage = "calls" /\ run.tree = runner[r].tree
        /\ run.writes = runner[r].writes \cup {w} /\ run.full_content = runner[r].full_content
        /\ run.fetch_call_count = runner[r].fetch_call_count
    BY <1>0, <1>1 DEF Run
  <1>4. runner' = [runner EXCEPT ![r] = run]
    BY <1>0, <1>b DEF Call
  <1>5. made' = [made EXCEPT ![runner[r].task] = made[runner[r].task] \cup {w}]
        /\ made[runner[r].task] \cup {w} \in SUBSET Writes
    BY <1>1 DEF Write, TaskInv, TypeOK
  <1>6. made'[run.task] = made[runner[r].task] \cup {w}
    BY <1>1, <1>3, <1>5 DEF TaskInv, TypeOK
  <1>7. Audited(run)'
    BY <1>1, <1>3, <1>6, <1>b DEF RunOK, Audited, Write
  <1>8. Charged(run)'
    BY <1>1, <1>3 DEF RunOK, Charged
  <1>9. Evident(run)'
    BY <1>3, WriteIsEvident DEF Write, Unchanged
  <1>10. RunOK(run)'
    BY <1>1, <1>3, <1>7, <1>8, <1>9 DEF RunOK
  <1>11. QED
    BY <1>1, <1>2, <1>3, <1>4, <1>5, <1>10, <1>b, WorkKeeps DEF Write, Unchanged

\* A write that changed nothing joins the record, and the history says so.
LEMMA WriteNothingKeeps ==
    ASSUME TaskInv, NEW r \in Runners, NEW w \in Writes, WriteNothing(r, w)
    PROVE  TaskInv'
  <1>0. PICK run : run = [[runner[r] EXCEPT !.writes = @ \cup {w}] EXCEPT !.tool_executed = TRUE]
    OBVIOUS
  <1>1. runner[r].stage = "calls" /\ runner[r] \in Run /\ runner[r].task \in Tasks /\ RunOK(runner[r])
    BY AtWork DEF WriteNothing, In
  <1>2. run \in Run
    BY <1>0, <1>1 DEF Run
  <1>3. /\ run.task = runner[r].task /\ run.stage = "calls" /\ run.tree = runner[r].tree
        /\ run.writes = runner[r].writes \cup {w} /\ run.full_content = runner[r].full_content
        /\ run.fetch_call_count = runner[r].fetch_call_count
    BY <1>0, <1>1 DEF Run
  <1>4. runner' = [runner EXCEPT ![r] = run]
    BY <1>0 DEF WriteNothing, Call
  <1>5. /\ made' = [made EXCEPT ![runner[r].task] = made[runner[r].task]]
        /\ made[runner[r].task] \in SUBSET Writes
    BY <1>1 DEF WriteNothing, TaskInv, TypeOK
  <1>6. Audited(run)'
    BY <1>1, <1>3 DEF RunOK, Audited, WriteNothing
  <1>7. Charged(run)' /\ Evident(run)'
    BY <1>1, <1>3 DEF RunOK, Charged, Evident, WriteNothing, Unchanged
  <1>8. RunOK(run)'
    BY <1>1, <1>3, <1>6, <1>7 DEF RunOK
  <1>9. QED
    BY <1>1, <1>2, <1>3, <1>4, <1>5, <1>8, WorkKeeps DEF WriteNothing, Unchanged

LEMMA WriteContentKeeps ==
    ASSUME TaskInv, NEW r \in Runners, NEW w \in Writes, WriteContent(r, w)
    PROVE  TaskInv'
  <1>a. CASE FailsAfterCommit(r, w)
    BY <1>a, FailedWriteKeeps DEF WriteContent
  <1>b. SUFFICES ASSUME Call(r, [runner[r] EXCEPT !.stage = "summary", !.half = w]),
                        UNCHANGED unreported
                 PROVE  TaskInv'
    BY <1>a DEF WriteContent
  <1>0. PICK run : run = [[runner[r] EXCEPT !.stage = "summary", !.half = w]
                        EXCEPT !.tool_executed = TRUE]
    OBVIOUS
  <1>1. runner[r].stage = "calls" /\ runner[r] \in Run /\ runner[r].task \in Tasks /\ RunOK(runner[r])
    BY AtWork DEF WriteContent, In
  <1>2. run \in Run
    BY <1>0, <1>1 DEF Run
  <1>3. /\ run.task = runner[r].task /\ run.stage = "summary" /\ run.tree = runner[r].tree
        /\ run.half = w
        /\ run.writes = runner[r].writes /\ run.full_content = runner[r].full_content
        /\ run.fetch_call_count = runner[r].fetch_call_count
    BY <1>0, <1>1 DEF Run
  <1>4. runner' = [runner EXCEPT ![r] = run]
    BY <1>0, <1>b DEF Call
  <1>5. made' = [made EXCEPT ![runner[r].task] = made[runner[r].task] \cup {w}]
        /\ made[runner[r].task] \cup {w} \in SUBSET Writes
    BY <1>1 DEF WriteContent, TaskInv, TypeOK
  <1>6. made'[run.task] = made[runner[r].task] \cup {w}
    BY <1>1, <1>3, <1>5 DEF TaskInv, TypeOK
  <1>7. Audited(run)'
    BY <1>1, <1>3, <1>6, <1>b DEF RunOK, Audited, WriteContent
  <1>8. Charged(run)'
    BY <1>1, <1>3 DEF RunOK, Charged
  <1>9. Evident(run)'
    BY <1>3, WriteIsEvident DEF WriteContent, Unchanged
  <1>10. RunOK(run)'
    BY <1>1, <1>3, <1>7, <1>8, <1>9 DEF RunOK
  <1>11. QED
    BY <1>1, <1>2, <1>3, <1>4, <1>5, <1>10, <1>b, WorkKeeps DEF WriteContent, Unchanged

\* The write is recorded, or noted as unreported.
LEMMA WriteItsSummaryKeeps ==
    ASSUME TaskInv, NEW r \in Runners, WriteItsSummary(r)
    PROVE  TaskInv'
  <1>1. runner[r].stage = "summary" /\ runner[r] \in Run /\ runner[r].task \in Tasks /\ RunOK(runner[r])
    BY AtWork DEF WriteItsSummary, In
  <1>2. /\ made' = [made EXCEPT ![runner[r].task] = made[runner[r].task]]
        /\ made[runner[r].task] \in SUBSET Writes
    BY <1>1 DEF WriteItsSummary, TaskInv, TypeOK
  <1>3. ASSUME NEW run \in Run, run.task = runner[r].task, run.stage = "calls",
               run.tree = runner[r].tree, run.full_content = runner[r].full_content,
               run.fetch_call_count = runner[r].fetch_call_count,
               runner' = [runner EXCEPT ![r] = run], Audited(run)'
        PROVE  TaskInv'
    <2>1. Charged(run)' /\ Evident(run)'
      BY <1>1, <1>3 DEF RunOK, Charged, Evident, WriteItsSummary, Unchanged
    <2>2. RunOK(run)'
      BY <1>1, <1>3, <2>1 DEF RunOK
    <2>3. unreported \subseteq unreported' /\ vacuous \subseteq vacuous'
      BY DEF WriteItsSummary
    <2>4. QED
      BY <1>1, <1>2, <1>3, <2>2, <2>3, WorkKeeps DEF WriteItsSummary, Unchanged
  <1>4. CASE /\ runner' = [runner EXCEPT ![r].stage = "calls", ![r].writes = @ \cup {runner[r].half}]
             /\ UNCHANGED unreported
    <2>0. PICK run : run = [runner[r] EXCEPT !.stage = "calls", !.writes = @ \cup {runner[r].half}]
      OBVIOUS
    <2>1. run \in Run
      BY <2>0, <1>1 DEF Run
    <2>2. /\ run.task = runner[r].task /\ run.stage = "calls" /\ run.tree = runner[r].tree
          /\ run.writes = runner[r].writes \cup {runner[r].half}
          /\ run.full_content = runner[r].full_content
          /\ run.fetch_call_count = runner[r].fetch_call_count
      BY <2>0, <1>1 DEF Run
    <2>3. runner' = [runner EXCEPT ![r] = run]
      BY <2>0, <1>4
    <2>4. runner[r].half \in made[runner[r].task]
      BY <1>1 DEF RunOK, Audited
    <2>5. Audited(run)'
      BY <1>1, <1>4, <2>2, <2>4 DEF RunOK, Audited, WriteItsSummary
    <2>6. QED
      BY <1>3, <2>1, <2>2, <2>3, <2>5
  <1>5. CASE /\ runner' = [runner EXCEPT ![r].stage = "calls"]
             /\ unreported' = unreported \cup {<<runner[r].task, runner[r].half>>}
    <2>0. PICK run : run = [runner[r] EXCEPT !.stage = "calls"]
      OBVIOUS
    <2>1. run \in Run
      BY <2>0, <1>1 DEF Run
    <2>2. /\ run.task = runner[r].task /\ run.stage = "calls" /\ run.tree = runner[r].tree
          /\ run.writes = runner[r].writes
          /\ run.full_content = runner[r].full_content
          /\ run.fetch_call_count = runner[r].fetch_call_count
      BY <2>0, <1>1 DEF Run
    <2>3. runner' = [runner EXCEPT ![r] = run]
      BY <2>0, <1>5
    <2>4. Audited(run)'
      BY <1>1, <1>5, <2>2 DEF RunOK, Audited, WriteItsSummary
    <2>5. QED
      BY <1>3, <2>1, <2>2, <2>3, <2>4
  <1>6. QED
    BY <1>4, <1>5 DEF WriteItsSummary

-----------------------------------------------------------------------------
(***************************************************************************)
(* The ends of a run, and its beginning.                                   *)
(***************************************************************************)
LEMMA HasRun ==
    ASSUME TaskInv, NEW r \in Runners, runner[r] # Idle
    PROVE  /\ runner[r] \in Run /\ runner[r].task \in Tasks /\ RunOK(runner[r])
           /\ status[runner[r].task] \in {"processing", "completed"}
           /\ runner[r].writes \in SUBSET Writes
  <1>1. runner[r] \in Run
    BY DEF TaskInv, TypeOK
  <1>2. QED
    BY <1>1 DEF Run, TaskInv, HoldInv, RunsOK

\* A runner lets go of its task; the others have other tasks.
LEMMA ReleaseKeeps ==
    ASSUME TaskInv, NEW r \in Runners, runner' = [runner EXCEPT ![r] = Idle],
           UNCHANGED <<status, operations, scope, made, unreported, vacuous, children>>
    PROVE  TaskInv'
  <1>1. \A q \in Runners : runner'[q] # Idle => runner'[q] = runner[q] /\ runner[q] # Idle
    BY DEF TaskInv, TypeOK
  <1>2. TypeOK'
    BY DEF TaskInv, TypeOK
  <1>3. NoLoops' /\ QueueInv' /\ OperationsTellWrites'
    BY DEF TaskInv, NoLoops, QueueInv, OperationsTellWrites
  <1>4. HoldInv'
    BY <1>1 DEF TaskInv, HoldInv, In
  <1>5. RunsOK'
    BY <1>1 DEF TaskInv, RunsOK, RunOK, Audited, Charged, Evident
  <1>6. QED
    BY <1>2, <1>3, <1>4, <1>5 DEF TaskInv

\* The same, with an outcome that tells what was written.
LEMMA EndKeeps ==
    ASSUME TaskInv, NEW r \in Runners, runner[r] # Idle, runner' = [runner EXCEPT ![r] = Idle],
           NEW outcome \in Ended, NEW writes \in SUBSET Writes, End(r, outcome, writes),
           \A w \in writes \ made[runner[r].task] : <<runner[r].task, w>> \in vacuous,
           \A w \in made[runner[r].task] \ writes : <<runner[r].task, w>> \in unreported,
           UNCHANGED <<scope, made, unreported, vacuous, children>>
    PROVE  TaskInv'
  <1>1. PICK t \in Tasks : t = runner[r].task /\ status[t] \in {"processing", "completed"}
    BY HasRun
  <1>2. /\ status' = [status EXCEPT ![t] = outcome]
        /\ operations' = [operations EXCEPT ![t] = writes]
    BY <1>1 DEF End
  <1>3. \A q \in Runners : runner'[q] # Idle =>
           /\ runner'[q] = runner[q] /\ runner[q] # Idle
           /\ runner[q].task \in Tasks /\ runner[q].task # t
    BY <1>1, HasRun DEF TaskInv, TypeOK, HoldInv
  <1>4. TypeOK'
    BY <1>1, <1>2 DEF TaskInv, TypeOK, Begun
  <1>5. NoLoops' /\ QueueInv'
    BY <1>1, <1>2 DEF TaskInv, TypeOK, NoLoops, QueueInv, Queued, Begun, Ended
  <1>6. HoldInv'
    BY <1>2, <1>3 DEF TaskInv, TypeOK, HoldInv, In
  <1>7. RunsOK'
    BY SMTT(60), <1>3 DEF TaskInv, RunsOK, RunOK, Audited, Charged, Evident
  <1>8. OperationsTellWrites'
    BY <1>1, <1>2 DEF TaskInv, TypeOK, OperationsTellWrites
  <1>9. QED
    BY <1>4, <1>5, <1>6, <1>7, <1>8 DEF TaskInv

\* What a run reports, while no summary is still to come.
LEMMA ReportTellsWrites ==
    ASSUME TaskInv, NEW r \in Runners, runner[r] # Idle, runner[r].stage # "summary"
    PROVE  /\ runner[r].writes \in SUBSET Writes
           /\ \A w \in runner[r].writes \ made[runner[r].task] :
                 <<runner[r].task, w>> \in vacuous
           /\ \A w \in made[runner[r].task] \ runner[r].writes :
                 <<runner[r].task, w>> \in unreported
  BY HasRun DEF RunOK, Audited

LEMMA RefuseTaskKeeps ==
    ASSUME TaskInv, NEW r \in Runners, RefuseTask(r)
    PROVE  TaskInv'
  <1>1. runner[r] # Idle /\ made[runner[r].task] = {}
    BY AtWork DEF RefuseTask, In, RunOK
  <1>2. QED
    BY <1>1, EndKeeps DEF RefuseTask, Unchanged, Ended

LEMMA FailKeeps ==
    ASSUME TaskInv, NEW r \in Runners, Fail(r)
    PROVE  TaskInv'
  <1>1. runner[r] # Idle /\ runner[r].stage # "summary"
    BY AtWork DEF Fail
  <1>2. QED
    BY <1>1, ReportTellsWrites, EndKeeps DEF Fail, Unchanged, Ended

LEMMA SaveAuditKeeps ==
    ASSUME TaskInv, NEW r \in Runners, SaveAudit(r)
    PROVE  TaskInv'
  <1>1. runner[r] # Idle /\ runner[r].stage # "summary"
    BY IdleIsNoRun DEF SaveAudit, In
  <1>2. CASE UNCHANGED <<status, operations>>
    BY <1>2, ReleaseKeeps DEF SaveAudit, Unchanged
  <1>3. CASE End(r, "failed", runner[r].writes)
    BY <1>1, <1>3, ReportTellsWrites, EndKeeps DEF SaveAudit, Unchanged, Ended
  <1>4. QED
    BY <1>2, <1>3 DEF SaveAudit

LEMMA CrashKeeps ==
    ASSUME TaskInv, NEW r \in Runners, Crash(r)
    PROVE  TaskInv'
  BY ReleaseKeeps DEF Crash

\* The task has its outcome, and its runner the audit still to save.
LEMMA CompleteKeeps ==
    ASSUME TaskInv, NEW r \in Runners, Complete(r)
    PROVE  TaskInv'
  <1>1. runner[r].stage = "calls" /\ runner[r] # Idle /\ runner[r] \in Run /\ RunOK(runner[r])
    BY AtWork DEF Complete, In
  <1>2. PICK t \in Tasks : t = runner[r].task /\ status[t] = "processing"
    BY AtWork DEF Complete, In
  <1>3. PICK run : run = [runner[r] EXCEPT !.stage = "completed"]
    OBVIOUS
  <1>4. /\ run \in Run /\ run.task = t /\ run.stage = "completed" /\ run.tree = runner[r].tree
        /\ run.writes = runner[r].writes /\ run.full_content = runner[r].full_content
        /\ run.fetch_call_count = runner[r].fetch_call_count
    BY <1>1, <1>2, <1>3 DEF Run
  <1>5. runner' = [runner EXCEPT ![r] = run]
    BY <1>3 DEF Complete
  <1>6. /\ status' = [status EXCEPT ![t] = "completed"]
        /\ operations' = [operations EXCEPT ![t] = run.writes]
        /\ UNCHANGED <<made, unreported, vacuous, scope, children>>
    BY <1>2, <1>4 DEF Complete, End, Unchanged
  <1>7. \A q \in Runners \ {r} : runner'[q] = runner[q] /\ (runner[q] # Idle =>
           /\ runner[q].task \in Tasks /\ runner[q].task # t)
    BY <1>1, <1>2, <1>5, HasRun DEF TaskInv, TypeOK, HoldInv
  <1>8. TypeOK'
    BY <1>4, <1>5, <1>6 DEF TaskInv, TypeOK, Begun, Ended, Run
  <1>9. NoLoops' /\ QueueInv'
    BY <1>2, <1>6 DEF TaskInv, TypeOK, NoLoops, QueueInv, Queued, Begun, Ended
  <1>10. HoldInv'
    BY <1>2, <1>4, <1>5, <1>6, <1>7 DEF TaskInv, TypeOK, HoldInv, In
  <1>11. RunsOK'
    <2> SUFFICES ASSUME NEW q \in Runners, runner'[q] # Idle
                 PROVE  RunOK(runner[q])'
      BY DEF RunsOK
    <2>1. CASE q = r
      <3>1. runner'[q] = run
        BY <1>5, <2>1 DEF TaskInv, TypeOK
      <3>2. RunOK(run)'
        BY <1>1, <1>2, <1>4, <1>6 DEF RunOK, Audited, Charged, Evident
      <3>3. QED
        BY <3>1, <3>2, NowRunOK
    <2>2. CASE q # r
      BY SMTT(60), <1>6, <1>7, <2>2 DEF TaskInv, RunsOK, RunOK, Audited, Charged, Evident
    <2>3. QED
      BY <2>1, <2>2
  <1>12. OperationsTellWrites'
    BY <1>1, <1>2, <1>4, <1>6, ReportTellsWrites DEF TaskInv, TypeOK, OperationsTellWrites, Ended
  <1>13. QED
    BY <1>8, <1>9, <1>10, <1>11, <1>12 DEF TaskInv

\* A pending task has nothing behind it and nobody with it.
LEMMA ClaimKeeps ==
    ASSUME TaskInv, NEW r \in Runners, NEW t \in Tasks, Claim(r, t)
    PROVE  TaskInv'
  <1>1. PICK run : run = Claimed(t)
    OBVIOUS
  <1>2. /\ run \in Run /\ run.task = t /\ run.stage = "claimed"
        /\ run.tree = [n \in Nodes |-> {}] /\ run.full_content = {}
        /\ run.fetch_call_count = 0 /\ run.writes = {}
    <2>1. (CHOOSE w \in Writes : TRUE) \in Writes
      BY ConstantsAssumption
    <2>2. QED
      BY <1>1, <2>1 DEF Claimed, Run
  <1>3. /\ status[t] = "pending" /\ status' = [status EXCEPT ![t] = "processing"]
        /\ runner' = [runner EXCEPT ![r] = run] /\ made[t] = {}
        /\ UNCHANGED <<operations, made, unreported, vacuous, scope, children>>
    BY <1>1 DEF Claim, Unchanged, TaskInv, QueueInv, Queued
  <1>4. \A q \in Runners \ {r} : runner'[q] = runner[q] /\ (runner[q] # Idle =>
           /\ runner[q].task \in Tasks /\ runner[q].task # t)
    BY <1>3, HasRun DEF TaskInv, TypeOK
  <1>5. TypeOK'
    BY <1>2, <1>3 DEF TaskInv, TypeOK, Begun
  <1>6. NoLoops' /\ QueueInv'
    <2>1. \A u \in Tasks : u < t => status[u] \in Begun
      <3> SUFFICES ASSUME NEW u \in Tasks, u < t
                   PROVE  status[u] \in Begun
        OBVIOUS
      <3>1. status[u] # "absent"
        BY <1>3 DEF TaskInv, QueueInv
      <3>2. status[u] # "pending"
        BY DEF Claim, Tasks
      <3>3. QED
        BY <3>1, <3>2 DEF TaskInv, TypeOK, Queued
    <2>2. QED
      BY <1>3, <2>1 DEF TaskInv, TypeOK, NoLoops, QueueInv, Queued, Begun, Ended
  <1>7. HoldInv'
    BY <1>2, <1>3, <1>4 DEF TaskInv, TypeOK, HoldInv, In
  <1>8. RunsOK'
    <2> SUFFICES ASSUME NEW q \in Runners, runner'[q] # Idle
                 PROVE  RunOK(runner[q])'
      BY DEF RunsOK
    <2>1. CASE q = r
      <3>1. runner'[q] = run
        BY <1>3, <2>1 DEF TaskInv, TypeOK
      <3>2. Charged(run)'
        BY <1>2, FS_EmptySet, ConstantsAssumption DEF Charged
      <3>3. Audited(run)' /\ Evident(run)'
        BY <1>2, <1>3 DEF Audited, Evident
      <3>4. RunOK(run)'
        BY <1>2, <1>3, <3>2, <3>3 DEF RunOK
      <3>5. QED
        BY <3>1, <3>4, NowRunOK
    <2>2. CASE q # r
      BY <1>3, <1>4, <2>2 DEF TaskInv, RunsOK, RunOK, Audited, Charged, Evident
    <2>3. QED
      BY <2>1, <2>2
  <1>9. OperationsTellWrites'
    BY <1>3 DEF TaskInv, TypeOK, OperationsTellWrites, Ended
  <1>10. QED
    BY <1>5, <1>6, <1>7, <1>8, <1>9 DEF TaskInv

-----------------------------------------------------------------------------
(***************************************************************************)
(* People.                                                                 *)
(***************************************************************************)
\* Absent tasks are queued, with their scopes; nobody has them.
LEMMA QueueKeeps ==
    ASSUME TaskInv, NEW ts \in SUBSET Tasks, \A t \in ts : status[t] = "absent",
           \A t \in ts, u \in Tasks \ ts : u < t => status[u] # "absent",
           status' = [t \in Tasks |-> IF t \in ts THEN "pending" ELSE status[t]],
           scope' \in [Tasks -> Nodes \cup {Anywhere}],
           \A t \in Tasks \ ts : scope'[t] = scope[t],
           UNCHANGED <<operations, made, unreported, vacuous, children, runner>>
    PROVE  TaskInv'
  <1>1. \A r \in Runners : runner[r] # Idle => runner[r].task \in Tasks \ ts
    BY HasRun
  <1>2. TypeOK'
    BY DEF TaskInv, TypeOK, Queued
  <1>3. NoLoops' /\ QueueInv'
    BY DEF TaskInv, TypeOK, NoLoops, QueueInv, Queued, Begun, Ended
  <1>4. HoldInv'
    BY <1>1 DEF TaskInv, TypeOK, HoldInv, In
  <1>5. RunsOK'
    <2> SUFFICES ASSUME NEW r \in Runners, runner[r] # Idle
                 PROVE  RunOK(runner[r])'
      BY DEF RunsOK
    <2>1. RunOK(runner[r]) /\ scope'[runner[r].task] = scope[runner[r].task]
      BY <1>1 DEF TaskInv, RunsOK
    <2>2. QED
      BY <2>1 DEF RunOK, Audited, Charged, Evident
  <1>6. OperationsTellWrites'
    BY DEF TaskInv, TypeOK, OperationsTellWrites, Ended
  <1>7. QED
    BY <1>2, <1>3, <1>4, <1>5, <1>6 DEF TaskInv

LEMMA PeopleKeep ==
    ASSUME TaskInv, People
    PROVE  TaskInv'
  <1>1. CASE QueueRollup
    <2>1. scope' \in [Tasks -> Nodes \cup {Anywhere}]
      BY <1>1, ConstantsAssumption DEF QueueRollup, TaskInv, TypeOK
    <2>2. QED
      BY <1>1, <2>1, ConstantsAssumption, QueueKeeps DEF QueueRollup
  <1>2. ASSUME NEW t \in Tasks, NEW s \in Scopes, QueueTask(t, s) PROVE TaskInv'
    <2>1. status' = [u \in Tasks |-> IF u \in {t} THEN "pending" ELSE status[u]]
      BY <1>2 DEF QueueTask, TaskInv, TypeOK
    <2>2. scope' \in [Tasks -> Nodes \cup {Anywhere}] /\ \A u \in Tasks \ {t} : scope'[u] = scope[u]
      BY <1>2, ConstantsAssumption DEF QueueTask, TaskInv, TypeOK
    <2>3. /\ {t} \in SUBSET Tasks /\ \A x \in {t} : status[x] = "absent"
          /\ \A x \in {t}, u \in Tasks \ {t} : u < x => status[u] # "absent"
      BY <1>2 DEF QueueTask, Tasks
    <2>4. UNCHANGED <<operations, made, unreported, vacuous, children, runner>>
      BY <1>2 DEF QueueTask
    <2>5. QED
      BY <2>1, <2>2, <2>3, <2>4, QueueKeeps
  <1>3. ASSUME NEW n \in Nodes, NEW p \in Nodes, Move(n, p) PROVE TaskInv'
    <2>1. TypeOK'
      BY <1>3 DEF Move, TaskInv, TypeOK
    <2>2. NoLoops'
      BY <1>3, ParentAssumption DEF Move, TaskInv, NoLoops
    <2>3. QueueInv' /\ HoldInv' /\ RunsOK' /\ OperationsTellWrites'
      BY <1>3 DEF Move, TaskInv, QueueInv, HoldInv, In, RunsOK, RunOK, Audited, Charged,
                  Evident, OperationsTellWrites
    <2>4. QED
      BY <2>1, <2>2, <2>3 DEF TaskInv
  <1>4. QED
    BY <1>1, <1>2, <1>3 DEF People

-----------------------------------------------------------------------------
(***************************************************************************)
(* The theorems.                                                           *)
(***************************************************************************)
LEMMA InitTaskInv == Init => TaskInv
  <1> SUFFICES ASSUME Init
               PROVE  TaskInv
    OBVIOUS
  <1>1. TypeOK
    BY ConstantsAssumption DEF Init, TypeOK, Queued
  <1>2. NoLoops
    BY ParentAssumption DEF Init, NoLoops
  <1>3. QueueInv
    BY DEF Init, QueueInv, Begun, Ended
  <1>4. HoldInv /\ RunsOK
    BY DEF Init, HoldInv, RunsOK
  <1>5. OperationsTellWrites
    BY DEF Init, OperationsTellWrites, Ended
  <1>6. QED
    BY <1>1, <1>2, <1>3, <1>4, <1>5 DEF TaskInv

LEMMA NextKeepsTaskInv == TaskInv /\ [Next]_vars => TaskInv'
  <1> SUFFICES ASSUME TaskInv, [Next]_vars
               PROVE  TaskInv'
    OBVIOUS
  <1>1. CASE People
    BY <1>1, PeopleKeep
  <1>2. ASSUME NEW r \in Runners, RunnerStep(r) PROVE TaskInv'
    <2>1. CASE \/ \E t \in Tasks : Claim(r, t)
               \/ RefuseTask(r) \/ Fail(r) \/ Complete(r) \/ SaveAudit(r)
      BY <2>1, ClaimKeeps, RefuseTaskKeeps, FailKeeps, CompleteKeeps, SaveAuditKeeps
    <2>2. CASE StartAgent(r) \/ BeginTurn(r) \/ EndTurn(r) \/ OtherCall(r) \/ Finish(r)
      BY <2>2, StartAgentKeeps, BeginTurnKeeps, EndTurnKeeps, OtherCallKeeps, FinishKeeps
    <2>3. CASE FetchOther(r) \/ \E n \in Nodes : Fetch(r, n)
      BY <2>3, FetchOtherKeeps, FetchContentKeeps
    <2>4. CASE \/ \E w \in Writes : Write(r, w) \/ WriteNothing(r, w) \/ WriteContent(r, w)
               \/ WriteItsSummary(r)
      BY <2>4, WriteKeeps, WriteNothingKeeps, WriteContentKeeps, WriteItsSummaryKeeps
    <2>5. QED
      BY <1>2, <2>1, <2>2, <2>3, <2>4 DEF RunnerStep
  <1>3. ASSUME NEW r \in Runners, Crash(r) PROVE TaskInv'
    BY <1>3, CrashKeeps
  <1>4. CASE UNCHANGED vars
    <2> USE <1>4 DEF vars
    <2>1. TypeOK' /\ NoLoops' /\ QueueInv' /\ HoldInv'
      BY DEF TaskInv, TypeOK, NoLoops, QueueInv, HoldInv, In
    <2>2. RunsOK'
      BY DEF TaskInv, RunsOK, RunOK, Audited, Charged, Evident
    <2>3. OperationsTellWrites'
      BY DEF TaskInv, OperationsTellWrites
    <2>4. QED
      BY <2>1, <2>2, <2>3 DEF TaskInv
  <1>5. QED
    BY <1>1, <1>2, <1>3, <1>4 DEF Next

\* A task that has ended reports what it wrote, but for tools that failed after a
\* commit and reports of no change, whatever ended its run and however many
\* runners there are.
THEOREM TruthfulReports == Spec => []OperationsTellWrites
  <1>1. TaskInv => OperationsTellWrites
    BY DEF TaskInv
  <1>2. QED
    BY InitTaskInv, NextKeepsTaskInv, <1>1, PTL DEF Spec

\* A scoped task that has written was within its budget of fetches with the
\* target and every child: MAX_TOOL_FETCHES children are too many.
THEOREM BudgetedEvidence == Spec => []EvidenceWithinBudget
  <1>1. ASSUME TaskInv PROVE EvidenceWithinBudget
    <2> SUFFICES ASSUME NEW r \in Runners, runner[r] # Idle,
                        scope[runner[r].task] # Anywhere, made[runner[r].task] # {}
                 PROVE  Cardinality(runner[r].tree[scope[runner[r].task]]) < MAX_TOOL_FETCHES
      BY DEF EvidenceWithinBudget
    <2>1. PICK n \in Nodes : n = scope[runner[r].task]
      BY <1>1, HasRun DEF TaskInv, TypeOK
    <2>2. PICK below : below = runner[r].tree[n]
      OBVIOUS
    <2>3. /\ n \notin below /\ below \cup {n} \subseteq runner[r].full_content
          /\ Charged(runner[r])
      BY <1>1, <2>1, <2>2, HasRun DEF RunOK, Evident
    <2>4. /\ IsFiniteSet(below \cup {n}) /\ IsFiniteSet(below)
          /\ Cardinality(below \cup {n}) <= Cardinality(runner[r].full_content)
      <3>1. below \subseteq runner[r].full_content /\ IsFiniteSet(runner[r].full_content)
        BY <2>3 DEF Charged
      <3>2. QED
        BY <2>3, <3>1, FS_Subset
    <2>5. Cardinality(below \cup {n}) = Cardinality(below) + 1
      BY <2>3, <2>4, FS_AddElement
    <2>6. Cardinality(below) \in Nat /\ Cardinality(runner[r].full_content) \in Nat
      BY <2>3, <2>4, FS_CardinalityType DEF Charged
    <2>7. runner[r].fetch_call_count \in Nat
      BY <1>1, HasRun DEF Run
    <2>8. Cardinality(below) < MAX_TOOL_FETCHES
      BY <2>3, <2>4, <2>5, <2>6, <2>7, ConstantsAssumption DEF Charged
    <2>9. QED
      BY <2>1, <2>2, <2>8
  <1>2. QED
    BY InitTaskInv, NextKeepsTaskInv, <1>1, PTL DEF Spec

\* A task's record of writes grows only in the hands of its runner.
LEMMA MadeAtWork ==
    ASSUME TaskInv, Next, NEW t \in Tasks, made'[t] # made[t]
    PROVE  status[t] = "processing"
  <1>1. PICK r \in Runners, w \in Writes : Write(r, w) \/ WriteContent(r, w)
    <2>1. CASE People
      BY <2>1 DEF People, QueueRollup, QueueTask, Move
    <2>2. ASSUME NEW r \in Runners, Crash(r) PROVE FALSE
      BY <2>2 DEF Crash
    <2>3. ASSUME NEW r \in Runners, RunnerStep(r)
          PROVE  \E w \in Writes : Write(r, w) \/ WriteContent(r, w)
      BY <2>3 DEF RunnerStep, Claim, RefuseTask, StartAgent, Fail, BeginTurn, EndTurn, Complete,
                  SaveAudit, OtherCall, FetchOther, Fetch, WriteNothing, WriteItsSummary,
                  Finish
    <2>4. QED
      BY <2>1, <2>2, <2>3 DEF Next
  <1>2. runner[r].stage = "calls" /\ made'[t] = [made EXCEPT ![runner[r].task] = @ \cup {w}][t]
    BY <1>1 DEF Write, WriteContent, In
  <1>3. t = runner[r].task
    BY <1>2 DEF TaskInv, TypeOK
  <1>4. QED
    BY <1>2, <1>3, AtWork

\* What a step may do to the status of a task.
LEMMA StatusSteps ==
    ASSUME TaskInv, Next, NEW t \in Tasks
    PROVE  \/ status'[t] = status[t] /\ operations'[t] = operations[t]
           \/ status[t] \in Queued
           \/ status[t] \in {"processing", "completed"} /\ status'[t] \in Ended
  <1> USE DEF TaskInv, TypeOK, Queued, Ended
  <1>1. CASE People
    BY <1>1 DEF People, QueueRollup, QueueTask, Move
  <1>2. ASSUME NEW r \in Runners, Crash(r) PROVE status'[t] = status[t] /\ operations'[t] = operations[t]
    BY <1>2 DEF Crash
  <1>3. ASSUME NEW r \in Runners, RefuseTask(r) \/ Fail(r) \/ Complete(r) \/ SaveAudit(r)
        PROVE  \/ status'[t] = status[t] /\ operations'[t] = operations[t]
               \/ status[t] \in {"processing", "completed"} /\ status'[t] \in Ended
    <2>1. runner[r] # Idle
      BY <1>3, IdleIsNoRun DEF RefuseTask, Fail, Complete, SaveAudit, In
    <2>2. runner[r].task \in Tasks /\ status[runner[r].task] \in {"processing", "completed"}
      BY <2>1, HasRun
    <2>3. \/ UNCHANGED <<status, operations>>
          \/ \E o \in Ended : \E ws : End(r, o, ws)
      BY <1>3 DEF RefuseTask, Fail, Complete, SaveAudit
    <2>4. QED
      BY <2>2, <2>3 DEF End
  <1>4. ASSUME NEW r \in Runners, RunnerStep(r),
               ~ (RefuseTask(r) \/ Fail(r) \/ Complete(r) \/ SaveAudit(r))
        PROVE  \/ status'[t] = status[t] /\ operations'[t] = operations[t]
               \/ status[t] \in Queued
    BY <1>4 DEF RunnerStep, Claim, StartAgent, BeginTurn, EndTurn, OtherCall, FetchOther, Fetch,
                Write, WriteNothing, WriteContent, WriteItsSummary, Finish
  <1>5. QED
    BY <1>1, <1>2, <1>3, <1>4 DEF Next

\* A task is executed once: an outcome is not taken back, and one of failure,
\* with what the task wrote and reports, is final.
THEOREM ExecutedOnce == Spec => EndsOnce
  <1> DEFINE Once == \A t \in Tasks :
                        /\ status[t] \in Ended => status'[t] \in Ended
                        /\ status[t] = "failed" => UNCHANGED <<status[t], operations[t], made[t]>>
  <1>1. TaskInv /\ [Next]_vars => [Once]_vars
    <2>1. ASSUME TaskInv, Next, NEW t \in Tasks, status[t] \in Ended
          PROVE  /\ status'[t] \in Ended /\ made'[t] = made[t]
                 /\ status[t] = "failed" => status'[t] = status[t] /\ operations'[t] = operations[t]
      <3>1. made'[t] = made[t]
        BY <2>1, MadeAtWork DEF Ended
      <3>2. QED
        BY <2>1, <3>1, StatusSteps DEF Queued, Ended
    <2>2. ASSUME TaskInv, Next PROVE Once
      BY <2>1, <2>2 DEF Ended
    <2>3. QED
      BY <2>2
  <1>2. QED
    BY InitTaskInv, NextKeepsTaskInv, <1>1, PTL DEF Spec, EndsOnce

\* When a task writes, those queued before it have ended, are being executed or
\* have died: the parents of a roll-up are written from below.
THEOREM DeepestFirst == Spec => OldestFirst
  <1> DEFINE Upward == \A t, u \in Tasks :
                          made'[t] # made[t] /\ u < t =>
                             status[u] \in Ended \/ Orphaned(u) \/ Executing(u)
  <1>1. TaskInv /\ [Next]_vars => [Upward]_vars
    <2> SUFFICES ASSUME TaskInv, Next, NEW t \in Tasks, NEW u \in Tasks, made'[t] # made[t], u < t
                 PROVE  status[u] \in Ended \/ Orphaned(u) \/ Executing(u)
      OBVIOUS
    <2>1. status[t] = "processing"
      BY MadeAtWork
    <2>2. status[u] \in Begun
      BY <2>1 DEF TaskInv, QueueInv, Begun
    <2>3. QED
      BY <2>2 DEF Begun, Orphaned
  <1>2. QED
    BY InitTaskInv, NextKeepsTaskInv, <1>1, PTL DEF Spec, OldestFirst
=============================================================================
