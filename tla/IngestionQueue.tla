--------------------------- MODULE IngestionQueue ---------------------------
(***************************************************************************)
(* The queue of PDF imports: rows of ingestion_runs, the workers that      *)
(* claim, execute and recover them (the in-app thread of                   *)
(* ingestion_worker.py and the task runner of agent/loop.py, which share   *)
(* the code), and the API requests that import synchronously.              *)
(*                                                                         *)
(* Time is one bit: heartbeat_at is fresh, or older than STALE_AFTER.  A   *)
(* worker's heartbeat thread keeps its run fresh, except where the         *)
(* database refuses its writes for that long (errors are only logged).  A  *)
(* synchronous import has no such thread, so its run goes stale whenever   *)
(* the import takes longer.                                                *)
(*                                                                         *)
(* No write of an executor looks at the status it overwrites: one whose    *)
(* run was taken from it goes on and writes its outcome all the same.      *)
(***************************************************************************)
EXTENDS Naturals

CONSTANTS
    Workers,        \* processes that call process_next_run
    Requests,       \* API threads that run ingest_now
    NoRun,          \* what an idle executor executes
    MAX_ATTEMPTS,   \* executions of a run before recovery gives up
    MaxRuns,        \* bound: rows of ingestion_runs
    MaxCrashes,     \* bound: executors killed
    MaxMisses       \* bound: heartbeats that failed for STALE_AFTER

ASSUME ConstantsAssumption ==
    /\ Workers \cap Requests = {}
    /\ MAX_ATTEMPTS \in Nat \ {0}
    /\ MaxRuns \in Nat
    /\ MaxCrashes \in Nat
    /\ MaxMisses \in Nat
    /\ NoRun \notin Nat

VARIABLES
    status,     \* of each run, "absent" before it is uploaded
    workflow,   \* of each run: extract, extract_and_curate or curate_only
    queued,     \* runs that keep the request_json to execute them from
    attempts,   \* of each run
    heartbeat,  \* heartbeat_at of each run: fresh, stale or null
    running,    \* the run each executor is executing
    phase,      \* and how far it is
    curations,  \* curation jobs each run has queued
    crashes, misses

run_vars == <<status, workflow, queued, attempts, heartbeat>>
executor_vars == <<running, phase>>

vars == <<status, workflow, queued, attempts, heartbeat, running, phase, curations,
          crashes, misses>>

-----------------------------------------------------------------------------
\* Runs are numbered in the order of created_at.
Runs == 1 .. MaxRuns
Executors == Workers \cup Requests
Workflows == {"extract", "extract_and_curate", "curate_only"}
Outcomes == {"completed", "failed"}

\* The next row of the table.
IsNext(r) == status[r] = "absent" /\ \A q \in 1 .. r - 1 : status[q] # "absent"

\* The one first in the queue.
IsOldestPending(r) ==
    status[r] = "pending" /\ \A q \in 1 .. r - 1 : status[q] # "pending"

\* A heartbeat thread is there for the run.
Beating(r) == \E w \in Workers : running[w] = r

Init ==
    /\ status = [r \in Runs |-> "absent"]
    /\ workflow = [r \in Runs |-> "extract"]
    /\ queued = {}
    /\ attempts = [r \in Runs |-> 0]
    /\ heartbeat = [r \in Runs |-> "null"]
    /\ running = [e \in Executors |-> NoRun]
    /\ phase = [e \in Executors |-> "polling"]
    /\ curations = [r \in Runs |-> 0]
    /\ crashes = 0
    /\ misses = 0

-----------------------------------------------------------------------------
(***************************************************************************)
(* Uploads                                                                 *)
(***************************************************************************)

\* enqueue: the upload is stored, the run is pending.
Enqueue(r, flow) ==
    /\ IsNext(r)
    /\ status' = [status EXCEPT ![r] = "pending"]
    /\ workflow' = [workflow EXCEPT ![r] = flow]
    /\ queued' = queued \cup {r}
    /\ UNCHANGED <<attempts, heartbeat, executor_vars, curations, crashes, misses>>

\* ingest_now, up to the commit in which run_connector creates its own run.
\* (With curate_only a synchronous upload has no run.)
StartNow(e, r, flow) ==
    /\ phase[e] = "polling"
    /\ IsNext(r)
    /\ status' = [status EXCEPT ![r] = "processing"]
    /\ workflow' = [workflow EXCEPT ![r] = flow]
    /\ attempts' = [attempts EXCEPT ![r] = 1]
    /\ heartbeat' = [heartbeat EXCEPT ![r] = "fresh"]
    /\ running' = [running EXCEPT ![e] = r]
    /\ phase' = [phase EXCEPT ![e] = "importing"]
    /\ UNCHANGED <<queued, curations, crashes, misses>>

-----------------------------------------------------------------------------
(***************************************************************************)
(* The worker's loop                                                       *)
(***************************************************************************)
\* Mutants: the age of the heartbeat is not looked at; synchronous imports are
\* passed over.
Abandoned_AnyAge(r) == status[r] = "processing"
Abandoned_QueuedOnly(r) ==
    r \in queued /\ status[r] = "processing" /\ heartbeat[r] = "stale"

\* What recovery takes for a run whose worker died.
Abandoned(r) == status[r] = "processing" /\ heartbeat[r] = "stale"

\* Mutant: recovery without a limit.
Recover_NoLimit(w) ==
    /\ phase[w] = "polling"
    /\ phase' = [phase EXCEPT ![w] = "draining"]
    /\ status' = [r \in Runs |->
          IF Abandoned(r) THEN IF r \in queued THEN "pending" ELSE "failed" ELSE status[r]]
    /\ heartbeat' = [r \in Runs |->
          IF Abandoned(r) /\ r \in queued THEN "null" ELSE heartbeat[r]]
    /\ UNCHANGED <<workflow, queued, attempts, running, curations, crashes, misses>>

\* recover_stale_runs: every stale run at once, back into the queue if it can
\* be replayed and has attempts left, failed otherwise.
Recover(w) ==
    LET again(r) == r \in queued /\ attempts[r] < MAX_ATTEMPTS
    IN  /\ phase[w] = "polling"
        /\ phase' = [phase EXCEPT ![w] = "draining"]
        /\ status' = [r \in Runs |->
              IF Abandoned(r) THEN IF again(r) THEN "pending" ELSE "failed" ELSE status[r]]
        /\ heartbeat' = [r \in Runs |->
              IF Abandoned(r) /\ again(r) THEN "null" ELSE heartbeat[r]]
        /\ UNCHANGED <<workflow, queued, attempts, running, curations, crashes, misses>>

\* claim_next_run, and the start of the heartbeat thread.  (Its filter on artifact_id
\* passes every run that enqueue wrote: nothing deletes an artifact but its vault,
\* and the run with it.)
Claim(w, r) ==
    /\ phase[w] = "draining"
    /\ IsOldestPending(r)
    /\ status' = [status EXCEPT ![r] = "processing"]
    /\ attempts' = [attempts EXCEPT ![r] = @ + 1]
    /\ heartbeat' = [heartbeat EXCEPT ![r] = "fresh"]
    /\ running' = [running EXCEPT ![w] = r]
    /\ phase' = [phase EXCEPT ![w] = "claimed"]
    /\ UNCHANGED <<workflow, queued, curations, crashes, misses>>

\* The queue is empty: wait for the next poll.
Sleep(w) ==
    /\ phase[w] = "draining"
    /\ \A r \in Runs : status[r] # "pending"
    /\ phase' = [phase EXCEPT ![w] = "polling"]
    /\ UNCHANGED <<run_vars, running, curations, crashes, misses>>

-----------------------------------------------------------------------------
(***************************************************************************)
(* Execution                                                               *)
(***************************************************************************)

\* The executor is done with its run.  The in-app worker goes on draining the
\* queue, the task runner recovers first.
Done(e) ==
    /\ running' = [running EXCEPT ![e] = NoRun]
    /\ \E next \in IF e \in Workers THEN {"polling", "draining"} ELSE {"polling"} :
          phase' = [phase EXCEPT ![e] = next]

\* run_connector on a claimed run: "processing" again, and a fresh heartbeat.
\* If the status is still loaded from the claim, the flush leaves it out.
StartImport(w) ==
    LET r == running[w]
    IN  /\ phase[w] = "claimed"
        /\ workflow[r] # "curate_only"
        /\ status' \in {status, [status EXCEPT ![r] = "processing"]}
        /\ heartbeat' = [heartbeat EXCEPT ![r] = "fresh"]
        /\ phase' = [phase EXCEPT ![w] = "importing"]
        /\ UNCHANGED <<workflow, queued, attempts, running, curations, crashes, misses>>

\* run_connector's last commit: all documents are nodes.
CompleteImport(e) ==
    LET r == running[e]
    IN  /\ phase[e] = "importing"
        /\ status' = [status EXCEPT ![r] = "completed"]
        /\ IF workflow[r] = "extract"
           THEN Done(e)
           ELSE phase' = [phase EXCEPT ![e] = "curating"] /\ UNCHANGED running
        /\ UNCHANGED <<workflow, queued, attempts, heartbeat, curations, crashes, misses>>

\* execute_pdf_ingestion's CurationJob, a commit of its own after the import.
QueueCuration(e) ==
    LET r == running[e]
    IN  /\ \/ phase[e] = "curating"
           \/ phase[e] = "claimed" /\ workflow[r] = "curate_only"
        /\ curations' = [curations EXCEPT ![r] = @ + 1]
        /\ IF workflow[r] = "curate_only"
           THEN phase' = [phase EXCEPT ![e] = "closing"] /\ UNCHANGED running
           ELSE Done(e)
        /\ UNCHANGED <<run_vars, crashes, misses>>

\* execute_queued_run's completion of a curate_only run.
CloseRun(w) ==
    /\ phase[w] = "closing"
    /\ status' = [status EXCEPT ![running[w]] = "completed"]
    /\ Done(w)
    /\ UNCHANGED <<workflow, queued, attempts, heartbeat, curations, crashes, misses>>

\* An exception: run_connector fails its run; process_next_run fails whatever
\* run has not failed yet, one already completed included.
Fail(e) ==
    /\ running[e] # NoRun
    /\ status' = IF e \in Workers \/ phase[e] = "importing"
                 THEN [status EXCEPT ![running[e]] = "failed"] ELSE status
    /\ Done(e)
    /\ UNCHANGED <<workflow, queued, attempts, heartbeat, curations, crashes, misses>>

-----------------------------------------------------------------------------
(***************************************************************************)
(* Time, silence and death                                                 *)
(***************************************************************************)

\* STALE_AFTER passes and nobody refreshed the heartbeat.
GoStale(r) ==
    /\ status[r] = "processing"
    /\ heartbeat[r] = "fresh"
    /\ ~ Beating(r)
    /\ heartbeat' = [heartbeat EXCEPT ![r] = "stale"]
    /\ UNCHANGED <<status, workflow, queued, attempts, executor_vars, curations, crashes, misses>>

\* The same, although the worker is alive: its updates failed all that time.
MissHeartbeats(r) ==
    /\ status[r] = "processing"
    /\ heartbeat[r] = "fresh"
    /\ Beating(r)
    /\ misses < MaxMisses
    /\ misses' = misses + 1
    /\ heartbeat' = [heartbeat EXCEPT ![r] = "stale"]
    /\ UNCHANGED <<status, workflow, queued, attempts, executor_vars, curations, crashes>>

\* heartbeat's thread, which asks neither for the status nor for its executor.
Beat(w) ==
    /\ running[w] # NoRun
    /\ heartbeat[running[w]] # "fresh"
    /\ heartbeat' = [heartbeat EXCEPT ![running[w]] = "fresh"]
    /\ UNCHANGED <<status, workflow, queued, attempts, executor_vars, curations, crashes, misses>>

\* The process is killed and started again.
Crash(e) ==
    /\ running[e] # NoRun
    /\ crashes < MaxCrashes
    /\ crashes' = crashes + 1
    /\ running' = [running EXCEPT ![e] = NoRun]
    /\ phase' = [phase EXCEPT ![e] = "polling"]
    /\ UNCHANGED <<run_vars, curations, misses>>

-----------------------------------------------------------------------------
Upload ==
    \E r \in Runs :
        \/ \E flow \in Workflows : Enqueue(r, flow)
        \/ \E e \in Requests, flow \in Workflows \ {"curate_only"} : StartNow(e, r, flow)

Execute(e) ==
    \/ CompleteImport(e)
    \/ QueueCuration(e)
    \/ Fail(e)

WorkerStep(w) ==
    \/ Recover(w)
    \/ \E r \in Runs : Claim(w, r)
    \/ Sleep(w)
    \/ StartImport(w)
    \/ CloseRun(w)
    \/ Execute(w)

Next ==
    \/ Upload
    \/ \E w \in Workers : WorkerStep(w) \/ Beat(w)
    \/ \E e \in Requests : Execute(e)
    \/ \E r \in Runs : GoStale(r) \/ MissHeartbeats(r)
    \/ \E e \in Executors : Crash(e)

Spec == Init /\ [][Next]_vars

\* A worker polls for ever, an import ends with an outcome, time passes.
Fairness ==
    /\ \A w \in Workers : WF_vars(WorkerStep(w))
    /\ \A e \in Requests : WF_vars(Execute(e))
    /\ \A r \in Runs : WF_vars(GoStale(r))

FairSpec == Spec /\ Fairness

-----------------------------------------------------------------------------
\* No run is executed more often than MAX_ATTEMPTS, whatever dies, falls
\* silent or comes back (recover_stale_runs, claim_next_run), and no execution
\* queues more than one curation of what it imported.
ExecutionsBounded ==
    \A r \in Runs : attempts[r] <= MAX_ATTEMPTS /\ curations[r] <= attempts[r]

\* As long as heartbeats get through, no run is in the hands of two executors.
OneExecutor ==
    misses = 0 =>
        \A d, e \in Executors : running[d] # NoRun /\ running[d] = running[e] => d = e

\* As long as heartbeats get through, a run that has ended is over: nobody queues
\* it again, and nobody who still had it in hand puts it back to processing.
\* (Once they do not, a worker whose run recovery gave up starts its import all
\* the same, and a later recovery may queue the run again.)
EndIsFinal ==
    [][misses' = 0 => \A r \in Runs : status[r] \in Outcomes => status'[r] \in Outcomes]_vars

\* Every upload ends with an outcome and keeps one: a run whose worker died is
\* recovered, and nothing that keeps running leaves it in processing.
RunsEnd ==
    \A r \in Runs : status[r] # "absent" ~> [](status[r] \in Outcomes)
=============================================================================
