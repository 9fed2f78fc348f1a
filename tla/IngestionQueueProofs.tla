-------------------------- MODULE IngestionQueueProofs --------------------------
(***************************************************************************)
(* IngestionQueue for any workers, requests, runs and limits: executions   *)
(* are bounded, and while heartbeats get through no run has two executors  *)
(* and what has ended is over.                                             *)
(*                                                                         *)
(* A run belongs to workers or to a request for good, as it is queued or   *)
(* not (QueueInv).  Among the workers, only recovery could give a run      *)
(* away, and it looks at the heartbeat (HoldInv).  Curations are counted   *)
(* against executions by the executors that have yet to queue theirs       *)
(* (CountInv); these may be several for one run, once heartbeats fail.     *)
(***************************************************************************)
EXTENDS IngestionQueue, FiniteSetTheorems, TLAPS

Statuses == {"absent", "pending", "processing"} \cup Outcomes
Before == {"claimed", "importing", "curating"}
Phases == {"polling", "draining", "closing"} \cup Before

TypeOK ==
    /\ status \in [Runs -> Statuses]
    /\ workflow \in [Runs -> Workflows]
    /\ queued \in SUBSET Runs
    /\ attempts \in [Runs -> Nat]
    /\ curations \in [Runs -> Nat]
    /\ heartbeat \in [Runs -> {"fresh", "stale", "null"}]
    /\ running \in [Executors -> Runs \cup {NoRun}]
    /\ phase \in [Executors -> Phases]
    /\ misses \in Nat

\* Only an executor at work has a run.
Busy == \A e \in Executors : running[e] = NoRun <=> phase[e] \in {"polling", "draining"}

QueueInv ==
    /\ \A r \in Runs : status[r] = "absent" =>
          r \notin queued /\ attempts[r] = 0 /\ \A e \in Executors : running[e] # r
    /\ \A r \in Runs : status[r] = "pending" => r \in queued /\ attempts[r] < MAX_ATTEMPTS
    /\ \A r \in Runs : attempts[r] <= MAX_ATTEMPTS
    /\ \A w \in Workers : running[w] # NoRun => running[w] \in queued
    /\ \A e \in Requests : running[e] \notin queued

HoldInv == misses = 0 => \A w \in Workers : running[w] # NoRun =>
    /\ heartbeat[running[w]] = "fresh"
    /\ status[running[w]] # "pending"
    /\ phase[w] = "claimed" => status[running[w]] = "processing"

\* Executors of r that may yet queue a curation.
Yet(r) == {e \in Executors : running[e] = r /\ phase[e] \in Before}

CountInv == \A r \in Runs :
    IsFiniteSet(Yet(r)) /\ curations[r] + Cardinality(Yet(r)) <= attempts[r]

RunInv == TypeOK /\ Busy /\ QueueInv /\ HoldInv /\ OneExecutor

-----------------------------------------------------------------------------
(***************************************************************************)
(* Runs and their executors, one lemma per action.                         *)
(***************************************************************************)
LEMMA NoRunIsNone == NoRun \notin Runs /\ Runs \subseteq Nat
  BY ConstantsAssumption DEF Runs

LEMMA HeldIsThere ==
    ASSUME RunInv, NEW e \in Executors, phase[e] \notin {"polling", "draining"}
    PROVE  running[e] \in Runs /\ status[running[e]] # "absent"
  <1>1. running[e] # NoRun
    BY DEF RunInv, Busy
  <1>2. running[e] \in Runs
    BY <1>1 DEF RunInv, TypeOK
  <1>3. QED
    BY <1>2 DEF RunInv, QueueInv

LEMMA OneMore ==
    ASSUME NEW f \in [Runs -> Nat], NEW r \in Runs
    PROVE  [f EXCEPT ![r] = @ + 1] \in [Runs -> Nat]
  OBVIOUS

\* Done lets go of the run and leaves the other executors alone.
LEMMA DoneReleases ==
    ASSUME TypeOK, NEW e \in Executors, Done(e)
    PROVE  /\ running' \in [Executors -> Runs \cup {NoRun}]
           /\ phase' \in [Executors -> Phases]
           /\ running'[e] = NoRun /\ phase'[e] \in {"polling", "draining"}
           /\ \A d \in Executors \ {e} : running'[d] = running[d] /\ phase'[d] = phase[d]
  BY DEF Done, TypeOK, Phases


\* A new row, which nobody has executed.
LEMMA EnqueueKeeps ==
    ASSUME RunInv, NEW r \in Runs, NEW flow \in Workflows, Enqueue(r, flow)
    PROVE  RunInv'
  <1> USE ConstantsAssumption, NoRunIsNone DEF RunInv, TypeOK, Enqueue, IsNext, executor_vars, Executors
  <1>1. TypeOK'
    BY ZenonT(60) DEF Statuses, Outcomes, Phases, Before, Workflows
  <1>2. Busy'
    BY DEF Busy
  <1>3. QueueInv'
    BY DEF QueueInv, Busy
  <1>4. HoldInv'
    BY DEF HoldInv, QueueInv, Busy
  <1>5. OneExecutor'
    BY DEF OneExecutor, QueueInv, HoldInv
  <1>6. QED
    BY <1>1, <1>2, <1>3, <1>4, <1>5

\* A new row, which a request has and no queue.
LEMMA StartNowKeeps ==
    ASSUME RunInv, NEW e \in Requests, NEW r \in Runs, NEW flow \in Workflows, StartNow(e, r, flow)
    PROVE  RunInv'
  <1> USE ConstantsAssumption, NoRunIsNone DEF RunInv, TypeOK, StartNow, IsNext, Executors
  <1>1. TypeOK'
    BY ZenonT(60) DEF Statuses, Outcomes, Phases, Before, Workflows
  <1>2. Busy'
    BY DEF Busy
  <1>3. QueueInv'
    BY DEF QueueInv, Busy
  <1>4. HoldInv'
    BY DEF HoldInv, QueueInv, Busy
  <1>5. OneExecutor'
    BY DEF OneExecutor, QueueInv, HoldInv
  <1>6. QED
    BY <1>1, <1>2, <1>3, <1>4, <1>5

\* Only stale runs change, and of these only queued ones are requeued.
LEMMA RecoverKeeps ==
    ASSUME RunInv, NEW w \in Workers, Recover(w)
    PROVE  RunInv'
  <1> USE ConstantsAssumption, NoRunIsNone DEF RunInv, TypeOK, Recover, Abandoned, Executors
  <1>1. TypeOK'
    BY ZenonT(60) DEF Statuses, Outcomes, Phases, Before, Workflows
  <1>2. Busy'
    BY DEF Busy
  <1>3. QueueInv'
    BY DEF QueueInv, Busy
  <1>4. HoldInv'
    BY DEF HoldInv, QueueInv, Busy
  <1>5. OneExecutor'
    BY DEF OneExecutor, QueueInv, HoldInv
  <1>6. QED
    BY <1>1, <1>2, <1>3, <1>4, <1>5

\* A pending run is nobody's, and has an attempt left.
LEMMA ClaimKeeps ==
    ASSUME RunInv, NEW w \in Workers, NEW r \in Runs, Claim(w, r)
    PROVE  RunInv'
  <1> USE ConstantsAssumption, NoRunIsNone DEF RunInv, TypeOK, Claim, IsOldestPending, Executors
  <1>1. TypeOK'
    BY SMTT(60) DEF Statuses, Outcomes, Phases, Before, Workflows
  <1>2. Busy'
    BY DEF Busy
  <1>3. QueueInv'
    BY DEF QueueInv, Busy
  <1>4. HoldInv'
    BY DEF HoldInv, QueueInv, Busy
  <1>5. OneExecutor'
    BY DEF OneExecutor, QueueInv, HoldInv
  <1>6. QED
    BY <1>1, <1>2, <1>3, <1>4, <1>5

\* The run stays with its worker.
LEMMA StartImportKeeps ==
    ASSUME RunInv, NEW w \in Workers, StartImport(w)
    PROVE  RunInv'
  <1> USE ConstantsAssumption, NoRunIsNone DEF RunInv, TypeOK, StartImport, Executors
  <1>1. TypeOK'
    BY ZenonT(60) DEF Statuses, Outcomes, Phases, Before, Workflows
  <1>2. Busy'
    BY DEF Busy
  <1>3. QueueInv'
    BY DEF QueueInv, Busy
  <1>4. HoldInv'
    <2>1. running[w] \in Runs
      BY DEF Busy
    <2>2. \A r \in Runs : /\ status'[r] = "pending" => status[r] = "pending"
                         /\ heartbeat[r] = "fresh" => heartbeat'[r] = "fresh"
      BY <2>1
    <2>3. \A v \in Workers \ {w} : misses = 0 /\ running[v] # NoRun =>
              status'[running[v]] = status[running[v]] /\ phase'[v] = phase[v]
      BY <2>1 DEF OneExecutor
    <2>4. phase'[w] = "importing" /\ running' = running /\ misses' = misses
      OBVIOUS
    <2>5. QED
      BY <2>2, <2>3, <2>4 DEF HoldInv
  <1>5. OneExecutor'
    BY DEF OneExecutor, QueueInv, HoldInv
  <1>6. QED
    BY <1>1, <1>2, <1>3, <1>4, <1>5

LEMMA CompleteImportKeeps ==
    ASSUME RunInv, NEW e \in Executors, CompleteImport(e)
    PROVE  RunInv'
  <1> USE ConstantsAssumption, NoRunIsNone, DoneReleases DEF RunInv, TypeOK, CompleteImport, Executors
  <1>1. TypeOK'
    BY ZenonT(60) DEF Statuses, Outcomes, Phases, Before, Workflows
  <1>2. Busy'
    BY DEF Busy
  <1>3. QueueInv'
    <2>1. running[e] \in Runs /\ status[running[e]] # "absent"
      BY HeldIsThere DEF Busy
    <2>2. \A r \in Runs : status'[r] \in {"absent", "pending"} => status'[r] = status[r]
      BY <2>1 DEF Outcomes
    <2>3. \A d \in Executors : running'[d] \in {running[d], NoRun}
      OBVIOUS
    <2>4. queued' = queued /\ attempts' = attempts /\ NoRun \notin queued
      OBVIOUS
    <2>5. QED
      BY <2>2, <2>3, <2>4 DEF QueueInv
  <1>4. HoldInv'
    <2>1. running[e] \in Runs /\ e \in Executors
      BY HeldIsThere
    <2>2. \A r \in Runs \ {running[e]} : status'[r] = status[r]
      BY <2>1
    <2>3. \A r \in Runs : status'[r] = "pending" => status[r] = "pending"
      BY <2>1 DEF Outcomes
    <2>4. phase'[e] # "claimed" /\ running'[e] \in {running[e], NoRun}
      BY <2>1
    <2>5. \A d \in Executors \ {e} : running'[d] = running[d] /\ phase'[d] = phase[d]
      BY <2>1
    <2>6. \A d \in Executors \ {e} : misses = 0 /\ running[d] # NoRun =>
              running[d] \in Runs \ {running[e]}
      BY <2>1 DEF OneExecutor
    <2>7. heartbeat' = heartbeat /\ misses' = misses
      OBVIOUS
    <2>8. QED
      BY <2>1, <2>2, <2>3, <2>4, <2>5, <2>6, <2>7 DEF HoldInv
  <1>5. OneExecutor'
    BY DEF OneExecutor, QueueInv, HoldInv
  <1>6. QED
    BY <1>1, <1>2, <1>3, <1>4, <1>5

LEMMA QueueCurationKeeps ==
    ASSUME RunInv, NEW e \in Executors, QueueCuration(e)
    PROVE  RunInv'
  <1> USE ConstantsAssumption, NoRunIsNone, DoneReleases DEF RunInv, TypeOK, QueueCuration, run_vars, Executors
  <1>1. TypeOK'
    <2>1. running' \in [Executors -> Runs \cup {NoRun}] /\ phase' \in [Executors -> Phases]
      BY DEF Phases
    <2>2. curations' \in [Runs -> Nat]
      BY HeldIsThere, OneMore
    <2>3. QED
      BY <2>1, <2>2
  <1>2. Busy'
    BY DEF Busy
  <1>3. QueueInv'
    <2>1. running[e] \in Runs /\ status[running[e]] # "absent"
      BY HeldIsThere DEF Busy
    <2>2. \A r \in Runs : status'[r] \in {"absent", "pending"} => status'[r] = status[r]
      BY DEF run_vars
    <2>3. \A d \in Executors : running'[d] \in {running[d], NoRun}
      OBVIOUS
    <2>4. queued' = queued /\ attempts' = attempts /\ NoRun \notin queued
      OBVIOUS
    <2>5. QED
      BY <2>2, <2>3, <2>4 DEF QueueInv
  <1>4. HoldInv'
    BY DEF HoldInv, QueueInv, Busy
  <1>5. OneExecutor'
    BY DEF OneExecutor, QueueInv, HoldInv
  <1>6. QED
    BY <1>1, <1>2, <1>3, <1>4, <1>5

LEMMA CloseRunKeeps ==
    ASSUME RunInv, NEW w \in Workers, CloseRun(w)
    PROVE  RunInv'
  <1> USE ConstantsAssumption, NoRunIsNone, DoneReleases DEF RunInv, TypeOK, CloseRun, Executors
  <1>1. TypeOK'
    BY ZenonT(60) DEF Statuses, Outcomes, Phases, Before, Workflows
  <1>2. Busy'
    BY DEF Busy
  <1>3. QueueInv'
    BY DEF QueueInv, Busy
  <1>4. HoldInv'
    <2>1. running[w] \in Runs /\ w \in Executors
      BY HeldIsThere
    <2>2. \A r \in Runs \ {running[w]} : status'[r] = status[r]
      BY <2>1
    <2>3. \A r \in Runs : status'[r] = "pending" => status[r] = "pending"
      BY <2>1 DEF Outcomes
    <2>4. phase'[w] # "claimed" /\ running'[w] \in {running[w], NoRun}
      BY <2>1
    <2>5. \A d \in Executors \ {w} : running'[d] = running[d] /\ phase'[d] = phase[d]
      BY <2>1
    <2>6. \A d \in Executors \ {w} : misses = 0 /\ running[d] # NoRun =>
              running[d] \in Runs \ {running[w]}
      BY <2>1 DEF OneExecutor
    <2>7. heartbeat' = heartbeat /\ misses' = misses
      OBVIOUS
    <2>8. QED
      BY <2>1, <2>2, <2>3, <2>4, <2>5, <2>6, <2>7 DEF HoldInv
  <1>5. OneExecutor'
    BY DEF OneExecutor, QueueInv, HoldInv
  <1>6. QED
    BY <1>1, <1>2, <1>3, <1>4, <1>5

LEMMA FailKeeps ==
    ASSUME RunInv, NEW e \in Executors, Fail(e)
    PROVE  RunInv'
  <1> USE ConstantsAssumption, NoRunIsNone, DoneReleases DEF RunInv, TypeOK, Fail, Executors
  <1>1. TypeOK'
    BY ZenonT(60) DEF Statuses, Outcomes, Phases, Before, Workflows
  <1>2. Busy'
    BY DEF Busy
  <1>3. QueueInv'
    <2>1. running[e] \in Runs /\ status[running[e]] # "absent"
      BY HeldIsThere DEF Busy
    <2>2. \A r \in Runs : status'[r] \in {"absent", "pending"} => status'[r] = status[r]
      BY <2>1 DEF Outcomes
    <2>3. \A d \in Executors : running'[d] \in {running[d], NoRun}
      OBVIOUS
    <2>4. queued' = queued /\ attempts' = attempts /\ NoRun \notin queued
      OBVIOUS
    <2>5. QED
      BY <2>2, <2>3, <2>4 DEF QueueInv
  <1>4. HoldInv'
    <2>1. running[e] \in Runs /\ e \in Executors
      BY HeldIsThere
    <2>2. \A r \in Runs \ {running[e]} : status'[r] = status[r]
      BY <2>1
    <2>3. \A r \in Runs : status'[r] = "pending" => status[r] = "pending"
      BY <2>1 DEF Outcomes
    <2>4. phase'[e] # "claimed" /\ running'[e] \in {running[e], NoRun}
      BY <2>1
    <2>5. \A d \in Executors \ {e} : running'[d] = running[d] /\ phase'[d] = phase[d]
      BY <2>1
    <2>6. \A d \in Executors \ {e} : misses = 0 /\ running[d] # NoRun =>
              running[d] \in Runs \ {running[e]}
      BY <2>1 DEF OneExecutor
    <2>7. heartbeat' = heartbeat /\ misses' = misses
      OBVIOUS
    <2>8. QED
      BY <2>1, <2>2, <2>3, <2>4, <2>5, <2>6, <2>7 DEF HoldInv
  <1>5. OneExecutor'
    BY DEF OneExecutor, QueueInv, HoldInv
  <1>6. QED
    BY <1>1, <1>2, <1>3, <1>4, <1>5

LEMMA CrashKeeps ==
    ASSUME RunInv, NEW e \in Executors, Crash(e)
    PROVE  RunInv'
  <1> USE ConstantsAssumption, NoRunIsNone DEF RunInv, TypeOK, Crash, run_vars, Executors
  <1>1. TypeOK'
    BY ZenonT(60) DEF Statuses, Outcomes, Phases, Before, Workflows
  <1>2. Busy'
    BY DEF Busy
  <1>3. QueueInv'
    BY ZenonT(60) DEF QueueInv, Busy
  <1>4. HoldInv'
    BY DEF HoldInv, QueueInv, Busy
  <1>5. OneExecutor'
    BY DEF OneExecutor, QueueInv, HoldInv
  <1>6. QED
    BY <1>1, <1>2, <1>3, <1>4, <1>5

\* A worker at rest, and a beat, change nothing that matters.
LEMMA RestKeeps ==
    ASSUME RunInv, NEW w \in Workers, Sleep(w) \/ Beat(w)
    PROVE  RunInv'
  <1> USE ConstantsAssumption, NoRunIsNone
      DEF RunInv, TypeOK, Executors, Phases, run_vars, executor_vars
  <1>1. CASE Sleep(w)
    BY <1>1 DEF Sleep, Busy, QueueInv, HoldInv, OneExecutor
  <1>2. CASE Beat(w)
    BY <1>2 DEF Beat, Busy, QueueInv, HoldInv, OneExecutor
  <1>3. QED
    BY <1>1, <1>2

\* Time: a worker's run goes stale by a miss only.
LEMMA TimeKeeps ==
    ASSUME RunInv, NEW r \in Runs, GoStale(r) \/ MissHeartbeats(r)
    PROVE  RunInv'
  <1> USE ConstantsAssumption, NoRunIsNone
      DEF RunInv, TypeOK, Executors, Phases, executor_vars, Beating
  <1>1. CASE GoStale(r)
    BY <1>1 DEF GoStale, Busy, QueueInv, HoldInv, OneExecutor
  <1>2. CASE MissHeartbeats(r)
    BY <1>2 DEF MissHeartbeats, Busy, QueueInv, HoldInv, OneExecutor
  <1>3. QED
    BY <1>1, <1>2

\* Next by its actions, for the proofs by cases below.
LEMMA NextCases ==
    ASSUME Next
    PROVE  \/ \E r \in Runs, flow \in Workflows :
                 Enqueue(r, flow) \/ \E e \in Requests : StartNow(e, r, flow)
           \/ \E w \in Workers :
                 \/ Recover(w) \/ Sleep(w) \/ StartImport(w) \/ CloseRun(w) \/ Beat(w)
                 \/ \E r \in Runs : Claim(w, r)
           \/ \E e \in Executors : CompleteImport(e) \/ QueueCuration(e) \/ Fail(e) \/ Crash(e)
           \/ \E r \in Runs : GoStale(r) \/ MissHeartbeats(r)
  BY DEF Next, Upload, WorkerStep, Execute, Executors

LEMMA NextKeepsRunInv == RunInv /\ [Next]_vars => RunInv'
  <1> SUFFICES ASSUME RunInv, [Next]_vars
               PROVE  RunInv'
    OBVIOUS
  <1>1. ASSUME NEW r \in Runs, NEW flow \in Workflows, Enqueue(r, flow) PROVE RunInv'
    BY <1>1, EnqueueKeeps
  <1>2. ASSUME NEW e \in Requests, NEW r \in Runs, NEW flow \in Workflows, StartNow(e, r, flow) PROVE RunInv'
    BY <1>2, StartNowKeeps
  <1>3. ASSUME NEW w \in Workers, Recover(w) PROVE RunInv'
    BY <1>3, RecoverKeeps
  <1>4. ASSUME NEW w \in Workers, NEW r \in Runs, Claim(w, r) PROVE RunInv'
    BY <1>4, ClaimKeeps
  <1>5. ASSUME NEW w \in Workers, Sleep(w) PROVE RunInv'
    BY <1>5, RestKeeps
  <1>6. ASSUME NEW w \in Workers, StartImport(w) PROVE RunInv'
    BY <1>6, StartImportKeeps
  <1>7. ASSUME NEW w \in Workers, CloseRun(w) PROVE RunInv'
    BY <1>7, CloseRunKeeps
  <1>8. ASSUME NEW e \in Executors, CompleteImport(e) PROVE RunInv'
    BY <1>8, CompleteImportKeeps
  <1>9. ASSUME NEW e \in Executors, QueueCuration(e) PROVE RunInv'
    BY <1>9, QueueCurationKeeps
  <1>10. ASSUME NEW e \in Executors, Fail(e) PROVE RunInv'
    BY <1>10, FailKeeps
  <1>11. ASSUME NEW r \in Runs, GoStale(r) PROVE RunInv'
    BY <1>11, TimeKeeps
  <1>12. ASSUME NEW r \in Runs, MissHeartbeats(r) PROVE RunInv'
    BY <1>12, TimeKeeps
  <1>13. ASSUME NEW w \in Workers, Beat(w) PROVE RunInv'
    BY <1>13, RestKeeps
  <1>14. ASSUME NEW e \in Executors, Crash(e) PROVE RunInv'
    BY <1>14, CrashKeeps
  <1>15. CASE UNCHANGED vars
    BY <1>15 DEF vars, RunInv, TypeOK, Busy, QueueInv, HoldInv, OneExecutor
  <1>16. QED
    BY <1>1, <1>2, <1>3, <1>4, <1>5, <1>6, <1>7, <1>8, <1>9, <1>10, <1>11, <1>12, <1>13, <1>14, <1>15, NextCases

-----------------------------------------------------------------------------
(***************************************************************************)
(* Curations against executions.                                           *)
(***************************************************************************)
LEMMA CountStays ==
    ASSUME TypeOK, TypeOK', CountInv, curations' = curations,
           \A r \in Runs : Yet(r)' \subseteq Yet(r) /\ attempts[r] <= attempts'[r]
    PROVE  CountInv'
  <1> SUFFICES ASSUME NEW r \in Runs
               PROVE  IsFiniteSet(Yet(r)') /\ curations[r] + Cardinality(Yet(r)') <= attempts'[r]
    BY DEF CountInv
  <1>1. IsFiniteSet(Yet(r)') /\ Cardinality(Yet(r)') <= Cardinality(Yet(r))
    BY FS_Subset DEF CountInv
  <1>2. Cardinality(Yet(r)') \in Nat /\ Cardinality(Yet(r)) \in Nat
    BY <1>1, FS_CardinalityType DEF CountInv
  <1>3. QED
    BY <1>1, <1>2 DEF CountInv, TypeOK

LEMMA AddAtMostOne ==
    ASSUME NEW S, IsFiniteSet(S), NEW x
    PROVE  /\ IsFiniteSet(S \cup {x})
           /\ Cardinality(S \cup {x}) <= Cardinality(S) + 1
           /\ Cardinality(S \cup {x}) \in Nat
  <1>1. IsFiniteSet(S \cup {x}) /\ Cardinality(S) \in Nat
    BY FS_AddElement, FS_CardinalityType
  <1>2. Cardinality(S \cup {x}) \in Nat
    BY <1>1, FS_CardinalityType
  <1>3. Cardinality(S \cup {x}) = Cardinality(S) \/ Cardinality(S \cup {x}) = Cardinality(S) + 1
    BY FS_AddElement
  <1>4. QED
    BY <1>1, <1>2, <1>3

\* An execution begins, and is counted in attempts.
LEMMA CountBegins ==
    ASSUME TypeOK, TypeOK', CountInv, curations' = curations,
           NEW r \in Runs, attempts' = [attempts EXCEPT ![r] = @ + 1],
           NEW e \in Executors, running' = [running EXCEPT ![e] = r],
           \A d \in Executors \ {e} : phase'[d] = phase[d]
    PROVE  CountInv'
  <1> SUFFICES ASSUME NEW q \in Runs
               PROVE  IsFiniteSet(Yet(q)') /\ curations[q] + Cardinality(Yet(q)') <= attempts'[q]
    BY DEF CountInv
  <1>1. IsFiniteSet(Yet(q)) /\ Cardinality(Yet(q)) \in Nat
    BY FS_CardinalityType DEF CountInv
  <1>2. CASE q = r
    <2>1. Yet(r)' \subseteq Yet(r) \cup {e}
      BY DEF Yet, TypeOK
    <2>2. /\ IsFiniteSet(Yet(r) \cup {e})
          /\ Cardinality(Yet(r) \cup {e}) <= Cardinality(Yet(r)) + 1
          /\ Cardinality(Yet(r) \cup {e}) \in Nat
      BY <1>1, <1>2, AddAtMostOne
    <2>3. /\ IsFiniteSet(Yet(r)') /\ Cardinality(Yet(r)') \in Nat
          /\ Cardinality(Yet(r)') <= Cardinality(Yet(r) \cup {e})
      BY <2>1, <2>2, FS_Subset, FS_CardinalityType
    <2>4. QED
      BY <1>1, <1>2, <2>2, <2>3 DEF CountInv, TypeOK
  <1>3. CASE q # r
    <2>1. Yet(q)' \subseteq Yet(q)
      BY <1>3 DEF Yet, TypeOK
    <2>2. /\ IsFiniteSet(Yet(q)') /\ Cardinality(Yet(q)') \in Nat
          /\ Cardinality(Yet(q)') <= Cardinality(Yet(q))
      BY <1>1, <2>1, FS_Subset, FS_CardinalityType
    <2>3. QED
      BY <1>1, <1>3, <2>2 DEF CountInv, TypeOK
  <1>4. QED
    BY <1>2, <1>3

\* An execution queues its curation, and has it no more to queue.
LEMMA QueueCurationCounts ==
    ASSUME RunInv, TypeOK', CountInv, NEW e \in Executors, QueueCuration(e),
           NEW r, r = running[e]
    PROVE  CountInv'
  <1> SUFFICES ASSUME NEW q \in Runs
               PROVE  IsFiniteSet(Yet(q)') /\ curations'[q] + Cardinality(Yet(q)') <= attempts[q]
    BY DEF CountInv, QueueCuration, run_vars
  <1>1. IsFiniteSet(Yet(q)) /\ Cardinality(Yet(q)) \in Nat
    BY FS_CardinalityType DEF CountInv
  <1>2. r \in Runs /\ e \in Yet(r)
    BY HeldIsThere DEF QueueCuration, Yet, Before
  <1>3. /\ phase'[e] \notin Before
        /\ \A d \in Executors \ {e} : running'[d] = running[d] /\ phase'[d] = phase[d]
    <2>1. CASE Done(e)
      BY <2>1, DoneReleases DEF RunInv, Before
    <2>2. CASE phase' = [phase EXCEPT ![e] = "closing"] /\ UNCHANGED running
      BY <2>2 DEF RunInv, TypeOK, Before
    <2>3. QED
      BY <2>1, <2>2 DEF QueueCuration
  <1>4. CASE q = r
    <2>1. Yet(r)' \subseteq Yet(r) \ {e}
      BY <1>3 DEF Yet
    <2>2. /\ IsFiniteSet(Yet(r) \ {e})
          /\ Cardinality(Yet(r) \ {e}) = Cardinality(Yet(r)) - 1
          /\ Cardinality(Yet(r) \ {e}) \in Nat
      BY <1>1, <1>2, <1>4, FS_RemoveElement, FS_CardinalityType
    <2>3. /\ IsFiniteSet(Yet(r)') /\ Cardinality(Yet(r)') \in Nat
          /\ Cardinality(Yet(r)') <= Cardinality(Yet(r) \ {e})
      BY <2>1, <2>2, FS_Subset, FS_CardinalityType
    <2>4. curations'[r] = curations[r] + 1
      BY <1>2 DEF QueueCuration, RunInv, TypeOK
    <2>5. QED
      BY <1>1, <1>4, <2>2, <2>3, <2>4 DEF CountInv, RunInv, TypeOK
  <1>5. CASE q # r
    <2>1. Yet(q)' \subseteq Yet(q)
      BY <1>3, <1>5 DEF Yet
    <2>2. /\ IsFiniteSet(Yet(q)') /\ Cardinality(Yet(q)') \in Nat
          /\ Cardinality(Yet(q)') <= Cardinality(Yet(q))
      BY <1>1, <2>1, FS_Subset, FS_CardinalityType
    <2>3. curations'[q] = curations[q]
      BY <1>5 DEF QueueCuration, RunInv, TypeOK
    <2>4. QED
      BY <1>1, <2>2, <2>3 DEF CountInv, RunInv, TypeOK
  <1>6. QED
    BY <1>4, <1>5

LEMMA NextKeepsCountInv ==
    ASSUME RunInv, TypeOK', CountInv, [Next]_vars
    PROVE  CountInv'
  <1> DEFINE Fewer == \A q \in Runs : Yet(q)' \subseteq Yet(q) /\ attempts[q] <= attempts'[q]
  <1>0. ASSUME Fewer, curations' = curations PROVE CountInv'
    BY <1>0, CountStays DEF RunInv
  <1>1. ASSUME NEW r \in Runs, NEW flow \in Workflows, Enqueue(r, flow) PROVE CountInv'
    <2>1. Fewer
      BY <1>1, ConstantsAssumption DEF Enqueue, Yet, RunInv, TypeOK, Executors, executor_vars
    <2>2. QED
      BY <1>0, <1>1, <2>1 DEF Enqueue
  <1>2. ASSUME NEW e \in Requests, NEW r \in Runs, NEW flow \in Workflows, StartNow(e, r, flow) PROVE CountInv'
    <2>1. attempts' = [attempts EXCEPT ![r] = @ + 1]
      <3>1. attempts[r] = 0 /\ attempts' = [attempts EXCEPT ![r] = 1]
        BY <1>2 DEF StartNow, RunInv, QueueInv, IsNext
      <3>2. QED
        BY <3>1
    <2>2. e \in Executors /\ running' = [running EXCEPT ![e] = r] /\ curations' = curations
      BY <1>2 DEF StartNow, Executors
    <2>3. \A d \in Executors \ {e} : phase'[d] = phase[d]
      BY <1>2 DEF StartNow, RunInv, TypeOK
    <2>4. QED
      BY <2>1, <2>2, <2>3, CountBegins DEF RunInv
  <1>3. ASSUME NEW w \in Workers, Recover(w) PROVE CountInv'
    <2>1. Fewer
      BY <1>3, ConstantsAssumption DEF Recover, Yet, RunInv, TypeOK, Executors, Before
    <2>2. QED
      BY <1>0, <1>3, <2>1 DEF Recover
  <1>4. ASSUME NEW w \in Workers, NEW r \in Runs, Claim(w, r) PROVE CountInv'
    <2>1. attempts' = [attempts EXCEPT ![r] = @ + 1]
      BY <1>4 DEF Claim, RunInv, TypeOK, QueueInv, IsNext
    <2>2. w \in Executors /\ running' = [running EXCEPT ![w] = r] /\ curations' = curations
      BY <1>4 DEF Claim, Executors
    <2>3. \A d \in Executors \ {w} : phase'[d] = phase[d]
      BY <1>4 DEF Claim, RunInv, TypeOK
    <2>4. QED
      BY <2>1, <2>2, <2>3, CountBegins DEF RunInv
  <1>5. ASSUME NEW w \in Workers, Sleep(w) PROVE CountInv'
    <2>1. Fewer
      BY <1>5, ConstantsAssumption DEF Sleep, Yet, RunInv, TypeOK, Executors, Before, run_vars
    <2>2. QED
      BY <1>0, <1>5, <2>1 DEF Sleep
  <1>6. ASSUME NEW w \in Workers, StartImport(w) PROVE CountInv'
    <2>1. Fewer
      BY <1>6, ConstantsAssumption DEF StartImport, Yet, RunInv, TypeOK, Executors, Before
    <2>2. QED
      BY <1>0, <1>6, <2>1 DEF StartImport
  <1>7. ASSUME NEW w \in Workers, CloseRun(w) PROVE CountInv'
    <2>1. \A d \in Executors : phase'[d] \in Before =>
              running'[d] = running[d] /\ phase[d] \in Before
      BY <1>7, DoneReleases DEF CloseRun, RunInv, TypeOK, Before, Executors
    <2>2. Fewer
      BY <1>7, <2>1 DEF CloseRun, Yet, RunInv, TypeOK
    <2>3. QED
      BY <1>0, <1>7, <2>2 DEF CloseRun
  <1>8. ASSUME NEW e \in Executors, CompleteImport(e) PROVE CountInv'
    <2>1. \A d \in Executors : phase'[d] \in Before =>
              running'[d] = running[d] /\ phase[d] \in Before
      BY <1>8, DoneReleases DEF CompleteImport, RunInv, TypeOK, Before, Executors
    <2>2. Fewer
      BY <1>8, <2>1 DEF CompleteImport, Yet, RunInv, TypeOK
    <2>3. QED
      BY <1>0, <1>8, <2>2 DEF CompleteImport
  <1>9. ASSUME NEW e \in Executors, QueueCuration(e) PROVE CountInv'
    BY <1>9, QueueCurationCounts
  <1>10. ASSUME NEW e \in Executors, Fail(e) PROVE CountInv'
    <2>1. \A d \in Executors : phase'[d] \in Before =>
              running'[d] = running[d] /\ phase[d] \in Before
      BY <1>10, DoneReleases DEF Fail, RunInv, TypeOK, Before, Executors
    <2>2. Fewer
      BY <1>10, <2>1 DEF Fail, Yet, RunInv, TypeOK
    <2>3. QED
      BY <1>0, <1>10, <2>2 DEF Fail
  <1>11. ASSUME NEW r \in Runs, GoStale(r) PROVE CountInv'
    <2>1. Fewer
      BY <1>11, ConstantsAssumption DEF GoStale, Yet, RunInv, TypeOK, Executors, executor_vars
    <2>2. QED
      BY <1>0, <1>11, <2>1 DEF GoStale
  <1>12. ASSUME NEW r \in Runs, MissHeartbeats(r) PROVE CountInv'
    <2>1. Fewer
      BY <1>12, ConstantsAssumption DEF MissHeartbeats, Yet, RunInv, TypeOK, Executors, executor_vars
    <2>2. QED
      BY <1>0, <1>12, <2>1 DEF MissHeartbeats
  <1>13. ASSUME NEW w \in Workers, Beat(w) PROVE CountInv'
    <2>1. Fewer
      BY <1>13, ConstantsAssumption DEF Beat, Yet, RunInv, TypeOK, Executors, executor_vars
    <2>2. QED
      BY <1>0, <1>13, <2>1 DEF Beat
  <1>14. ASSUME NEW e \in Executors, Crash(e) PROVE CountInv'
    <2>1. Fewer
      BY <1>14, ConstantsAssumption DEF Crash, Yet, RunInv, TypeOK, Executors, Before, run_vars
    <2>2. QED
      BY <1>0, <1>14, <2>1 DEF Crash
  <1>15. CASE UNCHANGED vars
    <2>1. Fewer
      BY <1>15 DEF vars, Yet, RunInv, TypeOK
    <2>2. QED
      BY <1>0, <1>15, <2>1 DEF vars
  <1>16. QED
    BY <1>1, <1>2, <1>3, <1>4, <1>5, <1>6, <1>7, <1>8, <1>9, <1>10, <1>11, <1>12, <1>13, <1>14, <1>15, NextCases

-----------------------------------------------------------------------------
(***************************************************************************)
(* The theorems.                                                           *)
(***************************************************************************)
LEMMA InitInvs == Init => RunInv /\ CountInv
  <1> SUFFICES ASSUME Init
               PROVE  RunInv /\ CountInv
    OBVIOUS
  <1>1. TypeOK
    BY DEF Init, TypeOK, Statuses, Workflows, Phases
  <1>2. Busy /\ QueueInv /\ HoldInv /\ OneExecutor
    BY ConstantsAssumption, NoRunIsNone DEF Init, Busy, QueueInv, HoldInv, OneExecutor, Executors
  <1>3. CountInv
    <2>1. \A r \in Runs : Yet(r) = {}
      BY DEF Init, Yet, Before
    <2>2. QED
      BY <2>1, FS_EmptySet DEF Init, CountInv
  <1>4. QED
    BY <1>1, <1>2, <1>3 DEF RunInv

LEMMA NextKeepsInvs == RunInv /\ CountInv /\ [Next]_vars => (RunInv /\ CountInv)'
  BY NextKeepsRunInv, NextKeepsCountInv DEF RunInv

\* No run is executed more often than MAX_ATTEMPTS, and none queues more
\* curations than it was executed, even when several executors have it.
THEOREM BoundedExecutions == Spec => []ExecutionsBounded
  <1>1. RunInv /\ CountInv => ExecutionsBounded
    <2> SUFFICES ASSUME RunInv, CountInv, NEW r \in Runs
                 PROVE  attempts[r] <= MAX_ATTEMPTS /\ curations[r] <= attempts[r]
      BY DEF ExecutionsBounded
    <2>1. Cardinality(Yet(r)) \in Nat
      BY FS_CardinalityType DEF CountInv
    <2>2. QED
      BY <2>1 DEF RunInv, CountInv, QueueInv, TypeOK
  <1>2. QED
    BY InitInvs, NextKeepsInvs, <1>1, PTL DEF Spec

\* Claiming and recovery never give one run to two executors while the
\* heartbeats of the living get through.
THEOREM OneExecutorEach == Spec => []OneExecutor
  <1>1. RunInv => OneExecutor
    BY DEF RunInv
  <1>2. QED
    BY InitInvs, NextKeepsInvs, <1>1, PTL DEF Spec

\* While heartbeats get through, a run that has ended is neither queued nor
\* executed again (recover_stale_runs, claim_next_run, run_connector).
THEOREM EndsAreFinal == Spec => EndIsFinal
  <1> DEFINE Stays == misses' = 0 =>
                \A r \in Runs : status[r] \in Outcomes => status'[r] \in Outcomes
  <1>1. RunInv /\ [Next]_vars => [Stays]_vars
    <2> SUFFICES ASSUME RunInv, Next
                 PROVE  Stays
      OBVIOUS
    <2> USE DEF Outcomes, RunInv, TypeOK
    <2>1. ASSUME NEW r \in Runs, NEW flow \in Workflows, Enqueue(r, flow) PROVE Stays
      BY <2>1 DEF Enqueue, IsNext
    <2>2. ASSUME NEW e \in Requests, NEW r \in Runs, NEW flow \in Workflows, StartNow(e, r, flow) PROVE Stays
      BY <2>2 DEF StartNow, IsNext
    <2>3. ASSUME NEW w \in Workers, Recover(w) PROVE Stays
      BY <2>3 DEF Recover, Abandoned
    <2>4. ASSUME NEW w \in Workers, NEW r \in Runs, Claim(w, r) PROVE Stays
      BY <2>4 DEF Claim, IsOldestPending
    <2>5. ASSUME NEW w \in Workers, Sleep(w) PROVE Stays
      BY <2>5 DEF Sleep, run_vars
    <2>6. ASSUME NEW w \in Workers, StartImport(w) PROVE Stays
      \* Who has yet to start an import has a run in processing.
      <3>1. CASE misses = 0
        <4>1. status[running[w]] = "processing"
          BY <2>6, <3>1, ConstantsAssumption DEF StartImport, HoldInv, Busy, Executors
        <4>2. QED
          BY <2>6, <4>1 DEF StartImport
      <3>2. QED
        BY <2>6, <3>1 DEF StartImport
    <2>7. ASSUME NEW w \in Workers, CloseRun(w) PROVE Stays
      BY <2>7 DEF CloseRun
    <2>8. ASSUME NEW e \in Executors, CompleteImport(e) PROVE Stays
      BY <2>8 DEF CompleteImport
    <2>9. ASSUME NEW e \in Executors, QueueCuration(e) PROVE Stays
      BY <2>9 DEF QueueCuration, run_vars
    <2>10. ASSUME NEW e \in Executors, Fail(e) PROVE Stays
      BY <2>10 DEF Fail
    <2>11. ASSUME NEW r \in Runs, GoStale(r) PROVE Stays
      BY <2>11 DEF GoStale
    <2>12. ASSUME NEW r \in Runs, MissHeartbeats(r) PROVE Stays
      BY <2>12 DEF MissHeartbeats
    <2>13. ASSUME NEW w \in Workers, Beat(w) PROVE Stays
      BY <2>13 DEF Beat
    <2>14. ASSUME NEW e \in Executors, Crash(e) PROVE Stays
      BY <2>14 DEF Crash, run_vars
    <2>15. QED
      BY <2>1, <2>2, <2>3, <2>4, <2>5, <2>6, <2>7, <2>8, <2>9, <2>10, <2>11, <2>12, <2>13, <2>14, NextCases
  <1>2. QED
    BY InitInvs, NextKeepsInvs, <1>1, PTL DEF Spec, EndIsFinal
=============================================================================
