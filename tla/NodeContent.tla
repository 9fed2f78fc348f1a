---------------------------- MODULE NodeContent ----------------------------
(***************************************************************************)
(* The content of one node: its rows in the table versions, the summary    *)
(* columns of its row in nodes, and its rows in summary_artifacts.         *)
(*                                                                         *)
(* Two kinds of process work on it concurrently.  Sessions are the API     *)
(* threads and the agent, which call update_node, patch_node,              *)
(* update_node_ai_summary and request_summary (backend/services).  Workers *)
(* are task runners, which claim summary artifacts and complete them       *)
(* (agent/loop.py, summary_generation.py).                                 *)
(*                                                                         *)
(* Isolation is Postgres READ COMMITTED through a SQLAlchemy session: a    *)
(* process reads a snapshot of the row, works on it, and its commit writes *)
(* only the columns whose value differs from the snapshot.  Content        *)
(* writers hold the row with SELECT ... FOR UPDATE meanwhile, so that the  *)
(* snapshot cannot age; summary writers hold nothing until they commit.    *)
(*                                                                         *)
(* A call's arguments are chosen in the step that commits it: nothing      *)
(* before that step depends on them.  Calls the access, policy or          *)
(* frozen-source checks refuse change nothing and are left out.  The node  *)
(* exists throughout.                                                      *)
(***************************************************************************)
EXTENDS Naturals, Sequences, FiniteSets

CONSTANTS
    Sessions,       \* API threads and agent sessions
    Workers,        \* task runners
    Titles,         \* titles that are not blank
    Contents,       \* bodies of a node
    FirstDoc,       \* the document create_node was given
    Replacements,   \* replacement lists a patch can carry
    Apply,          \* <<content, replacements>> -> new content, or NoMatch
    NoMatch,        \* apply_replacements raised: wrong counts, or overlap
    Keep,           \* an argument the caller left None
    NoSummary,      \* ai_summary is NULL
    NoSnapshot,     \* a process between requests has loaded nothing
    NoProcess,      \* nobody holds the row
    MaxVersion,     \* bound: versions of the node
    MaxArtifacts,   \* bound: summary artifacts of the node
    MaxCrashes      \* bound: workers killed in the middle of a summary

ASSUME ConstantsAssumption ==
    /\ Sessions \cap Workers = {}
    /\ NoProcess \notin Sessions \cup Workers
    /\ Keep \notin Titles \cup Contents
    /\ NoMatch \notin Contents
    /\ FirstDoc \in [title : Titles, content : Contents]
    /\ Apply \in [Contents \X Replacements -> Contents \cup {NoMatch}]
    /\ MaxVersion \in Nat \ {0}
    /\ MaxArtifacts \in Nat
    /\ MaxCrashes \in Nat

VARIABLES
    versions,           \* rows of versions: a set, no constraint makes them unique
    current_version,    \* nodes.current_version
    summary_is_current, \* nodes.summary_is_current
    ai_summary,         \* nodes.ai_summary: the document its text describes
    lock,               \* holder of SELECT ... FOR UPDATE on the row
    artifacts,          \* rows of summary_artifacts, in order of created_at
    pc,                 \* what each process is doing
    seen,               \* the snapshot each process has loaded
    job,                \* the artifact each worker has claimed
    crashes,            \* workers killed so far
    last_call,          \* history: the call that wrote the current version
    overtaken           \* history: a summary was completed from an aged snapshot

content_vars == <<versions, current_version, last_call>>
summary_vars == <<summary_is_current, ai_summary>>
history_vars == <<crashes, overtaken>>

vars == <<versions, current_version, summary_is_current, ai_summary, lock,
          artifacts, pc, seen, job, crashes, last_call, overtaken>>

-----------------------------------------------------------------------------
Processes == Sessions \cup Workers

Doc == [title : Titles, content : Contents]

\* What a caller asked for: update_node's optional title and content, or
\* patch_node's expected version and replacements.
UpdateCall == [kind : {"update"}, title : Titles \cup {Keep},
               content : Contents \cup {Keep}]
PatchCall  == [kind : {"patch"}, expected : Nat, replacements : Replacements]
CreateCall == [kind |-> "create"]

Call == UpdateCall \cup PatchCall \cup {CreateCall}

\* A row of versions.
Version == [version : Nat, doc : Doc]

\* What a process has loaded of the row and of its current version.
Snapshot == [version : Nat, doc : Doc, flag : BOOLEAN, summary : Doc \cup {NoSummary}]

Artifact == [status : {"pending", "processing", "completed", "failed"},
             source_content_hash : Doc]

\* current_version_object: the row numbered current_version.
CurrentDoc == (CHOOSE v \in versions : v.version = current_version).doc

Row == [version |-> current_version, doc |-> CurrentDoc,
        flag |-> summary_is_current, summary |-> ai_summary]

\* Where a call takes a document.
AfterUpdate(doc, title, content) ==
    [title   |-> IF title = Keep THEN doc.title ELSE title,
     content |-> IF content = Keep THEN doc.content ELSE content]

AfterPatch(doc, replacements) ==
    [doc EXCEPT !.content = Apply[<<doc.content, replacements>>]]

AfterCall(doc, call) ==
    IF call.kind = "update" THEN AfterUpdate(doc, call.title, call.content)
                            ELSE AfterPatch(doc, call.replacements)

\* A column of the UPDATE a flush emits: only a value that differs from the
\* loaded one is written, over whatever the row holds by then.
Written(loaded, new, stored) == IF new = loaded THEN stored ELSE new

-----------------------------------------------------------------------------
\* The node as create_node leaves it: version 1 and no summary.
Init ==
    /\ versions = {[version |-> 1, doc |-> FirstDoc]}
    /\ current_version = 1
    /\ summary_is_current = FALSE
    /\ ai_summary = NoSummary
    /\ lock = NoProcess
    /\ artifacts = <<>>
    /\ pc = [p \in Processes |-> "idle"]
    /\ seen = [p \in Processes |-> NoSnapshot]
    /\ job = [w \in Workers |-> 0]
    /\ crashes = 0
    /\ last_call = CreateCall
    /\ overtaken = FALSE

-----------------------------------------------------------------------------
(***************************************************************************)
(* Content writers                                                         *)
(***************************************************************************)

\* The process drops what it has loaded (commit and rollback expire a session).
EndOfWork(p) ==
    /\ pc' = [pc EXCEPT ![p] = "idle"]
    /\ seen' = [seen EXCEPT ![p] = NoSnapshot]

\* Mutant: a content write that does not wait for the row.
LockRow_NoWait(s, kind) ==
    /\ pc[s] = "idle"
    /\ lock' = s
    /\ seen' = [seen EXCEPT ![s] = Row]
    /\ pc' = [pc EXCEPT ![s] = kind]
    /\ UNCHANGED <<content_vars, summary_vars, artifacts, job, history_vars>>

\* _get_node_for_content_write: wait for the row, lock it, load what it holds
\* now.  kind says which of update_node and patch_node is running.
LockRow(s, kind) ==
    /\ pc[s] = "idle"
    /\ lock = NoProcess
    /\ lock' = s
    /\ seen' = [seen EXCEPT ![s] = Row]
    /\ pc' = [pc EXCEPT ![s] = kind]
    /\ UNCHANGED <<content_vars, summary_vars, artifacts, job, history_vars>>

\* The transaction ends, the row lock with it.
Release(s) ==
    /\ lock' = NoProcess
    /\ EndOfWork(s)
    /\ UNCHANGED <<artifacts, job, history_vars>>

\* Mutant: the summary is not marked stale.
InsertVersion_FlagKept(s, doc, call) ==
    /\ versions' = versions \cup {[version |-> seen[s].version + 1, doc |-> doc]}
    /\ current_version' = seen[s].version + 1
    /\ last_call' = call
    /\ UNCHANGED summary_vars

\* The new version: one row, numbered from the snapshot, and the summary
\* marked stale.
InsertVersion(s, doc, call) ==
    /\ versions' = versions \cup {[version |-> seen[s].version + 1, doc |-> doc]}
    /\ current_version' = seen[s].version + 1
    /\ last_call' = call
    /\ summary_is_current' = FALSE
    /\ UNCHANGED ai_summary

\* update_node with new_title and new_content merged into the snapshot.
CommitUpdate(s) ==
    /\ pc[s] = "update"
    /\ current_version < MaxVersion
    /\ \E title \in Titles \cup {Keep}, content \in Contents \cup {Keep} :
          LET doc == AfterUpdate(seen[s].doc, title, content)
          IN  /\ doc # seen[s].doc
              /\ InsertVersion(s, doc, [kind |-> "update", title |-> title,
                                        content |-> content])
    /\ Release(s)

\* Mutants: a patch of whatever version it finds, and one whose failed match is
\* not noticed.
CommitPatch_AnyVersion(s) ==
    /\ pc[s] = "patch"
    /\ current_version < MaxVersion
    /\ \E expected \in 1 .. MaxVersion, r \in Replacements :
          /\ Apply[<<seen[s].doc.content, r>>] \notin {NoMatch, seen[s].doc.content}
          /\ InsertVersion(s, AfterPatch(seen[s].doc, r),
                           [kind |-> "patch", expected |-> expected,
                            replacements |-> r])
    /\ Release(s)

CommitPatch_AnyMatch(s) ==
    /\ pc[s] = "patch"
    /\ current_version < MaxVersion
    /\ \E r \in Replacements :
          InsertVersion(s, AfterPatch(seen[s].doc, r),
                        [kind |-> "patch", expected |-> seen[s].version,
                         replacements |-> r])
    /\ Release(s)

\* patch_node: the version the caller names must be the one in the snapshot,
\* the replacements must match, and must change something.
CommitPatch(s) ==
    /\ pc[s] = "patch"
    /\ current_version < MaxVersion
    /\ \E expected \in 1 .. MaxVersion, r \in Replacements :
          /\ seen[s].version = expected
          /\ Apply[<<seen[s].doc.content, r>>] \notin {NoMatch, seen[s].doc.content}
          /\ InsertVersion(s, AfterPatch(seen[s].doc, r),
                           [kind |-> "patch", expected |-> expected,
                            replacements |-> r])
    /\ Release(s)

\* A content write that ends without one: nothing would change, the title is
\* blank, a patch is a dry run, its version or its matches conflict, or the
\* request dies and its transaction rolls back.
EndWithoutWrite(s) ==
    /\ pc[s] \in {"update", "patch"}
    /\ Release(s)
    /\ UNCHANGED <<content_vars, summary_vars>>

-----------------------------------------------------------------------------
(***************************************************************************)
(* Summaries written by a caller                                           *)
(***************************************************************************)

\* update_node_ai_summary and request_summary load the row without locking it.
\* A request that finds its artifact already pending returns it.
LoadRow(s, kind) ==
    /\ pc[s] = "idle"
    /\ kind = "request" =>
          \A i \in DOMAIN artifacts :
             artifacts[i] # [status |-> "pending", source_content_hash |-> CurrentDoc]
    /\ seen' = [seen EXCEPT ![s] = Row]
    /\ pc' = [pc EXCEPT ![s] = kind]
    /\ UNCHANGED <<content_vars, summary_vars, lock, artifacts, job, history_vars>>

\* complete_summary's writes to the node, from the snapshot of process p: the
\* text describes the loaded document, and both hashes are taken from it.  Two
\* texts about one document may or may not be equal.
WriteSummary(p, source_content_hash) ==
    /\ lock = NoProcess
    /\ ai_summary' \in {seen[p].doc, Written(seen[p].summary, seen[p].doc, ai_summary)}
    /\ summary_is_current' =
          Written(seen[p].flag, source_content_hash = seen[p].doc, summary_is_current)
    /\ overtaken' = (overtaken \/ seen[p] # Row)
    /\ EndOfWork(p)
    /\ UNCHANGED <<content_vars, lock, crashes>>

\* update_node_ai_summary: start_summary and complete_summary in one commit.
CommitManualSummary(s) ==
    /\ pc[s] = "summary"
    /\ Len(artifacts) < MaxArtifacts
    /\ WriteSummary(s, seen[s].doc)
    /\ artifacts' = Append(artifacts, [status |-> "completed",
                                       source_content_hash |-> seen[s].doc])
    /\ UNCHANGED job

\* request_summary: the insert waits for a content writer, whose FOR UPDATE
\* conflicts with the foreign key's share lock on the row.
CommitRequest(s) ==
    /\ pc[s] = "request"
    /\ Len(artifacts) < MaxArtifacts
    /\ lock = NoProcess
    /\ artifacts' = Append(artifacts, [status |-> "pending",
                                       source_content_hash |-> seen[s].doc])
    /\ EndOfWork(s)
    /\ UNCHANGED <<content_vars, summary_vars, lock, job, history_vars>>

\* The request fails or dies before it commits.
AbandonSummary(s) ==
    /\ pc[s] \in {"summary", "request"}
    /\ EndOfWork(s)
    /\ UNCHANGED <<content_vars, summary_vars, lock, artifacts, job, history_vars>>

-----------------------------------------------------------------------------
(***************************************************************************)
(* Summaries generated by a task runner                                    *)
(***************************************************************************)

\* Mutant: failed artifacts are tried again.
Claim_Retry(w) ==
    /\ pc[w] = "idle"
    /\ \E i \in DOMAIN artifacts :
          /\ artifacts[i].status \in {"pending", "failed"}
          /\ artifacts' = [artifacts EXCEPT ![i].status = "processing"]
          /\ job' = [job EXCEPT ![w] = i]
    /\ pc' = [pc EXCEPT ![w] = "claimed"]
    /\ UNCHANGED <<content_vars, summary_vars, lock, seen, history_vars>>

\* run_loop: SELECT the oldest pending artifact FOR UPDATE SKIP LOCKED, mark it
\* processing, commit.
Claim(w) ==
    /\ pc[w] = "idle"
    /\ \E i \in DOMAIN artifacts :
          /\ artifacts[i].status = "pending"
          /\ \A j \in 1 .. i - 1 : artifacts[j].status # "pending"
          /\ artifacts' = [artifacts EXCEPT ![i].status = "processing"]
          /\ job' = [job EXCEPT ![w] = i]
    /\ pc' = [pc EXCEPT ![w] = "claimed"]
    /\ UNCHANGED <<content_vars, summary_vars, lock, seen, history_vars>>

\* process_summary_artifact loads the node, and generate_summary its version,
\* before the call to the model.
LoadForModel(w) ==
    /\ pc[w] = "claimed"
    /\ seen' = [seen EXCEPT ![w] = Row]
    /\ pc' = [pc EXCEPT ![w] = "generating"]
    /\ UNCHANGED <<content_vars, summary_vars, lock, artifacts, job, history_vars>>

\* The model answered: complete_summary, then the commit of run_loop.
CompleteSummary(w) ==
    /\ pc[w] = "generating"
    /\ WriteSummary(w, artifacts[job[w]].source_content_hash)
    /\ artifacts' = [artifacts EXCEPT ![job[w]].status = "completed"]
    /\ job' = [job EXCEPT ![w] = 0]

\* Mutant: the failure is not recorded.
FailSummary_Silent(w) ==
    /\ pc[w] = "generating"
    /\ job' = [job EXCEPT ![w] = 0]
    /\ EndOfWork(w)
    /\ UNCHANGED <<content_vars, summary_vars, lock, artifacts, history_vars>>

\* The model failed or returned nothing: fail_summary.
FailSummary(w) ==
    /\ pc[w] = "generating"
    /\ artifacts' = [artifacts EXCEPT ![job[w]].status = "failed"]
    /\ job' = [job EXCEPT ![w] = 0]
    /\ EndOfWork(w)
    /\ UNCHANGED <<content_vars, summary_vars, lock, history_vars>>

\* The runner is killed and started again: nothing takes its artifact back.
CrashWorker(w) ==
    /\ pc[w] \in {"claimed", "generating"}
    /\ crashes < MaxCrashes
    /\ crashes' = crashes + 1
    /\ EndOfWork(w)
    /\ job' = [job EXCEPT ![w] = 0]
    /\ UNCHANGED <<content_vars, summary_vars, lock, artifacts, overtaken>>

-----------------------------------------------------------------------------
SessionStep(s) ==
    \/ \E kind \in {"update", "patch"} : LockRow(s, kind)
    \/ CommitUpdate(s)
    \/ CommitPatch(s)
    \/ EndWithoutWrite(s)
    \/ \E kind \in {"summary", "request"} : LoadRow(s, kind)
    \/ CommitManualSummary(s)
    \/ CommitRequest(s)
    \/ AbandonSummary(s)

WorkerStep(w) ==
    \/ Claim(w)
    \/ LoadForModel(w)
    \/ CompleteSummary(w)
    \/ FailSummary(w)

Next ==
    \/ \E s \in Sessions : SessionStep(s)
    \/ \E w \in Workers : WorkerStep(w) \/ CrashWorker(w)

Spec == Init /\ [][Next]_vars

\* A runner polls for ever and every request ends: by its answer, by an error
\* or by gunicorn's timeout.  Nobody is obliged to start a request.
EndOfRequest(s) == EndWithoutWrite(s) \/ AbandonSummary(s)

Fairness ==
    /\ \A s \in Sessions : WF_vars(EndOfRequest(s))
    /\ \A w \in Workers : WF_vars(WorkerStep(w))

FairSpec == Spec /\ Fairness

-----------------------------------------------------------------------------
(***************************************************************************)
(* Properties                                                              *)
(***************************************************************************)
TypeOK ==
    /\ versions \subseteq Version
    /\ current_version \in Nat
    /\ summary_is_current \in BOOLEAN
    /\ ai_summary \in Doc \cup {NoSummary}
    /\ lock \in Sessions \cup {NoProcess}
    /\ artifacts \in Seq(Artifact)
    /\ pc \in [Processes -> {"idle", "update", "patch", "summary", "request",
                             "claimed", "generating"}]
    /\ seen \in [Processes -> Snapshot \cup {NoSnapshot}]
    /\ job \in [Workers -> Nat]
    /\ crashes \in Nat
    /\ last_call \in Call
    /\ overtaken \in BOOLEAN

\* The history of the node is linear although its writers overlap and no
\* constraint numbers the rows: versions 1 to current_version exist, once each
\* (update_node and patch_node take their number from a locked snapshot).
NumberedOnce ==
    /\ \A v \in versions : v.version \in 1 .. current_version
    /\ \A n \in 1 .. current_version : \E v \in versions : v.version = n
    /\ \A u, v \in versions : u.version = v.version => u = v

\* A summary marked current describes the current document ("A changed patch
\* creates one version and marks the existing AI summary stale", agent.py:406).
SummaryFlagIsHonest == summary_is_current => ai_summary = CurrentDoc

\* The flag can only lie once a summary was completed from a snapshot that
\* had aged: writers that take turns keep it honest, whatever their order.
HonestUnlessOvertaken == ~ overtaken => SummaryFlagIsHonest

\* A summary artifact is settled once: completed or failed, it is never
\* claimed, completed or failed again by another runner.
ArtifactSettledOnce ==
    [][\A i \in DOMAIN artifacts :
          artifacts[i].status \in {"completed", "failed"} =>
              artifacts'[i] = artifacts[i] ]_vars

\* A requested summary is eventually completed or failed, however many
\* requests come and whatever the sessions do, unless its runner was killed.
Orphaned(i) ==
    artifacts[i].status = "processing" /\ \A w \in Workers : job[w] # i

SummaryAnswered(i) ==
    /\ i \in DOMAIN artifacts
    /\ \/ artifacts[i].status \in {"completed", "failed"}
       \/ Orphaned(i) /\ crashes > 0

SummariesAnswered ==
    \A i \in 1 .. MaxArtifacts :
        (i \in DOMAIN artifacts) ~> SummaryAnswered(i)

-----------------------------------------------------------------------------
CallsOn(n) ==
    UpdateCall \cup [kind : {"patch"}, expected : {n}, replacements : Replacements]

History == INSTANCE NodeHistory WITH
    Calls <- CallsOn, After <- AfterCall,
    number <- current_version, doc <- CurrentDoc,
    call <- last_call, flag <- summary_is_current

\* Overlapping calls behave as calls that take turns: the module implements
\* the abstract history.  No update is lost (one that gave only a title keeps
\* the content of whoever wrote last), and a patch is applied to the very
\* version its caller named.
ImplementsHistory == History!Spec
=============================================================================
