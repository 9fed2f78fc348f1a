------------------------- MODULE NodeContentProofs -------------------------
(***************************************************************************)
(* NodeContent for any number of sessions and workers, any documents and   *)
(* any bounds: its types, the linear history of the node, the honesty of   *)
(* the summary flag between overtakings, the single settlement of an       *)
(* artifact, and the refinement of NodeHistory.                            *)
(*                                                                         *)
(* The argument is the row lock: the process that holds it is the only one *)
(* to write the content, so the snapshot it took when it got the lock is   *)
(* still the row when it commits (LockInv).                                *)
(***************************************************************************)
EXTENDS NodeContent, TLAPS

ContentPcs == {"update", "patch"}
SummaryPcs == {"summary", "request"}
WorkerPcs  == {"claimed", "generating"}

\* Sessions and workers keep to their own steps, and whoever computes has a
\* snapshot to compute from.
PcInv ==
    /\ \A s \in Sessions : pc[s] \in {"idle"} \cup ContentPcs \cup SummaryPcs
    /\ \A w \in Workers : pc[w] \in {"idle"} \cup WorkerPcs
    /\ \A p \in Processes :
          pc[p] \in ContentPcs \cup SummaryPcs \cup {"generating"} => seen[p] \in Snapshot

\* A content writer holds the row, and its snapshot is the row.
LockInv ==
    \A p \in Processes : pc[p] \in ContentPcs => lock = p /\ seen[p] = Row

\* The rows number 1 to current_version.
HistoryInv == current_version \in Nat \ {0} /\ NumberedOnce

\* A working runner has an artifact of its own, in processing.
JobInv ==
    /\ \A w \in Workers : pc[w] \in WorkerPcs =>
          /\ job[w] \in DOMAIN artifacts
          /\ artifacts[job[w]].status = "processing"
    /\ \A v, w \in Workers :
          pc[v] \in WorkerPcs /\ pc[w] \in WorkerPcs /\ job[v] = job[w] => v = w

IInv == TypeOK /\ PcInv /\ LockInv /\ HistoryInv /\ JobInv /\ HonestUnlessOvertaken

-----------------------------------------------------------------------------
\* The current document is that of the one row that bears its number, so it
\* is a document whenever the history is well formed.
LEMMA CurrentDocIs ==
    ASSUME NumberedOnce, NEW v \in versions, v.version = current_version
    PROVE  CurrentDoc = v.doc
  BY DEF NumberedOnce, CurrentDoc

LEMMA CurrentDocType ==
    ASSUME TypeOK, HistoryInv
    PROVE  /\ CurrentDoc \in Doc
           /\ Row \in Snapshot
  <1>1. PICK v \in versions : v.version = current_version
    BY DEF HistoryInv, NumberedOnce
  <1>2. CurrentDoc = v.doc
    BY <1>1, CurrentDocIs DEF HistoryInv
  <1>3. CurrentDoc \in Doc
    BY <1>2 DEF TypeOK, Version
  <1>4. QED
    BY <1>3 DEF Row, Snapshot, TypeOK

\* A call makes a document of a document.
LEMMA AfterUpdateType ==
    ASSUME NEW doc \in Doc, NEW title \in Titles \cup {Keep}, NEW content \in Contents \cup {Keep}
    PROVE  AfterUpdate(doc, title, content) \in Doc
  BY DEF AfterUpdate, Doc

LEMMA AfterPatchType ==
    ASSUME NEW doc \in Doc, NEW r \in Replacements, Apply[<<doc.content, r>>] # NoMatch
    PROVE  AfterPatch(doc, r) \in Doc
  <1>1. <<doc.content, r>> \in Contents \X Replacements
    BY DEF Doc
  <1>2. Apply[<<doc.content, r>>] \in Contents
    BY <1>1, ConstantsAssumption
  <1>3. QED
    BY <1>2 DEF AfterPatch, Doc

\* Everything that reads the row through its columns is unchanged with them.
LEMMA SameRow ==
    ASSUME UNCHANGED <<content_vars, summary_vars>>
    PROVE  CurrentDoc' = CurrentDoc /\ Row' = Row
  BY DEF content_vars, summary_vars, CurrentDoc, Row

\* Where no content is written: rows, numbers and calls stay as they are.
LEMMA HistoryStable ==
    ASSUME HistoryInv, UNCHANGED content_vars
    PROVE  HistoryInv'
  BY DEF HistoryInv, NumberedOnce, content_vars

\* Where nothing of the row is written and nobody is newly overtaken, the flag
\* is as honest as before.
LEMMA HonestStable ==
    ASSUME HonestUnlessOvertaken, UNCHANGED <<content_vars, summary_vars, overtaken>>
    PROVE  HonestUnlessOvertaken'
  <1>1. CurrentDoc' = CurrentDoc
    BY SameRow
  <1>2. QED
    BY <1>1 DEF HonestUnlessOvertaken, SummaryFlagIsHonest, summary_vars

-----------------------------------------------------------------------------
LEMMA InitIInv == Init => IInv
  <1> SUFFICES ASSUME Init PROVE IInv
    OBVIOUS
  <1>1. FirstDoc \in Doc
    BY ConstantsAssumption DEF Doc
  <1>2. TypeOK
    <2>1. versions \subseteq Version
      BY <1>1 DEF Init, Version
    <2>2. artifacts \in Seq(Artifact)
      BY DEF Init
    <2>3. /\ pc \in [Processes -> {"idle", "update", "patch", "summary", "request",
                                   "claimed", "generating"}]
          /\ seen \in [Processes -> Snapshot \cup {NoSnapshot}]
          /\ job \in [Workers -> Nat]
      BY DEF Init
    <2>4. last_call \in Call
      BY DEF Init, Call
    <2>5. QED
      BY <2>1, <2>2, <2>3, <2>4 DEF Init, TypeOK
  <1>3. HistoryInv
    BY DEF Init, HistoryInv, NumberedOnce
  <1>4. PcInv /\ LockInv /\ JobInv
    BY DEF Init, PcInv, LockInv, JobInv, Processes, ContentPcs, SummaryPcs, WorkerPcs
  <1>5. HonestUnlessOvertaken
    BY DEF Init, HonestUnlessOvertaken, SummaryFlagIsHonest
  <1>6. QED
    BY <1>2, <1>3, <1>4, <1>5 DEF IInv

-----------------------------------------------------------------------------
\* The one way a version is written: from a snapshot that is the row, by the
\* process that holds it.
LEMMA InsertKeepsIInv ==
    ASSUME IInv, NEW s \in Sessions, pc[s] \in ContentPcs,
           NEW doc \in Doc, NEW call \in Call,
           InsertVersion(s, doc, call), Release(s)
    PROVE  IInv'
  <1> DEFINE new == [version |-> current_version + 1, doc |-> doc]
  <1> USE DEF IInv
  <1>1. lock = s /\ seen[s] = Row
    BY DEF LockInv, Processes
  <1>2. seen[s].version = current_version
    BY <1>1 DEF Row
  <1>3. /\ versions' = versions \cup {new}
        /\ current_version' = current_version + 1
        /\ last_call' = call
        /\ summary_is_current' = FALSE
        /\ ai_summary' = ai_summary
    BY <1>2 DEF InsertVersion
  <1>4. /\ lock' = NoProcess
        /\ pc' = [pc EXCEPT ![s] = "idle"]
        /\ seen' = [seen EXCEPT ![s] = NoSnapshot]
        /\ UNCHANGED <<artifacts, job, crashes, overtaken>>
    BY DEF Release, EndOfWork, history_vars
  <1>5. TypeOK'
    <2>1. new \in Version
      BY DEF Version, HistoryInv
    <2>2. versions' \subseteq Version /\ current_version' \in Nat
      BY <1>3, <2>1 DEF TypeOK, HistoryInv
    <2>3. /\ pc' \in [Processes -> {"idle", "update", "patch", "summary", "request",
                                    "claimed", "generating"}]
          /\ seen' \in [Processes -> Snapshot \cup {NoSnapshot}]
      BY <1>4 DEF TypeOK
    <2>4. QED
      BY <1>3, <1>4, <2>2, <2>3 DEF TypeOK
  <1>6. HistoryInv'
    <2>1. /\ current_version \in Nat \ {0}
          /\ \A v \in versions : v.version \in 1 .. current_version
          /\ \A n \in 1 .. current_version : \E v \in versions : v.version = n
          /\ \A u, v \in versions : u.version = v.version => u = v
      BY DEF HistoryInv, NumberedOnce
    <2>2. new.version = current_version + 1
      OBVIOUS
    <2>3. \A v \in versions' : v.version \in 1 .. current_version'
      BY <1>3, <2>1, <2>2
    <2>4. \A n \in 1 .. current_version' : \E v \in versions' : v.version = n
      <3> SUFFICES ASSUME NEW n \in 1 .. current_version' PROVE \E v \in versions' : v.version = n
        OBVIOUS
      <3>1. CASE n = current_version + 1
        BY <1>3, <2>2, <3>1
      <3>2. CASE n \in 1 .. current_version
        BY <1>3, <2>1, <3>2
      <3>3. QED
        BY <1>3, <2>1, <3>1, <3>2
    <2>5. \A u, v \in versions' : u.version = v.version => u = v
      <3>1. \A v \in versions : v.version # current_version + 1
        BY <2>1
      <3>2. QED
        BY <1>3, <2>1, <2>2, <3>1
    <2>6. current_version' \in Nat \ {0}
      BY <1>3, <2>1
    <2>7. QED
      BY <2>3, <2>4, <2>5, <2>6 DEF HistoryInv, NumberedOnce
  <1>7. PcInv'
    BY <1>4 DEF PcInv, TypeOK, Processes, ContentPcs, SummaryPcs, WorkerPcs
  <1>8. LockInv'
    \* Nobody else was writing content: the lock was held by s.
    <2>1. \A p \in Processes : pc[p] \in ContentPcs => p = s
      BY <1>1 DEF LockInv
    <2>2. QED
      BY <1>4, <2>1 DEF LockInv, TypeOK, ContentPcs
  <1>9. JobInv'
    BY <1>4, ConstantsAssumption DEF JobInv, TypeOK, Processes, WorkerPcs, ContentPcs
  <1>10. HonestUnlessOvertaken'
    BY <1>3 DEF HonestUnlessOvertaken, SummaryFlagIsHonest
  <1>11. QED
    BY <1>5, <1>6, <1>7, <1>8, <1>9, <1>10

\* The one way a summary is written, by a session or by a worker.
LEMMA SummaryKeepsHonesty ==
    ASSUME IInv, NEW p \in Processes, NEW hash \in Doc, seen[p] \in Snapshot,
           WriteSummary(p, hash)
    PROVE  /\ HonestUnlessOvertaken'
           /\ ai_summary' \in Doc \cup {NoSummary}
           /\ summary_is_current' \in BOOLEAN
           /\ overtaken' \in BOOLEAN
  <1> USE DEF IInv
  <1>1. CurrentDoc \in Doc
    BY CurrentDocType
  <1>2. CurrentDoc' = CurrentDoc
    BY DEF WriteSummary, content_vars, CurrentDoc
  <1>3. seen[p].doc \in Doc /\ seen[p].flag \in BOOLEAN /\ seen[p].summary \in Doc \cup {NoSummary}
    BY DEF Snapshot
  <1>4. ai_summary' \in Doc \cup {NoSummary}
    BY <1>3 DEF WriteSummary, Written, TypeOK
  <1>5. summary_is_current' \in BOOLEAN
    BY <1>3 DEF WriteSummary, Written, TypeOK
  <1>6. overtaken' \in BOOLEAN
    BY DEF WriteSummary, TypeOK
  <1>7. ASSUME ~ overtaken' PROVE ai_summary' = CurrentDoc'
    <2>1. seen[p] = Row
      BY <1>7 DEF WriteSummary
    <2>2. seen[p].doc = CurrentDoc /\ seen[p].summary = ai_summary
      BY <2>1 DEF Row
    <2>3. QED
      BY <1>2, <2>2 DEF WriteSummary, Written
  <1>8. QED
    BY <1>4, <1>5, <1>6, <1>7 DEF HonestUnlessOvertaken, SummaryFlagIsHonest

-----------------------------------------------------------------------------
(***************************************************************************)
(* One lemma per kind of step that is more than bookkeeping, then the      *)
(* induction step.                                                         *)
(***************************************************************************)

LEMMA LockRowKeepsIInv ==
    ASSUME IInv, NEW s \in Sessions, NEW kind \in ContentPcs, LockRow(s, kind)
    PROVE  IInv'
  <1> USE DEF IInv
  <1>1. /\ pc' = [pc EXCEPT ![s] = kind]
        /\ seen' = [seen EXCEPT ![s] = Row]
        /\ lock' = s
        /\ UNCHANGED <<content_vars, summary_vars, artifacts, job, crashes, overtaken>>
    BY DEF LockRow, history_vars
  <1>2. Row' = Row /\ Row \in Snapshot
    BY <1>1, SameRow, CurrentDocType
  <1>3. TypeOK'
    BY <1>1, <1>2 DEF TypeOK, content_vars, summary_vars, Processes, ContentPcs
  <1>4. PcInv'
    BY <1>1, <1>2, ConstantsAssumption
    DEF PcInv, TypeOK, Processes, ContentPcs, SummaryPcs, WorkerPcs
  <1>5. LockInv'
    \* The lock was free, so nobody was writing content.
    <2>1. \A p \in Processes : pc[p] \notin ContentPcs
      BY ConstantsAssumption DEF LockRow, LockInv, Processes
    <2>2. QED
      BY <1>1, <1>2, <2>1 DEF LockInv, TypeOK, Processes
  <1>6. JobInv'
    BY <1>1, ConstantsAssumption DEF JobInv, TypeOK, Processes, WorkerPcs
  <1>7. QED
    BY <1>1, <1>3, <1>4, <1>5, <1>6, HistoryStable, HonestStable

LEMMA CommitUpdateKeepsIInv ==
    ASSUME IInv, NEW s \in Sessions, CommitUpdate(s)
    PROVE  IInv'
  <1>1. PICK title \in Titles \cup {Keep}, content \in Contents \cup {Keep} :
           InsertVersion(s, AfterUpdate(seen[s].doc, title, content),
                         [kind |-> "update", title |-> title, content |-> content])
    BY DEF CommitUpdate
  <1>2. seen[s].doc \in Doc
    BY DEF CommitUpdate, IInv, PcInv, Processes, ContentPcs, Snapshot
  <1>3. AfterUpdate(seen[s].doc, title, content) \in Doc
    BY <1>2, AfterUpdateType
  <1>4. [kind |-> "update", title |-> title, content |-> content] \in Call
    BY DEF Call, UpdateCall
  <1>5. pc[s] \in ContentPcs /\ Release(s)
    BY DEF CommitUpdate, ContentPcs
  <1>6. QED
    BY <1>1, <1>3, <1>4, <1>5, InsertKeepsIInv

LEMMA CommitPatchKeepsIInv ==
    ASSUME IInv, NEW s \in Sessions, CommitPatch(s)
    PROVE  IInv'
  <1>1. PICK expected \in 1 .. MaxVersion, r \in Replacements :
           /\ Apply[<<seen[s].doc.content, r>>] # NoMatch
           /\ InsertVersion(s, AfterPatch(seen[s].doc, r),
                            [kind |-> "patch", expected |-> expected, replacements |-> r])
    BY DEF CommitPatch
  <1>2. seen[s].doc \in Doc
    BY DEF CommitPatch, IInv, PcInv, Processes, ContentPcs, Snapshot
  <1>3. AfterPatch(seen[s].doc, r) \in Doc
    BY <1>1, <1>2, AfterPatchType
  <1>4. [kind |-> "patch", expected |-> expected, replacements |-> r] \in Call
    BY ConstantsAssumption DEF Call, PatchCall
  <1>5. pc[s] \in ContentPcs /\ Release(s)
    BY DEF CommitPatch, ContentPcs
  <1>6. QED
    BY <1>1, <1>3, <1>4, <1>5, InsertKeepsIInv

LEMMA EndWithoutWriteKeepsIInv ==
    ASSUME IInv, NEW s \in Sessions, EndWithoutWrite(s)
    PROVE  IInv'
  <1> USE DEF IInv
  <1>1. /\ pc' = [pc EXCEPT ![s] = "idle"]
        /\ seen' = [seen EXCEPT ![s] = NoSnapshot]
        /\ lock' = NoProcess
        /\ UNCHANGED <<content_vars, summary_vars, artifacts, job, crashes, overtaken>>
    BY DEF EndWithoutWrite, Release, EndOfWork, history_vars
  <1>2. Row' = Row
    BY <1>1, SameRow
  <1>3. TypeOK'
    BY <1>1 DEF TypeOK, content_vars, summary_vars, Processes
  <1>4. PcInv'
    BY <1>1 DEF PcInv, TypeOK, Processes, ContentPcs, SummaryPcs, WorkerPcs
  <1>5. LockInv'
    <2>1. lock = s
      BY DEF EndWithoutWrite, LockInv, Processes, ContentPcs
    <2>2. QED
      BY <1>1, <2>1 DEF LockInv, TypeOK, ContentPcs
  <1>6. JobInv'
    BY <1>1, ConstantsAssumption DEF JobInv, TypeOK, Processes, WorkerPcs
  <1>7. QED
    BY <1>1, <1>3, <1>4, <1>5, <1>6, HistoryStable, HonestStable

LEMMA LoadRowKeepsIInv ==
    ASSUME IInv, NEW s \in Sessions, NEW kind \in SummaryPcs, LoadRow(s, kind)
    PROVE  IInv'
  <1> USE DEF IInv
  <1>1. /\ pc' = [pc EXCEPT ![s] = kind]
        /\ seen' = [seen EXCEPT ![s] = Row]
        /\ UNCHANGED <<content_vars, summary_vars, lock, artifacts, job, crashes, overtaken>>
    BY DEF LoadRow, history_vars
  <1>2. Row' = Row /\ Row \in Snapshot
    BY <1>1, SameRow, CurrentDocType
  <1>3. TypeOK'
    BY <1>1, <1>2 DEF TypeOK, content_vars, summary_vars, Processes, SummaryPcs
  <1>4. PcInv'
    BY <1>1, <1>2, ConstantsAssumption
    DEF PcInv, TypeOK, Processes, ContentPcs, SummaryPcs, WorkerPcs
  <1>5. LockInv'
    BY <1>1, <1>2 DEF LockInv, TypeOK, ContentPcs, SummaryPcs
  <1>6. JobInv'
    BY <1>1, ConstantsAssumption DEF JobInv, TypeOK, Processes, WorkerPcs
  <1>7. QED
    BY <1>1, <1>3, <1>4, <1>5, <1>6, HistoryStable, HonestStable

\* The queue only grows at its end, with an artifact nobody works on yet.
LEMMA AppendKeepsJobInv ==
    ASSUME IInv, NEW s \in Sessions, NEW a \in Artifact,
           artifacts' = Append(artifacts, a), job' = job,
           pc' = [pc EXCEPT ![s] = "idle"]
    PROVE  artifacts' \in Seq(Artifact) /\ JobInv'
  <1>1. artifacts \in Seq(Artifact) /\ artifacts' \in Seq(Artifact)
    BY DEF IInv, TypeOK
  <1>2. \A i \in DOMAIN artifacts : i \in DOMAIN artifacts' /\ artifacts'[i] = artifacts[i]
    BY <1>1
  <1>3. \A w \in Workers : pc'[w] = pc[w]
    BY ConstantsAssumption DEF IInv, TypeOK, Processes
  <1>4. QED
    BY <1>1, <1>2, <1>3 DEF IInv, JobInv, WorkerPcs

LEMMA CommitManualSummaryKeepsIInv ==
    ASSUME IInv, NEW s \in Sessions, CommitManualSummary(s)
    PROVE  IInv'
  <1> USE DEF IInv
  <1>1. seen[s] \in Snapshot
    BY DEF CommitManualSummary, PcInv, Processes, SummaryPcs
  <1> DEFINE a == [status |-> "completed", source_content_hash |-> seen[s].doc]
  <1>2. seen[s].doc \in Doc /\ a \in Artifact
    BY <1>1 DEF Snapshot, Artifact
  <1>3. WriteSummary(s, seen[s].doc)
    BY DEF CommitManualSummary
  <1>4. /\ HonestUnlessOvertaken'
        /\ ai_summary' \in Doc \cup {NoSummary}
        /\ summary_is_current' \in BOOLEAN
        /\ overtaken' \in BOOLEAN
    BY <1>1, <1>2, <1>3, SummaryKeepsHonesty DEF Processes
  <1>5. /\ pc' = [pc EXCEPT ![s] = "idle"]
        /\ seen' = [seen EXCEPT ![s] = NoSnapshot]
        /\ artifacts' = Append(artifacts, a)
        /\ lock = NoProcess
        /\ UNCHANGED <<content_vars, lock, job, crashes>>
    BY DEF CommitManualSummary, WriteSummary, EndOfWork
  <1>6. artifacts' \in Seq(Artifact) /\ JobInv'
    BY <1>2, <1>5, AppendKeepsJobInv
  <1>7. TypeOK'
    BY <1>4, <1>5, <1>6 DEF TypeOK, content_vars, Processes
  <1>8. PcInv'
    BY <1>5 DEF PcInv, TypeOK, Processes, ContentPcs, SummaryPcs, WorkerPcs
  <1>9. LockInv'
    \* The row is free: nobody has a snapshot that must match it.
    <2>1. \A p \in Processes : pc[p] \notin ContentPcs
      BY <1>5, ConstantsAssumption DEF LockInv, Processes
    <2>2. QED
      BY <1>5, <2>1 DEF LockInv, TypeOK, ContentPcs
  <1>10. QED
    BY <1>4, <1>5, <1>6, <1>7, <1>8, <1>9, HistoryStable

LEMMA CommitRequestKeepsIInv ==
    ASSUME IInv, NEW s \in Sessions, CommitRequest(s)
    PROVE  IInv'
  <1> USE DEF IInv
  <1>1. seen[s] \in Snapshot
    BY DEF CommitRequest, PcInv, Processes, SummaryPcs
  <1> DEFINE a == [status |-> "pending", source_content_hash |-> seen[s].doc]
  <1>2. a \in Artifact
    BY <1>1 DEF Snapshot, Artifact
  <1>3. /\ pc' = [pc EXCEPT ![s] = "idle"]
        /\ seen' = [seen EXCEPT ![s] = NoSnapshot]
        /\ artifacts' = Append(artifacts, a)
        /\ UNCHANGED <<content_vars, summary_vars, lock, job, crashes, overtaken>>
    BY DEF CommitRequest, EndOfWork, history_vars
  <1>4. Row' = Row
    BY <1>3, SameRow
  <1>5. artifacts' \in Seq(Artifact) /\ JobInv'
    BY <1>2, <1>3, AppendKeepsJobInv
  <1>6. TypeOK'
    BY <1>3, <1>5 DEF TypeOK, content_vars, summary_vars, Processes
  <1>7. PcInv'
    BY <1>3 DEF PcInv, TypeOK, Processes, ContentPcs, SummaryPcs, WorkerPcs
  <1>8. LockInv'
    BY <1>3, <1>4 DEF LockInv, TypeOK, ContentPcs
  <1>9. QED
    BY <1>3, <1>5, <1>6, <1>7, <1>8, HistoryStable, HonestStable

LEMMA AbandonSummaryKeepsIInv ==
    ASSUME IInv, NEW s \in Sessions, AbandonSummary(s)
    PROVE  IInv'
  <1> USE DEF IInv
  <1>1. /\ pc' = [pc EXCEPT ![s] = "idle"]
        /\ seen' = [seen EXCEPT ![s] = NoSnapshot]
        /\ UNCHANGED <<content_vars, summary_vars, lock, artifacts, job, crashes, overtaken>>
    BY DEF AbandonSummary, EndOfWork, history_vars
  <1>2. Row' = Row
    BY <1>1, SameRow
  <1>3. TypeOK'
    BY <1>1 DEF TypeOK, content_vars, summary_vars, Processes
  <1>4. PcInv'
    BY <1>1 DEF PcInv, TypeOK, Processes, ContentPcs, SummaryPcs, WorkerPcs
  <1>5. LockInv'
    BY <1>1, <1>2 DEF LockInv, TypeOK, ContentPcs
  <1>6. JobInv'
    BY <1>1, ConstantsAssumption DEF JobInv, TypeOK, Processes, WorkerPcs
  <1>7. QED
    BY <1>1, <1>3, <1>4, <1>5, <1>6, HistoryStable, HonestStable

\* A runner changes the status of one artifact and nothing else of the queue.
LEMMA SetStatus ==
    ASSUME artifacts \in Seq(Artifact), NEW i \in DOMAIN artifacts,
           NEW status \in {"pending", "processing", "completed", "failed"},
           artifacts' = [artifacts EXCEPT ![i].status = status]
    PROVE  /\ artifacts' \in Seq(Artifact)
           /\ DOMAIN artifacts' = DOMAIN artifacts
           /\ artifacts'[i].status = status
           /\ \A j \in DOMAIN artifacts : j # i => artifacts'[j] = artifacts[j]
  <1> DEFINE new == [artifacts[i] EXCEPT !.status = status]
  <1>1. artifacts[i] \in Artifact
    OBVIOUS
  <1>2. new \in Artifact /\ new.status = status
    BY <1>1 DEF Artifact
  <1>3. artifacts' = [artifacts EXCEPT ![i] = new]
    OBVIOUS
  <1> HIDE DEF new
  <1>4. artifacts' \in Seq(Artifact) /\ DOMAIN artifacts' = DOMAIN artifacts
    BY <1>2, <1>3
  <1>5. artifacts'[i] = new
    BY <1>3
  <1>6. \A j \in DOMAIN artifacts : j # i => artifacts'[j] = artifacts[j]
    BY <1>3
  <1>7. QED
    BY <1>2, <1>4, <1>5, <1>6

LEMMA ClaimKeepsIInv ==
    ASSUME IInv, NEW w \in Workers, Claim(w)
    PROVE  IInv'
  <1> USE DEF IInv
  <1>1. PICK i \in DOMAIN artifacts :
           /\ artifacts[i].status = "pending"
           /\ artifacts' = [artifacts EXCEPT ![i].status = "processing"]
           /\ job' = [job EXCEPT ![w] = i]
    BY DEF Claim
  <1>2. /\ pc' = [pc EXCEPT ![w] = "claimed"]
        /\ UNCHANGED <<content_vars, summary_vars, lock, seen, crashes, overtaken>>
    BY DEF Claim, history_vars
  <1>3. Row' = Row
    BY <1>2, SameRow
  <1>4. artifacts \in Seq(Artifact) /\ i \in Nat
    BY DEF TypeOK
  <1>5. /\ artifacts' \in Seq(Artifact)
        /\ DOMAIN artifacts' = DOMAIN artifacts
        /\ artifacts'[i].status = "processing"
        /\ \A j \in DOMAIN artifacts : j # i => artifacts'[j] = artifacts[j]
    BY <1>1, <1>4, SetStatus
  <1>6. TypeOK'
    BY <1>1, <1>2, <1>4, <1>5 DEF TypeOK, content_vars, summary_vars, Processes
  <1>7. PcInv'
    <2>1. \A p \in Processes : p # w => pc'[p] = pc[p]
      BY <1>2 DEF TypeOK
    <2>2. pc'[w] = "claimed" /\ w \notin Sessions /\ seen' = seen
      BY <1>2, ConstantsAssumption DEF TypeOK, Processes
    <2>3. QED
      BY <2>1, <2>2 DEF PcInv, Processes, ContentPcs, SummaryPcs, WorkerPcs
  <1>8. LockInv'
    BY <1>2, <1>3 DEF LockInv, TypeOK, ContentPcs
  <1>9. JobInv'
    \* A pending artifact was nobody's, and w was working on nothing.
    <2>1. \A v \in Workers : pc[v] \in WorkerPcs => job[v] # i
      BY <1>1 DEF JobInv
    <2>2. \A v \in Workers : v # w => pc'[v] = pc[v] /\ job'[v] = job[v]
      BY <1>1, <1>2 DEF TypeOK, Processes
    <2>3. job'[w] = i
      BY <1>1 DEF TypeOK
    <2>4. QED
      BY <1>5, <2>1, <2>2, <2>3 DEF JobInv
  <1>10. QED
    BY <1>2, <1>6, <1>7, <1>8, <1>9, HistoryStable, HonestStable

LEMMA LoadForModelKeepsIInv ==
    ASSUME IInv, NEW w \in Workers, LoadForModel(w)
    PROVE  IInv'
  <1> USE DEF IInv
  <1>1. /\ pc[w] = "claimed"
        /\ pc' = [pc EXCEPT ![w] = "generating"]
        /\ seen' = [seen EXCEPT ![w] = Row]
        /\ UNCHANGED <<content_vars, summary_vars, lock, artifacts, job, crashes, overtaken>>
    BY DEF LoadForModel, history_vars
  <1>2. Row' = Row /\ Row \in Snapshot
    BY <1>1, SameRow, CurrentDocType
  <1>3. TypeOK'
    BY <1>1, <1>2 DEF TypeOK, content_vars, summary_vars, Processes
  <1>4. PcInv'
    <2>1. \A p \in Processes : p # w => pc'[p] = pc[p] /\ seen'[p] = seen[p]
      BY <1>1 DEF TypeOK
    <2>2. pc'[w] = "generating" /\ seen'[w] = Row /\ w \notin Sessions
      BY <1>1, ConstantsAssumption DEF TypeOK, Processes
    <2>3. QED
      BY <1>2, <2>1, <2>2 DEF PcInv, Processes, ContentPcs, SummaryPcs, WorkerPcs
  <1>5. LockInv'
    BY <1>1, <1>2 DEF LockInv, TypeOK, ContentPcs
  <1>6. JobInv'
    BY <1>1 DEF JobInv, TypeOK, Processes, WorkerPcs
  <1>7. QED
    BY <1>1, <1>3, <1>4, <1>5, <1>6, HistoryStable, HonestStable

\* A runner that is done with its artifact: the others keep theirs.
LEMMA SettleKeepsJobInv ==
    ASSUME IInv, NEW w \in Workers, pc[w] \in WorkerPcs,
           NEW status \in {"completed", "failed"},
           artifacts' = [artifacts EXCEPT ![job[w]].status = status],
           job' = [job EXCEPT ![w] = 0],
           pc' = [pc EXCEPT ![w] = "idle"]
    PROVE  artifacts' \in Seq(Artifact) /\ JobInv'
  <1>1. artifacts \in Seq(Artifact) /\ job[w] \in DOMAIN artifacts
    BY DEF IInv, TypeOK, JobInv
  <1>2. /\ artifacts' \in Seq(Artifact)
        /\ DOMAIN artifacts' = DOMAIN artifacts
        /\ \A j \in DOMAIN artifacts : j # job[w] => artifacts'[j] = artifacts[j]
    BY <1>1, SetStatus
  <1>3. \A v \in Workers : v # w => pc'[v] = pc[v] /\ job'[v] = job[v]
    BY DEF IInv, TypeOK, Processes
  <1>4. pc'[w] = "idle"
    BY DEF IInv, TypeOK, Processes
  <1>5. QED
    BY <1>2, <1>3, <1>4 DEF IInv, JobInv, WorkerPcs

LEMMA CompleteSummaryKeepsIInv ==
    ASSUME IInv, NEW w \in Workers, CompleteSummary(w)
    PROVE  IInv'
  <1> USE DEF IInv
  <1>1. /\ pc[w] = "generating"
        /\ WriteSummary(w, artifacts[job[w]].source_content_hash)
        /\ artifacts' = [artifacts EXCEPT ![job[w]].status = "completed"]
        /\ job' = [job EXCEPT ![w] = 0]
    BY DEF CompleteSummary
  <1>2. seen[w] \in Snapshot
    BY <1>1 DEF PcInv, Processes
  <1>3. artifacts[job[w]].source_content_hash \in Doc
    <2>1. job[w] \in DOMAIN artifacts /\ artifacts \in Seq(Artifact)
      BY <1>1 DEF JobInv, TypeOK, WorkerPcs
    <2>2. artifacts[job[w]] \in Artifact
      BY <2>1
    <2>3. QED
      BY <2>2 DEF Artifact
  <1>4. /\ HonestUnlessOvertaken'
        /\ ai_summary' \in Doc \cup {NoSummary}
        /\ summary_is_current' \in BOOLEAN
        /\ overtaken' \in BOOLEAN
    BY <1>1, <1>2, <1>3, SummaryKeepsHonesty DEF Processes
  <1>5. /\ pc' = [pc EXCEPT ![w] = "idle"]
        /\ seen' = [seen EXCEPT ![w] = NoSnapshot]
        /\ lock = NoProcess
        /\ UNCHANGED <<content_vars, lock, crashes>>
    BY <1>1 DEF WriteSummary, EndOfWork
  <1>6. artifacts' \in Seq(Artifact) /\ JobInv'
    BY <1>1, <1>5, SettleKeepsJobInv DEF WorkerPcs
  <1>7. TypeOK'
    BY <1>1, <1>4, <1>5, <1>6 DEF TypeOK, content_vars, Processes
  <1>8. PcInv'
    BY <1>5 DEF PcInv, TypeOK, Processes, ContentPcs, SummaryPcs, WorkerPcs
  <1>9. LockInv'
    \* The row is free: nobody has a snapshot that must match it.
    <2>1. \A p \in Processes : pc[p] \notin ContentPcs
      BY <1>5, ConstantsAssumption DEF LockInv, Processes
    <2>2. QED
      BY <1>5, <2>1 DEF LockInv, TypeOK, ContentPcs
  <1>10. QED
    BY <1>4, <1>5, <1>6, <1>7, <1>8, <1>9, HistoryStable

LEMMA FailSummaryKeepsIInv ==
    ASSUME IInv, NEW w \in Workers, FailSummary(w)
    PROVE  IInv'
  <1> USE DEF IInv
  <1>1. /\ pc[w] = "generating"
        /\ artifacts' = [artifacts EXCEPT ![job[w]].status = "failed"]
        /\ job' = [job EXCEPT ![w] = 0]
        /\ pc' = [pc EXCEPT ![w] = "idle"]
        /\ seen' = [seen EXCEPT ![w] = NoSnapshot]
        /\ UNCHANGED <<content_vars, summary_vars, lock, crashes, overtaken>>
    BY DEF FailSummary, EndOfWork, history_vars
  <1>2. Row' = Row
    BY <1>1, SameRow
  <1>3. artifacts' \in Seq(Artifact) /\ JobInv'
    BY <1>1, SettleKeepsJobInv DEF WorkerPcs
  <1>4. TypeOK'
    BY <1>1, <1>3 DEF TypeOK, content_vars, summary_vars, Processes
  <1>5. PcInv'
    BY <1>1 DEF PcInv, TypeOK, Processes, ContentPcs, SummaryPcs, WorkerPcs
  <1>6. LockInv'
    BY <1>1, <1>2 DEF LockInv, TypeOK, ContentPcs
  <1>7. QED
    BY <1>1, <1>3, <1>4, <1>5, <1>6, HistoryStable, HonestStable

LEMMA CrashWorkerKeepsIInv ==
    ASSUME IInv, NEW w \in Workers, CrashWorker(w)
    PROVE  IInv'
  <1> USE DEF IInv
  <1>1. /\ pc' = [pc EXCEPT ![w] = "idle"]
        /\ seen' = [seen EXCEPT ![w] = NoSnapshot]
        /\ job' = [job EXCEPT ![w] = 0]
        /\ crashes' = crashes + 1
        /\ UNCHANGED <<content_vars, summary_vars, lock, artifacts, overtaken>>
    BY DEF CrashWorker, EndOfWork
  <1>2. Row' = Row
    BY <1>1, SameRow
  <1>3. TypeOK'
    BY <1>1 DEF TypeOK, content_vars, summary_vars, Processes
  <1>4. PcInv'
    BY <1>1 DEF PcInv, TypeOK, Processes, ContentPcs, SummaryPcs, WorkerPcs
  <1>5. LockInv'
    BY <1>1, <1>2 DEF LockInv, TypeOK, ContentPcs
  <1>6. JobInv'
    BY <1>1 DEF JobInv, TypeOK, Processes, WorkerPcs
  <1>7. QED
    BY <1>1, <1>3, <1>4, <1>5, <1>6, HistoryStable, HonestStable

LEMMA StutterKeepsIInv ==
    ASSUME IInv, UNCHANGED vars
    PROVE  IInv'
  <1>1. CurrentDoc' = CurrentDoc /\ Row' = Row
    BY SameRow DEF vars, content_vars, summary_vars
  <1>2. QED
    BY <1>1 DEF vars, IInv, TypeOK, PcInv, LockInv, HistoryInv, NumberedOnce, JobInv,
                HonestUnlessOvertaken, SummaryFlagIsHonest

LEMMA NextKeepsIInv == IInv /\ [Next]_vars => IInv'
  <1> SUFFICES ASSUME IInv, [Next]_vars PROVE IInv'
    OBVIOUS
  <1>1. ASSUME NEW s \in Sessions, SessionStep(s) PROVE IInv'
    <2>1. CASE \E kind \in {"update", "patch"} : LockRow(s, kind)
      BY <2>1, LockRowKeepsIInv DEF ContentPcs
    <2>2. CASE CommitUpdate(s)
      BY <2>2, CommitUpdateKeepsIInv
    <2>3. CASE CommitPatch(s)
      BY <2>3, CommitPatchKeepsIInv
    <2>4. CASE EndWithoutWrite(s)
      BY <2>4, EndWithoutWriteKeepsIInv
    <2>5. CASE \E kind \in {"summary", "request"} : LoadRow(s, kind)
      BY <2>5, LoadRowKeepsIInv DEF SummaryPcs
    <2>6. CASE CommitManualSummary(s)
      BY <2>6, CommitManualSummaryKeepsIInv
    <2>7. CASE CommitRequest(s)
      BY <2>7, CommitRequestKeepsIInv
    <2>8. CASE AbandonSummary(s)
      BY <2>8, AbandonSummaryKeepsIInv
    <2>9. QED
      BY <1>1, <2>1, <2>2, <2>3, <2>4, <2>5, <2>6, <2>7, <2>8 DEF SessionStep
  <1>2. ASSUME NEW w \in Workers, WorkerStep(w) PROVE IInv'
    <2>1. CASE Claim(w)
      BY <2>1, ClaimKeepsIInv
    <2>2. CASE LoadForModel(w)
      BY <2>2, LoadForModelKeepsIInv
    <2>3. CASE CompleteSummary(w)
      BY <2>3, CompleteSummaryKeepsIInv
    <2>4. CASE FailSummary(w)
      BY <2>4, FailSummaryKeepsIInv
    <2>5. QED
      BY <1>2, <2>1, <2>2, <2>3, <2>4 DEF WorkerStep
  <1>3. ASSUME NEW w \in Workers, CrashWorker(w) PROVE IInv'
    BY <1>3, CrashWorkerKeepsIInv
  <1>4. CASE UNCHANGED vars
    BY <1>4, StutterKeepsIInv
  <1>5. QED
    BY <1>1, <1>2, <1>3, <1>4 DEF Next

-----------------------------------------------------------------------------
\* The strengthened invariant holds throughout.
THEOREM Inductive == Spec => []IInv
  BY InitIInv, NextKeepsIInv, PTL DEF Spec

\* Every variable keeps its type.
THEOREM TypeCorrect == Spec => []TypeOK
  <1>1. IInv => TypeOK
    BY DEF IInv
  <1>2. QED
    BY <1>1, Inductive, PTL

\* The rows of versions number 1 to current_version, once each, whatever
\* update_node and patch_node calls overlap.
THEOREM LinearHistory == Spec => []NumberedOnce
  <1>1. IInv => NumberedOnce
    BY DEF IInv, HistoryInv
  <1>2. QED
    BY <1>1, Inductive, PTL

\* summary_is_current tells the truth until a summary is completed from a
\* snapshot that is no longer the row (complete_summary).
THEOREM FlagHonest == Spec => []HonestUnlessOvertaken
  <1>1. IInv => HonestUnlessOvertaken
    BY DEF IInv
  <1>2. QED
    BY <1>1, Inductive, PTL

-----------------------------------------------------------------------------
(***************************************************************************)
(* Artifacts are settled once.                                             *)
(***************************************************************************)
LEMMA StepSettlesOnce ==
    ASSUME IInv, [Next]_vars, NEW i \in DOMAIN artifacts,
           artifacts[i].status \in {"completed", "failed"}
    PROVE  artifacts'[i] = artifacts[i]
  <1>1. artifacts \in Seq(Artifact)
    BY DEF IInv, TypeOK
  <1>2. ASSUME NEW s \in Sessions, SessionStep(s) PROVE artifacts'[i] = artifacts[i]
    <2>1. ASSUME NEW a, artifacts' = Append(artifacts, a) PROVE artifacts'[i] = artifacts[i]
      BY <1>1, <2>1
    <2>2. CASE CommitManualSummary(s)
      BY <2>1, <2>2 DEF CommitManualSummary
    <2>3. CASE CommitRequest(s)
      BY <2>1, <2>3 DEF CommitRequest
    <2>4. CASE UNCHANGED artifacts
      BY <2>4
    <2>5. QED
      BY <1>2, <2>2, <2>3, <2>4
      DEF SessionStep, LockRow, CommitUpdate, CommitPatch, EndWithoutWrite, LoadRow,
          AbandonSummary, Release
  <1>3. ASSUME NEW w \in Workers, WorkerStep(w) \/ CrashWorker(w)
        PROVE  artifacts'[i] = artifacts[i]
    <2>1. CASE Claim(w)
      \* A runner claims what is pending, and i is not.
      <3>1. PICK j \in DOMAIN artifacts :
               /\ artifacts[j].status = "pending"
               /\ artifacts' = [artifacts EXCEPT ![j].status = "processing"]
        BY <2>1 DEF Claim
      <3>2. QED
        BY <1>1, <3>1, SetStatus
    <2>2. CASE CompleteSummary(w) \/ FailSummary(w)
      \* It settles its own artifact, which is in processing, and i is not.
      <3>1. artifacts[job[w]].status = "processing" /\ job[w] \in DOMAIN artifacts
        BY <2>2 DEF CompleteSummary, FailSummary, IInv, JobInv, WorkerPcs
      <3>2. PICK status \in {"completed", "failed"} :
               artifacts' = [artifacts EXCEPT ![job[w]].status = status]
        BY <2>2 DEF CompleteSummary, FailSummary
      <3>3. QED
        BY <1>1, <3>1, <3>2, SetStatus
    <2>3. CASE LoadForModel(w) \/ CrashWorker(w)
      BY <2>3 DEF LoadForModel, CrashWorker
    <2>4. QED
      BY <1>3, <2>1, <2>2, <2>3 DEF WorkerStep
  <1>4. CASE UNCHANGED vars
    BY <1>4 DEF vars
  <1>5. QED
    BY <1>2, <1>3, <1>4 DEF Next

\* A summary artifact that is completed or failed stays as it is: no runner
\* claims or settles it again (run_loop, complete_summary, fail_summary).
THEOREM SettledOnce == Spec => ArtifactSettledOnce
  <1>1. IInv /\ [Next]_vars =>
          [\A i \in DOMAIN artifacts :
              artifacts[i].status \in {"completed", "failed"} =>
                  artifacts'[i] = artifacts[i]]_vars
    BY StepSettlesOnce
  <1>2. QED
    BY <1>1, Inductive, PTL DEF Spec, ArtifactSettledOnce

-----------------------------------------------------------------------------
(***************************************************************************)
(* Refinement.                                                             *)
(***************************************************************************)
LEMMA InitImplements == Init => History!Init
  <1> SUFFICES ASSUME Init PROVE History!Init
    OBVIOUS
  <1>1. CurrentDoc = FirstDoc
    <2> DEFINE new == [version |-> 1, doc |-> FirstDoc]
    <2>1. versions = {new} /\ new.version = current_version /\ new.doc = FirstDoc
      BY DEF Init
    <2>2. (CHOOSE v \in versions : v.version = current_version) = new
      BY <2>1
    <2>3. QED
      BY <2>1, <2>2 DEF CurrentDoc
  <1>2. FirstDoc \in Doc
    BY ConstantsAssumption DEF Doc
  <1>3. QED
    BY <1>1, <1>2 DEF Init, History!Init

\* A commit of a content writer is one Write of the history, because the
\* snapshot it is computed from is the row.
LEMMA InsertImplements ==
    ASSUME IInv, NEW s \in Sessions, pc[s] \in ContentPcs,
           NEW call \in CallsOn(current_version),
           NEW doc \in Doc, doc = AfterCall(seen[s].doc, call), doc # seen[s].doc,
           call \in Call, InsertVersion(s, doc, call), Release(s)
    PROVE  History!Write
  <1>1. seen[s].version = current_version /\ seen[s].doc = CurrentDoc
    BY DEF IInv, LockInv, Processes, Row
  <1>2. IInv'
    BY InsertKeepsIInv
  <1>3. CurrentDoc' = doc
    <2> DEFINE new == [version |-> current_version + 1, doc |-> doc]
    <2>1. new \in versions' /\ new.version = current_version' /\ new.doc = doc
      BY <1>1 DEF InsertVersion
    <2>2. \A u, v \in versions' : u.version = v.version => u = v
      BY <1>2 DEF IInv, HistoryInv, NumberedOnce
    <2>3. (CHOOSE v \in versions' : v.version = current_version') = new
      BY <2>1, <2>2
    <2>4. QED
      BY <2>1, <2>3 DEF CurrentDoc
  <1>4. QED
    BY <1>1, <1>3 DEF History!Write, InsertVersion

LEMMA StepImplements == IInv /\ [Next]_vars => [History!Next]_(History!vars)
  <1> SUFFICES ASSUME IInv, [Next]_vars PROVE History!Next \/ UNCHANGED History!vars
    OBVIOUS
  <1>1. ASSUME NEW s \in Sessions, CommitUpdate(s) PROVE History!Write
    <2>1. PICK title \in Titles \cup {Keep}, content \in Contents \cup {Keep} :
             /\ AfterUpdate(seen[s].doc, title, content) # seen[s].doc
             /\ InsertVersion(s, AfterUpdate(seen[s].doc, title, content),
                              [kind |-> "update", title |-> title, content |-> content])
      BY <1>1 DEF CommitUpdate
    <2> DEFINE call == [kind |-> "update", title |-> title, content |-> content]
    <2>2. AfterCall(seen[s].doc, call) = AfterUpdate(seen[s].doc, title, content)
      BY DEF AfterCall
    <2>3. call \in UpdateCall /\ call \in CallsOn(current_version) /\ call \in Call
      BY DEF UpdateCall, CallsOn, Call
    <2>4. AfterUpdate(seen[s].doc, title, content) \in Doc
      BY <1>1, AfterUpdateType DEF CommitUpdate, IInv, PcInv, Processes, ContentPcs, Snapshot
    <2>5. pc[s] \in ContentPcs /\ Release(s)
      BY <1>1 DEF CommitUpdate, ContentPcs
    <2> HIDE DEF call
    <2>6. QED
      BY <2>1, <2>2, <2>3, <2>4, <2>5, InsertImplements DEF call
  <1>2. ASSUME NEW s \in Sessions, CommitPatch(s) PROVE History!Write
    <2>1. PICK expected \in 1 .. MaxVersion, r \in Replacements :
             /\ seen[s].version = expected
             /\ Apply[<<seen[s].doc.content, r>>] \notin {NoMatch, seen[s].doc.content}
             /\ InsertVersion(s, AfterPatch(seen[s].doc, r),
                              [kind |-> "patch", expected |-> expected, replacements |-> r])
      BY <1>2 DEF CommitPatch
    <2> DEFINE call == [kind |-> "patch", expected |-> expected, replacements |-> r]
    <2>2. AfterCall(seen[s].doc, call) = AfterPatch(seen[s].doc, r)
      BY DEF AfterCall
    <2>3. seen[s].version = current_version /\ seen[s].doc \in Doc
      BY <1>2 DEF CommitPatch, IInv, LockInv, PcInv, Processes, ContentPcs, Row, Snapshot
    <2>4. call \in CallsOn(current_version) /\ call \in Call
      BY <2>1, <2>3, ConstantsAssumption DEF PatchCall, CallsOn, Call
    <2>5. AfterPatch(seen[s].doc, r) \in Doc
      BY <2>1, <2>3, AfterPatchType
    <2>6. AfterPatch(seen[s].doc, r) # seen[s].doc
      BY <2>1, <2>3 DEF AfterPatch, Doc
    <2>7. pc[s] \in ContentPcs /\ Release(s)
      BY <1>2 DEF CommitPatch, ContentPcs
    <2> HIDE DEF call
    <2>8. QED
      BY <2>1, <2>2, <2>4, <2>5, <2>6, <2>7, InsertImplements DEF call
  <1>3. ASSUME NEW p \in Processes, NEW hash, WriteSummary(p, hash), summary_is_current' \in BOOLEAN
        PROVE  History!Summarize
    BY <1>3 DEF History!Summarize, WriteSummary, content_vars, CurrentDoc
  <1>4. ASSUME UNCHANGED <<content_vars, summary_vars>> PROVE UNCHANGED History!vars
    <2>1. CurrentDoc' = CurrentDoc
      BY <1>4, SameRow
    <2>2. QED
      BY <1>4, <2>1 DEF History!vars, content_vars, summary_vars
  <1>5. summary_is_current' \in BOOLEAN
    BY NextKeepsIInv DEF IInv, TypeOK
  <1>6. ASSUME NEW s \in Sessions, SessionStep(s)
        PROVE  History!Next \/ UNCHANGED History!vars
    <2>1. CASE CommitUpdate(s)
      BY <1>1, <2>1 DEF History!Next
    <2>2. CASE CommitPatch(s)
      BY <1>2, <2>2 DEF History!Next
    <2>3. CASE CommitManualSummary(s)
      BY <1>3, <1>5, <2>3 DEF CommitManualSummary, Processes, History!Next
    <2>4. CASE UNCHANGED <<content_vars, summary_vars>>
      BY <1>4, <2>4
    <2>5. QED
      BY <1>6, <2>1, <2>2, <2>3, <2>4
      DEF SessionStep, LockRow, EndWithoutWrite, LoadRow, CommitRequest, AbandonSummary
  <1>7. ASSUME NEW w \in Workers, WorkerStep(w) \/ CrashWorker(w)
        PROVE  History!Next \/ UNCHANGED History!vars
    <2>1. CASE CompleteSummary(w)
      BY <1>3, <1>5, <2>1 DEF CompleteSummary, Processes, History!Next
    <2>2. CASE UNCHANGED <<content_vars, summary_vars>>
      BY <1>4, <2>2
    <2>3. QED
      BY <1>7, <2>1, <2>2 DEF WorkerStep, Claim, LoadForModel, FailSummary, CrashWorker
  <1>8. CASE UNCHANGED vars
    BY <1>4, <1>8 DEF vars, content_vars, summary_vars
  <1>9. QED
    BY <1>6, <1>7, <1>8 DEF Next

\* Overlapping update_node, patch_node and summary calls behave as calls that
\* take turns.
THEOREM HistoryRefined == Spec => ImplementsHistory
  BY InitImplements, StepImplements, Inductive, PTL DEF Spec, ImplementsHistory, History!Spec
=============================================================================
