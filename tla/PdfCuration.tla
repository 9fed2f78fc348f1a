------------------------------ MODULE PdfCuration ------------------------------
(***************************************************************************)
(* The curation of imported PDFs (curation_service, and agent/loop's part  *)
(* of it): a runner claims a job, asks a model for a list of nodes, has it *)
(* repaired once if it will not do, and creates the nodes one by one.      *)
(*                                                                         *)
(* create_node commits at once.  What the job then adds to the node, its   *)
(* provenance and its NodeSourceLink, waits in the session for the next    *)
(* commit: that of the next node, or that of the job's completion.         *)
(* Meanwhile people delete nodes, the executor may lose the right to write *)
(* and the runner may be killed; nothing takes a job back.                 *)
(*                                                                         *)
(* Ids are numbers in the order of creation; node 1 is the container the   *)
(* import made, under which the jobs put what they create.                 *)
(***************************************************************************)
EXTENDS Naturals, Sequences, FiniteSets

CONSTANTS
    Runners,        \* agent/loop processes
    Jobs,           \* ids of jobs, in the order of created_at
    Answers,        \* lists a model may answer with
    Required,       \* pages whose text is not empty
    FanOut,         \* children a node may have in a list (7 in the code)
    MaxNodes,       \* bound: ids ever given to nodes
    MaxCrashes      \* bound: runners killed

NoNode == 0
Container == 1

ASSUME ConstantsAssumption ==
    /\ Jobs \subseteq Nat \ {0}
    /\ Required \subseteq Nat \ {0}
    /\ {FanOut, MaxNodes, MaxCrashes} \subseteq Nat

\* An entry of a list: whether title and content are there, its pages, and the
\* place of its parent in the list, NoNode for null.
Entries == [filled : BOOLEAN, from : Nat, to : Nat, parent : Nat]

ASSUME AnswersAssumption == Answers \subseteq Seq(Entries)

VARIABLES
    status,     \* of each job; "none" before it is queued
    parent_id,  \* of each job; NULL once the node is deleted
    result,     \* the nodes a completed job names
    nodes,      \* the rows: ids of nodes that are there
    linked,     \* nodes that have their provenance
    born,       \* history: of each id given, the job (0: the import), the parent and pages
    at,         \* where each runner is
    killed,     \* jobs whose runner was killed
    crashes

vars == <<status, parent_id, result, nodes, linked, born, at, killed, crashes>>

-----------------------------------------------------------------------------
Idle == [step |-> "idle"]

LastPage == IF Required = {} THEN 1 ELSE CHOOSE p \in Required : \A q \in Required : q <= p

\* Mutant: nobody looks whether the pages are covered.
Accepted_AnyPages(list) ==
    /\ list # <<>>
    /\ {i \in DOMAIN list : list[i].parent = NoNode} = {1}
    /\ \A i \in DOMAIN list :
          /\ list[i].filled
          /\ list[i].from \in 1..list[i].to /\ list[i].to <= LastPage
          /\ list[i].parent < i
          /\ Cardinality({k \in DOMAIN list : list[k].parent = i}) <= FanOut

\* _validate_nodes finds no error.
Accepted(list) ==
    /\ list # <<>>
    /\ {i \in DOMAIN list : list[i].parent = NoNode} = {1}
    /\ \A i \in DOMAIN list :
          /\ list[i].filled
          /\ list[i].from \in 1..list[i].to /\ list[i].to <= LastPage
          /\ list[i].parent < i
          /\ Cardinality({k \in DOMAIN list : list[k].parent = i}) <= FanOut
    /\ Required \subseteq UNION {list[i].from..list[i].to : i \in DOMAIN list}

Move(r, to) == at' = [at EXCEPT ![r] = to]

\* The exception leaves process_curation_job and rolls the session back.
Raise(r) == Move(r, [step |-> "failed", job |-> at[r].job])

Init ==
    /\ status = [j \in Jobs |-> "none"]
    /\ parent_id = [j \in Jobs |-> Container]
    /\ result = [j \in Jobs |-> <<>>]
    /\ nodes = {Container}
    /\ linked = {}
    /\ born = << [job |-> 0, parent |-> NoNode, pages |-> {}] >>
    /\ at = [r \in Runners |-> Idle]
    /\ killed = {}
    /\ crashes = 0

\* execute_pdf_ingestion queues the job under the container, if it is there.
Queue(j) ==
    /\ status[j] = "none"
    /\ \A i \in Jobs : i < j => status[i] # "none"
    /\ status' = [status EXCEPT ![j] = "pending"]
    /\ UNCHANGED <<parent_id, result, nodes, linked, born, at, killed, crashes>>

\* The loop claims the oldest pending job; the row is locked until the commit.
Claim(r) ==
    /\ at[r] = Idle
    /\ \E j \in Jobs :
          /\ status[j] = "pending"
          /\ \A i \in Jobs : status[i] = "pending" => j <= i
          /\ status' = [status EXCEPT ![j] = "processing"]
          /\ Move(r, [step |-> "load", job |-> j])
    /\ UNCHANGED <<parent_id, result, nodes, linked, born, killed, crashes>>

\* process_curation_job loads the job, with its parent as of now.
Load(r) ==
    /\ at[r].step = "load"
    /\ Move(r, [step |-> "ask", job |-> at[r].job, parent |-> parent_id[at[r].job],
                attempt |-> 1])
    /\ UNCHANGED <<status, parent_id, result, nodes, linked, born, killed, crashes>>

\* Mutant: after the repair the model is asked anew.
Ask_Forever(r) ==
    /\ at[r].step = "ask"
    /\ \E list \in Answers :
          IF Accepted(list)
          THEN Move(r, [step |-> "create", job |-> at[r].job, parent |-> at[r].parent,
                        list |-> list, made |-> <<>>])
          ELSE Move(r, [at[r] EXCEPT !.attempt = 3 - @])
    /\ UNCHANGED <<status, parent_id, result, nodes, linked, born, killed, crashes>>

\* _request_nodes: a list that will not do is sent back once.
Ask(r) ==
    /\ at[r].step = "ask"
    /\ \E list \in Answers :
          IF Accepted(list)
          THEN Move(r, [step |-> "create", job |-> at[r].job, parent |-> at[r].parent,
                        list |-> list, made |-> <<>>])
          ELSE IF at[r].attempt = 1 THEN Move(r, [at[r] EXCEPT !.attempt = 2])
          ELSE Raise(r)
    /\ UNCHANGED <<status, parent_id, result, nodes, linked, born, killed, crashes>>

\* The provider fails, or the artifact is gone.
AskFails(r) ==
    /\ at[r].step = "ask"
    /\ Raise(r)
    /\ UNCHANGED <<status, parent_id, result, nodes, linked, born, killed, crashes>>

\* The node made last still waits for its provenance to be written.
Waiting(r) == IF at[r].made = <<>> THEN {} ELSE {at[r].made[Len(at[r].made)]}

\* Under which node entry i goes.
ParentOf(r, i) ==
    IF at[r].list[i].parent = NoNode THEN at[r].parent ELSE at[r].made[at[r].list[i].parent]

\* Mutant: the provenance is written when all nodes are there.
CreateNext_LinkLater(r) ==
    /\ at[r].step = "create"
    /\ Len(at[r].made) < Len(at[r].list)
    /\ Len(born) < MaxNodes
    /\ LET i == Len(at[r].made) + 1
           id == Len(born) + 1
           entry == at[r].list[i]
       IN  IF ParentOf(r, i) \in nodes \cup {NoNode} /\ Waiting(r) \subseteq nodes
           THEN /\ nodes' = nodes \cup {id}
                /\ born' = Append(born, [job |-> at[r].job, parent |-> ParentOf(r, i),
                                         pages |-> entry.from..entry.to])
                /\ Move(r, [at[r] EXCEPT !.made = Append(@, id)])
                /\ UNCHANGED linked
           ELSE Raise(r) /\ UNCHANGED <<nodes, linked, born>>
    /\ UNCHANGED <<status, parent_id, result, killed, crashes>>

\* The next node of the list and its commit, with the provenance of the one
\* before.  It fails if the parent is gone, or the node that was to get its
\* provenance.
CreateNext(r) ==
    /\ at[r].step = "create"
    /\ Len(at[r].made) < Len(at[r].list)
    /\ Len(born) < MaxNodes
    /\ LET i == Len(at[r].made) + 1
           id == Len(born) + 1
           entry == at[r].list[i]
       IN  IF ParentOf(r, i) \in nodes \cup {NoNode} /\ Waiting(r) \subseteq nodes
           THEN /\ nodes' = nodes \cup {id}
                /\ linked' = linked \cup Waiting(r)
                /\ born' = Append(born, [job |-> at[r].job, parent |-> ParentOf(r, i),
                                         pages |-> entry.from..entry.to])
                /\ Move(r, [at[r] EXCEPT !.made = Append(@, id)])
           ELSE Raise(r) /\ UNCHANGED <<nodes, linked, born>>
    /\ UNCHANGED <<status, parent_id, result, killed, crashes>>

\* create_node refuses: the executor may no longer write there.
CreateRefused(r) ==
    /\ at[r].step = "create"
    /\ Len(at[r].made) < Len(at[r].list)
    /\ Raise(r)
    /\ UNCHANGED <<status, parent_id, result, nodes, linked, born, killed, crashes>>

\* The job's last commit, with the provenance of the last node.
Complete(r) ==
    /\ at[r].step = "create"
    /\ at[r].made # <<>> /\ Len(at[r].made) = Len(at[r].list)
    /\ IF Waiting(r) \subseteq nodes
       THEN /\ status' = [status EXCEPT ![at[r].job] = "completed"]
            /\ result' = [result EXCEPT ![at[r].job] = at[r].made]
            /\ linked' = linked \cup Waiting(r)
            /\ Move(r, Idle)
       ELSE Raise(r) /\ UNCHANGED <<status, result, linked>>
    /\ UNCHANGED <<parent_id, nodes, born, killed, crashes>>

\* fail_curation_job.
Fail(r) ==
    /\ at[r].step = "failed"
    /\ status' = [status EXCEPT ![at[r].job] = "failed"]
    /\ Move(r, Idle)
    /\ UNCHANGED <<parent_id, result, nodes, linked, born, killed, crashes>>

\* delete_node, by a person; NodeTree tells who adopts the children.  Links go
\* with the node, and a job that was to put its nodes there loses its parent.
DeleteNode(n) ==
    /\ n \in nodes
    /\ nodes' = nodes \ {n}
    /\ linked' = linked \ {n}
    /\ parent_id' = [j \in Jobs |-> IF parent_id[j] = n THEN NoNode ELSE parent_id[j]]
    /\ UNCHANGED <<status, result, born, at, killed, crashes>>

\* The runner is killed and started again: it has forgotten the job.
Crash(r) ==
    /\ at[r] # Idle
    /\ crashes < MaxCrashes
    /\ crashes' = crashes + 1
    /\ killed' = killed \cup {at[r].job}
    /\ Move(r, Idle)
    /\ UNCHANGED <<status, parent_id, result, nodes, linked, born>>

Work(r) == Load(r) \/ Ask(r) \/ AskFails(r) \/ CreateNext(r) \/ CreateRefused(r)
              \/ Complete(r) \/ Fail(r)

Next ==
    \/ \E j \in Jobs : Queue(j)
    \/ \E r \in Runners : Claim(r) \/ Work(r) \/ Crash(r)
    \/ \E n \in nodes : DeleteNode(n)

Spec == Init /\ [][Next]_vars

\* A runner goes on with what it does, and one of them comes to the queue: the
\* imports that go before are taken to run dry.
FairSpec ==
    /\ Spec
    /\ \A r \in Runners : WF_vars(Work(r))
    /\ WF_vars(\E r \in Runners : Claim(r))

-----------------------------------------------------------------------------
OfJob(j) == {n \in DOMAIN born : born[n].job = j}

\* A job that says it is completed has made one tree: its nodes are those it
\* names and no others, the first stands under the container (or at the top,
\* if that was deleted before), each other one was put under an earlier one,
\* and together they cover every page that has text.  A job creates nothing
\* twice, whoever fails or is killed.
CompletedIsWhole ==
    \A j \in Jobs : status[j] = "completed" =>
        LET made == result[j]
        IN  /\ OfJob(j) = {made[i] : i \in DOMAIN made}
            /\ Cardinality(OfJob(j)) = Len(made)
            /\ born[made[1]].parent \in {Container, NoNode}
            /\ \A i \in 2..Len(made) : \E k \in 1..(i - 1) : born[made[i]].parent = made[k]
            /\ Required \subseteq UNION {born[n].pages : n \in OfJob(j)}

\* At most the newest node of a job is without provenance, and only while the
\* job is under way or has not been completed: a failure or a crash leaves at
\* most one node that does not say where it comes from.
OneUnlinkedAtMost ==
    \A j \in Jobs : \A n \in (OfJob(j) \cap nodes) \ linked :
        /\ status[j] \in {"processing", "failed"}
        /\ \A m \in OfJob(j) : m <= n

\* A queued job is completed or failed, unless its runner was killed.
JobsEnd ==
    \A j \in Jobs :
        status[j] = "pending" ~> (status[j] \in {"completed", "failed"} \/ j \in killed)
=============================================================================
