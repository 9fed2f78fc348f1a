---------------------------- MODULE PdfCurationProofs ----------------------------
(***************************************************************************)
(* PdfCuration's safety, for any number of runners, jobs, pages, answers   *)
(* and kills, with people deleting nodes at any time.                      *)
(*                                                                         *)
(* What a runner has made of a list is spelt out by Built: the job's nodes *)
(* are those the runner remembers, in the order of their ids, each where   *)
(* and of the pages the list says.  It holds of an unfinished job because  *)
(* one runner at most works on it (HoldInv) and a job is begun once        *)
(* (FreshInv).                                                             *)
(***************************************************************************)
EXTENDS PdfCuration, FiniteSetTheorems, FunctionTheorems, TLAPS

Births == [job : Jobs \cup {0}, parent : Nat, pages : SUBSET Nat]

Parents == {NoNode, Container}

States ==
    {Idle}
    \cup [step : {"load"}, job : Jobs]
    \cup [step : {"ask"}, job : Jobs, parent : Parents, attempt : {1, 2}]
    \cup [step : {"create"}, job : Jobs, parent : Parents, list : Answers, made : Seq(Nat)]
    \cup [step : {"failed"}, job : Jobs]

TypeOK ==
    /\ status \in [Jobs -> {"none", "pending", "processing", "completed", "failed"}]
    /\ parent_id \in [Jobs -> Parents]
    /\ result \in [Jobs -> Seq(Nat)]
    /\ born \in Seq(Births)
    /\ nodes \subseteq DOMAIN born
    /\ at \in [Runners -> States]

HoldInv ==
    /\ \A r \in Runners : at[r] # Idle => status[at[r].job] = "processing"
    /\ \A r, q \in Runners : at[r] # Idle /\ at[q] # Idle /\ at[r].job = at[q].job => r = q

\* OfJob, of a history that may be the next one.
NodesOf(births, j) == {n \in DOMAIN births : births[n].job = j}

FreshInv ==
    /\ \A j \in Jobs : status[j] \in {"none", "pending"} => NodesOf(born, j) = {}
    /\ \A r \in Runners : at[r].step \in {"load", "ask"} => NodesOf(born, at[r].job) = {}

Built(births, j, made, list, parent) ==
    /\ NodesOf(births, j) = {made[i] : i \in DOMAIN made}
    /\ \A i, k \in DOMAIN made : i < k => made[i] < made[k]
    /\ Len(made) <= Len(list)
    /\ \A i \in DOMAIN made :
          /\ births[made[i]].pages = list[i].from..list[i].to
          /\ births[made[i]].parent = IF list[i].parent = NoNode THEN parent
                                      ELSE made[list[i].parent]

WorkInv ==
    \A r \in Runners : at[r].step = "create" =>
        Accepted(at[r].list) /\ Built(born, at[r].job, at[r].made, at[r].list, at[r].parent)

DoneInv ==
    \A j \in Jobs : status[j] = "completed" =>
        \E list \in Answers, parent \in Parents :
            Accepted(list) /\ Built(born, j, result[j], list, parent) /\ Len(result[j]) = Len(list)

CurationInv == TypeOK /\ HoldInv /\ FreshInv /\ WorkInv /\ DoneInv /\ OneUnlinkedAtMost

-----------------------------------------------------------------------------
LEMMA StatesHaveFields ==
    ASSUME NEW s \in States
    PROVE  /\ s.step \in {"idle", "load", "ask", "create", "failed"}
           /\ s # Idle <=> s.step # "idle"
           /\ s # Idle => s.job \in Jobs
           /\ s.step = "ask" => s.parent \in Parents /\ s.attempt \in {1, 2}
           /\ s.step = "create" => s.parent \in Parents /\ s.list \in Answers /\ s.made \in Seq(Nat)
  BY DEF States, Idle

LEMMA InitCurationInv == Init => CurationInv
  <1> SUFFICES ASSUME Init PROVE CurationInv
    OBVIOUS
  <1>1. born \in Seq(Births) /\ DOMAIN born = {1} /\ born[1].job = 0
    <2>1. [job |-> 0, parent |-> NoNode, pages |-> {}] \in Births
      BY DEF Births, NoNode
    <2>2. QED
      BY <2>1 DEF Init
  <1>2. \A j \in Jobs : NodesOf(born, j) = {}
    BY <1>1, ConstantsAssumption DEF NodesOf
  <1>3. TypeOK
    BY <1>1 DEF Init, TypeOK, States, Parents, Container
  <1>4. HoldInv /\ FreshInv /\ WorkInv /\ DoneInv /\ OneUnlinkedAtMost
    BY <1>2 DEF Init, HoldInv, FreshInv, WorkInv, DoneInv, OneUnlinkedAtMost, OfJob, NodesOf, Idle
  <1>5. QED
    BY <1>3, <1>4 DEF CurationInv

-----------------------------------------------------------------------------
(***************************************************************************)
(* One lemma per action.                                                   *)
(***************************************************************************)
LEMMA QueueKeeps == ASSUME CurationInv, NEW j \in Jobs, Queue(j) PROVE CurationInv'
  <1> USE DEF CurationInv
  <1>1. status' = [status EXCEPT ![j] = "pending"] /\ status[j] = "none"
        /\ UNCHANGED <<parent_id, result, nodes, linked, born, at>>
    BY DEF Queue
  <1>2. TypeOK'
    BY <1>1 DEF TypeOK
  <1>3. HoldInv'
    BY <1>1, StatesHaveFields DEF TypeOK, HoldInv
  <1>4. FreshInv' /\ WorkInv' /\ DoneInv' /\ OneUnlinkedAtMost'
    BY <1>1 DEF TypeOK, FreshInv, WorkInv, DoneInv, OneUnlinkedAtMost, OfJob, NodesOf
  <1>5. QED
    BY <1>2, <1>3, <1>4

LEMMA ClaimKeeps == ASSUME CurationInv, NEW r \in Runners, Claim(r) PROVE CurationInv'
  <1> USE DEF CurationInv
  <1>1. PICK j \in Jobs : /\ status[j] = "pending"
                          /\ status' = [status EXCEPT ![j] = "processing"]
                          /\ at' = [at EXCEPT ![r] = [step |-> "load", job |-> j]]
    BY DEF Claim, Move
  <1>2. at[r] = Idle /\ UNCHANGED <<parent_id, result, nodes, linked, born>>
    BY DEF Claim
  <1>3. [step |-> "load", job |-> j] \in States
    BY DEF States
  <1>4. TypeOK'
    BY <1>1, <1>2, <1>3 DEF TypeOK
  <1>5. HoldInv'
    BY <1>1, <1>2, StatesHaveFields DEF TypeOK, HoldInv
  <1>6. FreshInv'
    BY <1>1, <1>2 DEF TypeOK, FreshInv, NodesOf
  <1>7. WorkInv' /\ DoneInv' /\ OneUnlinkedAtMost'
    BY <1>1, <1>2 DEF TypeOK, WorkInv, DoneInv, OneUnlinkedAtMost, OfJob, NodesOf
  <1>8. QED
    BY <1>4, <1>5, <1>6, <1>7

\* A runner goes on with its job, or drops it, and nothing else changes.
LEMMA MoveKeeps ==
    ASSUME CurationInv, NEW r \in Runners, NEW to \in States, Move(r, to),
           to = Idle \/ (at[r] # Idle /\ to.job = at[r].job),
           to.step \in {"load", "ask"} => at[r].step \in {"load", "ask"},
           to.step = "create" =>
               Accepted(to.list) /\ Built(born, to.job, to.made, to.list, to.parent),
           UNCHANGED <<status, result, nodes, linked, born, parent_id>>
    PROVE  CurationInv'
  <1> USE DEF CurationInv
  <1>1. at' = [at EXCEPT ![r] = to]
    BY DEF Move
  <1>2. TypeOK'
    BY <1>1 DEF TypeOK
  <1>3. HoldInv'
    BY <1>1 DEF TypeOK, HoldInv
  <1>4. FreshInv'
    BY <1>1, StatesHaveFields DEF TypeOK, FreshInv, NodesOf, Idle
  <1>5. WorkInv'
    BY <1>1 DEF TypeOK, WorkInv
  <1>6. DoneInv' /\ OneUnlinkedAtMost'
    BY DEF DoneInv, OneUnlinkedAtMost, OfJob, NodesOf
  <1>7. QED
    BY <1>2, <1>3, <1>4, <1>5, <1>6

LEMMA RaiseKeeps ==
    ASSUME CurationInv, NEW r \in Runners, at[r] # Idle, Raise(r),
           UNCHANGED <<status, result, nodes, linked, born, parent_id>>
    PROVE  CurationInv'
  <1> DEFINE to == [step |-> "failed", job |-> at[r].job]
  <1>1. to \in States /\ to.step = "failed" /\ to.job = at[r].job
    BY StatesHaveFields DEF CurationInv, TypeOK, States
  <1>2. Move(r, to)
    BY DEF Raise
  <1> HIDE DEF to
  <1>3. QED
    BY <1>1, <1>2, MoveKeeps

LEMMA LoadKeeps == ASSUME CurationInv, NEW r \in Runners, Load(r) PROVE CurationInv'
  <1> DEFINE to == [step |-> "ask", job |-> at[r].job, parent |-> parent_id[at[r].job],
                    attempt |-> 1]
  <1>0. at[r].step = "load" /\ at[r] # Idle /\ at[r].job \in Jobs
    BY StatesHaveFields DEF Load, CurationInv, TypeOK
  <1>1. to \in States /\ to.step = "ask" /\ to.job = at[r].job
    BY <1>0 DEF CurationInv, TypeOK, States
  <1>2. Move(r, to) /\ UNCHANGED <<status, result, nodes, linked, born, parent_id>>
    BY DEF Load
  <1> HIDE DEF to
  <1>3. QED
    BY <1>0, <1>1, <1>2, MoveKeeps

LEMMA AskKeeps == ASSUME CurationInv, NEW r \in Runners, Ask(r) PROVE CurationInv'
  <1>0. /\ at[r].step = "ask" /\ at[r] # Idle /\ at[r].job \in Jobs /\ at[r].parent \in Parents
        /\ NodesOf(born, at[r].job) = {}
        /\ UNCHANGED <<status, result, nodes, linked, born, parent_id>>
    BY StatesHaveFields DEF Ask, CurationInv, TypeOK, FreshInv
  <1>1. ASSUME NEW list \in Answers, Accepted(list),
               Move(r, [step |-> "create", job |-> at[r].job, parent |-> at[r].parent,
                        list |-> list, made |-> <<>>])
        PROVE  CurationInv'
    <2> DEFINE to == [step |-> "create", job |-> at[r].job, parent |-> at[r].parent,
                      list |-> list, made |-> <<>>]
    <2>1. to \in States /\ to.step = "create" /\ to.job = at[r].job
      BY <1>0 DEF States
    <2>2. Built(born, at[r].job, <<>>, list, at[r].parent)
      BY <1>0, AnswersAssumption DEF Built
    <2>3. Accepted(to.list) /\ Built(born, to.job, to.made, to.list, to.parent)
      BY <1>1, <2>2
    <2>4. Move(r, to)
      BY <1>1
    <2> HIDE DEF to
    <2>5. QED
      BY <1>0, <2>1, <2>3, <2>4, MoveKeeps
  <1>2. ASSUME Move(r, [at[r] EXCEPT !.attempt = 2]) PROVE CurationInv'
    <2> DEFINE to == [at[r] EXCEPT !.attempt = 2]
    <2>1. at[r] \in [step : {"ask"}, job : Jobs, parent : Parents, attempt : {1, 2}]
      BY <1>0 DEF CurationInv, TypeOK, States, Idle
    <2>2. to \in [step : {"ask"}, job : Jobs, parent : Parents, attempt : {1, 2}]
          /\ to.job = at[r].job
      BY <2>1
    <2>3. Move(r, to)
      BY <1>2
    <2> HIDE DEF to
    <2>4. to \in States /\ to.step = "ask"
      BY <2>2 DEF States
    <2>5. QED
      BY <1>0, <2>2, <2>3, <2>4, MoveKeeps
  <1>3. CASE Raise(r)
    BY <1>0, <1>3, RaiseKeeps
  <1>4. QED
    BY <1>1, <1>2, <1>3 DEF Ask

LEMMA AskFailsKeeps == ASSUME CurationInv, NEW r \in Runners, AskFails(r) PROVE CurationInv'
  <1>1. at[r] # Idle
    BY DEF AskFails, Idle
  <1>2. QED
    BY <1>1, RaiseKeeps DEF AskFails

LEMMA CreateRefusedKeeps ==
    ASSUME CurationInv, NEW r \in Runners, CreateRefused(r) PROVE CurationInv'
  <1>1. at[r] # Idle
    BY DEF CreateRefused, Idle
  <1>2. QED
    BY <1>1, RaiseKeeps DEF CreateRefused

LEMMA CrashKeeps == ASSUME CurationInv, NEW r \in Runners, Crash(r) PROVE CurationInv'
  <1>1. Idle \in States /\ Idle.step = "idle"
    BY DEF States, Idle
  <1>2. QED
    BY <1>1, MoveKeeps DEF Crash

LEMMA FailKeeps == ASSUME CurationInv, NEW r \in Runners, Fail(r) PROVE CurationInv'
  <1> USE DEF CurationInv
  <1> DEFINE j == at[r].job
  <1>0. at[r] # Idle /\ j \in Jobs /\ status[j] = "processing"
    BY StatesHaveFields DEF Fail, Idle, TypeOK, HoldInv
  <1>1. /\ status' = [status EXCEPT ![j] = "failed"] /\ at' = [at EXCEPT ![r] = Idle]
        /\ UNCHANGED <<parent_id, result, nodes, linked, born>>
    BY DEF Fail, Move
  <1>2. \A q \in Runners : at[q] # Idle /\ at[q].job = j => q = r
    BY <1>0 DEF HoldInv
  <1> HIDE DEF j
  <1>3. TypeOK'
    BY <1>1 DEF TypeOK, States
  <1>4. HoldInv'
    BY <1>0, <1>1, <1>2 DEF TypeOK, HoldInv
  <1>5. FreshInv' /\ WorkInv'
    BY <1>0, <1>1 DEF TypeOK, FreshInv, WorkInv, Idle
  <1>6. DoneInv' /\ OneUnlinkedAtMost'
    BY <1>0, <1>1 DEF TypeOK, DoneInv, OneUnlinkedAtMost, OfJob, NodesOf
  <1>7. QED
    BY <1>3, <1>4, <1>5, <1>6

LEMMA DeleteKeeps == ASSUME CurationInv, NEW n \in nodes, DeleteNode(n) PROVE CurationInv'
  <1> USE DEF CurationInv
  <1>1. /\ nodes' = nodes \ {n} /\ linked' = linked \ {n}
        /\ parent_id' = [j \in Jobs |-> IF parent_id[j] = n THEN NoNode ELSE parent_id[j]]
        /\ UNCHANGED <<status, result, born, at>>
    BY DEF DeleteNode
  <1>2. TypeOK'
    BY <1>1 DEF TypeOK, Parents
  <1>3. HoldInv' /\ FreshInv' /\ WorkInv' /\ DoneInv'
    BY <1>1 DEF HoldInv, FreshInv, WorkInv, DoneInv
  <1>4. OneUnlinkedAtMost'
    BY <1>1 DEF OneUnlinkedAtMost, OfJob, NodesOf
  <1>5. QED
    BY <1>2, <1>3, <1>4

\* Of a job under way, only the node made last can be without its provenance.
LEMMA OnlyTheLastWaits ==
    ASSUME CurationInv, NEW r \in Runners, at[r].step = "create"
    PROVE  (NodesOf(born, at[r].job) \cap nodes) \ linked \subseteq Waiting(r)
  <1> DEFINE made == at[r].made
  <1>1. made \in Seq(Nat) /\ at[r].job \in Jobs
    BY StatesHaveFields DEF CurationInv, TypeOK, Idle
  <1>2. /\ NodesOf(born, at[r].job) = {made[i] : i \in DOMAIN made}
        /\ \A i, k \in DOMAIN made : i < k => made[i] < made[k]
    BY DEF CurationInv, WorkInv, Built
  <1>3. SUFFICES ASSUME NEW n \in (NodesOf(born, at[r].job) \cap nodes) \ linked
                 PROVE  n \in Waiting(r)
    OBVIOUS
  <1>4. PICK i \in DOMAIN made : n = made[i]
    BY <1>2
  <1>5. Len(made) \in DOMAIN made /\ i \in 1..Len(made) /\ made # <<>>
    BY <1>1, <1>4
  <1>6. made[Len(made)] <= n
    BY <1>1, <1>2, <1>3, <1>5 DEF CurationInv, OneUnlinkedAtMost, OfJob, NodesOf
  <1>7. i = Len(made)
    BY <1>1, <1>2, <1>4, <1>5, <1>6
  <1>8. QED
    BY <1>4, <1>5, <1>7 DEF Waiting

LEMMA EntriesHaveFields ==
    ASSUME NEW list \in Seq(Entries), Accepted(list)
    PROVE  \A i \in DOMAIN list :
              /\ list[i].from \in Nat /\ list[i].to \in Nat /\ list[i].parent \in Nat
              /\ list[i].parent < i
  <1>1. \A i \in DOMAIN list : list[i] \in Entries
    OBVIOUS
  <1>2. \A e \in Entries : e.from \in Nat /\ e.to \in Nat /\ e.parent \in Nat
    BY DEF Entries
  <1>3. \A i \in DOMAIN list : list[i].parent < i
    BY DEF Accepted
  <1>4. QED
    BY <1>1, <1>2, <1>3

\* A node more, the next of its list.
LEMMA BuiltGrows ==
    ASSUME NEW j \in Jobs, NEW made \in Seq(Nat), NEW list, NEW parent, NEW b,
           born \in Seq(Births), Built(born, j, made, list, parent),
           list \in Seq(Entries), Len(made) < Len(list), Accepted(list),
           b.job = j,
           b.pages = list[Len(made) + 1].from..list[Len(made) + 1].to,
           b.parent = IF list[Len(made) + 1].parent = NoNode THEN parent
                        ELSE made[list[Len(made) + 1].parent],
           born' = Append(born, b), b \in Births
    PROVE  Built(born', j, Append(made, Len(born) + 1), list, parent)
  <1> DEFINE id == Len(born) + 1
             more == Append(made, id)
             m == Len(made)
  <1>1. /\ DOMAIN born = 1..Len(born) /\ Len(born) \in Nat
        /\ DOMAIN born' = 1..id /\ born'[id] = b
        /\ \A n \in DOMAIN born : born'[n] = born[n]
    OBVIOUS
  <1>2. /\ m \in Nat /\ DOMAIN made = 1..m /\ DOMAIN more = 1..(m + 1) /\ Len(more) = m + 1
        /\ more[m + 1] = id /\ \A i \in 1..m : more[i] = made[i]
    OBVIOUS
  <1>3. NodesOf(born, j) = {made[i] : i \in 1..m}
    BY <1>2 DEF Built
  <1>4. \A i \in 1..m : made[i] \in DOMAIN born
    BY <1>3 DEF NodesOf
  <1>5. NodesOf(born', j) = NodesOf(born, j) \cup {id}
    BY <1>1 DEF NodesOf
  <1> HIDE DEF more
  <1>6. NodesOf(born', j) = {more[i] : i \in DOMAIN more}
    <2>1. {more[i] : i \in 1..(m + 1)} = {more[i] : i \in 1..m} \cup {more[m + 1]}
      BY <1>2
    <2>2. {more[i] : i \in 1..m} = {made[i] : i \in 1..m}
      BY <1>2
    <2>3. QED
      BY <1>2, <1>3, <1>5, <2>1, <2>2
  <1>7. \A i, k \in DOMAIN more : i < k => more[i] < more[k]
    <2>1. \A i, k \in 1..m : i < k => made[i] < made[k]
      BY <1>2 DEF Built
    <2>2. \A i \in 1..m : made[i] < id
      BY <1>1, <1>4
    <2>3. SUFFICES ASSUME NEW i \in 1..(m + 1), NEW k \in 1..(m + 1), i < k
                   PROVE  more[i] < more[k]
      BY <1>2
    <2>4. i \in 1..m /\ (k \in 1..m \/ k = m + 1)
      BY <1>2, <2>3
    <2>5. QED
      BY <1>2, <2>1, <2>2, <2>3, <2>4
  <1>8. Len(more) <= Len(list)
    BY <1>2
  <1>9. \A i \in DOMAIN list : list[i].parent \in Nat /\ list[i].parent < i
    BY EntriesHaveFields
  <1>10. ASSUME NEW i \in DOMAIN more
         PROVE  /\ born'[more[i]].pages = list[i].from..list[i].to
                /\ born'[more[i]].parent = IF list[i].parent = NoNode THEN parent
                                             ELSE more[list[i].parent]
    <2>1. i \in 1..(m + 1) /\ i \in DOMAIN list
      BY <1>2, <1>8
    <2>2. list[i].parent # NoNode => more[list[i].parent] = made[list[i].parent]
      BY <1>2, <1>9, <2>1 DEF NoNode
    <2>3. CASE i = m + 1
      BY <1>1, <1>2, <2>2, <2>3
    <2>4. CASE i \in 1..m
      <3>1. more[i] = made[i] /\ born'[made[i]] = born[made[i]]
        BY <1>1, <1>2, <1>4, <2>4
      <3>2. QED
        BY <1>2, <2>2, <2>4, <3>1 DEF Built
    <2>5. i = m + 1 \/ i \in 1..m
      BY <1>2, <2>1
    <2>6. QED
      BY <2>3, <2>4, <2>5
  <1>11. QED
    BY <1>6, <1>7, <1>8, <1>10 DEF Built, more, id

\* A birth of another job changes nothing of this one's nodes.
LEMMA BuiltApart ==
    ASSUME NEW j \in Jobs, NEW b, b.job # j, born \in Seq(Births), born' = Append(born, b)
    PROVE  /\ NodesOf(born', j) = NodesOf(born, j)
           /\ \A made, list, parent :
                 Built(born, j, made, list, parent) => Built(born', j, made, list, parent)
  <1>1. /\ DOMAIN born = 1..Len(born) /\ Len(born) \in Nat
        /\ DOMAIN born' = 1..(Len(born) + 1) /\ born'[Len(born) + 1] = b
        /\ \A n \in DOMAIN born : born'[n] = born[n]
    OBVIOUS
  <1>2. NodesOf(born', j) = NodesOf(born, j)
    BY <1>1 DEF NodesOf
  <1>3. ASSUME NEW made, NEW list, NEW parent, Built(born, j, made, list, parent)
        PROVE  Built(born', j, made, list, parent)
    <2>1. \A i \in DOMAIN made : made[i] \in DOMAIN born
      BY <1>3 DEF Built, NodesOf
    <2>2. \A i \in DOMAIN made : born'[made[i]] = born[made[i]]
      BY <1>1, <2>1
    <2>3. QED
      BY <1>2, <1>3, <2>2 DEF Built
  <1>4. QED
    BY <1>2, <1>3

\* An element of a sequence of numbers is a number.
LEMMA ElementIsNat == ASSUME NEW s \in Seq(Nat), NEW k \in 1..Len(s) PROVE s[k] \in Nat
  OBVIOUS

LEMMA CreateNextKeeps == ASSUME CurationInv, NEW r \in Runners, CreateNext(r) PROVE CurationInv'
  <1> DEFINE j == at[r].job
             made == at[r].made
             list == at[r].list
             i == Len(made) + 1
             id == Len(born) + 1
             b == [job |-> j, parent |-> ParentOf(r, i), pages |-> list[i].from..list[i].to]
             to == [at[r] EXCEPT !.made = Append(@, id)]
  <1>0. /\ at[r].step = "create" /\ at[r] # Idle /\ j \in Jobs /\ made \in Seq(Nat)
        /\ list \in Answers /\ at[r].parent \in Parents /\ status[j] = "processing"
        /\ born \in Seq(Births)
    BY StatesHaveFields DEF CreateNext, CurationInv, TypeOK, HoldInv
  <1>1. /\ Len(made) < Len(list)
        /\ UNCHANGED <<status, result, parent_id>>
    BY DEF CreateNext
  <1>2. CASE Raise(r) /\ UNCHANGED <<nodes, linked, born>>
    BY <1>0, <1>1, <1>2, RaiseKeeps
  <1>3. CASE /\ nodes' = nodes \cup {id} /\ linked' = linked \cup Waiting(r)
             /\ born' = Append(born, b) /\ Move(r, to)
    <2>1. list \in Seq(Entries) /\ Accepted(list) /\ Built(born, j, made, list, at[r].parent)
      BY <1>0, AnswersAssumption DEF CurationInv, WorkInv
    <2>2. /\ i \in DOMAIN list /\ list[i].from \in Nat /\ list[i].to \in Nat
          /\ list[i].parent \in Nat /\ list[i].parent < i
      BY <1>0, <1>1, <2>1, EntriesHaveFields
    <2>3. ParentOf(r, i) = IF list[i].parent = NoNode THEN at[r].parent ELSE made[list[i].parent]
      BY DEF ParentOf
    <2>4. ParentOf(r, i) \in Nat
      <3>1. list[i].parent # NoNode => list[i].parent \in 1..Len(made)
        BY <1>0, <2>2 DEF NoNode
      <3> HIDE DEF j, made, list, i, id, b, to
      <3>2. list[i].parent # NoNode => made[list[i].parent] \in Nat
        BY <1>0, <3>1, ElementIsNat
      <3>3. at[r].parent \in Nat
        BY <1>0 DEF Parents, NoNode, Container
      <3>4. QED
        BY <2>3, <3>2, <3>3
    <2>5. b \in Births /\ b.job = j
      BY <1>0, <2>2, <2>4 DEF Births
    <2>6. b.pages = list[i].from..list[i].to /\ b.parent = ParentOf(r, i)
      OBVIOUS
    <2> HIDE DEF b
    <2>7. Built(born', j, Append(made, id), list, at[r].parent)
      BY <1>0, <1>1, <1>3, <2>1, <2>3, <2>5, <2>6, BuiltGrows
    <2>8. at[r] \in [step : {"create"}, job : Jobs, parent : Parents, list : Answers,
                     made : Seq(Nat)]
      BY <1>0 DEF CurationInv, TypeOK, States, Idle
    <2>9. id \in Nat /\ Append(made, id) \in Seq(Nat)
      BY <1>0
    <2>10. /\ to \in [step : {"create"}, job : Jobs, parent : Parents, list : Answers,
                      made : Seq(Nat)]
           /\ to.job = j /\ to.made = Append(made, id) /\ to.list = list
           /\ to.parent = at[r].parent
      BY <2>8, <2>9
    <2>11. at' = [at EXCEPT ![r] = to]
      BY <1>3 DEF Move
    <2> HIDE DEF to
    <2>12. to \in States /\ to.step = "create" /\ to # Idle
      BY <2>10 DEF States, Idle
    <2>13. \A k \in Jobs : k # j => /\ NodesOf(born', k) = NodesOf(born, k)
                                    /\ \A m, l, p : Built(born, k, m, l, p) => Built(born', k, m, l, p)
      BY <1>0, <1>3, <2>5, BuiltApart
    <2>14. \A q \in Runners : q # r /\ at[q] # Idle => at[q].job # j
      BY <1>0 DEF CurationInv, HoldInv
    <2>15. /\ born' \in Seq(Births) /\ DOMAIN born' = DOMAIN born \cup {id}
           /\ id \notin DOMAIN born /\ DOMAIN born \subseteq Nat /\ \A n \in DOMAIN born : n < id
      BY <1>0, <1>3, <2>5
    <2>16. NodesOf(born', j) = NodesOf(born, j) \cup {id}
      BY <1>0, <1>3, <2>5 DEF NodesOf
    <2>21. TypeOK'
      BY <1>1, <1>3, <2>11, <2>12, <2>15 DEF CurationInv, TypeOK
    <2>22. HoldInv'
      BY <1>0, <1>1, <2>10, <2>11, <2>14 DEF CurationInv, TypeOK, HoldInv
    <2>23. FreshInv'
      <3>1. \A k \in Jobs : status'[k] \in {"none", "pending"} => NodesOf(born', k) = {}
        BY <1>0, <1>1, <2>13 DEF CurationInv, FreshInv
      <3>2. ASSUME NEW q \in Runners, at'[q].step \in {"load", "ask"} PROVE NodesOf(born', at'[q].job) = {}
        <4>1. q # r /\ at'[q] = at[q]
          BY <2>11, <2>12, <3>2 DEF CurationInv, TypeOK
        <4>2. at[q] # Idle /\ at[q].job \in Jobs
          BY <3>2, <4>1, StatesHaveFields DEF CurationInv, TypeOK, Idle
        <4>3. QED
          BY <2>13, <2>14, <3>2, <4>1, <4>2 DEF CurationInv, FreshInv
      <3>3. QED
        BY <3>1, <3>2 DEF FreshInv
    <2>24. WorkInv'
      <3>1. SUFFICES ASSUME NEW q \in Runners, at'[q].step = "create"
                     PROVE  /\ Accepted(at'[q].list)
                            /\ Built(born', at'[q].job, at'[q].made, at'[q].list, at'[q].parent)
        BY DEF WorkInv, Accepted
      <3>2. CASE q = r
        BY <2>1, <2>7, <2>10, <2>11, <3>2 DEF CurationInv, TypeOK
      <3>3. CASE q # r
        <4>1. at'[q] = at[q]
          BY <2>11, <3>3 DEF CurationInv, TypeOK
        <4>2. at[q] # Idle /\ at[q].job \in Jobs
          BY <3>1, <4>1, StatesHaveFields DEF CurationInv, TypeOK, Idle
        <4>3. QED
          BY <2>13, <2>14, <3>1, <3>3, <4>1, <4>2 DEF CurationInv, WorkInv
      <3>4. QED
        BY <3>2, <3>3
    <2>25. DoneInv'
      <3>1. SUFFICES ASSUME NEW k \in Jobs, status[k] = "completed"
                     PROVE  \E l \in Answers, p \in Parents :
                               Accepted(l) /\ Built(born', k, result[k], l, p) /\ Len(result[k]) = Len(l)
        BY <1>1 DEF DoneInv, Accepted
      <3>2. k # j
        BY <1>0, <3>1
      <3>3. QED
        BY <2>13, <3>1, <3>2 DEF CurationInv, DoneInv
    <2>26. OneUnlinkedAtMost'
      <3>1. SUFFICES ASSUME NEW k \in Jobs, NEW n \in (NodesOf(born', k) \cap nodes') \ linked'
                     PROVE  status[k] \in {"processing", "failed"} /\ \A m \in NodesOf(born', k) : m <= n
        BY <1>1 DEF OneUnlinkedAtMost, OfJob, NodesOf
      <3>2. CASE k = j
        <4>1. n = id
          BY <1>0, <1>3, <2>16, <3>1, <3>2, OnlyTheLastWaits
        <4>2. \A m \in NodesOf(born, j) : m \in DOMAIN born
          BY DEF NodesOf
        <4>3. QED
          BY <1>0, <2>9, <2>15, <2>16, <3>2, <4>1, <4>2
      <3>3. CASE k # j
        <4>1. NodesOf(born', k) = NodesOf(born, k) /\ id \notin NodesOf(born, k)
          BY <2>13, <2>15, <3>3 DEF NodesOf
        <4>2. QED
          BY <1>3, <3>1, <4>1 DEF CurationInv, OneUnlinkedAtMost, OfJob, NodesOf
      <3>4. QED
        BY <3>2, <3>3
    <2>27. QED
      BY <2>21, <2>22, <2>23, <2>24, <2>25, <2>26 DEF CurationInv
  <1>4. QED
    BY <1>2, <1>3 DEF CreateNext

LEMMA CompleteKeeps == ASSUME CurationInv, NEW r \in Runners, Complete(r) PROVE CurationInv'
  <1> DEFINE j == at[r].job
             made == at[r].made
  <1>0. /\ at[r].step = "create" /\ at[r] # Idle /\ j \in Jobs /\ made \in Seq(Nat)
        /\ at[r].list \in Answers /\ at[r].parent \in Parents /\ status[j] = "processing"
    BY StatesHaveFields DEF Complete, CurationInv, TypeOK, HoldInv
  <1>1. Len(made) = Len(at[r].list) /\ UNCHANGED <<parent_id, nodes, born>>
    BY DEF Complete
  <1>2. CASE Raise(r) /\ UNCHANGED <<status, result, linked>>
    BY <1>0, <1>1, <1>2, RaiseKeeps
  <1>3. CASE /\ status' = [status EXCEPT ![j] = "completed"]
             /\ result' = [result EXCEPT ![j] = made]
             /\ linked' = linked \cup Waiting(r)
             /\ Move(r, Idle)
    <2>1. at' = [at EXCEPT ![r] = Idle] /\ Idle \in States /\ Idle.step = "idle"
      BY <1>3 DEF Move, States, Idle
    <2>2. \A q \in Runners : at[q] # Idle /\ at[q].job = j => q = r
      BY <1>0 DEF CurationInv, HoldInv
    <2>3. Accepted(at[r].list) /\ Built(born, j, made, at[r].list, at[r].parent)
      BY <1>0 DEF CurationInv, WorkInv
    <2>4. (NodesOf(born, j) \cap nodes) \ linked' = {}
      BY <1>0, <1>3, OnlyTheLastWaits
    <2>5. TypeOK'
      BY <1>0, <1>1, <1>3, <2>1 DEF CurationInv, TypeOK
    <2>6. HoldInv'
      BY <1>0, <1>3, <2>1, <2>2 DEF CurationInv, TypeOK, HoldInv
    <2>7. FreshInv'
      BY <1>0, <1>1, <1>3, <2>1 DEF CurationInv, TypeOK, FreshInv
    <2>7a. WorkInv'
      BY <1>1, <2>1 DEF CurationInv, TypeOK, WorkInv
    <2>8. DoneInv'
      <3>1. SUFFICES ASSUME NEW k \in Jobs, status'[k] = "completed"
                     PROVE  \E l \in Answers, p \in Parents :
                               Accepted(l) /\ Built(born, k, result'[k], l, p)
                               /\ Len(result'[k]) = Len(l)
        BY <1>1 DEF DoneInv, Accepted
      <3>2. CASE k = j
        BY <1>0, <1>1, <1>3, <2>3, <3>2 DEF CurationInv, TypeOK
      <3>3. CASE k # j
        BY <1>3, <3>1, <3>3 DEF CurationInv, TypeOK, DoneInv
      <3>4. QED
        BY <3>2, <3>3
    <2>9. OneUnlinkedAtMost'
      <3>1. SUFFICES ASSUME NEW k \in Jobs, NEW n \in (NodesOf(born, k) \cap nodes) \ linked'
                     PROVE  status'[k] \in {"processing", "failed"} /\ \A m \in NodesOf(born, k) : m <= n
        BY <1>1 DEF OneUnlinkedAtMost, OfJob, NodesOf
      <3>2. k # j /\ n \in (NodesOf(born, k) \cap nodes) \ linked
        BY <1>3, <2>4, <3>1
      <3>3. QED
        BY <1>3, <3>2 DEF CurationInv, TypeOK, OneUnlinkedAtMost, OfJob, NodesOf
    <2>10. QED
      BY <2>5, <2>6, <2>7, <2>7a, <2>8, <2>9 DEF CurationInv
  <1>4. QED
    BY <1>2, <1>3 DEF Complete

LEMMA NextKeepsCurationInv == CurationInv /\ [Next]_vars => CurationInv'
  <1> SUFFICES ASSUME CurationInv, [Next]_vars PROVE CurationInv'
    OBVIOUS
  <1>1. CASE \E j \in Jobs : Queue(j)
    BY <1>1, QueueKeeps
  <1>2. CASE \E r \in Runners : Claim(r) \/ Crash(r)
    BY <1>2, ClaimKeeps, CrashKeeps
  <1>3. CASE \E r \in Runners : Load(r) \/ Ask(r) \/ AskFails(r)
    BY <1>3, LoadKeeps, AskKeeps, AskFailsKeeps
  <1>4. CASE \E r \in Runners : CreateNext(r) \/ CreateRefused(r)
    BY <1>4, CreateNextKeeps, CreateRefusedKeeps
  <1>5. CASE \E r \in Runners : Complete(r) \/ Fail(r)
    BY <1>5, CompleteKeeps, FailKeeps
  <1>6. CASE \E n \in nodes : DeleteNode(n)
    BY <1>6, DeleteKeeps
  <1>7. CASE UNCHANGED vars
    BY <1>7 DEF vars, CurationInv, TypeOK, HoldInv, FreshInv, WorkInv, DoneInv,
       OneUnlinkedAtMost, OfJob
  <1>8. QED
    BY <1>1, <1>2, <1>3, <1>4, <1>5, <1>6, <1>7 DEF Next, Work

-----------------------------------------------------------------------------
\* A sequence that grows has as many members as places.
LEMMA GrowingHasLen ==
    ASSUME NEW made \in Seq(Nat), \A i, k \in DOMAIN made : i < k => made[i] < made[k]
    PROVE  Cardinality({made[i] : i \in DOMAIN made}) = Len(made)
  <1> DEFINE S == {made[i] : i \in DOMAIN made}
  <1>1. DOMAIN made = 1..Len(made) /\ Len(made) \in Nat
    OBVIOUS
  <1>2. made \in [1..Len(made) -> S]
    BY <1>1
  <1>3. \A i, k \in 1..Len(made) : made[i] = made[k] => i = k
    BY <1>1
  <1>4. \A s \in S : \E i \in 1..Len(made) : made[i] = s
    BY <1>1
  <1>5. made \in Bijection(1..Len(made), S)
    BY <1>2, <1>3, <1>4, Fun_IsBij
  <1>6. IsFiniteSet(1..Len(made)) /\ Cardinality(1..Len(made)) = Len(made)
    BY <1>1, FS_Interval
  <1>7. QED
    BY <1>5, <1>6, FS_Bijection DEF ExistsBijection

LEMMA DoneIsWhole == CurationInv => CompletedIsWhole
  <1> SUFFICES ASSUME CurationInv, NEW j \in Jobs, status[j] = "completed"
               PROVE  LET made == result[j]
                      IN  /\ OfJob(j) = {made[i] : i \in DOMAIN made}
                          /\ Cardinality(OfJob(j)) = Len(made)
                          /\ born[made[1]].parent \in {Container, NoNode}
                          /\ \A i \in 2..Len(made) :
                                \E k \in 1..(i - 1) : born[made[i]].parent = made[k]
                          /\ Required \subseteq UNION {born[n].pages : n \in OfJob(j)}
    BY DEF CompletedIsWhole
  <1> DEFINE made == result[j]
  <1>1. PICK list \in Answers, parent \in Parents :
             Accepted(list) /\ Built(born, j, made, list, parent) /\ Len(made) = Len(list)
    BY DEF CurationInv, DoneInv
  <1>2. made \in Seq(Nat) /\ list \in Seq(Entries)
    BY AnswersAssumption DEF CurationInv, TypeOK
  <1> HIDE DEF made
  <1>3. DOMAIN made = 1..Len(made) /\ DOMAIN list = 1..Len(made) /\ Len(made) \in Nat \ {0}
    <2>1. list # <<>>
      BY <1>1 DEF Accepted
    <2>2. QED
      BY <1>1, <1>2, <2>1
  <1>4. OfJob(j) = {made[i] : i \in DOMAIN made}
    BY <1>1 DEF Built, OfJob, NodesOf
  <1>5. Cardinality(OfJob(j)) = Len(made)
    BY <1>1, <1>2, <1>4, GrowingHasLen DEF Built
  <1>6. /\ list[1].parent = NoNode
        /\ \A i \in 2..Len(made) : list[i].parent \in 1..(i - 1)
    <2>1. {i \in DOMAIN list : list[i].parent = NoNode} = {1}
      BY <1>1 DEF Accepted
    <2>2. \A i \in DOMAIN list : list[i].parent < i /\ list[i].parent \in Nat
      BY <1>1, <1>2, EntriesHaveFields
    <2>3. QED
      BY <1>3, <2>1, <2>2 DEF NoNode
  <1>7. /\ born[made[1]].parent \in {Container, NoNode}
        /\ \A i \in 2..Len(made) : born[made[i]].parent = made[list[i].parent]
    BY <1>1, <1>3, <1>6 DEF Built, Parents, NoNode
  <1>8. Required \subseteq UNION {born[n].pages : n \in OfJob(j)}
    <2>1. Required \subseteq UNION {list[i].from..list[i].to : i \in DOMAIN list}
      BY <1>1 DEF Accepted
    <2>2. \A i \in DOMAIN list : made[i] \in OfJob(j) /\ born[made[i]].pages = list[i].from..list[i].to
      BY <1>1, <1>3, <1>4 DEF Built
    <2>3. QED
      BY <2>1, <2>2
  <1>9. QED
    BY <1>4, <1>5, <1>6, <1>7, <1>8 DEF made

\* A completed job is one whole tree, whatever runners are killed, refused or
\* answered and whoever deletes nodes meanwhile.
THEOREM JobsAreWhole == Spec => []CompletedIsWhole
  BY InitCurationInv, NextKeepsCurationInv, DoneIsWhole, PTL DEF Spec

\* A failure, a refusal or a kill at any step leaves one node at most that does
\* not say where it comes from, the newest of its job.
THEOREM OneIsUnlinked == Spec => []OneUnlinkedAtMost
  <1>1. CurationInv => OneUnlinkedAtMost
    BY DEF CurationInv
  <1>2. QED
    BY InitCurationInv, NextKeepsCurationInv, <1>1, PTL DEF Spec
=============================================================================
