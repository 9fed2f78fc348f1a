--------------------------- MODULE NodeTreeProofs ---------------------------
(***************************************************************************)
(* NodeTree for any set of nodes, finite or not, and any number of         *)
(* sessions: its types, the tree as long as checks are up to date, the     *)
(* stickiness of quarantine, and what a deletion leaves in place.          *)
(*                                                                         *)
(* Descent is defined by upward-closed sets, so each argument is the same: *)
(* from a set closed before a step, build one closed after it, or the      *)
(* reverse.                                                                *)
(***************************************************************************)
EXTENDS NodeTree, TLAPS

\* A call that quarantines a subtree.
Stamping(c) == c.kind \in {"move", "policy"} /\ c.ai_read = "explicit_only"

\* What a walk has read and noted.
Seen(c) == c.walked \cup c.to_walk

\* Of the nodes whose children a walk has read, it knows every child there is;
\* and of what it has seen, whatever has no policy yet is to get one.
WalkHolds(c) ==
    /\ c.node \in Seen(c)
    /\ Seen(c) \subseteq nodes
    /\ c.to_set \subseteq Seen(c)
    /\ \A m \in nodes : parent[m] \in c.walked => m \in Seen(c)
    /\ \A m \in Seen(c) : m \in c.to_set \/ OwnPolicy(m) # "allow"

\* What a call remembers, and what it checked, holds of the tree.
UpToDate(c) ==
    /\ c.kind \in {"move", "delete", "policy"} => c.node \in nodes
    /\ c.kind \in {"create", "move"} =>
          c.target \in OrNone(nodes) /\ c.ai_read = Inherited(c.target)
    /\ c.kind = "move" => c.target = NoNode \/ ~ IsDescendant(c.node, c.target)
    /\ c.kind = "delete" =>
          /\ c.loaded_parent = parent[c.node]
          /\ c.loaded_children = Children(c.node)
          /\ c.loaded_parent # NoNode
    /\ c.kind = "move" /\ ~ Stamping(c) => c.to_set = {}
    /\ c.kind = "policy" /\ ~ Stamping(c) => c.to_set \subseteq {c.node}
    /\ Stamping(c) => WalkHolds(c)
    /\ c # NoCall /\ ~ Stamping(c) => c.to_walk = {} /\ c.walked = {}

\* The check of a call that is not aged describes the tree.
CheckInv == \A s \in Sessions \ aged : UpToDate(call[s])

IInv == TypeOK /\ CheckInv /\ AcyclicUnlessUnchecked /\ QuarantineSticks

-----------------------------------------------------------------------------
(***************************************************************************)
(* Descent in a fixed tree.                                                *)
(***************************************************************************)
LEMMA DescendantTransitive ==
    ASSUME NEW a, NEW b, NEW c, IsDescendant(a, b), IsDescendant(b, c)
    PROVE  IsDescendant(a, c)
  BY DEF IsDescendant

LEMMA DescendantReflexive ==
    ASSUME NEW a PROVE IsDescendant(a, a)
  BY DEF IsDescendant

\* Nodes that hold the children of all of them hold everything below them.
LEMMA ClosedBelow ==
    ASSUME TypeOK, NEW W \in SUBSET nodes,
           \A m \in nodes : parent[m] \in W => m \in W,
           NEW a \in W, NEW m \in nodes, IsDescendant(a, m)
    PROVE  m \in W
  <1> SUFFICES ASSUME m \notin W PROVE FALSE
    OBVIOUS
  <1> DEFINE rest == nodes \ W
  <1>1. UpClosed(rest)
    BY DEF UpClosed, OrNone, TypeOK
  <1>2. m \in rest /\ rest \in SUBSET nodes
    OBVIOUS
  <1>3. a \in rest
    BY <1>1, <1>2 DEF IsDescendant
  <1>4. QED
    BY <1>3

LEMMA NoOwnPolicy ==
    \A m : OwnPolicy(m) = "allow" <=> m \notin quarantined \cup denied
  BY DEF OwnPolicy

\* Whoever is to be quarantined ends with a policy of their own, and so does
\* whoever had one.
LEMMA QuarantineMarks ==
    ASSUME NEW S, SetPolicy(S, "explicit_only"), NEW m,
           m \in S \/ OwnPolicy(m) # "allow"
    PROVE  OwnPolicy(m)' # "allow"
  BY DEF SetPolicy, OwnPolicy

\* Excused are all who need it.
LEMMA ExcuseSuffices ==
    ASSUME NEW S, Excuse(S),
           ~ unchecked' => \A m \in nodes' :
              BelowQuarantine(m)' /\ OwnPolicy(m)' = "allow" => m \in unmarked \cup S
    PROVE  QuarantineSticks'
  BY DEF Excuse, QuarantineSticks

-----------------------------------------------------------------------------
(***************************************************************************)
(* What the writes of each commit make of descent.                         *)
(***************************************************************************)

\* A new leaf n under t (create_node).
LEMMA LeafDescent ==
    ASSUME TypeOK, NEW n \in Nodes \ nodes, NEW t \in OrNone(nodes),
           nodes' = nodes \cup {n}, parent' = [parent EXCEPT ![n] = t]
    PROVE  /\ \A a, m \in nodes : IsDescendant(a, m)' <=> IsDescendant(a, m)
           /\ \A a \in nodes : IsDescendant(a, n)' => t # NoNode /\ IsDescendant(a, t)
           /\ \A m \in nodes : ~ IsDescendant(n, m)'
           /\ Acyclic => Acyclic'
  <1>1. /\ parent'[n] = t
        /\ \A m \in nodes : parent'[m] = parent[m] /\ parent[m] \in OrNone(nodes)
        /\ NoNode \notin Nodes /\ nodes \subseteq Nodes
    BY ConstantsAssumption DEF TypeOK
  <1>2. \A S \in SUBSET nodes : UpClosed(S)' <=> UpClosed(S)
    BY <1>1 DEF UpClosed, OrNone
  <1>3. \A S \in SUBSET nodes : UpClosed(S) /\ (t = NoNode \/ t \in S) => UpClosed(S \cup {n})'
    BY <1>1 DEF UpClosed, OrNone
  <1>4. \A S \in SUBSET nodes' : UpClosed(S)' => UpClosed(S \ {n}) /\ S \ {n} \in SUBSET nodes
    BY <1>1 DEF UpClosed, OrNone
  <1>5. ASSUME NEW a \in nodes, NEW m \in nodes
        PROVE  IsDescendant(a, m)' <=> IsDescendant(a, m)
    <2>1. ASSUME IsDescendant(a, m)' PROVE IsDescendant(a, m)
      BY <1>2, <2>1 DEF IsDescendant
    <2>2. ASSUME IsDescendant(a, m) PROVE IsDescendant(a, m)'
      BY <1>1, <1>4, <2>2 DEF IsDescendant
    <2>3. QED
      BY <2>1, <2>2
  <1>6. ASSUME NEW a \in nodes, IsDescendant(a, n)'
        PROVE  t # NoNode /\ IsDescendant(a, t)
    <2>1. t # NoNode
      \* Otherwise {n} alone would be closed.
      <3> SUFFICES ASSUME t = NoNode PROVE FALSE
        OBVIOUS
      <3>1. UpClosed({n})' /\ {n} \in SUBSET nodes'
        BY <1>1 DEF UpClosed, OrNone
      <3>2. QED
        BY <1>6, <3>1 DEF IsDescendant
    <2>2. ASSUME NEW S \in SUBSET nodes, t \in S, UpClosed(S) PROVE a \in S
      <3>1. UpClosed(S \cup {n})' /\ S \cup {n} \in SUBSET nodes'
        BY <1>3, <2>2
      <3>2. a \in S \cup {n}
        BY <1>6, <3>1 DEF IsDescendant
      <3>3. QED
        BY <3>2
    <2>3. QED
      BY <2>1, <2>2 DEF IsDescendant
  <1>7. ASSUME NEW m \in nodes PROVE ~ IsDescendant(n, m)'
    \* The old nodes are closed, and n is not among them.
    <2>1. PICK old : old = nodes
      OBVIOUS
    <2>2. UpClosed(old)' /\ old \in SUBSET nodes' /\ m \in old /\ n \notin old
      BY <1>1, <2>1 DEF UpClosed, OrNone
    <2>3. QED
      BY <2>2 DEF IsDescendant
  <1>8. ASSUME Acyclic PROVE Acyclic'
    <2> SUFFICES ASSUME NEW S \in SUBSET nodes', S # {}, \A m \in S : parent'[m] \in S
                 PROVE  FALSE
      BY DEF Acyclic
    <2>1. S \ {n} \in SUBSET nodes /\ S \ {n} # {}
      BY <1>1 DEF OrNone
    <2>2. \A m \in S \ {n} : parent[m] \in S \ {n}
      BY <1>1, <2>1 DEF OrNone
    <2>3. QED
      BY <1>8, <2>1, <2>2 DEF Acyclic
  <1>9. QED
    BY <1>5, <1>6, <1>7, <1>8

\* n hung under t (move_node).
LEMMA MoveDescent ==
    ASSUME TypeOK, NEW n \in nodes, NEW t \in OrNone(nodes),
           nodes' = nodes, parent' = [parent EXCEPT ![n] = t],
           NEW q \in nodes, NEW m \in nodes, IsDescendant(q, m)'
    PROVE  \/ IsDescendant(q, m)
           \/ t # NoNode /\ IsDescendant(n, m) /\ IsDescendant(q, t)
  <1> SUFFICES ASSUME ~ IsDescendant(q, m)
               PROVE  t # NoNode /\ IsDescendant(n, m) /\ IsDescendant(q, t)
    OBVIOUS
  <1>1. /\ parent'[n] = t
        /\ \A k \in nodes \ {n} : parent'[k] = parent[k]
    BY DEF TypeOK
  <1>2. PICK S \in SUBSET nodes : m \in S /\ UpClosed(S) /\ q \notin S
    BY DEF IsDescendant
  <1>3. ASSUME NEW T \in SUBSET nodes, m \in T, UpClosed(T) PROVE n \in T
    <2> SUFFICES ASSUME n \notin T PROVE FALSE
      OBVIOUS
    <2>1. S \cap T \in SUBSET nodes' /\ UpClosed(S \cap T)'
      BY <1>1, <1>2, <1>3 DEF UpClosed, OrNone
    <2>2. q \in S \cap T
      BY <1>2, <1>3, <2>1 DEF IsDescendant
    <2>3. QED
      BY <1>2, <2>2
  <1>4. t # NoNode
    <2> SUFFICES ASSUME t = NoNode PROVE FALSE
      OBVIOUS
    <2>1. UpClosed(S)'
      BY <1>1, <1>2 DEF UpClosed, OrNone
    <2>2. QED
      BY <1>2, <2>1 DEF IsDescendant
  <1>5. ASSUME NEW T \in SUBSET nodes, t \in T, UpClosed(T) PROVE q \in T
    <2>1. UpClosed(S \cup T)' /\ S \cup T \in SUBSET nodes'
      BY <1>1, <1>2, <1>5 DEF UpClosed, OrNone
    <2>2. q \in S \cup T
      BY <1>2, <2>1 DEF IsDescendant
    <2>3. QED
      BY <1>2, <2>2
  <1>6. QED
    BY <1>3, <1>4, <1>5 DEF IsDescendant

LEMMA MoveKeepsTree ==
    ASSUME TypeOK, Acyclic, NEW n \in nodes, NEW t \in OrNone(nodes),
           t = NoNode \/ ~ IsDescendant(n, t),
           nodes' = nodes, parent' = [parent EXCEPT ![n] = t]
    PROVE  Acyclic'
  <1> SUFFICES ASSUME NEW S \in SUBSET nodes, S # {}, \A m \in S : parent'[m] \in S
               PROVE  FALSE
    BY DEF Acyclic
  <1>1. /\ parent'[n] = t
        /\ \A k \in nodes \ {n} : parent'[k] = parent[k]
    BY DEF TypeOK
  <1>2. CASE n \notin S
    BY <1>1, <1>2 DEF Acyclic
  <1>3. CASE n \in S
    <2>1. t \in S /\ t # NoNode
      BY <1>1, <1>3, ConstantsAssumption DEF TypeOK
    <2>2. PICK T \in SUBSET nodes : t \in T /\ UpClosed(T) /\ n \notin T
      BY <2>1 DEF IsDescendant
    <2>3. S \cap T # {} /\ S \cap T \in SUBSET nodes
      BY <2>1, <2>2
    <2>4. \A m \in S \cap T : parent[m] \in S \cap T
      BY <1>1, <2>2, ConstantsAssumption DEF UpClosed, OrNone, TypeOK
    <2>5. QED
      BY <2>3, <2>4 DEF Acyclic
  <1>4. QED
    BY <1>2, <1>3

\* n gone, its children adopted by its parent (delete_node).
LEMMA DeleteDescent ==
    ASSUME TypeOK, Acyclic, NEW n \in nodes, parent[n] # NoNode,
           nodes' = nodes \ {n},
           parent' = [m \in Nodes |->
                         CASE m = n -> NoNode
                           [] m \in Children(n) \ {n} -> parent[n]
                           [] OTHER -> parent[m]]
    PROVE  /\ \A a, m \in nodes' : IsDescendant(a, m)' <=> IsDescendant(a, m)
           /\ Acyclic'
           /\ parent' \in [Nodes -> OrNone(nodes')]
  <1>1. NoNode \notin nodes /\ nodes \subseteq Nodes
    BY ConstantsAssumption DEF TypeOK
  <1>2. parent[n] # n
    <2> SUFFICES ASSUME parent[n] = n PROVE FALSE
      OBVIOUS
    <2>1. {n} \in (SUBSET nodes) \ {{}}
      OBVIOUS
    <2>2. QED
      BY <2>1 DEF Acyclic
  <1>3. parent[n] \in nodes'
    BY <1>2 DEF TypeOK, OrNone
  <1>4. \A m \in nodes' : parent'[m] = IF parent[m] = n THEN parent[n] ELSE parent[m]
    BY <1>1 DEF Children
  <1>5. \A S \in SUBSET nodes : UpClosed(S) => UpClosed(S \ {n})' /\ S \ {n} \in SUBSET nodes'
    BY <1>1, <1>2, <1>3, <1>4 DEF UpClosed, OrNone
  <1>6. ASSUME NEW S \in SUBSET nodes', UpClosed(S)'
        PROVE  UpClosed(S) \/ UpClosed(S \cup {n})
    <2>1. CASE \E m \in S : parent[m] = n
      BY <1>1, <1>3, <1>4, <1>6, <2>1 DEF UpClosed, OrNone
    <2>2. CASE \A m \in S : parent[m] # n
      BY <1>4, <1>6, <2>2 DEF UpClosed, OrNone
    <2>3. QED
      BY <2>1, <2>2
  <1>7. ASSUME NEW a \in nodes', NEW m \in nodes'
        PROVE  IsDescendant(a, m)' <=> IsDescendant(a, m)
    <2>1. ASSUME IsDescendant(a, m)', NEW S \in SUBSET nodes, m \in S, UpClosed(S)
          PROVE  a \in S
      BY <1>5, <2>1 DEF IsDescendant
    <2>2. ASSUME IsDescendant(a, m), NEW S \in SUBSET nodes', m \in S, UpClosed(S)'
          PROVE  a \in S
      <3>1. CASE UpClosed(S)
        BY <2>2, <3>1 DEF IsDescendant
      <3>2. CASE UpClosed(S \cup {n})
        <4>1. S \cup {n} \in SUBSET nodes
          OBVIOUS
        <4>2. a \in S \cup {n}
          BY <2>2, <3>2, <4>1 DEF IsDescendant
        <4>3. QED
          BY <4>2
      <3>3. QED
        BY <1>6, <2>2, <3>1, <3>2
    <2>3. QED
      BY <2>1, <2>2 DEF IsDescendant
  <1>8. Acyclic'
    <2> SUFFICES ASSUME NEW S \in SUBSET nodes', S # {}, \A m \in S : parent'[m] \in S
                 PROVE  FALSE
      BY DEF Acyclic
    <2>1. CASE \E m \in S : parent[m] = n
      <3>1. parent[n] \in S
        BY <1>4, <2>1
      <3>2. \A m \in S \cup {n} : parent[m] \in S \cup {n}
        BY <1>4, <3>1
      <3>3. S \cup {n} \in SUBSET nodes
        OBVIOUS
      <3>4. QED
        BY <3>2, <3>3 DEF Acyclic
    <2>2. CASE \A m \in S : parent[m] # n
      BY <1>4, <2>2 DEF Acyclic
    <2>3. QED
      BY <2>1, <2>2
  <1>9. parent' \in [Nodes -> OrNone(nodes')]
    <2>1. \A m \in Nodes : parent[m] \in OrNone(nodes)
      BY DEF TypeOK
    <2>2. ASSUME NEW m \in Nodes PROVE parent'[m] \in OrNone(nodes')
      <3>1. CASE m = n
        BY <3>1 DEF OrNone
      <3>2. CASE m # n /\ parent[m] = n
        <4>1. m \in nodes
          BY <1>1, <3>2 DEF TypeOK
        <4>2. QED
          BY <1>3, <1>4, <3>2, <4>1 DEF OrNone
      <3>3. CASE m # n /\ parent[m] # n
        BY <2>1, <3>3 DEF OrNone, Children
      <3>4. QED
        BY <3>1, <3>2, <3>3
    <2>3. QED
      BY <2>2
  <1>10. QED
    BY <1>7, <1>8, <1>9

-----------------------------------------------------------------------------
(***************************************************************************)
(* The induction step.                                                     *)
(***************************************************************************)
LEMMA SameDescent ==
    ASSUME nodes' = nodes, parent' = parent
    PROVE  /\ \A a, m : IsDescendant(a, m)' <=> IsDescendant(a, m)
           /\ \A m : Children(m)' = Children(m)
           /\ Acyclic' <=> Acyclic
  <1>1. \A S : UpClosed(S)' <=> UpClosed(S)
    BY DEF UpClosed, OrNone
  <1>2. QED
    BY <1>1 DEF IsDescendant, Children, Acyclic

\* Nothing of the tree and its policies changes.
LEMMA SameTree ==
    ASSUME nodes' = nodes, parent' = parent, quarantined' = quarantined, denied' = denied
    PROVE  /\ \A a, m : IsDescendant(a, m)' <=> IsDescendant(a, m)
           /\ Acyclic' <=> Acyclic
           /\ \A m : OwnPolicy(m)' = OwnPolicy(m)
           /\ \A m : BelowQuarantine(m)' <=> BelowQuarantine(m)
           /\ \A c : UpToDate(c)' <=> UpToDate(c)
  <1>1. /\ \A a, m : IsDescendant(a, m)' <=> IsDescendant(a, m)
        /\ \A m : Children(m)' = Children(m)
        /\ Acyclic' <=> Acyclic
    BY SameDescent
  <1>2. /\ \A m : OwnPolicy(m)' = OwnPolicy(m)
        /\ \A m : BelowQuarantine(m)' <=> BelowQuarantine(m)
        /\ \A m : EffectivelyQuarantined(m)' <=> EffectivelyQuarantined(m)
    BY <1>1 DEF OwnPolicy, BelowQuarantine, EffectivelyQuarantined
  <1>3. \A m : Inherited(m)' = Inherited(m)
    BY <1>2 DEF Inherited
  <1>4. \A c : WalkHolds(c)' <=> WalkHolds(c)
    BY <1>2 DEF WalkHolds, Seen
  <1>5. \A c : UpToDate(c)' <=> UpToDate(c)
    BY <1>1, <1>3, <1>4 DEF UpToDate, OrNone, Stamping
  <1>6. QED
    BY <1>1, <1>2, <1>5

LEMMA InitIInv == Init => IInv
  <1> SUFFICES ASSUME Init PROVE IInv
    OBVIOUS
  <1>1. TypeOK
    BY ConstantsAssumption DEF Init, TypeOK, OrNone
  <1>2. CheckInv
    BY DEF Init, CheckInv, UpToDate, NoCall, Stamping
  <1>3. Acyclic
    <2> SUFFICES ASSUME NEW S \in (SUBSET nodes) \ {{}}, \A n \in S : parent[n] \in S PROVE FALSE
      BY DEF Acyclic
    <2>1. Root \in S /\ parent[Root] = NoNode /\ S \subseteq {Root}
      BY ConstantsAssumption DEF Init
    <2>2. QED
      BY <2>1, ConstantsAssumption
  <1>4. QuarantineSticks
    BY DEF Init, QuarantineSticks, BelowQuarantine
  <1>5. QED
    BY <1>1, <1>2, <1>3 , <1>4 DEF IInv, AcyclicUnlessUnchecked

\* A session that has just checked has checked the tree that is there.
LEMMA BeginKeepsIInv ==
    ASSUME IInv, NEW s \in Sessions,
           NEW kind \in {"create", "move", "reparent", "delete", "policy"},
           NEW n \in OrNone(nodes), NEW target \in OrNone(nodes),
           NEW ai_read \in Policies, NEW to_set \in SUBSET nodes,
           Begin(s, kind, n, target, ai_read, to_set),
           kind \in {"move", "delete", "policy"} => n \in nodes,
           kind \in {"create", "move"} => ai_read = Inherited(target),
           kind = "move" => target = NoNode \/ ~ IsDescendant(n, target),
           kind = "delete" => parent[n] # NoNode,
           to_set \subseteq {n},
           kind = "move" /\ ai_read # "explicit_only" => to_set = {},
           kind \in {"move", "policy"} /\ ai_read = "explicit_only" =>
              n \in to_set \/ OwnPolicy(n) # "allow"
    PROVE  IInv'
  <1> DEFINE c == [kind |-> kind, node |-> n, target |-> target,
                   loaded_parent   |-> IF kind \in {"move", "delete"} THEN parent[n] ELSE NoNode,
                   loaded_children |-> IF kind = "delete" THEN Children(n) ELSE {},
                   ai_read |-> ai_read, to_set |-> to_set,
                   to_walk |-> IF kind \in {"move", "policy"} /\ ai_read = "explicit_only"
                               THEN {n} ELSE {},
                   walked |-> {}]
  <1>1. /\ call' = [call EXCEPT ![s] = c]
        /\ aged' = aged \ {s}
        /\ nodes' = nodes /\ gone' = gone /\ parent' = parent
        /\ quarantined' = quarantined /\ denied' = denied
        /\ unmarked' = unmarked /\ unchecked' = unchecked
    BY DEF Begin, tree_vars
  <1>4. c \in Call
    <2>1. OrNone(nodes) \subseteq OrNone(Nodes) /\ nodes \subseteq Nodes
      BY DEF IInv, TypeOK, OrNone
    <2>2. (IF kind \in {"move", "delete"} THEN parent[n] ELSE NoNode) \in OrNone(Nodes)
      BY <2>1 DEF IInv, TypeOK, OrNone
    <2>3. (IF kind = "delete" THEN Children(n) ELSE {}) \in SUBSET Nodes
      BY DEF IInv, TypeOK, Children
    <2>4. (IF kind \in {"move", "policy"} /\ ai_read = "explicit_only" THEN {n} ELSE {})
             \in SUBSET Nodes
      BY <2>1
    <2>5. QED
      BY <2>1, <2>2, <2>3, <2>4 DEF Call
  <1>5. TypeOK'
    BY <1>1, <1>4 DEF IInv, TypeOK, OrNone
  <1>6. CheckInv'
    <2>1. UpToDate(c)
      <3>1. Stamping(c) => WalkHolds(c)
        <4> SUFFICES ASSUME Stamping(c) PROVE WalkHolds(c)
          OBVIOUS
        <4>1. c.walked = {} /\ c.to_walk = {n} /\ c.node = n /\ c.to_set = to_set
              /\ n \in nodes /\ (n \in to_set \/ OwnPolicy(n) # "allow")
          BY DEF Stamping
        <4>2. QED
          BY <4>1 DEF WalkHolds, Seen
      <3>2. ~ Stamping(c) => c.to_walk = {} /\ c.walked = {}
        BY DEF Stamping
      <3>3. /\ c.kind = "move" /\ ~ Stamping(c) => c.to_set = {}
            /\ c.kind = "policy" /\ ~ Stamping(c) => c.to_set \subseteq {c.node}
        BY DEF Stamping
      <3>4. QED
        BY <3>1, <3>2, <3>3 DEF UpToDate
    <2>2. \A p \in Sessions \ aged' : UpToDate(call'[p])
      BY <1>1, <2>1 DEF IInv, TypeOK, CheckInv
    <2>3. \A d : UpToDate(d) => UpToDate(d)'
      BY <1>1, SameTree
    <2>4. \A p \in Sessions \ aged' : \E d : d = call'[p] /\ UpToDate(d)'
      BY <2>2, <2>3
    <2>5. QED
      BY <2>4 DEF CheckInv
  <1>7. AcyclicUnlessUnchecked' /\ QuarantineSticks'
    BY <1>1, SameTree DEF IInv, AcyclicUnlessUnchecked, QuarantineSticks
  <1>8. QED
    BY <1>5, <1>6, <1>7 DEF IInv

\* A turn of a walk notes the children there are.
LEMMA WalkKeepsIInv ==
    ASSUME IInv, NEW s \in Sessions, Walk(s)
    PROVE  IInv'
  <1> DEFINE c == call[s]
  <1>1. PICK n \in c.to_walk :
           call' = [call EXCEPT
              ![s].to_walk = (@ \ {n}) \cup (Children(n) \ (c.walked \cup {n})),
              ![s].walked = @ \cup {n},
              ![s].to_set = @ \cup {m \in Children(n) \ (c.walked \cup {n}) :
                                      OwnPolicy(m) = "allow"}]
    BY DEF Walk
  <1>2. /\ call[s] # NoCall
        /\ aged' = aged /\ nodes' = nodes /\ gone' = gone /\ parent' = parent
        /\ quarantined' = quarantined /\ denied' = denied
        /\ unmarked' = unmarked /\ unchecked' = unchecked
    BY DEF Walk, tree_vars
  <1>3. c \in Call
    BY <1>2 DEF IInv, TypeOK
  <1> DEFINE found == Children(n) \ (c.walked \cup {n})
             d == [c EXCEPT !.to_walk = (c.to_walk \ {n}) \cup found,
                            !.walked = c.walked \cup {n},
                            !.to_set = c.to_set \cup {m \in found : OwnPolicy(m) = "allow"}]
  <1>4. call' = [call EXCEPT ![s] = d]
    BY <1>1 DEF IInv, TypeOK
  <1>5. /\ d.kind = c.kind /\ d.node = c.node /\ d.target = c.target
        /\ d.loaded_parent = c.loaded_parent /\ d.loaded_children = c.loaded_children
        /\ d.ai_read = c.ai_read
        /\ d.to_walk = (c.to_walk \ {n}) \cup found
        /\ d.walked = c.walked \cup {n}
        /\ d.to_set = c.to_set \cup {m \in found : OwnPolicy(m) = "allow"}
    BY <1>3 DEF Call
  <1>6. found \subseteq nodes /\ nodes \subseteq Nodes /\ n \in Nodes
    BY <1>3 DEF Children, IInv, TypeOK, Call
  <1>7. d \in Call
    BY <1>3, <1>6 DEF Call
  <1>8. TypeOK'
    BY <1>2, <1>4, <1>7 DEF IInv, TypeOK, OrNone
  <1>9. CheckInv'
    <2>1. ASSUME s \notin aged PROVE UpToDate(d)
      <3>1. UpToDate(c) /\ c.to_walk # {}
        BY <1>1, <2>1 DEF IInv, CheckInv
      <3>2. Stamping(c) /\ WalkHolds(c)
        BY <1>2, <3>1 DEF UpToDate
      <3>3. Seen(d) = Seen(c) \cup found
        BY <1>5 DEF Seen
      <3>4. ASSUME NEW m \in nodes, parent[m] \in d.walked PROVE m \in Seen(d)
        <4>1. CASE parent[m] \in c.walked
          BY <3>2, <3>3, <4>1 DEF WalkHolds
        <4>2. CASE parent[m] = n
          BY <1>5, <4>2 DEF Children, Seen
        <4>3. QED
          BY <1>5, <3>4, <4>1, <4>2
      <3>5. \A m \in Seen(d) : m \in d.to_set \/ OwnPolicy(m) # "allow"
        BY <1>5, <3>2, <3>3 DEF WalkHolds
      <3>6. WalkHolds(d)
        BY <1>5, <1>6, <3>2, <3>3, <3>4, <3>5 DEF WalkHolds
      <3>7. Stamping(d)
        BY <1>5, <3>2 DEF Stamping
      <3> HIDE DEF d, found, c
      <3>8. QED
        BY <1>5, <3>1, <3>6, <3>7 DEF UpToDate
    <2> HIDE DEF d, found, c
    <2>2. \A p \in Sessions \ aged' : UpToDate(call'[p])
      BY <1>2, <1>4, <2>1 DEF IInv, TypeOK, CheckInv
    <2>3. \A e : UpToDate(e) => UpToDate(e)'
      BY <1>2, SameTree
    <2>4. \A p \in Sessions \ aged' : \E e : e = call'[p] /\ UpToDate(e)'
      BY <2>2, <2>3
    <2>5. QED
      BY <2>4 DEF CheckInv
  <1>10. AcyclicUnlessUnchecked' /\ QuarantineSticks'
    BY <1>2, SameTree DEF IInv, AcyclicUnlessUnchecked, QuarantineSticks
  <1>11. QED
    BY <1>8, <1>9, <1>10 DEF IInv

\* What a commit leaves of the calls: none of its own, and none unaged if it
\* outdates every other.
LEMMA CommitCalls ==
    ASSUME IInv, NEW s \in Sessions, NEW outdated \in SUBSET Sessions, Commit(s, outdated)
    PROVE  /\ call' \in [Sessions -> Call \cup {NoCall}]
           /\ aged' \subseteq Sessions
           /\ unchecked' \in BOOLEAN
           /\ call'[s] = NoCall
           /\ \A p \in Sessions \ {s} : call'[p] = call[p]
           /\ unchecked => unchecked'
           /\ ~ unchecked' => s \notin aged /\ call[s].kind # "reparent"
  BY DEF Commit, IInv, TypeOK

LEMMA CommitChecks ==
    ASSUME IInv, NEW s \in Sessions, Commit(s, Busy)
    PROVE  CheckInv'
  <1>1. Busy \in SUBSET Sessions
    BY DEF Busy
  <1>2. \A p \in Sessions \ aged' : call'[p] = NoCall
    <2> SUFFICES ASSUME NEW p \in Sessions \ aged', p # s PROVE call[p] = NoCall
      BY <1>1, CommitCalls
    <2>1. QED
      BY DEF Commit, Busy
  <1>3. QED
    BY <1>2 DEF CheckInv, UpToDate, NoCall, Stamping

LEMMA CommitCreateKeepsIInv ==
    ASSUME IInv, NEW s \in Sessions, CommitCreate(s)
    PROVE  IInv'
  <1> DEFINE t == call[s].target
             outdated == OutdatedByLeaf(t)
  <1>1. PICK n \in Nodes \ (nodes \cup gone) :
           /\ nodes' = nodes \cup {n}
           /\ parent' = [parent EXCEPT ![n] = t]
           /\ SetPolicy({n}, call[s].ai_read)
           /\ Excuse(IF MaskedBelow(t) THEN {n} ELSE {})
    BY DEF CommitCreate
  <1>2. /\ call[s].kind = "create" /\ t \in OrNone(nodes)
        /\ Commit(s, outdated) /\ outdated \in SUBSET Sessions
        /\ gone' = gone
    BY DEF CommitCreate, OutdatedByLeaf, Busy
  <1> HIDE DEF outdated
  <1>3. TypeOK /\ n \in Nodes \ nodes
    BY DEF IInv
  <1>4. /\ \A a, m \in nodes : IsDescendant(a, m)' <=> IsDescendant(a, m)
        /\ \A a \in nodes : IsDescendant(a, n)' => t # NoNode /\ IsDescendant(a, t)
        /\ \A m \in nodes : ~ IsDescendant(n, m)'
        /\ Acyclic => Acyclic'
    BY <1>1, <1>2, <1>3, LeafDescent
  <1>5. /\ call' \in [Sessions -> Call \cup {NoCall}]
        /\ aged' \subseteq Sessions
        /\ unchecked' \in BOOLEAN
        /\ call'[s] = NoCall
        /\ \A p \in Sessions \ {s} : call'[p] = call[p]
        /\ unchecked => unchecked'
        /\ ~ unchecked' => s \notin aged
    BY <1>2, CommitCalls
  <1>6. TypeOK'
    <2>1. parent' \in [Nodes -> OrNone(nodes')]
      BY <1>1, <1>2, <1>3 DEF TypeOK, OrNone
    <2>2. \A m \in Nodes \ nodes' : parent'[m] = NoNode
      BY <1>1, <1>3 DEF TypeOK
    <2>3. quarantined' \subseteq nodes' /\ denied' \subseteq nodes' \ quarantined'
      BY <1>1, <1>3 DEF TypeOK, SetPolicy
    <2>4. unmarked' \subseteq nodes'
      BY <1>1 DEF Excuse
    <2>5. QED
      BY <1>1, <1>2, <1>3, <1>5, <2>1, <2>2, <2>3, <2>4 DEF TypeOK
  \* The new leaf changes nothing for those that were there.
  <1>7. \A m \in nodes : /\ OwnPolicy(m)' = OwnPolicy(m)
                         /\ BelowQuarantine(m)' <=> BelowQuarantine(m)
                         /\ EffectivelyQuarantined(m)' <=> EffectivelyQuarantined(m)
    <2>1. quarantined \subseteq nodes /\ denied \subseteq nodes
      BY <1>3 DEF TypeOK
    <2>2. \A q \in nodes : /\ q \in quarantined' <=> q \in quarantined
                           /\ q \in denied' <=> q \in denied
      BY <1>1, <1>3 DEF SetPolicy
    <2>3. quarantined' \subseteq nodes \cup {n} /\ denied' \subseteq nodes \cup {n}
      BY <1>1, <2>1 DEF SetPolicy
    <2>4. \A m \in nodes : OwnPolicy(m)' = OwnPolicy(m)
      BY <2>2 DEF OwnPolicy
    <2>5. \A m \in nodes : BelowQuarantine(m)' <=> BelowQuarantine(m)
      BY <1>4, <2>1, <2>2, <2>3 DEF BelowQuarantine
    <2>6. \A m \in nodes : EffectivelyQuarantined(m)' <=> EffectivelyQuarantined(m)
      BY <1>4, <2>1, <2>2, <2>3, <2>5 DEF EffectivelyQuarantined
    <2>7. QED
      BY <2>4, <2>5, <2>6
  <1>8. CheckInv'
    \* A check is outdated by the new leaf only if it read t's children.
    <2>1. ASSUME NEW c, UpToDate(c), ~ (c.kind = "delete" /\ c.node = t),
                 Stamping(c) => t \notin c.walked
          PROVE  UpToDate(c)'
      <3>1. c.kind \in {"move", "delete", "policy"} => c.node \in nodes'
        BY <1>1, <2>1 DEF UpToDate
      <3>2. c.kind \in {"create", "move"} =>
               c.target \in OrNone(nodes') /\ c.ai_read = Inherited(c.target)'
        BY <1>1, <1>7, <2>1 DEF UpToDate, OrNone, Inherited
      <3>4. c.kind = "move" => c.target = NoNode \/ ~ IsDescendant(c.node, c.target)'
        BY <1>4, <2>1 DEF UpToDate, OrNone
      <3>0. parent'[n] = t /\ \A m \in nodes : parent'[m] = parent[m]
        BY <1>1, <1>3 DEF TypeOK
      <3>5. c.kind = "delete" =>
               /\ c.loaded_parent = parent'[c.node]
               /\ c.loaded_children = Children(c.node)'
               /\ c.loaded_parent # NoNode
        <4> SUFFICES ASSUME c.kind = "delete" PROVE
                /\ c.loaded_parent = parent'[c.node]
                /\ c.loaded_children = Children(c.node)'
                /\ c.loaded_parent # NoNode
          OBVIOUS
        <4>1. /\ c.loaded_parent = parent[c.node] /\ c.node \in nodes /\ c.node # t
              /\ c.loaded_children = Children(c.node)
              /\ c.loaded_parent # NoNode
          BY <2>1 DEF UpToDate
        <4>3. Children(c.node)' = Children(c.node)
          BY <1>1, <3>0, <4>1 DEF Children
        <4>4. QED
          BY <3>0, <4>1, <4>3
      <3>6. Stamping(c) => WalkHolds(c)'
        <4> SUFFICES ASSUME Stamping(c) PROVE WalkHolds(c)'
          OBVIOUS
        <4>1. WalkHolds(c) /\ t \notin c.walked
          BY <2>1 DEF UpToDate
        <4>2. Seen(c) \subseteq nodes /\ Seen(c)' = Seen(c)
          BY <4>1 DEF WalkHolds, Seen
        <4>3. \A m \in nodes' : parent'[m] \in c.walked => m \in Seen(c)
          BY <1>1, <3>0, <4>1 DEF WalkHolds
        <4>4. \A m \in Seen(c) : m \in c.to_set \/ OwnPolicy(m)' # "allow"
          BY <1>7, <4>1, <4>2 DEF WalkHolds
        <4>5. QED
          BY <1>1, <4>1, <4>2, <4>3, <4>4 DEF WalkHolds
      <3>7. QED
        BY <2>1, <3>1, <3>2, <3>4, <3>5, <3>6 DEF UpToDate, Stamping
    <2>2. \A p \in Sessions \ aged' : \E c : c = call'[p] /\ UpToDate(c)'
      <3>1. ASSUME NEW p \in Sessions \ aged', p # s
            PROVE  /\ call'[p] = call[p] /\ UpToDate(call[p])
                   /\ ~ (call[p].kind = "delete" /\ call[p].node = t)
                   /\ Stamping(call[p]) => t \notin call[p].walked
        <4>1. p \in Sessions \ aged /\ p \notin outdated
          BY <1>2, <3>1 DEF Commit
        <4>2. UpToDate(call[p])
          BY <4>1 DEF IInv, CheckInv
        <4>3. ~ (call[p].kind = "delete" /\ call[p].node = t)
          BY <4>1 DEF outdated, OutdatedByLeaf, Busy, NoCall
        <4>4. Stamping(call[p]) => t \notin call[p].walked
          BY <4>1 DEF outdated, OutdatedByLeaf, Busy, NoCall, Stamping
        <4>5. QED
          BY <1>5, <3>1, <4>2, <4>3, <4>4
      <3>2. call'[s] = NoCall /\ UpToDate(NoCall)
        BY <1>5 DEF UpToDate, NoCall, Stamping
      <3>3. NoCall.kind # "delete" /\ ~ Stamping(NoCall)
        BY DEF NoCall, Stamping
      <3>4. QED
        BY <2>1, <3>1, <3>2, <3>3
    <2>3. QED
      BY <2>2 DEF CheckInv
  <1>9. AcyclicUnlessUnchecked'
    BY <1>4, <1>5 DEF IInv, AcyclicUnlessUnchecked
  <1>10. QuarantineSticks'
    <2> DEFINE S == IF MaskedBelow(t) THEN {n} ELSE {}
    <2>1. ASSUME ~ unchecked', NEW m \in nodes', BelowQuarantine(m)', OwnPolicy(m)' = "allow"
          PROVE  m \in unmarked \cup S
      <3>1. s \notin aged /\ ~ unchecked
        BY <1>5, <2>1
      <3>2. CASE m \in nodes
        BY <1>7, <2>1, <3>1, <3>2 DEF IInv, QuarantineSticks
      <3>3. CASE m = n
        <4>1. PICK q \in quarantined' : IsDescendant(q, n)'
          BY <2>1, <3>3 DEF BelowQuarantine
        <4>2. n \notin quarantined'
          BY <2>1, <3>3, <1>6 DEF OwnPolicy, TypeOK
        <4>3. q \in quarantined /\ q \in nodes
          BY <1>1, <1>3, <4>1, <4>2 DEF TypeOK, SetPolicy
        <4>4. t # NoNode /\ BelowQuarantine(t)
          BY <1>4, <4>1, <4>3 DEF BelowQuarantine
        <4>5. call[s].ai_read = Inherited(t) /\ call[s].ai_read # "explicit_only"
          BY <1>1, <1>2, <3>1, <4>2 DEF IInv, CheckInv, UpToDate, SetPolicy
        <4>6. MaskedBelow(t)
          BY <4>4, <4>5 DEF MaskedBelow, Inherited
        <4>7. QED
          BY <3>3, <4>6
      <3>4. QED
        BY <1>1, <2>1, <3>2, <3>3
    <2>2. Excuse(S)
      BY <1>1
    <2> HIDE DEF S
    <2>3. QED
      BY <2>1, <2>2, ExcuseSuffices
  <1>11. QED
    BY <1>6, <1>8, <1>9, <1>10 DEF IInv

\* An up-to-date walk that is over has seen everything below its node.
LEMMA WalkedAll ==
    ASSUME TypeOK, NEW c, WalkHolds(c), c.to_walk = {},
           NEW a \in c.walked, NEW m \in nodes, IsDescendant(a, m)
    PROVE  m \in c.walked
  <1>1. c.walked \in SUBSET nodes /\ \A k \in nodes : parent[k] \in c.walked => k \in c.walked
    BY DEF WalkHolds, Seen
  <1>2. PICK W : W = c.walked
    OBVIOUS
  <1>3. QED
    BY <1>1, <1>2, ClosedBelow

LEMMA CommitMoveKeepsIInv ==
    ASSUME IInv, NEW s \in Sessions, CommitMove(s)
    PROVE  IInv'
  <1> DEFINE c == call[s]
             n == c.node
             t == c.target
             S == IF MaskedBelow(t) THEN Subtree(n) ELSE {}
  <1>1. /\ c.kind = "move" /\ c.to_walk = {}
        /\ n \in nodes /\ c.to_set \subseteq nodes /\ t \in OrNone(nodes)
        /\ parent' = IF t = c.loaded_parent THEN parent ELSE [parent EXCEPT ![n] = t]
        /\ SetPolicy(c.to_set, c.ai_read)
        /\ nodes' = nodes /\ gone' = gone
        /\ Excuse(S)
        /\ Commit(s, Busy)
    BY DEF CommitMove
  <1> HIDE DEF S
  <1>2. TypeOK /\ Busy \in SUBSET Sessions
    BY DEF IInv, Busy
  <1>3. /\ call' \in [Sessions -> Call \cup {NoCall}]
        /\ aged' \subseteq Sessions
        /\ unchecked' \in BOOLEAN
        /\ unchecked => unchecked'
        /\ ~ unchecked' => s \notin aged
    BY <1>1, <1>2, CommitCalls
  <1>4. /\ quarantined' \subseteq nodes /\ denied' \subseteq nodes \ quarantined'
        /\ unmarked' \subseteq nodes
    BY <1>1, <1>2 DEF TypeOK, SetPolicy, Excuse
  <1>5. TypeOK'
    BY <1>1, <1>2, <1>3, <1>4 DEF TypeOK, OrNone
  <1>6. CheckInv'
    BY <1>1, CommitChecks
  <1>7. ~ unchecked' => UpToDate(c)
    BY <1>3 DEF IInv, CheckInv
  <1>8. AcyclicUnlessUnchecked'
    <2> SUFFICES ASSUME ~ unchecked' PROVE Acyclic'
      BY DEF AcyclicUnlessUnchecked
    <2>1. Acyclic
      BY <1>3 DEF IInv, AcyclicUnlessUnchecked
    <2>2. t = NoNode \/ ~ IsDescendant(n, t)
      BY <1>1, <1>7 DEF UpToDate
    <2>3. CASE parent' = parent
      BY <1>1, <2>1, <2>3, SameDescent
    <2>4. CASE parent' = [parent EXCEPT ![n] = t]
      BY <1>1, <1>2, <2>1, <2>2, <2>4, MoveKeepsTree
    <2>5. QED
      BY <1>1, <2>3, <2>4
  <1>9. ASSUME ~ unchecked', NEW m \in nodes', BelowQuarantine(m)', OwnPolicy(m)' = "allow"
        PROVE  m \in unmarked \cup S
    <2>1. PICK q \in quarantined' : IsDescendant(q, m)'
      BY <1>9 DEF BelowQuarantine
    <2>2. UpToDate(c) /\ c.ai_read = Inherited(t)
      BY <1>1, <1>7, <1>9 DEF UpToDate
    <2>3. \A k \in nodes \ unmarked : BelowQuarantine(k) => OwnPolicy(k) # "allow"
      BY <1>3, <1>9 DEF IInv, QuarantineSticks
    <2>4. m \in nodes /\ q \in nodes
      BY <1>1, <1>4
    <2>5. \/ IsDescendant(q, m)
          \/ t # NoNode /\ IsDescendant(n, m) /\ IsDescendant(q, t)
      <3>1. CASE parent' = parent
        BY <1>1, <2>1, <3>1, SameDescent
      <3>2. CASE parent' = [parent EXCEPT ![n] = t]
        BY <1>1, <1>2, <2>1, <2>4, <3>2, MoveDescent
      <3>3. QED
        BY <1>1, <3>1, <3>2
    <2>6. CASE c.ai_read = "explicit_only"
      \* Whatever is below what has been walked has been walked, and is marked.
      <3>1. WalkHolds(c) /\ n \in c.walked /\ c.to_set \subseteq c.walked
        BY <1>1, <2>2, <2>6 DEF UpToDate, Stamping, WalkHolds, Seen
      <3>2. \A k : k \in c.to_set \/ OwnPolicy(k) # "allow" => OwnPolicy(k)' # "allow"
        BY <1>1, <2>6, QuarantineMarks
      <3>3. m \notin c.walked
        BY <1>9, <3>1, <3>2 DEF WalkHolds, Seen
      <3>4. ~ IsDescendant(n, m)
        BY <1>1, <1>2, <2>4, <3>1, <3>3, WalkedAll
      <3>5. IsDescendant(q, m) /\ q \notin c.walked
        BY <1>1, <1>2, <2>4, <2>5, <3>1, <3>3, <3>4, WalkedAll
      <3>6. q \in quarantined
        BY <1>1, <2>6, <3>1, <3>5 DEF SetPolicy
      <3>7. BelowQuarantine(m) /\ OwnPolicy(m) = "allow"
        BY <1>9, <3>2, <3>5, <3>6 DEF BelowQuarantine
      <3>8. QED
        BY <2>3, <2>4, <3>7
    <2>7. CASE c.ai_read # "explicit_only"
      <3>1. c.to_set = {} /\ c.ai_read = "allow"
        BY <1>1, <2>2, <2>7 DEF UpToDate, Stamping, Inherited
      <3>2. quarantined' = quarantined /\ denied' = denied
        BY <1>1, <3>1 DEF SetPolicy
      <3>3. CASE IsDescendant(q, m)
        <4>1. BelowQuarantine(m) /\ OwnPolicy(m) = "allow"
          BY <1>9, <3>2, <3>3 DEF BelowQuarantine, OwnPolicy
        <4>2. QED
          BY <2>3, <2>4, <4>1
      <3>4. CASE t # NoNode /\ IsDescendant(n, m) /\ IsDescendant(q, t)
        \* The deny above t masked its quarantine.
        <4>1. MaskedBelow(t)
          BY <2>2, <2>7, <3>2, <3>4 DEF MaskedBelow, BelowQuarantine, Inherited
        <4>2. QED
          BY <2>4, <3>4, <4>1 DEF S, Subtree
      <3>5. QED
        BY <2>5, <3>3, <3>4
    <2>8. QED
      BY <2>6, <2>7
  <1>10. QuarantineSticks'
    BY <1>1, <1>9, ExcuseSuffices
  <1>11. QED
    BY <1>5, <1>6, <1>8, <1>10 DEF IInv

LEMMA CommitReparentKeepsIInv ==
    ASSUME IInv, NEW s \in Sessions, CommitReparent(s)
    PROVE  IInv'
  <1>1. /\ call[s].kind = "reparent" /\ call[s].node \in nodes
        /\ call[s].target \in OrNone(nodes)
        /\ parent' = [parent EXCEPT ![call[s].node] = call[s].target]
        /\ Commit(s, Busy)
        /\ nodes' = nodes /\ gone' = gone /\ quarantined' = quarantined
        /\ denied' = denied /\ unmarked' = unmarked
    BY DEF CommitReparent
  <1>2. TypeOK /\ Busy \in SUBSET Sessions
    BY DEF IInv, Busy
  <1>3. /\ call' \in [Sessions -> Call \cup {NoCall}]
        /\ aged' \subseteq Sessions
        /\ unchecked' = TRUE
    BY <1>1, <1>2, CommitCalls
  <1>4. TypeOK'
    BY <1>1, <1>2, <1>3 DEF TypeOK, OrNone
  <1>5. CheckInv'
    BY <1>1, CommitChecks
  <1>6. QED
    BY <1>3, <1>4, <1>5 DEF IInv, AcyclicUnlessUnchecked, QuarantineSticks

\* An up-to-date deletion hands every child to the parent of the node.
LEMMA UpToDateDelete ==
    ASSUME IInv, NEW s \in Sessions, CommitDelete(s), ~ unchecked'
    PROVE  LET n == call[s].node
           IN  /\ n \in nodes /\ parent[n] # NoNode /\ Acyclic
               /\ parent' = [m \in Nodes |->
                                CASE m = n -> NoNode
                                  [] m \in Children(n) \ {n} -> parent[n]
                                  [] OTHER -> parent[m]]
  <1> DEFINE n == call[s].node
             adopter == Adopter(s)
  <1>1. /\ call[s].kind = "delete" /\ n \in nodes
        /\ Commit(s, Busy)
    BY DEF CommitDelete
  <1>2. s \notin aged /\ ~ unchecked
    BY <1>1, CommitCalls DEF Busy
  <1>3. UpToDate(call[s])
    BY <1>2 DEF IInv, CheckInv
  <1>4. /\ call[s].loaded_parent = parent[n] /\ parent[n] # NoNode
        /\ call[s].loaded_children = Children(n)
    BY <1>1, <1>3 DEF UpToDate
  <1>5. Acyclic
    BY <1>2 DEF IInv, AcyclicUnlessUnchecked
  <1>6. adopter = parent[n]
    <2> SUFFICES ASSUME parent[n] = n PROVE FALSE
      BY <1>4 DEF Adopter
    <2>1. {n} \in (SUBSET nodes) \ {{}}
      BY <1>1
    <2>2. QED
      BY <1>5, <2>1 DEF Acyclic
  <1>7. PICK late \in SUBSET (Children(n) \ call[s].loaded_children) :
           parent' = [m \in Nodes |->
                         CASE m = n \/ m \in late -> NoNode
                           [] m \in Children(n) \ (late \cup {n}) -> adopter
                           [] OTHER -> parent[m]]
    BY DEF CommitDelete
  <1>8. late = {}
    BY <1>4
  <1>9. parent' = [m \in Nodes |->
                      CASE m = n -> NoNode
                        [] m \in Children(n) \ {n} -> parent[n]
                        [] OTHER -> parent[m]]
    BY <1>6, <1>7, <1>8
  <1>10. QED
    BY <1>1, <1>4, <1>5, <1>9

LEMMA CommitDeleteKeepsIInv ==
    ASSUME IInv, NEW s \in Sessions, CommitDelete(s)
    PROVE  IInv'
  <1> DEFINE n == call[s].node
             adopter == Adopter(s)
  <1>1. /\ call[s].kind = "delete" /\ n \in nodes
        /\ nodes' = nodes \ {n} /\ gone' = gone \cup {n}
        /\ quarantined' = quarantined \ {n} /\ denied' = denied \ {n}
        /\ Excuse({})
        /\ Commit(s, Busy)
    BY DEF CommitDelete
  <1>2. TypeOK /\ Busy \in SUBSET Sessions
    BY DEF IInv, Busy
  <1>3. /\ call' \in [Sessions -> Call \cup {NoCall}]
        /\ aged' \subseteq Sessions
        /\ unchecked' \in BOOLEAN
        /\ unchecked => unchecked'
    BY <1>1, <1>2, CommitCalls
  <1>4. PICK late \in SUBSET (Children(n) \ call[s].loaded_children) :
           /\ Children(n) \ {n} # late => adopter \in OrNone(nodes)
           /\ parent' = [m \in Nodes |->
                 CASE m = n \/ m \in late -> NoNode
                   [] m \in Children(n) \ (late \cup {n}) -> adopter
                   [] OTHER -> parent[m]]
    BY DEF CommitDelete
  <1>5. TypeOK'
    <2>1. ASSUME NEW m \in Nodes
          PROVE  parent'[m] \in OrNone(nodes') /\ (m \notin nodes' => parent'[m] = NoNode)
      <3>1. CASE m = n \/ m \in late
        BY <1>4, <3>1 DEF OrNone
      <3>2. CASE m \in Children(n) \ (late \cup {n})
        <4>1. adopter \in OrNone(nodes) /\ adopter # n /\ parent'[m] = adopter /\ m \in nodes'
          BY <1>1, <1>2, <1>4, <3>2, ConstantsAssumption DEF TypeOK, Children, Adopter
        <4>2. QED
          BY <1>1, <4>1 DEF OrNone
      <3>3. CASE m # n /\ m \notin Children(n)
        <4>1. parent'[m] = parent[m]
          BY <1>4, <3>3
        <4>2. parent[m] # n
          BY <1>1, <1>2, <3>3, ConstantsAssumption DEF TypeOK, Children
        <4>3. parent[m] \in OrNone(nodes) /\ (m \notin nodes => parent[m] = NoNode)
          BY <1>2 DEF TypeOK
        <4>4. QED
          BY <1>1, <3>3, <4>1, <4>2, <4>3 DEF OrNone
      <3>4. QED
        BY <3>1, <3>2, <3>3
    <2>2. parent' \in [Nodes -> OrNone(nodes')]
      BY <1>4, <2>1
    <2>3. /\ quarantined' \subseteq nodes' /\ denied' \subseteq nodes' \ quarantined'
          /\ unmarked' \subseteq nodes'
      BY <1>1, <1>2 DEF TypeOK, Excuse
    <2>4. QED
      BY <1>1, <1>2, <1>3, <2>1, <2>2, <2>3 DEF TypeOK
  <1>6. CheckInv'
    BY <1>1, CommitChecks
  <1>7. ASSUME ~ unchecked'
        PROVE  /\ \A a, m \in nodes' : IsDescendant(a, m)' <=> IsDescendant(a, m)
               /\ Acyclic'
    <2>1. /\ parent[n] # NoNode /\ Acyclic
          /\ parent' = [m \in Nodes |->
                            CASE m = n -> NoNode
                              [] m \in Children(n) \ {n} -> parent[n]
                              [] OTHER -> parent[m]]
      BY <1>7, UpToDateDelete
    <2>2. QED
      BY <1>1, <1>2, <2>1, DeleteDescent
  <1>8. QuarantineSticks'
    <2>1. ASSUME ~ unchecked', NEW m \in nodes', BelowQuarantine(m)', OwnPolicy(m)' = "allow"
          PROVE  m \in unmarked
      <3>1. PICK q \in quarantined' : IsDescendant(q, m)'
        BY <2>1 DEF BelowQuarantine
      <3>2. q \in nodes' /\ q \in quarantined /\ m \in nodes
        BY <1>1, <1>2, <2>1 DEF TypeOK
      <3>3. IsDescendant(q, m)
        BY <1>7, <2>1, <3>1, <3>2
      <3>4. BelowQuarantine(m) /\ OwnPolicy(m) = "allow"
        BY <1>1, <2>1, <3>2, <3>3 DEF BelowQuarantine, OwnPolicy
      <3>5. QED
        BY <1>3, <2>1, <3>2, <3>4 DEF IInv, QuarantineSticks
    <2>2. QED
      BY <1>1, <2>1, ExcuseSuffices
  <1>9. QED
    BY <1>5, <1>6, <1>7, <1>8 DEF IInv, AcyclicUnlessUnchecked

LEMMA CommitSetPolicyKeepsIInv ==
    ASSUME IInv, NEW s \in Sessions, CommitSetPolicy(s)
    PROVE  IInv'
  <1> DEFINE c == call[s]
             n == c.node
             S == IF c.ai_read = "allow" THEN {n} ELSE {}
  <1>1. /\ c.kind = "policy" /\ c.to_walk = {}
        /\ n \in nodes /\ c.to_set \subseteq nodes
        /\ SetPolicy(c.to_set, c.ai_read)
        /\ nodes' = nodes /\ gone' = gone /\ parent' = parent
        /\ Excuse(S)
        /\ Commit(s, Busy)
    BY DEF CommitSetPolicy
  <1> HIDE DEF S
  <1>2. TypeOK /\ Busy \in SUBSET Sessions
    BY DEF IInv, Busy
  <1>3. /\ call' \in [Sessions -> Call \cup {NoCall}]
        /\ aged' \subseteq Sessions
        /\ unchecked' \in BOOLEAN
        /\ unchecked => unchecked'
        /\ ~ unchecked' => s \notin aged
    BY <1>1, <1>2, CommitCalls
  <1>4. TypeOK'
    <2>1. /\ quarantined' \subseteq nodes /\ denied' \subseteq nodes \ quarantined'
          /\ unmarked' \subseteq nodes
      BY <1>1, <1>2 DEF TypeOK, SetPolicy, Excuse
    <2>2. QED
      BY <1>1, <1>2, <1>3, <2>1 DEF TypeOK, OrNone
  <1>5. CheckInv'
    BY <1>1, CommitChecks
  <1>6. \A a, m : IsDescendant(a, m)' <=> IsDescendant(a, m)
    BY <1>1, SameDescent
  <1>7. AcyclicUnlessUnchecked'
    BY <1>1, <1>3, SameDescent DEF IInv, AcyclicUnlessUnchecked
  <1>8. ASSUME ~ unchecked', NEW m \in nodes', BelowQuarantine(m)', OwnPolicy(m)' = "allow"
        PROVE  m \in unmarked \cup S
    <2>1. PICK q \in quarantined' : IsDescendant(q, m)
      BY <1>6, <1>8 DEF BelowQuarantine
    <2>2. UpToDate(c)
      BY <1>3, <1>8 DEF IInv, CheckInv
    <2>3. \A k \in nodes \ unmarked : BelowQuarantine(k) => OwnPolicy(k) # "allow"
      BY <1>3, <1>8 DEF IInv, QuarantineSticks
    <2>4. m \in nodes
      BY <1>1
    <2>5. CASE c.ai_read = "explicit_only"
      \* What hangs below something stamped has been walked, and is marked.
      <3>1. WalkHolds(c) /\ c.to_set \subseteq c.walked
        BY <1>1, <2>2, <2>5 DEF UpToDate, Stamping, WalkHolds, Seen
      <3>2. \A k : k \in c.to_set \/ OwnPolicy(k) # "allow" => OwnPolicy(k)' # "allow"
        BY <1>1, <2>5, QuarantineMarks
      <3>3. m \notin c.walked
        BY <1>8, <3>1, <3>2 DEF WalkHolds, Seen
      <3>4. q \notin c.walked
        BY <1>1, <1>2, <2>1, <2>4, <3>1, <3>3, WalkedAll
      <3>5. q \in quarantined
        BY <1>1, <2>1, <2>5, <3>1, <3>4 DEF SetPolicy
      <3>6. BelowQuarantine(m) /\ OwnPolicy(m) = "allow"
        BY <1>8, <2>1, <3>2, <3>5 DEF BelowQuarantine
      <3>7. QED
        BY <2>3, <2>4, <3>6
    <2>6. CASE c.ai_read # "explicit_only"
      <3>1. c.to_set \subseteq {n}
        BY <1>1, <2>2, <2>6 DEF UpToDate, Stamping
      <3>2. q \in quarantined
        BY <1>1, <2>1, <2>6 DEF SetPolicy
      <3>3. BelowQuarantine(m)
        BY <2>1, <3>2 DEF BelowQuarantine
      <3>4. CASE OwnPolicy(m) = "allow"
        BY <2>3, <2>4, <3>3, <3>4
      <3>5. CASE OwnPolicy(m) # "allow"
        \* m has lost its policy, so its owner has just taken it.
        <4>1. c.ai_read = "allow"
          <5>1. CASE c.ai_read = "deny"
            BY <1>1, <1>8, <3>5, <5>1 DEF SetPolicy, OwnPolicy
          <5>2. c.ai_read \in Policies
            BY <1>1, <1>2 DEF TypeOK, Call, NoCall
          <5>3. QED
            BY <2>6, <5>1, <5>2 DEF Policies
        <4>2. m \in c.to_set
          BY <1>1, <1>8, <3>5, <4>1 DEF SetPolicy, OwnPolicy
        <4>3. QED
          BY <3>1, <4>1, <4>2 DEF S
      <3>6. QED
        BY <3>4, <3>5
    <2>7. QED
      BY <2>5, <2>6
  <1>9. QuarantineSticks'
    BY <1>1, <1>8, ExcuseSuffices
  <1>10. QED
    BY <1>4, <1>5, <1>7, <1>9 DEF IInv

LEMMA AbandonKeepsIInv ==
    ASSUME IInv, NEW s \in Sessions, Abandon(s)
    PROVE  IInv'
  <1>1. /\ call' = [call EXCEPT ![s] = NoCall]
        /\ aged' = aged \ {s}
        /\ nodes' = nodes /\ gone' = gone /\ parent' = parent
        /\ quarantined' = quarantined /\ denied' = denied
        /\ unmarked' = unmarked /\ unchecked' = unchecked
    BY DEF Abandon, tree_vars
  <1>2. TypeOK'
    BY <1>1 DEF IInv, TypeOK, OrNone
  <1>3. CheckInv'
    <2>1. UpToDate(NoCall)
      BY DEF UpToDate, NoCall, Stamping
    <2>2. \A p \in Sessions \ aged' : UpToDate(call'[p])
      BY <1>1, <2>1 DEF IInv, TypeOK, CheckInv
    <2>3. \A d : UpToDate(d) => UpToDate(d)'
      BY <1>1, SameTree
    <2>4. \A p \in Sessions \ aged' : \E d : d = call'[p] /\ UpToDate(d)'
      BY <2>2, <2>3
    <2>5. QED
      BY <2>4 DEF CheckInv
  <1>4. AcyclicUnlessUnchecked' /\ QuarantineSticks'
    BY <1>1, SameTree DEF IInv, AcyclicUnlessUnchecked, QuarantineSticks
  <1>5. QED
    BY <1>2, <1>3, <1>4 DEF IInv

LEMMA StutterKeepsIInv ==
    ASSUME IInv, UNCHANGED vars
    PROVE  IInv'
  <1>1. /\ Acyclic' <=> Acyclic
        /\ \A m : OwnPolicy(m)' = OwnPolicy(m)
        /\ \A m : BelowQuarantine(m)' <=> BelowQuarantine(m)
        /\ \A c : UpToDate(c)' <=> UpToDate(c)
    BY SameTree DEF vars
  <1>2. CheckInv'
    BY <1>1 DEF vars, IInv, CheckInv
  <1>3. QED
    BY <1>1, <1>2 DEF vars, IInv, TypeOK, OrNone, AcyclicUnlessUnchecked, QuarantineSticks

LEMMA NextKeepsIInv == IInv /\ [Next]_vars => IInv'
  <1> SUFFICES ASSUME IInv, [Next]_vars PROVE IInv'
    OBVIOUS
  <1>1. ASSUME NEW s \in Sessions, Step(s) PROVE IInv'
    <2> USE DEF Policies
    <2>1. CASE BeginCreate(s)
      <3>1. PICK target \in OrNone(nodes) :
               Begin(s, "create", NoNode, target, Inherited(target), {})
        BY <2>1 DEF BeginCreate
      <3>2. NoNode \in OrNone(nodes) /\ Inherited(target) \in Policies
        BY DEF OrNone, Inherited
      <3>3. QED
        BY <3>1, <3>2, BeginKeepsIInv
    <2>2. CASE BeginMove(s)
      <3>1. PICK n \in nodes, target \in OrNone(nodes) :
               /\ target # NoNode => ~ IsDescendant(n, target)
               /\ BeginMoveTo(s, n, target)
        BY <2>2 DEF BeginMove
      <3>2. n \in OrNone(nodes) /\ Inherited(target) \in Policies
        BY DEF OrNone, Inherited
      <3> DEFINE to_set == IF Inherited(target) = "explicit_only" /\ OwnPolicy(n) = "allow"
                           THEN {n} ELSE {}
      <3>3. /\ Begin(s, "move", n, target, Inherited(target), to_set)
            /\ to_set \in SUBSET nodes /\ to_set \subseteq {n}
            /\ Inherited(target) # "explicit_only" => to_set = {}
            /\ Inherited(target) = "explicit_only" => n \in to_set \/ OwnPolicy(n) # "allow"
        BY <3>1 DEF BeginMoveTo
      <3> HIDE DEF to_set
      <3>4. QED
        BY <3>1, <3>2, <3>3, BeginKeepsIInv
    <2>3. CASE BeginReparent(s)
      <3>1. PICK n \in nodes, target \in OrNone(nodes) :
               Begin(s, "reparent", n, target, "allow", {})
        BY <2>3 DEF BeginReparent
      <3>2. n \in OrNone(nodes)
        BY DEF OrNone
      <3>3. QED
        BY <3>1, <3>2, BeginKeepsIInv
    <2>4. CASE BeginDelete(s)
      <3>1. PICK n \in nodes : parent[n] # NoNode /\ Begin(s, "delete", n, NoNode, "allow", {})
        BY <2>4 DEF BeginDelete
      <3>2. n \in OrNone(nodes) /\ NoNode \in OrNone(nodes)
        BY DEF OrNone
      <3>3. QED
        BY <3>1, <3>2, BeginKeepsIInv
    <2>5. CASE BeginSetPolicy(s)
      <3>1. PICK n \in nodes, ai_read \in Policies :
               Begin(s, "policy", n, NoNode, ai_read, IF OwnPolicy(n) = ai_read THEN {} ELSE {n})
        BY <2>5 DEF BeginSetPolicy
      <3>2. n \in OrNone(nodes) /\ NoNode \in OrNone(nodes)
        BY DEF OrNone
      <3> DEFINE to_set == IF OwnPolicy(n) = ai_read THEN {} ELSE {n}
      <3>3. /\ Begin(s, "policy", n, NoNode, ai_read, to_set)
            /\ to_set \in SUBSET nodes /\ to_set \subseteq {n}
            /\ ai_read = "explicit_only" => n \in to_set \/ OwnPolicy(n) # "allow"
        BY <3>1
      <3> HIDE DEF to_set
      <3>4. QED
        BY <3>1, <3>2, <3>3, BeginKeepsIInv
    <2>6. CASE CommitCreate(s)
      BY <2>6, CommitCreateKeepsIInv
    <2>7. CASE CommitMove(s)
      BY <2>7, CommitMoveKeepsIInv
    <2>8. CASE CommitReparent(s)
      BY <2>8, CommitReparentKeepsIInv
    <2>9. CASE CommitDelete(s)
      BY <2>9, CommitDeleteKeepsIInv
    <2>10. CASE CommitSetPolicy(s)
      BY <2>10, CommitSetPolicyKeepsIInv
    <2>11. CASE Abandon(s)
      BY <2>11, AbandonKeepsIInv
    <2>12. CASE Walk(s)
      BY <2>12, WalkKeepsIInv
    <2>13. QED
      BY <1>1, <2>1, <2>2, <2>3, <2>4, <2>5, <2>6, <2>7, <2>8, <2>9, <2>10, <2>11, <2>12
      DEF Step
  <1>2. CASE UNCHANGED vars
    BY <1>2, StutterKeepsIInv
  <1>3. QED
    BY <1>1, <1>2 DEF Next

-----------------------------------------------------------------------------
\* The strengthened invariant holds throughout.
THEOREM Inductive == Spec => []IInv
  BY InitIInv, NextKeepsIInv, PTL DEF Spec

\* Every variable keeps its type; in particular every parent exists.
THEOREM TypeCorrect == Spec => []TypeOK
  <1>1. IInv => TypeOK
    BY DEF IInv
  <1>2. QED
    BY <1>1, Inductive, PTL

\* The nodes form a tree until a call commits on an aged check, or on none:
\* move_node's two tests, delete_node's adoption and create_node are enough.
THEOREM RemainsATree == Spec => []AcyclicUnlessUnchecked
  <1>1. IInv => AcyclicUnlessUnchecked
    BY DEF IInv
  <1>2. QED
    BY <1>1, Inductive, PTL

\* What came to lie below a quarantine that no deny masked carries a policy of
\* its own until its owner takes it, as long as no commit overtakes another
\* (stamp_quarantine_subtree, create_node).
THEOREM QuarantineIsSticky == Spec => []QuarantineSticks
  <1>1. IInv => QuarantineSticks
    BY DEF IInv
  <1>2. QED
    BY <1>1, Inductive, PTL

\* delete_node leaves everyone else's ancestors as they were.
LEMMA StepKeepsAncestry ==
    ASSUME IInv, [Next]_vars, nodes' \subseteq nodes, nodes' # nodes, ~ unchecked'
    PROVE  \A a, n \in nodes' : IsDescendant(a, n)' <=> IsDescendant(a, n)
  <1>1. PICK s \in Sessions : Step(s)
    BY DEF Next, vars
  <1>2. CommitDelete(s)
    BY <1>1 DEF Step, BeginCreate, BeginMove, BeginMoveTo, Walk, BeginReparent, BeginDelete, BeginSetPolicy, Begin,
                CommitCreate, CommitMove, CommitReparent, CommitSetPolicy, Abandon, tree_vars
  <1> DEFINE d == call[s].node
  <1>3. /\ d \in nodes /\ parent[d] # NoNode /\ Acyclic
        /\ parent' = [m \in Nodes |->
                         CASE m = d -> NoNode
                           [] m \in Children(d) \ {d} -> parent[d]
                           [] OTHER -> parent[m]]
    BY <1>2, UpToDateDelete
  <1>4. nodes' = nodes \ {d} /\ TypeOK
    BY <1>2 DEF CommitDelete, IInv
  <1> HIDE DEF d
  <1>5. QED
    BY <1>3, <1>4, DeleteDescent

THEOREM DeletionIsLocal == Spec => DeleteKeepsAncestry
  <1>1. IInv /\ [Next]_vars =>
          [ nodes' \subseteq nodes /\ nodes' # nodes /\ ~ unchecked' =>
              \A a, n \in nodes' : IsDescendant(a, n)' <=> IsDescendant(a, n) ]_vars
    BY StepKeepsAncestry
  <1>2. QED
    BY <1>1, Inductive, PTL DEF Spec, DeleteKeepsAncestry
=============================================================================
