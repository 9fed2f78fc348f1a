------------------------------- MODULE VaultBook -------------------------------
(***************************************************************************)
(* What vaults, users and grants promise together: who owns each vault and *)
(* what each user may do there.  A vault is founded, razed, or handed over *)
(* with its owner's account; between these its owner stays an editor and   *)
(* every other user's access changes one user and one vault at a time.     *)
(***************************************************************************)
EXTENDS Naturals

CONSTANTS Users, Agents, Vaults, Null

VARIABLES
    owner,      \* the owner of each vault, Null where there is no vault
    access,     \* what each user may do in each vault
    held        \* who has ever owned each vault

vars == <<owner, access, held>>

NoAccess == 0
Viewer == 1
Editor == 2
Roles == {Viewer, Editor}

Init ==
    /\ owner \in [Vaults -> Users \cup {Null}]
    /\ access \in [Vaults -> [Users -> Roles \cup {NoAccess}]]
    /\ held = [v \in Vaults |-> {owner[v]} \ {Null}]

\* A user founds a vault; one agent at most is let in with him.
Found(v, u) ==
    /\ owner[v] = Null
    /\ owner' = [owner EXCEPT ![v] = u]
    /\ \E g \in {{}} \cup {{a} : a \in Agents} :
          access' = [access EXCEPT ![v] = [x \in Users |->
                        IF x \in g \cup {u} THEN Editor ELSE NoAccess]]
    /\ held' = [held EXCEPT ![v] = @ \cup {u}]

Raze(v) ==
    /\ owner[v] # Null
    /\ owner' = [owner EXCEPT ![v] = Null]
    /\ access' = [access EXCEPT ![v] = [x \in Users |-> NoAccess]]
    /\ UNCHANGED held

\* The owner or an administrator sets what somebody else may do.
SetAccess(v, u, r) ==
    /\ owner[v] \notin {Null, u}
    /\ access' = [access EXCEPT ![v][u] = r]
    /\ UNCHANGED <<owner, held>>

\* The account u is closed: h owns its vaults, nobody inherits its grants, and
\* nobody else's access changes but a former owner's.  Closed by overlapping
\* requests, it may take vaults along that were its own and are others' by now.
HandOver(u, h) ==
    /\ u # h
    /\ \E vs \in SUBSET {v \in Vaults : owner[v] # Null /\ u \in held[v]} :
          /\ {v \in Vaults : owner[v] = u} \subseteq vs
          /\ owner' = [v \in Vaults |-> IF v \in vs THEN h ELSE owner[v]]
          /\ held' = [v \in Vaults |-> IF v \in vs THEN held[v] \cup {h} ELSE held[v]]
          /\ DOMAIN access' = Vaults
          /\ \A v \in Vaults, x \in Users :
                \/ access'[v][x] = IF owner'[v] = x THEN Editor
                                   ELSE IF x = u THEN NoAccess ELSE access[v][x]
                \/ owner[v] = x /\ owner'[v] # x

Next ==
    \/ \E v \in Vaults, u \in Users : Found(v, u)
    \/ \E v \in Vaults : Raze(v)
    \/ \E v \in Vaults, u \in Users, r \in Roles \cup {NoAccess} : SetAccess(v, u, r)
    \/ \E u, h \in Users : HandOver(u, h)

Spec == Init /\ [][Next]_vars
=============================================================================
