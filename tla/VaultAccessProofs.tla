--------------------------- MODULE VaultAccessProofs ---------------------------
(***************************************************************************)
(* VaultAccess for any users, vaults and sessions: what the two checks on  *)
(* "the last one" are worth; that every other check is all the database    *)
(* asks; that the cached lists are fresh; and that owners and access obey  *)
(* VaultBook.                                                              *)
(*                                                                         *)
(* First, the last one.                                                    *)
(*                                                                         *)
(* A request checks in one step and commits in another.  As long as no     *)
(* other commit comes between, its writes would still leave what the check *)
(* was to save (Spares), since the tables are those it has read; any       *)
(* commit takes this away from all the others at once, by ageing them.     *)
(***************************************************************************)
EXTENDS VaultAccess, FiniteSetTheorems, TLAPS

\* The writes of a request leave an administrator and, if they take a vault from
\* its owner at his own request, leave him another.
Spares(r) ==
    /\ overtaken \/ After(db, r.writes).admins # {}
    /\ r.kind = "delete_vault" => /\ Owned(db, r.actor) # {}
                                  /\ Owned(After(db, r.writes), r.actor) # {}

Lasting ==
    /\ req = [p \in Sessions |-> req[p]]
    /\ aged \subseteq Sessions
    /\ overtaken \in BOOLEAN
    /\ db.admins \subseteq db.users /\ db.users \subseteq used
    /\ \A p \in Sessions : req[p] # Idle => req[p].writes.born \subseteq used
    /\ \A p \in Sessions \ aged : req[p] # Idle => Spares(req[p])

LastInv == Lasting /\ AdminRemains

-----------------------------------------------------------------------------
(***************************************************************************)
(* What writes make of administrators and owners.                          *)
(***************************************************************************)
LEMMA AdminsAfter ==
    ASSUME NEW d, NEW w
    PROVE  /\ After(d, w).users = (d.users \cup w.born) \ w.drop
           /\ After(d, w).admins = {u \in (d.users \cup w.born) \ w.drop :
                                       IF u \in DOMAIN w.admin THEN w.admin[u] ELSE u \in d.admins}
  BY DEF After

\* Writes that are not about users leave the administrators.
LEMMA AdminsStay ==
    ASSUME NEW d, NEW w, d.admins \subseteq d.users,
           w.born = {}, w.drop = {}, DOMAIN w.admin = {}
    PROVE  After(d, w).admins = d.admins
  <1>1. \A u : u \in After(d, w).admins <=> u \in d.users /\ u \in d.admins
    BY AdminsAfter
  <1>2. QED
    BY <1>1

\* The last of a set is not one of several.
LEMMA AnotherOne ==
    ASSUME NEW S, Cardinality(S) > 1, NEW x
    PROVE  S \ {x} # {}
  <1> SUFFICES ASSUME S \ {x} = {}
               PROVE  FALSE
    OBVIOUS
  <1>1. S = {} \/ S = {x}
    OBVIOUS
  <1>2. Cardinality({}) = 0 /\ Cardinality({x}) = 1
    BY FS_EmptySet, FS_Singleton
  <1>3. Cardinality(S) = 0 \/ Cardinality(S) = 1
    BY <1>1, <1>2
  <1>4. QED
    BY <1>3

-----------------------------------------------------------------------------
(***************************************************************************)
(* Requests.                                                               *)
(***************************************************************************)
\* A new request has read the tables as they are.
LEMMA BeginKeeps ==
    ASSUME LastInv, NEW p \in Sessions, NEW actor, NEW kind, NEW writes,
           Begin(p, actor, kind, writes), used \subseteq used', writes.born \subseteq used',
           Spares([kind |-> kind, actor |-> actor, writes |-> writes])
    PROVE  LastInv'
  <1>1. req' = [q \in Sessions |-> IF q = p THEN [kind |-> kind, actor |-> actor, writes |-> writes]
                                           ELSE req[q]]
    BY DEF Begin, Ready, LastInv, Lasting
  <1>2. UNCHANGED <<db, overtaken>> /\ aged' = aged \ {p}
    BY DEF Begin, Ready
  <1>3. ASSUME NEW q \in Sessions \ aged', req'[q] # Idle
        PROVE  Spares(req[q])'
    <2>1. CASE q = p
      <3>1. PICK r : r = [kind |-> kind, actor |-> actor, writes |-> writes] /\ Spares(r)
        OBVIOUS
      <3>2. req'[q] = r
        BY <1>1, <2>1, <3>1
      <3>3. QED
        BY <1>2, <3>1, <3>2 DEF Spares, Owned
    <2>2. CASE q # p
      <3>1. req'[q] = req[q] /\ Spares(req[q])
        BY <1>1, <1>2, <1>3, <2>2 DEF LastInv, Lasting
      <3>2. QED
        BY <1>2, <3>1 DEF Spares, Owned
    <2>3. QED
      BY <2>1, <2>2
  <1>4. QED
    BY <1>1, <1>2, <1>3 DEF LastInv, Lasting, AdminRemains

\* One that touches no users spares the administrators there are.
LEMMA OtherSpares ==
    ASSUME LastInv, NEW r, r.kind # "delete_vault",
           r.writes.born = {}, r.writes.drop = {}, DOMAIN r.writes.admin = {}
    PROVE  Spares(r)
  BY AdminsStay DEF LastInv, Lasting, AdminRemains, Spares

\* The writes of the requests that are not about users, whatever they hold.
OtherWrites(w) ==
    \/ \E a, b, c : w = [NoWrites EXCEPT !.found = a, !.insert = b, !.empty = c]
    \/ \E a, b : w = [NoWrites EXCEPT !.rename = a, !.empty = b]
    \/ \E a, b : w = [NoWrites EXCEPT !.raze = a, !.empty = b]
    \/ \E a, b, c : w = [NoWrites EXCEPT !.insert = a, !.role = b, !.empty = c]
    \/ \E a, b : w = [NoWrites EXCEPT !.revoke = a, !.empty = b]
    \/ \E a : w = [NoWrites EXCEPT !.fill = a]

LEMMA OtherWritesFields ==
    ASSUME NEW w, OtherWrites(w)
    PROVE  w.born = {} /\ w.drop = {} /\ DOMAIN w.admin = {}
  <1>1. w.born = {} /\ w.drop = {} /\ w.admin = << >>
    BY DEF OtherWrites, NoWrites
  <1>2. QED
    BY <1>1

LEMMA OtherBeginKeeps ==
    ASSUME LastInv, NEW p \in Sessions, NEW actor, NEW kind, kind # "delete_vault",
           NEW w, OtherWrites(w), Begin(p, actor, kind, w), used \subseteq used'
    PROVE  LastInv'
  <1>1. PICK r : r = [kind |-> kind, actor |-> actor, writes |-> w]
    OBVIOUS
  <1>2. Spares(r)
    BY <1>1, OtherWritesFields, OtherSpares
  <1>3. QED
    BY <1>1, <1>2, OtherWritesFields, BeginKeeps

\* create_vault, rename_vault, grants and lists.
LEMMA VaultRequestsKeep ==
    ASSUME LastInv, NEW p \in Sessions, NEW u \in Humans, VaultRequest(p, u),
           \A v \in Vaults : ~ DeleteVault(p, u, v)
    PROVE  LastInv'
  <1>1. ASSUME NEW n \in Names, CreateVault(p, u, n) PROVE LastInv'
    <2>1. PICK a, b, c :
              Begin(p, u, "create_vault", [NoWrites EXCEPT !.found = a, !.insert = b, !.empty = c])
      BY <1>1, Zenon DEF CreateVault
    <2>2. OtherWrites([NoWrites EXCEPT !.found = a, !.insert = b, !.empty = c])
      BY Zenon DEF OtherWrites
    <2>3. used \subseteq used'
      BY <1>1, Zenon DEF CreateVault
    <2>4. QED
      BY <2>1, <2>2, <2>3, OtherBeginKeeps
  <1>2. ASSUME NEW v \in Vaults, NEW n \in Names, RenameVault(p, u, v, n) PROVE LastInv'
    <2>1. PICK a, b : Begin(p, u, "rename_vault", [NoWrites EXCEPT !.rename = a, !.empty = b])
      BY <1>2, Zenon DEF RenameVault
    <2>2. OtherWrites([NoWrites EXCEPT !.rename = a, !.empty = b])
      BY Zenon DEF OtherWrites
    <2>3. used \subseteq used'
      BY <1>2, Zenon DEF RenameVault
    <2>4. QED
      BY <2>1, <2>2, <2>3, OtherBeginKeeps
  <1>3. ASSUME NEW v \in Vaults, NEW x \in Users, NEW r \in Roles, GrantVaultAccess(p, u, v, x, r)
        PROVE  LastInv'
    <2>1. PICK a, b, c :
              Begin(p, u, "grant_vault_access", [NoWrites EXCEPT !.insert = a, !.role = b, !.empty = c])
      BY <1>3, Zenon DEF GrantVaultAccess
    <2>2. OtherWrites([NoWrites EXCEPT !.insert = a, !.role = b, !.empty = c])
      BY Zenon DEF OtherWrites
    <2>3. used \subseteq used'
      BY <1>3, Zenon DEF GrantVaultAccess
    <2>4. QED
      BY <2>1, <2>2, <2>3, OtherBeginKeeps
  <1>4. ASSUME NEW v \in Vaults, NEW x \in Users, RevokeVaultAccess(p, u, v, x) PROVE LastInv'
    <2>1. PICK a, b : Begin(p, u, "revoke_vault_access", [NoWrites EXCEPT !.revoke = a, !.empty = b])
      BY <1>4, Zenon DEF RevokeVaultAccess
    <2>2. OtherWrites([NoWrites EXCEPT !.revoke = a, !.empty = b])
      BY Zenon DEF OtherWrites
    <2>3. used \subseteq used'
      BY <1>4, Zenon DEF RevokeVaultAccess
    <2>4. QED
      BY <2>1, <2>2, <2>3, OtherBeginKeeps
  <1>5. ASSUME ListVaults(p, u) PROVE LastInv'
    <2>1. PICK a : Begin(p, u, "list_vaults", [NoWrites EXCEPT !.fill = a])
      BY <1>5, Zenon DEF ListVaults
    <2>2. OtherWrites([NoWrites EXCEPT !.fill = a])
      BY Zenon DEF OtherWrites
    <2>3. used \subseteq used'
      BY <1>5, Zenon DEF ListVaults
    <2>4. QED
      BY <2>1, <2>2, <2>3, OtherBeginKeeps
  <1>6. QED
    BY <1>1, <1>2, <1>3, <1>4, <1>5 DEF VaultRequest

LEMMA AdminDeleteVaultKeeps ==
    ASSUME LastInv, NEW p \in Sessions, NEW u, NEW v, AdminDeleteVault(p, u, v)
    PROVE  LastInv'
  <1>1. PICK a, b : Begin(p, u, "admin_delete_vault", [NoWrites EXCEPT !.raze = a, !.empty = b])
    BY Zenon DEF AdminDeleteVault
  <1>2. OtherWrites([NoWrites EXCEPT !.raze = a, !.empty = b])
    BY Zenon DEF OtherWrites
  <1>3. used \subseteq used'
    BY Zenon DEF AdminDeleteVault
  <1>4. QED
    BY <1>1, <1>2, <1>3, OtherBeginKeeps

\* delete_vault leaves another vault.
LEMMA DeleteVaultKeeps ==
    ASSUME LastInv, NEW p \in Sessions, NEW u, NEW v \in Vaults, DeleteVault(p, u, v)
    PROVE  LastInv'
  <1>1. PICK w : /\ Begin(p, u, "delete_vault", w)
                 /\ \E b : w = [NoWrites EXCEPT !.raze = {v}, !.empty = b]
    BY Zenon DEF DeleteVault
  <1>2. OtherWrites(w)
    BY <1>1, Zenon DEF OtherWrites
  <1>3. w.raze = {v} /\ w.found = {} /\ DOMAIN w.handover = {}
    BY <1>1 DEF NoWrites
  <1>4. \A x \in Vaults : x # v => After(db, w).owner[x] = db.owner[x]
    BY <1>3 DEF After
  <1>5. v \in Owned(db, u) /\ Owned(db, u) \ {v} # {}
    BY AnotherOne DEF DeleteVault, Owned
  <1>6. Owned(After(db, w), u) # {}
    BY <1>4, <1>5 DEF Owned
  <1>7. After(db, w).admins = db.admins
    BY <1>2, OtherWritesFields, AdminsStay DEF LastInv, Lasting
  <1>8. PICK r : r = [kind |-> "delete_vault", actor |-> u, writes |-> w]
    OBVIOUS
  <1>9. Spares(r)
    BY <1>5, <1>6, <1>7, <1>8 DEF Spares, LastInv, AdminRemains
  <1>10. w.born = {} /\ used' = used
    BY <1>2, OtherWritesFields DEF DeleteVault
  <1>11. QED
    BY <1>1, <1>8, <1>9, <1>10, BeginKeeps

\* create_user adds one.
LEMMA CreateUserKeeps ==
    ASSUME LastInv, NEW p \in Sessions, NEW actor, NEW u, NEW admin \in BOOLEAN,
           CreateUser(p, actor, u, admin)
    PROVE  LastInv'
  <1>1. PICK w : /\ Begin(p, actor, "create_user", w)
                 /\ w = [NoWrites EXCEPT !.born = {u}, !.admin = [x \in {u} |-> admin]]
    BY DEF CreateUser
  <1>2. w.born = {u} /\ w.drop = {} /\ DOMAIN w.admin = {u}
    BY <1>1 DEF NoWrites
  <1>3. u \notin db.users /\ u \in used' /\ used \subseteq used' /\ actor \in db.admins
        /\ actor \in db.users
    BY DEF CreateUser, IsAdmin, LastInv, Lasting
  <1>4. actor \in After(db, w).admins
    BY <1>2, <1>3, AdminsAfter
  <1>5. PICK r : r = [kind |-> "create_user", actor |-> actor, writes |-> w]
    OBVIOUS
  <1>6. Spares(r)
    BY <1>4, <1>5 DEF Spares
  <1>7. QED
    BY <1>1, <1>2, <1>3, <1>5, <1>6, BeginKeeps

\* update_user_details takes the role from one of several.
LEMMA SetAdminKeeps ==
    ASSUME LastInv, NEW p \in Sessions, NEW actor, NEW u, NEW admin \in BOOLEAN,
           SetAdmin(p, actor, u, admin)
    PROVE  LastInv'
  <1>1. PICK w : /\ Begin(p, actor, "update_user", w)
                 /\ w = [NoWrites EXCEPT !.admin = [x \in {u} |-> admin]]
    BY DEF SetAdmin
  <1>2. w.born = {} /\ w.drop = {} /\ DOMAIN w.admin = {u} /\ w.admin[u] = admin
    BY <1>1 DEF NoWrites
  <1>3. After(db, w).admins # {}
    <2>1. CASE admin
      <3>1. u \in After(db, w).admins
        BY ZenonT(60), <1>2, <2>1, AdminsAfter DEF SetAdmin
      <3>2. QED
        BY <3>1
    <2>2. CASE ~ admin
      <3>1. PICK x : x \in db.admins \ {u}
        BY <2>2, AnotherOne DEF SetAdmin
      <3>2. x \in After(db, w).admins
        BY <1>2, <3>1, AdminsAfter DEF LastInv, Lasting
      <3>3. QED
        BY <3>2
    <2>3. QED
      BY <2>1, <2>2
  <1>4. PICK r : r = [kind |-> "update_user", actor |-> actor, writes |-> w]
    OBVIOUS
  <1>5. Spares(r)
    BY <1>3, <1>4 DEF Spares
  <1>6. used' = used
    BY DEF SetAdmin
  <1>7. QED
    BY <1>1, <1>2, <1>4, <1>5, <1>6, BeginKeeps

\* delete_user: the acting administrator remains.
LEMMA DeleteUserKeeps ==
    ASSUME LastInv, NEW p \in Sessions, NEW actor, NEW u, DeleteUser(p, actor, u)
    PROVE  LastInv'
  <1>1. PICK w : /\ Begin(p, actor, "delete_user", w)
                 /\ \E a, b : w = [NoWrites EXCEPT !.handover = a, !.rename = b, !.heir = actor,
                                                   !.drop = {u}]
    BY Zenon DEF DeleteUser
  <1>2. w.born = {} /\ w.drop = {u} /\ w.admin = << >>
    BY <1>1 DEF NoWrites
  <1>3. actor \in db.admins /\ actor \in db.users /\ actor # u
    BY Zenon DEF DeleteUser, IsAdmin
  <1>4. actor \in After(db, w).admins
    BY <1>2, <1>3, AdminsAfter
  <1>5. PICK r : r = [kind |-> "delete_user", actor |-> actor, writes |-> w]
    OBVIOUS
  <1>6. Spares(r)
    BY <1>4, <1>5 DEF Spares
  <1>7. used' = used
    BY Zenon DEF DeleteUser
  <1>8. QED
    BY <1>1, <1>2, <1>5, <1>6, <1>7, BeginKeeps

-----------------------------------------------------------------------------
(***************************************************************************)
(* Commits, and the theorems.                                              *)
(***************************************************************************)
LEMMA CommitKeeps ==
    ASSUME LastInv, NEW p \in Sessions, Commit(p)
    PROVE  LastInv'
  <1>1. /\ req[p] # Idle /\ used' = used
        /\ req' = [q \in Sessions |-> IF q = p THEN Idle ELSE req[q]]
    BY DEF Commit, LastInv, Lasting
  <1>2. CASE Accepted(p)
    <2>1. /\ db' = After(db, req[p].writes) /\ aged' = (aged \cup Busy) \ {p}
          /\ overtaken' = (overtaken \/ (p \in aged /\ db'.admins # db.admins))
      BY <1>2 DEF Commit
    <2>2. db'.admins \subseteq db'.users /\ db'.users \subseteq used'
      BY <1>1, <2>1, AdminsAfter DEF LastInv, Lasting
    <2>3. \A q \in Sessions \ aged' : req'[q] = Idle
      BY <1>1, <2>1 DEF Busy
    <2>4. AdminRemains'
      <3>1. CASE p \in aged
        BY <2>1, <3>1 DEF AdminRemains, LastInv
      <3>2. CASE p \notin aged
        BY <1>1, <2>1, <3>2 DEF AdminRemains, LastInv, Lasting, Spares
      <3>3. QED
        BY <3>1, <3>2
    <2>5. aged' \subseteq Sessions /\ overtaken' \in BOOLEAN
      BY <2>1 DEF LastInv, Lasting, Busy
    <2>6. \A q \in Sessions : req'[q] # Idle => req'[q].writes.born \subseteq used'
      BY <1>1 DEF LastInv, Lasting
    <2>7. QED
      BY <1>1, <2>2, <2>3, <2>4, <2>5, <2>6 DEF LastInv, Lasting
  <1>3. CASE ~ Accepted(p)
    <2>1. UNCHANGED <<db, overtaken>> /\ aged' = aged \ {p}
      BY <1>3 DEF Commit
    <2>2. \A q \in Sessions : req'[q] # Idle => q # p /\ req'[q] = req[q]
      BY <1>1
    <2>3. ASSUME NEW q \in Sessions \ aged', req'[q] # Idle PROVE Spares(req[q])'
      <3>1. q \notin aged /\ req'[q] = req[q] /\ Spares(req[q])
        BY <2>1, <2>2, <2>3 DEF LastInv, Lasting
      <3>2. QED
        BY <2>1, <3>1 DEF Spares, Owned
    <2>4. QED
      BY <1>1, <2>1, <2>2, <2>3 DEF LastInv, Lasting, AdminRemains
  <1>4. QED
    BY <1>2, <1>3

LEMMA InitLastInv == Init => LastInv
  <1> SUFFICES ASSUME Init
               PROVE  LastInv
    OBVIOUS
  <1>1. db.admins # {} /\ db.admins \subseteq db.users /\ db.users \subseteq used
    <2>1. PICK as \in (SUBSET Humans) \ {{}}, gs \in SUBSET Agents :
              \E a, b, c, d :
                 /\ db = [users |-> as \cup gs, admins |-> as, signed |-> {}, owner |-> a,
                          name |-> b, grants |-> c, lists |-> d]
                 /\ used = as \cup gs
      BY Zenon DEF Init
    <2>2. db.admins = as /\ db.users = as \cup gs /\ used = as \cup gs
      BY <2>1
    <2>3. as # {}
      OBVIOUS
    <2>4. QED
      BY <2>2, <2>3
  <1>2. \A p \in Sessions : req[p] = Idle
    BY DEF Init
  <1>3. req = [p \in Sessions |-> req[p]] /\ aged = {} /\ overtaken = FALSE
    BY DEF Init
  <1>4. QED
    BY <1>1, <1>2, <1>3 DEF LastInv, Lasting, AdminRemains

LEMMA NextKeepsLastInv == LastInv /\ [Next]_vars => LastInv'
  <1> SUFFICES ASSUME LastInv, [Next]_vars
               PROVE  LastInv'
    OBVIOUS
  <1>1. ASSUME NEW p \in Sessions, NEW u \in Humans, VaultRequest(p, u) PROVE LastInv'
    BY <1>1, VaultRequestsKeep, DeleteVaultKeeps
  <1>2. ASSUME NEW p \in Sessions, NEW u \in Humans, AdminRequest(p, u) PROVE LastInv'
    BY <1>2, AdminDeleteVaultKeeps, CreateUserKeeps, SetAdminKeeps, DeleteUserKeeps DEF AdminRequest
  <1>3. ASSUME NEW p \in Sessions, Commit(p) PROVE LastInv'
    BY <1>3, CommitKeeps
  <1>4. CASE UNCHANGED vars
    BY <1>4 DEF vars, LastInv, Lasting, AdminRemains, Spares, Owned
  <1>5. QED
    BY <1>1, <1>2, <1>3, <1>4 DEF Next

\* There is an administrator left, however many requests overlap, until one that
\* was overtaken takes one away (update_user_details, delete_user).
THEOREM AnAdminRemains == Spec => []AdminRemains
  <1>1. LastInv => AdminRemains
    BY DEF LastInv
  <1>2. QED
    BY InitLastInv, NextKeepsLastInv, <1>1, PTL DEF Spec

\* delete_vault, unless overtaken, leaves its owner a vault.
THEOREM OwnersKeepAVault == Spec => OwnerKeepsAVault
  <1> DEFINE Keeps == \A p \in Busy \ aged :
                         req[p].kind = "delete_vault" /\ req'[p] = Idle
                            => Owned(db', req[p].actor) # {}
  <1>1. LastInv /\ [Next]_vars => [Keeps]_vars
    <2>1. ASSUME LastInv, Next, NEW p \in Busy \ aged, req[p].kind = "delete_vault", req'[p] = Idle
          PROVE  Owned(db', req[p].actor) # {}
      <3>1. p \in Sessions /\ req[p] # Idle /\ Spares(req[p])
        BY <2>1 DEF Busy, LastInv, Lasting
      <3>2. Commit(p)
        <4>1. PICK q \in Sessions : Commit(q)
          <5>1. ASSUME NEW q \in Sessions, NEW u, NEW kind, NEW w, Begin(q, u, kind, w) PROVE FALSE
            <6>1. req[q] = Idle /\ req' = [req EXCEPT ![q] = [kind |-> kind, actor |-> u, writes |-> w]]
              BY <5>1 DEF Begin, Ready
            <6>2. req'[p] = req[p]
              BY <3>1, <6>1 DEF LastInv, Lasting
            <6>3. QED
              BY <2>1, <3>1, <6>2
          <5>2. ASSUME NEW q \in Sessions, NEW u \in Humans, VaultRequest(q, u) \/ AdminRequest(q, u)
                PROVE  \E x, kind, w : Begin(q, x, kind, w)
            BY <5>2, Zenon DEF VaultRequest, AdminRequest, CreateVault, RenameVault, DeleteVault,
                 GrantVaultAccess, RevokeVaultAccess, ListVaults, AdminDeleteVault, CreateUser,
                 SetAdmin, DeleteUser
          <5>3. QED
            BY <2>1, <5>1, <5>2 DEF Next
        <4>2. q = p
          BY <2>1, <3>1, <4>1 DEF Commit, LastInv, Lasting
        <4>3. QED
          BY <4>1, <4>2
      <3>3. db' = After(db, req[p].writes) \/ db' = db
        BY <3>2 DEF Commit
      <3>4. QED
        BY <2>1, <3>1, <3>3 DEF Spares
    <2>2. QED
      BY <2>1 DEF vars
  <1>2. QED
    BY InitLastInv, NextKeepsLastInv, <1>1, PTL DEF Spec, OwnerKeepsAVault

-----------------------------------------------------------------------------
(***************************************************************************)
(* What else is true of the tables and of the requests under way (BookInv),*)
(* for the types, the checks, the cached lists and VaultBook.              *)
(*                                                                         *)
(* A request that nobody has overtaken would be accepted (Fits) and would  *)
(* leave every list right (Refreshes), since the tables are those it has   *)
(* read.  Of one that was overtaken its Shape remains: what it writes of   *)
(* owners and grants is one step of VaultBook whatever the tables are by   *)
(* then, if the database accepts it.  Why no name that delete_user makes   *)
(* up is taken: no name in the tables carries the mark "from u, vault v"   *)
(* of a user who is still there (Marked, Gone).                            *)
(***************************************************************************)
\* A name "... (from x, vault v)", longer than anybody types.
Marked(s, x) == Len(s) >= 3 /\ s[Len(s)] \in Vaults /\ s[Len(s) - 1] = x

\* Users that are being created, and those that are deleted or were given up.
Born == UNION {req[p].writes.born : p \in Busy}
Gone == used \ (db.users \cup Born)

Tables ==
    [users : SUBSET Users, admins : SUBSET Users, signed : SUBSET Users,
     owner : [Vaults -> Users \cup {Null}], name : [Vaults -> Seq(Words) \cup {Null}],
     grants : [Vaults -> [Users -> Roles \cup {NoAccess}]],
     lists : [Users -> (SUBSET (Vaults \X Seq(Words))) \cup {Null}]]

NamesOK ==
    \A v \in Vaults :
        IF db.owner[v] = Null THEN db.name[v] = Null
        ELSE /\ db.name[v] \in Seq(Words) /\ db.name[v] # <<>>
             /\ \A x : Marked(db.name[v], x) => x \in Gone

DbOK ==
    /\ db \in Tables
    /\ Keys(db)
    /\ NamesOK
    /\ \A u \in Users \ db.users : db.lists[u] = Null
    /\ db.users \subseteq used /\ Live(db) \subseteq used
    /\ held \in [Vaults -> SUBSET Users]
    /\ \A v \in Live(db) : db.owner[v] \in held[v]

Founding(w) == {f.vault : f \in w.found}

\* What a request writes has the columns' types.
WritesOK(w) ==
    /\ w.found = {} \/ \E f \in [vault : Vaults, owner : Users, name : Names] : w.found = {f}
    /\ \A v \in DOMAIN w.rename :
          /\ w.rename[v] \in Seq(Words) /\ w.rename[v] # <<>>
          /\ \A x : Marked(w.rename[v], x) => x \in w.drop \cup Gone
    /\ \A v \in DOMAIN w.handover : w.handover[v] \in Users
    /\ \A c \in DOMAIN w.insert : w.insert[c] \in Roles
    /\ \A c \in DOMAIN w.role : w.role[c] \in Roles
    /\ w.born \subseteq Users /\ w.drop \subseteq Users
    /\ w.drop # {} => w.heir \in Users
    /\ \A u \in DOMAIN w.fill : w.fill[u] \in SUBSET (Vaults \X Seq(Words))

\* The rows of owners and grants that a request writes: of one vault, of one
\* grant, of the vaults of one closed account, or none.
Rows(w) == <<w.found, DOMAIN w.handover, w.raze, DOMAIN w.insert, DOMAIN w.role, w.revoke, w.drop>>

Founds(w) ==
    \E v \in Vaults, u \in Users, s \in Names, gs \in {{}} \cup {{g} : g \in Agents} :
       /\ Rows(w) = <<{[vault |-> v, owner |-> u, name |-> s]}, {}, {}, {v} \X gs, {}, {}, {}>>
       /\ \A c \in {v} \X gs : w.insert[c] = Editor

Razes(w) == \E v \in Vaults : Rows(w) = <<{}, {}, {v}, {}, {}, {}, {}>>

Grants(w) ==
    \E v \in Vaults, u \in Users, r \in Roles :
       /\ Rows(w) \in {<<{}, {}, {}, {<<v, u>>}, {}, {}, {}>>, <<{}, {}, {}, {}, {<<v, u>>}, {}, {}>>}
       /\ \A c \in DOMAIN w.insert : w.insert[c] = r
       /\ \A c \in DOMAIN w.role : w.role[c] = r

Revokes(w) == \E v \in Vaults, u \in Users : Rows(w) = <<{}, {}, {}, {}, {}, {<<v, u>>}, {}>>

Closes(w) ==
    \E u, h \in Users, vs \in SUBSET Vaults :
       /\ u # h /\ w.heir = h
       /\ Rows(w) = <<{}, vs, {}, {}, {}, {}, {u}>>
       /\ \A v \in vs : w.handover[v] = h

Spans(w) == Rows(w) = <<{}, {}, {}, {}, {}, {}, {}>>

Shape(r) ==
    LET w == r.writes
    IN  IF r.kind = "delete_user" THEN Closes(w)
        ELSE Founds(w) \/ Razes(w) \/ Grants(w) \/ Revokes(w) \/ Spans(w)

\* Ids are given out once: no two requests found the same vault or create the
\* same user, nobody deletes one who is not there yet, and who loses vaults by
\* his deletion has owned them.
Apart ==
    /\ \A p \in Busy :
          LET w == req[p].writes
          IN  /\ w.born \subseteq used \ db.users /\ w.drop \subseteq used
              /\ Founding(w) \subseteq used \ Live(db)
              /\ \A v \in DOMAIN w.handover \cap Vaults : w.drop \subseteq held[v]
    /\ \A p, q \in Busy :
          LET w == req[p].writes
              x == req[q].writes
          IN  /\ w.drop \cap x.born = {}
              /\ p # q => w.born \cap x.born = {} /\ Founding(w) \cap Founding(x) = {}

\* The tables would accept the writes.
Fits(w) == RowsThere(db, w) /\ Keys(After(db, w))

\* Whose lists delete_user forgets.
Inherited(r) ==
    IF r.kind # "delete_user" \/ r.writes.handover = <<>> THEN {}
    ELSE {r.writes.heir} \cup {u \in Users : \E v \in DOMAIN r.writes.rename :
                                                db.grants[v][u] # NoAccess}

\* The writes leave every other list as the tables are then.
Refreshes(r) ==
    LET after == After(db, r.writes)
    IN  \A u \in after.users \ (excused \cup Inherited(r)) :
           after.lists[u] \in {Null, BuildVaultList(after, u)}

BookInv ==
    /\ req = [p \in Sessions |-> req[p]]
    /\ aged \subseteq Busy /\ excused \subseteq Users
    /\ DbOK
    /\ \A p \in Busy : WritesOK(req[p].writes) /\ Shape(req[p])
    /\ Apart
    /\ \A p \in Busy \ aged : Fits(req[p].writes) /\ Refreshes(req[p])
    /\ ListsFresh

-----------------------------------------------------------------------------
(***************************************************************************)
(* The tables after some writes, cell by cell.                             *)
(***************************************************************************)
LEMMA TheFounded ==
    ASSUME NEW w, NEW f, w.found = {f}
    PROVE  (CHOOSE g \in w.found : g.vault = f.vault) = f
  OBVIOUS

\* Each of these follows After's own case distinction.
LEMMA OwnerAfter ==
    ASSUME NEW d, NEW w, NEW v \in Vaults
    PROVE  /\ v \in w.raze => After(d, w).owner[v] = Null
           /\ \A f : v \notin w.raze /\ w.found = {f} /\ f.vault = v
                      => After(d, w).owner[v] = f.owner
           /\ v \notin w.raze /\ v \notin Founding(w)
                 => After(d, w).owner[v] = IF v \in DOMAIN w.handover THEN w.handover[v]
                                           ELSE d.owner[v]
  <1>1. After(d, w).owner[v] = IF v \in w.raze THEN Null
                               ELSE IF \E f \in w.found : f.vault = v
                                    THEN (CHOOSE f \in w.found : f.vault = v).owner
                               ELSE IF v \in DOMAIN w.handover THEN w.handover[v]
                               ELSE d.owner[v]
    BY DEF After
  <1>2. ASSUME NEW f, v \notin w.raze, w.found = {f}, f.vault = v
        PROVE  After(d, w).owner[v] = f.owner
    <2>1. (CHOOSE g \in w.found : g.vault = v) = f
      BY <1>2, TheFounded
    <2>2. \E g \in w.found : g.vault = v
      BY <1>2
    <2>3. QED
      BY <1>1, <1>2, <2>1, <2>2, Zenon
  <1>3. QED
    BY <1>1, <1>2 DEF Founding

LEMMA NameAfter ==
    ASSUME NEW d, NEW w, NEW v \in Vaults
    PROVE  /\ v \in w.raze => After(d, w).name[v] = Null
           /\ \A f : v \notin w.raze /\ w.found = {f} /\ f.vault = v
                      => After(d, w).name[v] = f.name
           /\ v \notin w.raze /\ v \notin Founding(w)
                 => After(d, w).name[v] = IF v \in DOMAIN w.rename THEN w.rename[v]
                                          ELSE d.name[v]
  <1>1. After(d, w).name[v] = IF v \in w.raze THEN Null
                              ELSE IF \E f \in w.found : f.vault = v
                                   THEN (CHOOSE f \in w.found : f.vault = v).name
                              ELSE IF v \in DOMAIN w.rename THEN w.rename[v]
                              ELSE d.name[v]
    BY DEF After
  <1>2. ASSUME NEW f, v \notin w.raze, w.found = {f}, f.vault = v
        PROVE  After(d, w).name[v] = f.name
    <2>1. (CHOOSE g \in w.found : g.vault = v) = f
      BY <1>2, TheFounded
    <2>2. \E g \in w.found : g.vault = v
      BY <1>2
    <2>3. QED
      BY <1>1, <1>2, <2>1, <2>2, Zenon
  <1>3. QED
    BY <1>1, <1>2 DEF Founding

LEMMA GrantAfter ==
    ASSUME NEW d, NEW w, NEW v \in Vaults, NEW u \in Users
    PROVE  After(d, w).grants[v][u] =
              IF v \in w.raze \/ <<v, u>> \in w.revoke \/ u \in w.drop THEN NoAccess
              ELSE IF <<v, u>> \in DOMAIN w.role THEN w.role[<<v, u>>]
              ELSE IF <<v, u>> \in DOMAIN w.insert THEN w.insert[<<v, u>>]
              ELSE d.grants[v][u]
  BY DEF After

LEMMA ListAfter ==
    ASSUME NEW d, NEW w, NEW u \in Users
    PROVE  After(d, w).lists[u] = IF u \in w.empty \cup w.drop THEN Null
                                  ELSE IF u \in DOMAIN w.fill THEN w.fill[u] ELSE d.lists[u]
  BY DEF After

LEMMA PeopleAfter ==
    ASSUME NEW d, NEW w
    PROVE  /\ After(d, w).users = (d.users \cup w.born) \ w.drop
           /\ After(d, w).admins \subseteq (d.users \cup w.born) \ w.drop
           /\ After(d, w).signed = {f.owner : f \in w.found} \cup
                                   IF w.drop \cap d.signed = {} THEN d.signed
                                   ELSE (d.signed \ w.drop) \cup {w.heir}
  BY DEF After

\* The fields of well-typed tables, one by one.
LEMMA TablesFields ==
    ASSUME NEW d \in Tables
    PROVE  /\ d.users \subseteq Users /\ d.admins \subseteq Users /\ d.signed \subseteq Users
           /\ \A v \in Vaults : /\ d.owner[v] \in Users \cup {Null}
                               /\ d.name[v] \in Seq(Words) \cup {Null}
                               /\ \A u \in Users : d.grants[v][u] \in Roles \cup {NoAccess}
           /\ \A u \in Users : d.lists[u] \in (SUBSET (Vaults \X Seq(Words))) \cup {Null}
  BY DEF Tables

LEMMA FoundedFields ==
    ASSUME NEW w, WritesOK(w), NEW v \in Founding(w)
    PROVE  \E f : w.found = {f} /\ f.vault = v /\ f.owner \in Users /\ f.name \in Names
  BY DEF WritesOK, Founding

\* Typed names are sequences of words, and not of the marked form.
LEMMA TypedNames ==
    ASSUME NEW s \in Names
    PROVE  s \in Seq(Words) /\ s # <<>> /\ \A x : ~ Marked(s, x)
  <1>1. PICK k \in 1..2 : s = [i \in 1..k |-> s[i]]
    BY NamesAssumption
  <1>2. DOMAIN s = 1..k
    BY <1>1
  <1>3. ASSUME NEW i \in 1..k PROVE s[i] \in Words
    <2>1. s[i] \in {s[j] : j \in DOMAIN s}
      BY <1>2
    <2>2. QED
      BY <2>1 DEF Words
  <1>4. s \in [1..k -> Words]
    BY <1>1, <1>3
  <1>5. s \in Seq(Words) /\ Len(s) = k
    BY <1>2, <1>4
  <1>6. QED
    BY <1>5 DEF Marked

\* Well-typed writes leave well-typed tables.
LEMMA AfterInTables ==
    ASSUME NEW d \in Tables, NEW w, WritesOK(w)
    PROVE  After(d, w) \in Tables
  <1>1. /\ DOMAIN After(d, w) = {"users", "admins", "signed", "owner", "name", "grants", "lists"}
        /\ After(d, w) = [users |-> After(d, w).users, admins |-> After(d, w).admins,
                          signed |-> After(d, w).signed, owner |-> After(d, w).owner,
                          name |-> After(d, w).name, grants |-> After(d, w).grants,
                          lists |-> After(d, w).lists]
    BY DEF After
  <1>2. After(d, w).users \subseteq Users /\ After(d, w).admins \subseteq Users
    BY PeopleAfter, TablesFields DEF WritesOK
  <1>3. After(d, w).signed \subseteq Users
    <2>1. {f.owner : f \in w.found} \subseteq Users
      BY DEF WritesOK
    <2>2. d.signed \subseteq Users /\ (w.drop \cap d.signed # {} => w.heir \in Users)
      BY TablesFields DEF WritesOK
    <2>3. QED
      BY <2>1, <2>2, PeopleAfter
  <1>4. After(d, w).owner \in [Vaults -> Users \cup {Null}]
    <2>1. After(d, w).owner = [v \in Vaults |-> After(d, w).owner[v]]
      BY DEF After
    <2>2. ASSUME NEW v \in Vaults PROVE After(d, w).owner[v] \in Users \cup {Null}
      <3>1. CASE v \in Founding(w)
        BY <3>1, OwnerAfter, FoundedFields
      <3>2. CASE v \notin Founding(w)
        <4>1. d.owner[v] \in Users \cup {Null}
          BY TablesFields
        <4>2. QED
          BY <3>2, <4>1, OwnerAfter DEF WritesOK
      <3>3. QED
        BY <3>1, <3>2
    <2>3. QED
      BY <2>1, <2>2
  <1>5. After(d, w).name \in [Vaults -> Seq(Words) \cup {Null}]
    <2>1. After(d, w).name = [v \in Vaults |-> After(d, w).name[v]]
      BY DEF After
    <2>2. ASSUME NEW v \in Vaults PROVE After(d, w).name[v] \in Seq(Words) \cup {Null}
      <3>1. CASE v \in Founding(w)
        BY <3>1, NameAfter, FoundedFields, TypedNames
      <3>2. CASE v \notin Founding(w)
        <4>1. d.name[v] \in Seq(Words) \cup {Null}
          BY TablesFields
        <4>2. QED
          BY <3>2, <4>1, NameAfter DEF WritesOK
      <3>3. QED
        BY <3>1, <3>2
    <2>3. QED
      BY <2>1, <2>2
  <1>6. After(d, w).grants \in [Vaults -> [Users -> Roles \cup {NoAccess}]]
    <2>1. After(d, w).grants = [v \in Vaults |-> [u \in Users |-> After(d, w).grants[v][u]]]
      BY DEF After
    <2>2. ASSUME NEW v \in Vaults, NEW u \in Users
          PROVE  After(d, w).grants[v][u] \in Roles \cup {NoAccess}
      <3>1. d.grants[v][u] \in Roles \cup {NoAccess}
        BY TablesFields
      <3>2. /\ <<v, u>> \in DOMAIN w.role => w.role[<<v, u>>] \in Roles
            /\ <<v, u>> \in DOMAIN w.insert => w.insert[<<v, u>>] \in Roles
        BY DEF WritesOK
      <3>3. QED
        BY <3>1, <3>2, GrantAfter
    <2>3. QED
      BY <2>1, <2>2
  <1>7. After(d, w).lists \in [Users -> (SUBSET (Vaults \X Seq(Words))) \cup {Null}]
    <2>1. After(d, w).lists = [u \in Users |-> After(d, w).lists[u]]
      BY DEF After
    <2>2. ASSUME NEW u \in Users
          PROVE  After(d, w).lists[u] \in (SUBSET (Vaults \X Seq(Words))) \cup {Null}
      BY ListAfter, TablesFields DEF WritesOK
    <2>3. QED
      BY <2>1, <2>2
  <1>8. QED
    BY <1>1, <1>2, <1>3, <1>4, <1>5, <1>6, <1>7 DEF Tables

-----------------------------------------------------------------------------
(***************************************************************************)
(* Commits.                                                                *)
(***************************************************************************)
\* A session that commits is idle then, and whoever is gone stays gone.
LEMMA CommitClears ==
    ASSUME BookInv, NEW p \in Sessions, Commit(p)
    PROVE  /\ p \in Busy /\ Busy' = Busy \ {p} /\ used' = used
           /\ req' = [q \in Sessions |-> req'[q]]
           /\ \A q \in Busy' : req'[q] = req[q]
           /\ Born' \subseteq Born
  <1>1. /\ req[p] # Idle /\ used' = used
        /\ req' = [q \in Sessions |-> IF q = p THEN Idle ELSE req[q]]
    BY DEF Commit, BookInv
  <1>2. Busy' = Busy \ {p} /\ p \in Busy
    BY <1>1 DEF Busy
  <1>3. \A q \in Busy' : req'[q] = req[q]
    BY <1>1, <1>2 DEF Busy
  <1>4. Born' \subseteq Born
    BY <1>2, <1>3 DEF Born
  <1>5. QED
    BY <1>1, <1>2, <1>3, <1>4

\* A deleted user is gone for good, as all who were gone before.
LEMMA CommitGone ==
    ASSUME BookInv, NEW p \in Sessions, Commit(p)
    PROVE  /\ Gone \subseteq Gone'
           /\ Accepted(p) => req[p].writes.drop \subseteq Gone'
  <1> DEFINE w == req[p].writes
  <1>1. /\ p \in Busy /\ Busy' = Busy \ {p} /\ used' = used /\ Born' \subseteq Born
        /\ \A q \in Busy' : req'[q] = req[q]
    BY CommitClears
  <1>2. db'.users \subseteq db.users \cup w.born /\ w.born \subseteq Born
    <2>1. w.born \subseteq Born
      BY <1>1 DEF Born
    <2>2. CASE Accepted(p)
      BY <2>1, <2>2, PeopleAfter DEF Commit
    <2>3. CASE ~ Accepted(p)
      BY <2>1, <2>3 DEF Commit
    <2>4. QED
      BY <2>2, <2>3, <2>1
  <1>3. Gone \subseteq Gone'
    BY <1>1, <1>2 DEF Gone
  <1>4. ASSUME Accepted(p), NEW u \in w.drop PROVE u \in Gone'
    <2>1. u \in used /\ u \notin db'.users
      BY <1>1, <1>4, PeopleAfter DEF BookInv, Apart, Commit
    <2>2. u \notin Born'
      BY <1>1, <1>4 DEF Born, BookInv, Apart
    <2>3. QED
      BY <1>1, <2>1, <2>2 DEF Gone
  <1>5. QED
    BY <1>3, <1>4

\* The names and the owners that a commit leaves.
LEMMA CommitNames ==
    ASSUME BookInv, NEW p \in Sessions, Commit(p), Accepted(p)
    PROVE  /\ NamesOK'
           /\ Live(db') \subseteq Live(db) \cup Founding(req[p].writes)
  <1> DEFINE w == req[p].writes
  <1>1. WritesOK(w) /\ p \in Busy /\ db' = After(db, w)
    BY CommitClears DEF BookInv, Commit
  <1>2. RowsThere(db, w) /\ DbOK
    BY DEF Accepted, Integrity, BookInv
  <1>3. DOMAIN w.rename \subseteq Live(db) /\ DOMAIN w.handover \subseteq Live(db)
    BY <1>2 DEF RowsThere
  <1>4. Gone \subseteq Gone' /\ w.drop \subseteq Gone'
    BY CommitGone
  <1>5. \A v \in DOMAIN w.rename : /\ w.rename[v] \in Seq(Words) /\ w.rename[v] # <<>>
                                   /\ \A x : Marked(w.rename[v], x) => x \in w.drop \cup Gone
    BY <1>1 DEF WritesOK
  <1>6. ASSUME NEW v \in Vaults
        PROVE  /\ IF db'.owner[v] = Null THEN db'.name[v] = Null
                  ELSE /\ db'.name[v] \in Seq(Words) /\ db'.name[v] # <<>>
                       /\ \A x : Marked(db'.name[v], x) => x \in Gone'
               /\ db'.owner[v] # Null => v \in Live(db) \cup Founding(w)
    <2>1. CASE v \in w.raze
      BY <1>1, <2>1, OwnerAfter, NameAfter
    <2>2. CASE v \notin w.raze /\ v \in Founding(w)
      <3>1. PICK f : w.found = {f} /\ f.vault = v /\ f.owner \in Users /\ f.name \in Names
        BY <1>1, <2>2, FoundedFields
      <3>2. db'.owner[v] = f.owner /\ db'.name[v] = f.name
        BY <1>1, <2>2, <3>1, OwnerAfter, NameAfter
      <3>3. f.owner # Null
        BY <3>1, ConstantsAssumption
      <3>4. QED
        BY <2>2, <3>1, <3>2, <3>3, TypedNames
    <2>3. CASE v \notin w.raze /\ v \notin Founding(w)
      <3>1. db'.owner[v] = IF v \in DOMAIN w.handover THEN w.handover[v] ELSE db.owner[v]
        BY <1>1, <2>3, OwnerAfter
      <3>2. db'.name[v] = IF v \in DOMAIN w.rename THEN w.rename[v] ELSE db.name[v]
        BY <1>1, <2>3, NameAfter
      <3>3. v \in DOMAIN w.handover => w.handover[v] # Null /\ db.owner[v] # Null
        BY <1>1, <1>3, ConstantsAssumption DEF WritesOK, Live
      <3>4. v \in DOMAIN w.rename => db.owner[v] # Null
        BY <1>3 DEF Live
      <3>5. IF db.owner[v] = Null THEN db.name[v] = Null
            ELSE /\ db.name[v] \in Seq(Words) /\ db.name[v] # <<>>
                 /\ \A x : Marked(db.name[v], x) => x \in Gone
        BY <1>2 DEF DbOK, NamesOK
      <3>6. db'.owner[v] = Null <=> db.owner[v] = Null
        BY <3>1, <3>3
      <3>7. CASE v \in DOMAIN w.rename
        BY <1>4, <1>5, <3>2, <3>4, <3>6, <3>7 DEF Live
      <3>8. CASE v \notin DOMAIN w.rename
        BY <1>4, <3>2, <3>5, <3>6, <3>8 DEF Live
      <3>9. QED
        BY <3>7, <3>8
    <2>4. QED
      BY <2>1, <2>2, <2>3
  <1>7. QED
    BY <1>6 DEF NamesOK, Live

\* The tables keep their types, the constraints and the forms of names.
LEMMA CommitDb ==
    ASSUME BookInv, NEW p \in Sessions, Commit(p), Accepted(p)
    PROVE  DbOK'
  <1> DEFINE w == req[p].writes
  <1>1. WritesOK(w) /\ p \in Busy /\ used' = used /\ db' = After(db, w)
    BY CommitClears DEF BookInv, Commit
  <1>2. RowsThere(db, w) /\ Keys(db') /\ DbOK
    BY <1>1 DEF Accepted, Integrity, BookInv
  <1>3. db' \in Tables
    BY <1>1, <1>2, AfterInTables DEF DbOK
  <1>4. NamesOK' /\ Live(db') \subseteq Live(db) \cup Founding(w)
    BY CommitNames
  <1>5. w.born \subseteq used /\ Founding(w) \subseteq used
    BY <1>1 DEF BookInv, Apart
  <1>6. db'.users = (db.users \cup w.born) \ w.drop
    BY <1>1, PeopleAfter
  <1>7. ASSUME NEW u \in Users \ db'.users PROVE db'.lists[u] = Null
    <2>1. db'.lists[u] = IF u \in w.empty \cup w.drop THEN Null
                         ELSE IF u \in DOMAIN w.fill THEN w.fill[u] ELSE db.lists[u]
      BY <1>1, ListAfter
    <2>2. u \notin w.drop => u \notin db.users
      BY <1>6, <1>7
    <2>3. u \in DOMAIN w.fill => u \in db.users
      BY <1>2 DEF RowsThere
    <2>4. u \notin db.users => db.lists[u] = Null
      BY <1>2 DEF DbOK
    <2>5. QED
      BY <2>1, <2>2, <2>3, <2>4
  <1>8. held' = [v \in Vaults |-> held[v] \cup ({db'.owner[v]} \ {Null})]
    BY DEF Commit
  <1>9. held' \in [Vaults -> SUBSET Users] /\ \A v \in Live(db') : db'.owner[v] \in held'[v]
    <2>1. \A v \in Vaults : held[v] \subseteq Users
      BY <1>2 DEF DbOK
    <2>2. \A v \in Vaults : db'.owner[v] \in Users \cup {Null}
      BY <1>3, TablesFields
    <2>3. QED
      BY <1>8, <2>1, <2>2 DEF Live
  <1>10. db'.users \subseteq used' /\ Live(db') \subseteq used'
    BY <1>1, <1>2, <1>4, <1>5, <1>6 DEF DbOK
  <1>11. QED
    BY <1>2, <1>3, <1>4, <1>7, <1>9, <1>10 DEF DbOK

\* The ids of the requests that remain are as far apart as before.
LEMMA CommitApart ==
    ASSUME BookInv, NEW p \in Sessions, Commit(p)
    PROVE  /\ Apart'
           /\ \A q \in Busy' : WritesOK(req[q].writes)' /\ Shape(req[q])'
  <1>1. /\ p \in Busy /\ Busy' = Busy \ {p} /\ used' = used
        /\ \A q \in Busy' : q # p /\ q \in Busy /\ req'[q] = req[q]
    BY CommitClears
  <1>2. Gone \subseteq Gone'
    BY CommitGone
  <1>3. /\ db'.users \subseteq db.users \cup req[p].writes.born
        /\ Live(db') \subseteq Live(db) \cup Founding(req[p].writes)
        /\ \A v \in Vaults : held[v] \subseteq held'[v]
    <2>1. CASE Accepted(p)
      <3>1. \A v \in Vaults : held[v] \subseteq held'[v]
        BY <2>1 DEF Commit
      <3>2. db'.users \subseteq db.users \cup req[p].writes.born
        BY <2>1, PeopleAfter DEF Commit
      <3>3. QED
        BY <2>1, <3>1, <3>2, CommitNames
    <2>2. CASE ~ Accepted(p)
      BY <2>2 DEF Commit
    <2>3. QED
      BY <2>1, <2>2
  <1>4. ASSUME NEW q \in Busy'
        PROVE  LET w == req'[q].writes
               IN  /\ w.born \subseteq used' \ db'.users /\ w.drop \subseteq used'
                   /\ Founding(w) \subseteq used' \ Live(db')
                   /\ \A v \in DOMAIN w.handover \cap Vaults : w.drop \subseteq held'[v]
    <2> DEFINE w == req[q].writes
    <2>1. /\ w.born \subseteq used \ db.users /\ w.drop \subseteq used
          /\ Founding(w) \subseteq used \ Live(db)
          /\ \A v \in DOMAIN w.handover \cap Vaults : w.drop \subseteq held[v]
          /\ w.born \cap req[p].writes.born = {} /\ Founding(w) \cap Founding(req[p].writes) = {}
      BY <1>1, <1>4 DEF BookInv, Apart
    <2>2. req'[q].writes = w
      BY <1>1, <1>4
    <2> HIDE DEF w
    <2>3. QED
      BY <1>1, <1>3, <2>1, <2>2
  <1>5. ASSUME NEW q \in Busy', NEW s \in Busy'
        PROVE  LET w == req'[q].writes
                   x == req'[s].writes
               IN  /\ w.drop \cap x.born = {}
                   /\ q # s => w.born \cap x.born = {} /\ Founding(w) \cap Founding(x) = {}
    BY <1>1, <1>5 DEF BookInv, Apart
  <1>6. Apart'
    BY <1>4, <1>5 DEF Apart
  <1>7. ASSUME NEW q \in Busy' PROVE WritesOK(req[q].writes)' /\ Shape(req[q])'
    <2> DEFINE w == req[q].writes
    <2>1. WritesOK(w) /\ Shape(req[q]) /\ req'[q] = req[q]
      BY <1>1, <1>7 DEF BookInv
    <2>2. WritesOK(w)'
      BY <1>1, <1>2, <1>7, <2>1 DEF WritesOK
    <2>3. Shape(req[q])'
      BY <2>1
    <2>4. QED
      BY <2>2, <2>3
  <1>8. QED
    BY <1>6, <1>7

\* The lists are fresh after a commit: what it leaves stale, it excuses.
LEMMA CommitLists ==
    ASSUME BookInv, NEW p \in Sessions, Commit(p), Accepted(p)
    PROVE  ListsFresh' /\ excused' \subseteq Users
  <1> DEFINE w == req[p].writes
  <1>1. /\ db' = After(db, w) /\ p \in Busy
        /\ excused' = {u \in excused \cup LeftStale(p) : db'.lists[u] # Null}
    BY CommitClears DEF Commit
  <1>2. db' \in Tables /\ WritesOK(w)
    BY <1>1, CommitDb DEF DbOK, BookInv
  <1>3. LeftStale(p) = (IF p \in aged
                        THEN {u \in db'.users : db'.lists[u] \notin {Null, BuildVaultList(db', u)}}
                        ELSE {}) \cup Inherited(req[p])
    BY <1>1 DEF LeftStale, Inherited
  <1>4. ASSUME NEW u \in db'.users \ excused'
        PROVE  db'.lists[u] \in {Null, BuildVaultList(db', u)}
    <2>1. CASE p \in aged
      BY <1>1, <1>3, <1>4, <2>1
    <2>2. CASE p \notin aged
      <3>1. Refreshes(req[p])
        BY <1>1, <2>2 DEF BookInv
      <3>2. \A x \in db'.users \ (excused \cup Inherited(req[p])) :
               db'.lists[x] \in {Null, BuildVaultList(db', x)}
        BY <1>1, <3>1 DEF Refreshes
      <3>3. QED
        BY <1>1, <1>3, <1>4, <2>2, <3>2
    <2>3. QED
      BY <2>1, <2>2
  <1>5. Inherited(req[p]) \subseteq Users
    <2>1. req[p].kind = "delete_user" => w.heir \in Users
      BY <1>1 DEF BookInv, Shape, Closes
    <2>2. QED
      BY <2>1 DEF Inherited
  <1>6. excused' \subseteq Users
    BY <1>1, <1>2, <1>3, <1>5, TablesFields DEF BookInv
  <1>7. QED
    BY <1>4, <1>6 DEF ListsFresh

\* All other requests have aged, so nothing is left to show of their checks.
LEMMA CommitBook == ASSUME BookInv, NEW p \in Sessions, Commit(p) PROVE BookInv'
  <1>1. /\ p \in Busy /\ Busy' = Busy \ {p} /\ used' = used
        /\ req' = [q \in Sessions |-> req'[q]]
        /\ \A q \in Busy' : req'[q] = req[q]
    BY CommitClears
  <1>2. Apart' /\ \A q \in Busy' : WritesOK(req[q].writes)' /\ Shape(req[q])'
    BY CommitApart
  <1>3. CASE Accepted(p)
    <2>1. aged' = (aged \cup Busy) \ {p}
      BY <1>3 DEF Commit
    <2>2. aged' = Busy'
      BY <1>1, <2>1 DEF BookInv
    <2>3. QED
      BY <1>1, <1>2, <1>3, <2>2, CommitDb, CommitLists DEF BookInv
  <1>4. CASE ~ Accepted(p)
    <2>1. UNCHANGED <<db, excused, held>> /\ aged' = aged \ {p}
      BY <1>4 DEF Commit
    <2>2. Gone \subseteq Gone'
      BY CommitGone
    <2>3. DbOK'
      BY <1>1, <2>1, <2>2 DEF BookInv, DbOK, NamesOK
    <2>4. ASSUME NEW q \in (Busy \ aged)' PROVE Fits(req[q].writes)' /\ Refreshes(req[q])'
      <3>1. q \in Busy \ aged /\ req'[q] = req[q]
        BY <1>1, <2>1, <2>4
      <3>2. Fits(req[q].writes) /\ Refreshes(req[q])
        BY <3>1 DEF BookInv
      <3>3. QED
        BY <2>1, <3>1, <3>2 DEF Fits, Refreshes, Inherited
    <2>5. ListsFresh' /\ excused' \subseteq Users /\ aged' \subseteq Busy'
      BY <1>1, <2>1 DEF ListsFresh, BookInv
    <2>6. QED
      BY <1>1, <1>2, <2>3, <2>4, <2>5 DEF BookInv
  <1>5. QED
    BY <1>3, <1>4

-----------------------------------------------------------------------------
(***************************************************************************)
(* Requests.                                                               *)
(***************************************************************************)
\* A request keeps what is known of the tables if its writes have the columns'
\* types and a known shape, the tables as they are would accept them and leave
\* the lists right, and the ids in them are new, or in use.
LEMMA BeginBook ==
    ASSUME BookInv, NEW p \in Sessions, NEW actor, NEW kind, NEW w, Begin(p, actor, kind, w),
           used \subseteq used', NEW r, r = [kind |-> kind, actor |-> actor, writes |-> w],
           WritesOK(w), Shape(r), Fits(w), Refreshes(r),
           w.born \subseteq used' \ used, Founding(w) \subseteq used' \ used,
           w.drop \subseteq db.users,
           \A v \in DOMAIN w.handover \cap Vaults : w.drop \subseteq held[v]
    PROVE  BookInv'
  <1>1. /\ req' = [q \in Sessions |-> IF q = p THEN r ELSE req[q]]
        /\ UNCHANGED <<db, excused, held>> /\ aged' = aged \ {p} /\ req[p] = Idle
        /\ r.kind = kind /\ r.writes = w
    BY DEF Begin, Ready, BookInv
  <1>2. /\ p \notin Busy /\ Busy' \subseteq Busy \cup {p} /\ Busy \subseteq Busy'
        /\ \A q \in Busy : q # p /\ req'[q] = req[q]
        /\ req'[p] = r
    BY <1>1 DEF Busy
  <1>3. Born' \subseteq Born \cup w.born
    <2>1. ASSUME NEW q \in Busy' PROVE req'[q].writes.born \subseteq Born \cup w.born
      <3>1. CASE q = p
        BY <1>1, <1>2, <3>1
      <3>2. CASE q \in Busy
        BY <1>2, <3>2 DEF Born
      <3>3. QED
        BY <1>2, <2>1, <3>1, <3>2
    <2>2. QED
      BY <2>1 DEF Born
  <1>4. Gone \subseteq Gone'
    BY <1>1, <1>3 DEF Gone
  <1>5. DbOK'
    BY <1>1, <1>4 DEF BookInv, DbOK, NamesOK
  <1>6. ASSUME NEW q \in Busy' PROVE WritesOK(req[q].writes)' /\ Shape(req[q])'
    <2>1. WritesOK(req'[q].writes) /\ Shape(req'[q])
      <3>1. CASE q = p
        BY <1>1, <1>2, <3>1
      <3>2. CASE q \in Busy
        BY <1>2, <3>2 DEF BookInv
      <3>3. QED
        BY <1>2, <1>6, <3>1, <3>2
    <2>2. Shape(req[q])'
      BY <2>1
    <2>3. WritesOK(req[q].writes)'
      BY <1>4, <2>1 DEF WritesOK
    <2>4. QED
      BY <2>2, <2>3
  <1>7. Apart'
    <2>1. \A q \in Busy :
             LET x == req[q].writes
             IN  /\ x.born \subseteq used \ db.users /\ x.drop \subseteq used
                 /\ Founding(x) \subseteq used \ Live(db)
                 /\ \A v \in DOMAIN x.handover \cap Vaults : x.drop \subseteq held[v]
      BY DEF BookInv, Apart
    <2>2. db.users \subseteq used /\ Live(db) \subseteq used
      BY DEF BookInv, DbOK
    <2>3. ASSUME NEW q \in Busy'
          PROVE  LET x == req'[q].writes
                 IN  /\ x.born \subseteq used' \ db'.users /\ x.drop \subseteq used'
                     /\ Founding(x) \subseteq used' \ Live(db')
                     /\ \A v \in DOMAIN x.handover \cap Vaults : x.drop \subseteq held'[v]
      <3>1. CASE q = p
        BY <1>1, <1>2, <2>2, <3>1
      <3>2. CASE q \in Busy
        BY <1>1, <1>2, <2>1, <3>2
      <3>3. QED
        BY <1>2, <2>3, <3>1, <3>2
    <2>4. ASSUME NEW q \in Busy', NEW s \in Busy'
          PROVE  LET x == req'[q].writes
                     y == req'[s].writes
                 IN  /\ x.drop \cap y.born = {}
                     /\ q # s => x.born \cap y.born = {} /\ Founding(x) \cap Founding(y) = {}
      <3>1. CASE q \in Busy /\ s \in Busy
        BY <1>2, <3>1 DEF BookInv, Apart
      <3>2. CASE q = p /\ s \in Busy
        BY <1>1, <1>2, <2>1, <3>2
      <3>3. CASE q \in Busy /\ s = p
        BY <1>1, <1>2, <2>1, <3>3
      <3>4. CASE q = p /\ s = p
        BY <1>1, <1>2, <2>2, <3>4
      <3>5. QED
        BY <1>2, <2>4, <3>1, <3>2, <3>3, <3>4
    <2>5. QED
      BY <2>3, <2>4 DEF Apart
  <1>8. ASSUME NEW q \in (Busy \ aged)' PROVE Fits(req[q].writes)' /\ Refreshes(req[q])'
    <2>1. Fits(req'[q].writes) /\ Refreshes(req'[q])
      <3>1. CASE q = p
        BY <1>1, <1>2, <3>1
      <3>2. CASE q \in Busy
        BY <1>1, <1>2, <1>8, <3>2 DEF BookInv
      <3>3. QED
        BY <1>2, <1>8, <3>1, <3>2
    <2>2. Fits(req[q].writes)'
      BY <1>1, <2>1 DEF Fits
    <2>3. Refreshes(req[q])'
      <3>1. PICK x : x = req'[q] /\ Refreshes(x)
        BY <2>1
      <3>2. Refreshes(x)'
        BY SMTT(150), <1>1, <3>1 DEF Refreshes, Inherited
      <3>3. QED
        BY <3>1, <3>2
    <2>4. QED
      BY <2>2, <2>3
  <1>9. /\ req' = [q \in Sessions |-> req'[q]] /\ aged' \subseteq Busy' /\ excused' \subseteq Users
        /\ ListsFresh'
    BY <1>1, <1>2 DEF BookInv, ListsFresh
  <1>10. QED
    BY <1>5, <1>6, <1>7, <1>8, <1>9 DEF BookInv

\* What a list depends on.
Seen(d, v, u) == d.owner[v] # Null /\ (d.owner[v] = u \/ d.grants[v][u] # NoAccess)

\* Two states of the tables in which a user sees the same vaults, by name.
LEMMA SameList ==
    ASSUME NEW d, NEW e, NEW u,
           \A v \in Vaults : /\ Seen(d, v, u) <=> Seen(e, v, u)
                             /\ Seen(d, v, u) => d.name[v] = e.name[v]
    PROVE  BuildVaultList(d, u) = BuildVaultList(e, u)
  BY DEF BuildVaultList, Live, Seen

\* The writes that neither found nor hand over a vault nor delete a user.
Quiet(w) == w.found = {} /\ DOMAIN w.handover = {} /\ w.drop = {}

\* Quiet writes can add people, and change who administers.
LEMMA QuietPeople ==
    ASSUME NEW d, NEW w, Quiet(w)
    PROVE  /\ After(d, w).users = d.users \cup w.born
           /\ After(d, w).signed = d.signed
           /\ After(d, w).admins \subseteq d.users \cup w.born
  <1>1. {f.owner : f \in w.found} = {} /\ w.drop = {} /\ w.drop \cap d.signed = {}
    BY DEF Quiet
  <1>2. After(d, w).signed = {f.owner : f \in w.found} \cup
                             IF w.drop \cap d.signed = {} THEN d.signed
                             ELSE (d.signed \ w.drop) \cup {w.heir}
    BY PeopleAfter
  <1>3. After(d, w).signed = d.signed
    BY <1>1, <1>2
  <1>4. QED
    BY <1>1, <1>3, PeopleAfter

LEMMA QuietAfter ==
    ASSUME NEW d, NEW w, Quiet(w), NEW v \in Vaults
    PROVE  /\ After(d, w).owner[v] = IF v \in w.raze THEN Null ELSE d.owner[v]
           /\ After(d, w).name[v] = IF v \in w.raze THEN Null
                                    ELSE IF v \in DOMAIN w.rename THEN w.rename[v] ELSE d.name[v]
           /\ After(d, w).users = d.users \cup w.born
           /\ After(d, w).signed = d.signed
           /\ After(d, w).admins \subseteq d.users \cup w.born
  <1>1. v \notin Founding(w) /\ v \notin DOMAIN w.handover /\ {f.owner : f \in w.found} = {}
        /\ w.drop = {} /\ w.drop \cap d.signed = {}
    BY DEF Quiet, Founding
  <1>2. After(d, w).owner[v] = IF v \in w.raze THEN Null ELSE d.owner[v]
    BY <1>1, OwnerAfter
  <1>3. After(d, w).name[v] = IF v \in w.raze THEN Null
                              ELSE IF v \in DOMAIN w.rename THEN w.rename[v] ELSE d.name[v]
    BY <1>1, NameAfter
  <1>4. QED
    BY <1>1, <1>2, <1>3, QuietPeople

\* They keep the constraints if a new name is new to the owner, and a grant is
\* of a vault that is there to a user who is there.
LEMMA QuietKeys ==
    ASSUME BookInv, NEW w, Quiet(w),
           \A v \in DOMAIN w.rename : \A x \in Vaults :
              x # v /\ db.owner[x] = db.owner[v]
                 => x \notin DOMAIN w.rename /\ db.name[x] # w.rename[v],
           \A v \in Vaults, u \in Users :
              <<v, u>> \in DOMAIN w.insert \cup DOMAIN w.role => db.owner[v] # Null /\ u \in db.users
    PROVE  Keys(After(db, w))
  <1> DEFINE e == After(db, w)
  <1>1. db \in Tables /\ Keys(db)
    BY DEF BookInv, DbOK
  <1>2. \A v \in Vaults :
           /\ e.owner[v] = IF v \in w.raze THEN Null ELSE db.owner[v]
           /\ e.name[v] = IF v \in w.raze THEN Null
                          ELSE IF v \in DOMAIN w.rename THEN w.rename[v] ELSE db.name[v]
    BY QuietAfter
  <1>3. ASSUME NEW v \in Vaults, NEW u \in Users
        PROVE  e.grants[v][u] = IF v \in w.raze \/ <<v, u>> \in w.revoke \/ u \in w.drop THEN NoAccess
                                ELSE IF <<v, u>> \in DOMAIN w.role THEN w.role[<<v, u>>]
                                ELSE IF <<v, u>> \in DOMAIN w.insert THEN w.insert[<<v, u>>]
                                ELSE db.grants[v][u]
    BY GrantAfter
  <1>4. /\ e.users = db.users \cup w.born /\ e.signed = db.signed
        /\ e.admins \subseteq e.users
    BY QuietPeople
  <1> HIDE DEF e
  <1>5. e.admins \cup e.signed \subseteq e.users
    BY <1>1, <1>4 DEF Keys
  <1>6. \A v \in Vaults : e.owner[v] \in e.users \cup {Null}
    BY <1>1, <1>2, <1>4 DEF Keys
  <1>7. ASSUME NEW v \in Vaults, NEW x \in Vaults, v # x, e.owner[v] = e.owner[x], e.owner[v] # Null
        PROVE  e.name[v] # e.name[x]
    <2>1. /\ v \notin w.raze /\ x \notin w.raze
          /\ db.owner[v] = db.owner[x] /\ db.owner[v] # Null
      BY <1>2, <1>7
    <2>2. db.name[v] # db.name[x]
      BY <1>1, <1>7, <2>1 DEF Keys
    <2>3. QED
      BY <1>2, <1>7, <2>1, <2>2
  <1>8. ASSUME NEW v \in Vaults, NEW u \in Users, e.grants[v][u] # NoAccess
        PROVE  e.owner[v] # Null /\ u \in e.users
    <2>1. v \notin w.raze
      BY <1>3, <1>8
    <2>2. db.owner[v] # Null /\ u \in db.users
      <3>1. CASE <<v, u>> \in DOMAIN w.insert \cup DOMAIN w.role
        BY <3>1
      <3>2. CASE <<v, u>> \notin DOMAIN w.insert \cup DOMAIN w.role
        <4>1. db.grants[v][u] # NoAccess
          BY <1>3, <1>8, <3>2
        <4>2. QED
          BY <1>1, <4>1 DEF Keys
      <3>3. QED
        BY <3>1, <3>2
    <2>3. QED
      BY <1>2, <1>4, <2>1, <2>2
  <1>9. Keys(e)
    BY <1>5, <1>6, <1>7, <1>8 DEF Keys
  <1>10. QED
    BY <1>9 DEF e

\* The lists are right if those whom the writes concern have theirs emptied.
LEMMA ListsRefreshed ==
    ASSUME BookInv, NEW r, NEW w, r.writes = w, r.kind # "delete_user",
           w.born \subseteq Users, w.drop = {},
           \A u \in DOMAIN w.fill : w.fill[u] = BuildVaultList(db, u),
           \A u \in Users : u \notin w.empty /\ (db.lists[u] # Null \/ u \in DOMAIN w.fill)
                               => BuildVaultList(After(db, w), u) = BuildVaultList(db, u)
    PROVE  Refreshes(r)
  <1>1. db \in Tables /\ db.users \subseteq Users
    BY TablesFields DEF BookInv, DbOK
  <1>2. ASSUME NEW u \in After(db, w).users \ excused
        PROVE  After(db, w).lists[u] \in {Null, BuildVaultList(After(db, w), u)}
    <2>1. u \in Users /\ u \in db.users \cup w.born
      BY <1>1, <1>2, PeopleAfter
    <2>2. After(db, w).lists[u] = IF u \in w.empty THEN Null
                                  ELSE IF u \in DOMAIN w.fill THEN w.fill[u] ELSE db.lists[u]
      BY <2>1, ListAfter
    <2>3. db.lists[u] \in {Null, BuildVaultList(db, u)}
      <3>1. CASE u \in db.users
        BY <1>2, <3>1 DEF BookInv, ListsFresh
      <3>2. CASE u \notin db.users
        BY <2>1, <3>2 DEF BookInv, DbOK
      <3>3. QED
        BY <3>1, <3>2
    <2>4. QED
      BY <2>1, <2>2, <2>3
  <1>3. QED
    BY <1>2 DEF Refreshes, Inherited

\* Quiet writes leave the list of whoever sees none of the vaults they touch.
LEMMA QuietList ==
    ASSUME NEW d, NEW w, Quiet(w), NEW u \in Users,
           \A v \in w.raze \cup DOMAIN w.rename : ~ Seen(d, v, u),
           \A v \in Vaults : <<v, u>> \notin w.revoke \cup DOMAIN w.role \cup DOMAIN w.insert
    PROVE  BuildVaultList(After(d, w), u) = BuildVaultList(d, u)
  <1>1. ASSUME NEW v \in Vaults
        PROVE  /\ Seen(After(d, w), v, u) <=> Seen(d, v, u)
               /\ Seen(After(d, w), v, u) => After(d, w).name[v] = d.name[v]
    <2>1. After(d, w).grants[v][u] = IF v \in w.raze THEN NoAccess ELSE d.grants[v][u]
      <3>1. /\ <<v, u>> \notin w.revoke /\ <<v, u>> \notin DOMAIN w.role
            /\ <<v, u>> \notin DOMAIN w.insert /\ u \notin w.drop
        BY DEF Quiet
      <3>2. QED
        BY <3>1, GrantAfter
    <2>2. /\ After(d, w).owner[v] = IF v \in w.raze THEN Null ELSE d.owner[v]
          /\ After(d, w).name[v] = IF v \in w.raze THEN Null
                                   ELSE IF v \in DOMAIN w.rename THEN w.rename[v] ELSE d.name[v]
      BY QuietAfter
    <2>3. QED
      BY <2>1, <2>2 DEF Seen
  <1>2. QED
    BY <1>1, SameList

\* Any request with quiet writes keeps the invariant on these conditions.
LEMMA QuietBook ==
    ASSUME BookInv, NEW p \in Sessions, NEW actor, NEW kind, NEW w, Begin(p, actor, kind, w),
           kind # "delete_user", used \subseteq used', w.born \subseteq used' \ used,
           WritesOK(w), Quiet(w), Razes(w) \/ Grants(w) \/ Revokes(w) \/ Spans(w),
           RowsThere(db, w),
           \A v \in DOMAIN w.rename : \A x \in Vaults :
              x # v /\ db.owner[x] = db.owner[v]
                 => x \notin DOMAIN w.rename /\ db.name[x] # w.rename[v],
           \A v \in Vaults, u \in Users :
              <<v, u>> \in DOMAIN w.insert \cup DOMAIN w.role => db.owner[v] # Null /\ u \in db.users,
           \A u \in DOMAIN w.fill : w.fill[u] = BuildVaultList(db, u),
           \A u \in Users : u \notin w.empty /\ (db.lists[u] # Null \/ u \in DOMAIN w.fill)
              => /\ \A v \in w.raze \cup DOMAIN w.rename : ~ Seen(db, v, u)
                 /\ \A v \in Vaults : <<v, u>> \notin w.revoke \cup DOMAIN w.role \cup DOMAIN w.insert
    PROVE  BookInv'
  <1>1. PICK r : r = [kind |-> kind, actor |-> actor, writes |-> w]
    OBVIOUS
  <1>2. r.kind = kind /\ r.writes = w
    BY <1>1
  <1>3. Shape(r)
    BY <1>2 DEF Shape
  <1>4. Fits(w)
    BY QuietKeys DEF Fits
  <1>5. ASSUME NEW u \in Users, u \notin w.empty /\ (db.lists[u] # Null \/ u \in DOMAIN w.fill)
        PROVE  BuildVaultList(After(db, w), u) = BuildVaultList(db, u)
    BY <1>5, QuietList
  <1>6. w.born \subseteq Users /\ w.drop = {} /\ Founding(w) = {} /\ DOMAIN w.handover = {}
    BY DEF WritesOK, Quiet, Founding
  <1>7. Refreshes(r)
    BY <1>2, <1>5, <1>6, ListsRefreshed
  <1>8. QED
    BY <1>1, <1>3, <1>4, <1>6, <1>7, BeginBook

\* Where nothing is cached of u, u is not there, or his list was not loaded.
LEMMA CachedLists ==
    ASSUME BookInv, NEW us, NEW u \in Users, u \notin Cached(us), db.lists[u] # Null
    PROVE  u \notin us
  BY DEF Cached, BookInv, DbOK

\* A user whom a vault does not concern does not see it.
LEMMA UnaffectedUnseen ==
    ASSUME NEW v, NEW u \in Users, u \notin AffectedUsers(v)
    PROVE  ~ Seen(db, v, u)
  BY DEF AffectedUsers, Seen

\* rename_vault: the name is new to the owner, and all who see the vault are emptied.
LEMMA RenameVaultBook ==
    ASSUME BookInv, NEW p \in Sessions, NEW u, NEW v \in Vaults, NEW n \in Names,
           RenameVault(p, u, v, n)
    PROVE  BookInv'
  <1>1. PICK w : /\ Begin(p, u, "rename_vault", w)
                 /\ w = [NoWrites EXCEPT !.rename = IF n = db.name[v] THEN <<>> ELSE [x \in {v} |-> n],
                                         !.empty = Cached(AffectedUsers(v))]
    BY DEF RenameVault
  <1>2. /\ w.rename = IF n = db.name[v] THEN <<>> ELSE [x \in {v} |-> n]
        /\ w.empty = Cached(AffectedUsers(v))
        /\ w.found = {} /\ w.handover = <<>> /\ w.raze = {} /\ w.insert = <<>> /\ w.role = <<>>
        /\ w.revoke = {} /\ w.born = {} /\ w.admin = <<>> /\ w.drop = {} /\ w.fill = <<>>
    BY <1>1 DEF NoWrites
  <1>3. /\ DOMAIN w.rename \subseteq {v} /\ \A x \in DOMAIN w.rename : w.rename[x] = n
        /\ DOMAIN w.handover = {} /\ DOMAIN w.insert = {} /\ DOMAIN w.role = {}
        /\ DOMAIN w.admin = {} /\ DOMAIN w.fill = {}
    BY <1>2
  <1>4. WritesOK(w)
    BY <1>2, <1>3, TypedNames DEF WritesOK
  <1>5. Quiet(w) /\ Spans(w)
    BY <1>2, <1>3 DEF Quiet, Spans, Rows
  <1>6. db.owner[v] # Null /\ used' = used
        /\ \A x \in Vaults : db.owner[x] = db.owner[v] /\ x # v => db.name[x] # n
    BY DEF RenameVault, Owned
  <1>7. w.empty \subseteq db.users
    BY <1>2 DEF Cached
  <1>8. RowsThere(db, w)
    BY <1>2, <1>3, <1>6, <1>7 DEF RowsThere, Live
  <1>9. ASSUME NEW x \in Users, x \notin w.empty /\ (db.lists[x] # Null \/ x \in DOMAIN w.fill)
        PROVE  ~ Seen(db, v, x)
    BY <1>2, <1>3, <1>9, CachedLists, UnaffectedUnseen
  <1>10. \A y \in DOMAIN w.rename : \A x \in Vaults :
            x # y /\ db.owner[x] = db.owner[y]
               => x \notin DOMAIN w.rename /\ db.name[x] # w.rename[y]
    BY <1>3, <1>6
  <1>11. \A x \in Users : x \notin w.empty /\ (db.lists[x] # Null \/ x \in DOMAIN w.fill)
            => /\ \A y \in w.raze \cup DOMAIN w.rename : ~ Seen(db, y, x)
               /\ \A y \in Vaults : <<y, x>> \notin w.revoke \cup DOMAIN w.role \cup DOMAIN w.insert
    BY <1>2, <1>3, <1>9
  <1>12. used \subseteq used' /\ w.born \subseteq used' \ used /\ "rename_vault" # "delete_user"
    BY <1>2, <1>6
  <1>13. /\ \A y \in Vaults, x \in Users :
               <<y, x>> \in DOMAIN w.insert \cup DOMAIN w.role => db.owner[y] # Null /\ x \in db.users
         /\ \A x \in DOMAIN w.fill : w.fill[x] = BuildVaultList(db, x)
    BY <1>3
  <1>14. QED
    BY ZenonT(60), <1>1, <1>4, <1>5, <1>8, <1>10, <1>11, <1>12, <1>13, QuietBook

\* delete_vault and admin_delete_vault.
LEMMA RazeBook ==
    ASSUME BookInv, NEW p \in Sessions, NEW u, NEW v \in Vaults, NEW kind, kind # "delete_user",
           NEW w, w = [NoWrites EXCEPT !.raze = {v}, !.empty = Cached(AffectedUsers(v))],
           Begin(p, u, kind, w), used' = used
    PROVE  BookInv'
  <1>1. /\ w.raze = {v} /\ w.empty = Cached(AffectedUsers(v))
        /\ w.found = {} /\ w.rename = <<>> /\ w.handover = <<>> /\ w.insert = <<>> /\ w.role = <<>>
        /\ w.revoke = {} /\ w.born = {} /\ w.admin = <<>> /\ w.drop = {} /\ w.fill = <<>>
    BY DEF NoWrites
  <1>2. /\ DOMAIN w.rename = {} /\ DOMAIN w.handover = {} /\ DOMAIN w.insert = {}
        /\ DOMAIN w.role = {} /\ DOMAIN w.admin = {} /\ DOMAIN w.fill = {}
    BY <1>1
  <1>3. WritesOK(w)
    BY <1>1, <1>2 DEF WritesOK
  <1>4. Quiet(w) /\ Razes(w)
    BY <1>1, <1>2 DEF Quiet, Razes, Rows
  <1>5. RowsThere(db, w)
    BY <1>1, <1>2 DEF RowsThere, Cached
  <1>6. ASSUME NEW x \in Users, x \notin w.empty /\ (db.lists[x] # Null \/ x \in DOMAIN w.fill)
        PROVE  ~ Seen(db, v, x)
    BY <1>1, <1>2, <1>6, CachedLists, UnaffectedUnseen
  <1>7. \A x \in Users : x \notin w.empty /\ (db.lists[x] # Null \/ x \in DOMAIN w.fill)
           => /\ \A y \in w.raze \cup DOMAIN w.rename : ~ Seen(db, y, x)
              /\ \A y \in Vaults : <<y, x>> \notin w.revoke \cup DOMAIN w.role \cup DOMAIN w.insert
    BY <1>1, <1>2, <1>6
  <1>8. used \subseteq used' /\ w.born \subseteq used' \ used
    BY <1>1
  <1>9. /\ \A y \in DOMAIN w.rename : \A x \in Vaults :
              x # y /\ db.owner[x] = db.owner[y]
                 => x \notin DOMAIN w.rename /\ db.name[x] # w.rename[y]
        /\ \A y \in Vaults, x \in Users :
              <<y, x>> \in DOMAIN w.insert \cup DOMAIN w.role => db.owner[y] # Null /\ x \in db.users
        /\ \A x \in DOMAIN w.fill : w.fill[x] = BuildVaultList(db, x)
    BY <1>2
  <1>10. QED
    BY <1>3, <1>4, <1>5, <1>7, <1>8, <1>9, QuietBook

\* grant_vault_access: the row is inserted where there was none, updated where there was.
LEMMA GrantBook ==
    ASSUME BookInv, NEW p \in Sessions, NEW actor, NEW v \in Vaults, NEW u \in Users,
           NEW role \in Roles, GrantVaultAccess(p, actor, v, u, role)
    PROVE  BookInv'
  <1>1. PICK w : /\ Begin(p, actor, "grant_vault_access", w)
                 /\ w = [NoWrites EXCEPT
                           !.insert = IF db.grants[v][u] = NoAccess
                                      THEN [c \in {<<v, u>>} |-> role] ELSE <<>>,
                           !.role = IF db.grants[v][u] \in {NoAccess, role} THEN <<>>
                                    ELSE [c \in {<<v, u>>} |-> role],
                           !.empty = Cached({u})]
    BY DEF GrantVaultAccess
  <1>2. /\ w.insert = IF db.grants[v][u] = NoAccess THEN [c \in {<<v, u>>} |-> role] ELSE <<>>
        /\ w.role = IF db.grants[v][u] \in {NoAccess, role} THEN <<>>
                    ELSE [c \in {<<v, u>>} |-> role]
        /\ w.empty = Cached({u})
        /\ w.found = {} /\ w.rename = <<>> /\ w.handover = <<>> /\ w.raze = {}
        /\ w.revoke = {} /\ w.born = {} /\ w.admin = <<>> /\ w.drop = {} /\ w.fill = <<>>
    BY <1>1 DEF NoWrites
  <1>3. /\ DOMAIN w.rename = {} /\ DOMAIN w.handover = {} /\ DOMAIN w.admin = {}
        /\ DOMAIN w.fill = {}
    BY <1>2
  <1>4. \/ /\ DOMAIN w.insert = {<<v, u>>} /\ w.insert[<<v, u>>] = role /\ DOMAIN w.role = {}
           /\ db.grants[v][u] = NoAccess
        \/ DOMAIN w.insert = {} /\ DOMAIN w.role = {}
        \/ /\ DOMAIN w.role = {<<v, u>>} /\ w.role[<<v, u>>] = role /\ DOMAIN w.insert = {}
           /\ db.grants[v][u] # NoAccess
    BY <1>2
  <1>5. WritesOK(w)
    BY <1>2, <1>3, <1>4 DEF WritesOK
  <1>6. Quiet(w) /\ (Grants(w) \/ Spans(w))
    BY <1>2, <1>3, <1>4 DEF Quiet, Grants, Spans, Rows
  <1>7. db.owner[v] # Null /\ u \in db.users /\ used' = used
    BY DEF GrantVaultAccess, Manages
  <1>8. RowsThere(db, w)
    BY <1>2, <1>3, <1>4 DEF RowsThere, Cached
  <1>9. \A x \in Users : x \notin w.empty /\ (db.lists[x] # Null \/ x \in DOMAIN w.fill)
           => /\ \A y \in w.raze \cup DOMAIN w.rename : ~ Seen(db, y, x)
              /\ \A y \in Vaults : <<y, x>> \notin w.revoke \cup DOMAIN w.role \cup DOMAIN w.insert
    <2>1. DOMAIN w.insert \cup DOMAIN w.role \subseteq {<<v, u>>}
      BY <1>4
    <2>2. ASSUME NEW x \in Users, x \notin w.empty, db.lists[x] # Null
          PROVE  \A y \in Vaults : <<y, x>> \notin DOMAIN w.insert \cup DOMAIN w.role
      <3>1. x # u
        BY <1>2, <2>2, CachedLists
      <3>2. QED
        BY <2>1, <3>1
    <2>3. w.raze = {} /\ w.revoke = {} /\ DOMAIN w.rename = {} /\ DOMAIN w.fill = {}
      BY <1>2, <1>3
    <2>4. QED
      BY <2>2, <2>3
  <1>10. used \subseteq used' /\ w.born \subseteq used' \ used
    BY <1>2, <1>7
  <1>11. /\ \A y \in DOMAIN w.rename : \A x \in Vaults :
               x # y /\ db.owner[x] = db.owner[y]
                  => x \notin DOMAIN w.rename /\ db.name[x] # w.rename[y]
         /\ \A x \in DOMAIN w.fill : w.fill[x] = BuildVaultList(db, x)
    BY <1>3
  <1>12. \A y \in Vaults, x \in Users :
            <<y, x>> \in DOMAIN w.insert \cup DOMAIN w.role => db.owner[y] # Null /\ x \in db.users
    BY <1>4, <1>7
  <1>13. /\ Quiet(w) /\ (Razes(w) \/ Grants(w) \/ Revokes(w) \/ Spans(w))
         /\ Begin(p, actor, "grant_vault_access", w) /\ "grant_vault_access" # "delete_user"
    BY <1>1, <1>6
  <1>14. QED
    BY <1>5, <1>8, <1>9, <1>10, <1>11, <1>12, <1>13, QuietBook

\* revoke_vault_access.
LEMMA RevokeBook ==
    ASSUME BookInv, NEW p \in Sessions, NEW actor, NEW v \in Vaults, NEW u \in Users,
           RevokeVaultAccess(p, actor, v, u)
    PROVE  BookInv'
  <1>1. PICK w : /\ Begin(p, actor, "revoke_vault_access", w)
                 /\ w = [NoWrites EXCEPT !.revoke = {<<v, u>>}, !.empty = Cached({u})]
    BY DEF RevokeVaultAccess
  <1>2. /\ w.revoke = {<<v, u>>} /\ w.empty = Cached({u})
        /\ w.found = {} /\ w.rename = <<>> /\ w.handover = <<>> /\ w.raze = {} /\ w.insert = <<>>
        /\ w.role = <<>> /\ w.born = {} /\ w.admin = <<>> /\ w.drop = {} /\ w.fill = <<>>
    BY <1>1 DEF NoWrites
  <1>3. /\ DOMAIN w.rename = {} /\ DOMAIN w.handover = {} /\ DOMAIN w.insert = {}
        /\ DOMAIN w.role = {} /\ DOMAIN w.admin = {} /\ DOMAIN w.fill = {}
    BY <1>2
  <1>4. WritesOK(w)
    BY <1>2, <1>3 DEF WritesOK
  <1>5. Quiet(w) /\ Revokes(w)
    BY <1>2, <1>3 DEF Quiet, Revokes, Rows
  <1>6. RowsThere(db, w)
    BY <1>2, <1>3 DEF RowsThere, Cached
  <1>7. \A x \in Users : x \notin w.empty /\ (db.lists[x] # Null \/ x \in DOMAIN w.fill)
           => /\ \A y \in w.raze \cup DOMAIN w.rename : ~ Seen(db, y, x)
              /\ \A y \in Vaults : <<y, x>> \notin w.revoke \cup DOMAIN w.role \cup DOMAIN w.insert
    <2>1. ASSUME NEW x \in Users, x \notin w.empty, db.lists[x] # Null PROVE x # u
      BY <1>2, <2>1, CachedLists
    <2>2. QED
      BY <1>2, <1>3, <2>1
  <1>8. used' = used
    BY DEF RevokeVaultAccess
  <1>9. used \subseteq used' /\ w.born \subseteq used' \ used
    BY <1>2, <1>8
  <1>10. /\ \A y \in DOMAIN w.rename : \A x \in Vaults :
               x # y /\ db.owner[x] = db.owner[y]
                  => x \notin DOMAIN w.rename /\ db.name[x] # w.rename[y]
         /\ \A y \in Vaults, x \in Users :
               <<y, x>> \in DOMAIN w.insert \cup DOMAIN w.role => db.owner[y] # Null /\ x \in db.users
         /\ \A x \in DOMAIN w.fill : w.fill[x] = BuildVaultList(db, x)
    BY <1>3
  <1>11. QED
    BY <1>1, <1>4, <1>5, <1>6, <1>7, <1>9, <1>10, QuietBook

\* get_vaults_for_user_cached: the list filled in is the one just built.
LEMMA ListVaultsBook ==
    ASSUME BookInv, NEW p \in Sessions, NEW u \in Users, ListVaults(p, u)
    PROVE  BookInv'
  <1>1. PICK w : /\ Begin(p, u, "list_vaults", w)
                 /\ w = [NoWrites EXCEPT !.fill = [x \in {u} |-> BuildVaultList(db, u)]]
    BY DEF ListVaults
  <1>2. /\ w.fill = [x \in {u} |-> BuildVaultList(db, u)]
        /\ w.found = {} /\ w.rename = <<>> /\ w.handover = <<>> /\ w.raze = {} /\ w.insert = <<>>
        /\ w.role = <<>> /\ w.revoke = {} /\ w.born = {} /\ w.admin = <<>> /\ w.drop = {}
        /\ w.empty = {}
    BY <1>1 DEF NoWrites
  <1>3. /\ DOMAIN w.rename = {} /\ DOMAIN w.handover = {} /\ DOMAIN w.insert = {}
        /\ DOMAIN w.role = {} /\ DOMAIN w.admin = {}
        /\ DOMAIN w.fill = {u} /\ w.fill[u] = BuildVaultList(db, u)
    BY <1>2
  <1>4. BuildVaultList(db, u) \in SUBSET (Vaults \X Seq(Words))
    BY DEF BuildVaultList, Live, BookInv, DbOK, NamesOK
  <1>5. WritesOK(w)
    BY <1>2, <1>3, <1>4 DEF WritesOK
  <1>6. Quiet(w) /\ Spans(w)
    BY <1>2, <1>3 DEF Quiet, Spans, Rows
  <1>7. u \in db.users /\ used' = used
    BY DEF ListVaults
  <1>8. RowsThere(db, w)
    BY <1>2, <1>3, <1>7 DEF RowsThere
  <1>9. used \subseteq used' /\ w.born \subseteq used' \ used
    BY <1>2, <1>7
  <1>10. /\ \A y \in DOMAIN w.rename : \A x \in Vaults :
               x # y /\ db.owner[x] = db.owner[y]
                  => x \notin DOMAIN w.rename /\ db.name[x] # w.rename[y]
         /\ \A y \in Vaults, x \in Users :
               <<y, x>> \in DOMAIN w.insert \cup DOMAIN w.role => db.owner[y] # Null /\ x \in db.users
         /\ \A x \in DOMAIN w.fill : w.fill[x] = BuildVaultList(db, x)
         /\ \A x \in Users : x \notin w.empty /\ (db.lists[x] # Null \/ x \in DOMAIN w.fill)
              => /\ \A y \in w.raze \cup DOMAIN w.rename : ~ Seen(db, y, x)
                 /\ \A y \in Vaults : <<y, x>> \notin w.revoke \cup DOMAIN w.role \cup DOMAIN w.insert
    BY <1>2, <1>3
  <1>11. QED
    BY <1>1, <1>5, <1>6, <1>8, <1>9, <1>10, QuietBook

\* create_user and update_user_details with is_admin.
SetsAdmin(w, u) ==
    /\ w.born \subseteq {u} /\ DOMAIN w.admin = {u}
    /\ w.found = {} /\ w.rename = <<>> /\ w.handover = <<>> /\ w.raze = {} /\ w.insert = <<>>
    /\ w.role = <<>> /\ w.revoke = {} /\ w.drop = {} /\ w.fill = <<>> /\ w.empty = {}

LEMMA AdminBook ==
    ASSUME BookInv, NEW p \in Sessions, NEW actor, NEW kind, kind # "delete_user",
           NEW w, NEW u \in Users, Begin(p, actor, kind, w), SetsAdmin(w, u),
           used' = used \cup w.born, w.born \cap used = {}, u \in db.users \cup w.born
    PROVE  BookInv'
  <1>1. /\ w.born \subseteq Users /\ DOMAIN w.admin = {u}
        /\ w.found = {} /\ w.rename = <<>> /\ w.handover = <<>> /\ w.raze = {} /\ w.insert = <<>>
        /\ w.role = <<>> /\ w.revoke = {} /\ w.drop = {} /\ w.fill = <<>> /\ w.empty = {}
    BY DEF SetsAdmin
  <1>2. /\ DOMAIN w.rename = {} /\ DOMAIN w.handover = {} /\ DOMAIN w.insert = {}
        /\ DOMAIN w.role = {} /\ DOMAIN w.admin = {u} /\ DOMAIN w.fill = {}
    BY <1>1
  <1>3. WritesOK(w)
    BY <1>1, <1>2 DEF WritesOK
  <1>4. Quiet(w) /\ (Razes(w) \/ Grants(w) \/ Revokes(w) \/ Spans(w))
    BY <1>1, <1>2 DEF Quiet, Spans, Rows
  <1>5. RowsThere(db, w)
    <2>1. w.born \cap db.users = {}
      BY <1>1 DEF BookInv, DbOK
    <2>2. QED
      BY <1>1, <1>2, <2>1 DEF RowsThere
  <1>6. used \subseteq used' /\ w.born \subseteq used' \ used
    BY <1>1
  <1>7. ASSUME NEW x \in Users
        PROVE  /\ \A y \in w.raze \cup DOMAIN w.rename : ~ Seen(db, y, x)
               /\ \A y \in Vaults : <<y, x>> \notin w.revoke \cup DOMAIN w.role \cup DOMAIN w.insert
    BY <1>1, <1>2
  <1>8. /\ \A y \in DOMAIN w.rename : \A x \in Vaults :
              x # y /\ db.owner[x] = db.owner[y]
                 => x \notin DOMAIN w.rename /\ db.name[x] # w.rename[y]
        /\ \A y \in Vaults, x \in Users :
              <<y, x>> \in DOMAIN w.insert \cup DOMAIN w.role => db.owner[y] # Null /\ x \in db.users
        /\ \A x \in DOMAIN w.fill : w.fill[x] = BuildVaultList(db, x)
    BY <1>2
  <1>9. QED
    BY <1>3, <1>4, <1>5, <1>6, <1>7, <1>8, QuietBook

\* create_vault: the id is new, so nobody owns the vault yet or has a grant there.
LEMMA CreateVaultBook ==
    ASSUME BookInv, NEW p \in Sessions, NEW u \in Users, NEW n \in Names, CreateVault(p, u, n)
    PROVE  BookInv'
  <1>0. PICK v \in Vaults \ used, gs \in {{}} \cup {{g} : g \in Agents \cap db.users} :
           /\ Begin(p, u, "create_vault",
                    [NoWrites EXCEPT !.found = {[vault |-> v, owner |-> u, name |-> n]},
                                     !.insert = [x \in {v} \X gs |-> Editor],
                                     !.empty = Cached(gs \cup {u})])
           /\ used' = used \cup {v}
    BY DEF CreateVault
  <1>1. PICK w : /\ Begin(p, u, "create_vault", w)
                 /\ w = [NoWrites EXCEPT !.found = {[vault |-> v, owner |-> u, name |-> n]},
                                         !.insert = [x \in {v} \X gs |-> Editor],
                                         !.empty = Cached(gs \cup {u})]
                 /\ used' = used \cup {v}
    BY <1>0
  <1> DEFINE f == [vault |-> v, owner |-> u, name |-> n]
             e == After(db, w)
  <1>2. /\ w.found = {f} /\ w.empty = Cached(gs \cup {u})
        /\ w.insert = [x \in {v} \X gs |-> Editor]
        /\ w.rename = <<>> /\ w.handover = <<>> /\ w.raze = {} /\ w.role = <<>> /\ w.revoke = {}
        /\ w.born = {} /\ w.admin = <<>> /\ w.drop = {} /\ w.fill = <<>>
    BY <1>1 DEF NoWrites
  <1>3. /\ DOMAIN w.rename = {} /\ DOMAIN w.handover = {} /\ DOMAIN w.role = {}
        /\ DOMAIN w.admin = {} /\ DOMAIN w.fill = {}
        /\ DOMAIN w.insert = {v} \X gs /\ \A c \in {v} \X gs : w.insert[c] = Editor
    BY <1>2
  <1>4. Founding(w) = {v} /\ f.vault = v /\ f.owner = u /\ f.name = n
    BY <1>2 DEF Founding
  <1>5. /\ gs \subseteq db.users /\ gs \subseteq Agents
        /\ \A x \in Owned(db, u) : db.name[x] # n
        /\ u \in db.users
    BY <1>1 DEF CreateVault, Begin, Ready
  <1>6. db \in Tables /\ Keys(db) /\ Live(db) \subseteq used
    BY DEF BookInv, DbOK
  <1>7. /\ db.owner[v] = Null /\ \A x \in Users : db.grants[v][x] = NoAccess
    BY <1>1, <1>6 DEF Live, Keys
  <1>8. WritesOK(w)
    <2>1. \E g \in [vault : Vaults, owner : Users, name : Names] : w.found = {g}
      BY <1>2
    <2>2. QED
      BY <1>2, <1>3, <2>1 DEF WritesOK, Roles
  <1>9. Founds(w)
    <2>1. gs \in {{}} \cup {{g} : g \in Agents}
      BY <1>1
    <2>2. Rows(w) = <<{[vault |-> v, owner |-> u, name |-> n]}, {}, {}, {v} \X gs, {}, {}, {}>>
      BY <1>2, <1>3 DEF Rows
    <2>3. QED
      BY <1>3, <2>1, <2>2 DEF Founds
  <1>10. RowsThere(db, w)
    <2>1. \A c \in DOMAIN w.insert : db.grants[c[1]][c[2]] = NoAccess
      BY <1>3, <1>5, <1>7 DEF Users
    <2>2. w.empty \subseteq db.users
      BY <1>2 DEF Cached
    <2>3. QED
      BY <1>2, <1>3, <2>1, <2>2 DEF RowsThere
  <1>11. ASSUME NEW x \in Vaults
         PROVE  /\ e.owner[x] = IF x = v THEN u ELSE db.owner[x]
                /\ e.name[x] = IF x = v THEN n ELSE db.name[x]
    <2>1. CASE x = v
      <3>1. PICK g : g = f
        OBVIOUS
      <3>2. v \notin w.raze /\ w.found = {g} /\ g.vault = v /\ g.owner = u /\ g.name = n
        BY <1>2, <1>4, <3>1
      <3>3. e.owner[v] = u /\ e.name[v] = n
        BY <3>2, OwnerAfter, NameAfter
      <3>4. QED
        BY <2>1, <3>3
    <2>2. CASE x # v
      BY <1>2, <1>3, <1>4, <2>2, OwnerAfter, NameAfter
    <2>3. QED
      BY <2>1, <2>2
  <1>12. ASSUME NEW y \in Vaults, NEW x \in Users
         PROVE  e.grants[y][x] = IF y = v /\ x \in gs THEN Editor ELSE db.grants[y][x]
    <2>1. <<y, x>> \in DOMAIN w.insert <=> y = v /\ x \in gs
      BY <1>3
    <2>2. QED
      BY <1>2, <1>3, <2>1, GrantAfter
  <1>13. /\ e.users = db.users /\ e.admins \subseteq db.users
         /\ e.signed = {u} \cup db.signed
    <2>1. {g.owner : g \in w.found} = {u} /\ w.drop \cap db.signed = {}
      BY <1>2, <1>4
    <2>2. /\ e.users = (db.users \cup w.born) \ w.drop
          /\ e.admins \subseteq (db.users \cup w.born) \ w.drop
          /\ e.signed = {g.owner : g \in w.found} \cup
                        IF w.drop \cap db.signed = {} THEN db.signed
                        ELSE (db.signed \ w.drop) \cup {w.heir}
      BY PeopleAfter
    <2>3. e.users = db.users /\ e.admins \subseteq db.users
      BY <1>2, <2>2
    <2>4. e.signed = {u} \cup db.signed
      BY <2>1, <2>2
    <2>5. QED
      BY <2>3, <2>4
  <1> HIDE DEF e
  <1>14. Keys(e)
    <2>1. e.admins \cup e.signed \subseteq e.users
      BY <1>5, <1>6, <1>13 DEF Keys
    <2>2. \A x \in Vaults : e.owner[x] \in e.users \cup {Null}
      BY <1>5, <1>6, <1>11, <1>13 DEF Keys
    <2>3. ASSUME NEW x \in Vaults, NEW y \in Vaults, x # y, e.owner[x] = e.owner[y],
                 e.owner[x] # Null
          PROVE  e.name[x] # e.name[y]
      BY <1>5, <1>6, <1>11, <2>3 DEF Keys, Owned
    <2>4. ASSUME NEW y \in Vaults, NEW x \in Users, e.grants[y][x] # NoAccess
          PROVE  e.owner[y] # Null /\ x \in e.users
      <3>1. CASE y = v /\ x \in gs
        BY <1>5, <1>11, <1>13, <3>1, ConstantsAssumption
      <3>2. CASE ~ (y = v /\ x \in gs)
        BY <1>6, <1>7, <1>11, <1>12, <1>13, <2>4, <3>2 DEF Keys
      <3>3. QED
        BY <3>1, <3>2
    <2>5. QED
      BY <2>1, <2>2, <2>3, <2>4 DEF Keys
  <1>15. Fits(w)
    BY <1>10, <1>14 DEF Fits, e
  <1>16. PICK r : r = [kind |-> "create_vault", actor |-> u, writes |-> w]
    OBVIOUS
  <1>17. r.kind = "create_vault" /\ r.writes = w /\ "create_vault" # "delete_user"
    BY <1>16
  <1>18. Refreshes(r)
    <2>1. ASSUME NEW x \in Users, x \notin w.empty /\ (db.lists[x] # Null \/ x \in DOMAIN w.fill)
          PROVE  BuildVaultList(e, x) = BuildVaultList(db, x)
      <3>1. x \notin gs /\ x # u
        BY <1>2, <1>3, <2>1, CachedLists
      <3>2. ASSUME NEW y \in Vaults
            PROVE  /\ Seen(e, y, x) <=> Seen(db, y, x)
                   /\ Seen(e, y, x) => e.name[y] = db.name[y]
        <4>1. e.grants[y][x] = db.grants[y][x]
          BY <1>12, <3>1
        <4>2. QED
          BY <1>7, <1>11, <3>1, <4>1 DEF Seen
      <3>3. QED
        BY <3>2, SameList
    <2>2. /\ w.born \subseteq Users /\ w.drop = {}
          /\ \A x \in DOMAIN w.fill : w.fill[x] = BuildVaultList(db, x)
      BY <1>2, <1>3
    <2>3. QED
      BY <1>17, <2>1, <2>2, ListsRefreshed DEF e
  <1>19. Shape(r)
    BY <1>9, <1>17 DEF Shape
  <1>20. /\ used \subseteq used' /\ w.born \subseteq used' \ used /\ Founding(w) \subseteq used' \ used
         /\ w.drop \subseteq db.users
         /\ \A x \in DOMAIN w.handover \cap Vaults : w.drop \subseteq held[x]
    BY <1>1, <1>2, <1>3, <1>4
  <1>21. QED
    BY <1>1, <1>8, <1>15, <1>16, <1>18, <1>19, <1>20, BeginBook

\* The name that an heir gives to a vault.  It is none of those taken, if among
\* them only this vault's own could be "(from u, vault v)".
LEMMA HeirNameForm ==
    ASSUME BookInv, NEW u \in db.users, NEW v \in Vaults, db.owner[v] = u, NEW taken
    PROVE  LET n == HeirName(u, v, taken)
           IN  /\ n \in Seq(Words) /\ n # <<>>
               /\ \A x : Marked(n, x) => x \in {u} \cup Gone
               /\ Marked(n, u) => n[Len(n)] = v
               /\ (\A t \in taken : Marked(t, u) => t[Len(t)] # v) => n \notin taken
  <1> DEFINE s == db.name[v]
             a == Append(s, u)
             z == s \o <<u, v>>
  <1>1. /\ u \in Users /\ u \in Words /\ v \in Words /\ u \notin Vaults /\ u # Null /\ u \notin Gone
    <2>1. u \in Users
      BY TablesFields DEF BookInv, DbOK
    <2>2. u \in Words /\ v \in Words
      BY <2>1 DEF Words
    <2>3. u \notin Vaults /\ u # Null /\ u \notin Gone
      BY <2>1, ConstantsAssumption DEF Gone
    <2>4. QED
      BY <2>1, <2>2, <2>3
  <1>2. s \in Seq(Words) /\ s # <<>> /\ \A x : Marked(s, x) => x \in Gone
    BY <1>1 DEF BookInv, DbOK, NamesOK
  <1>3. /\ a \in Seq(Words) /\ Len(a) = Len(s) + 1 /\ a[Len(a)] = u
        /\ z \in Seq(Words) /\ Len(z) = Len(s) + 2 /\ z[Len(z)] = v /\ z[Len(z) - 1] = u
    BY <1>1, <1>2
  <1>4. Len(s) \in Nat /\ Len(s) >= 1
    BY <1>2
  <1>5. HeirName(u, v, taken) = IF s \notin taken THEN s ELSE IF a \notin taken THEN a ELSE z
    BY DEF HeirName
  <1> HIDE DEF s, a, z
  <1>6. a # <<>> /\ z # <<>>
    BY <1>3, <1>4
  <1>7. \A x : ~ Marked(a, x)
    BY <1>1, <1>3 DEF Marked
  <1>8. Marked(z, u) /\ \A x : Marked(z, x) => x = u
    BY <1>3, <1>4 DEF Marked
  <1>9. (\A t \in taken : Marked(t, u) => t[Len(t)] # v) => z \notin taken
    BY <1>3, <1>8
  <1>10. QED
    BY <1>1, <1>2, <1>3, <1>5, <1>6, <1>7, <1>8, <1>9

\* The names of inherited vaults have the column's type; none is given twice
\* and the heir has none of them.
LEMMA HeirNamesDistinct ==
    ASSUME BookInv, NEW u \in db.users, NEW heir \in Users, u # heir, NEW given \in HeirNames(u, heir)
    PROVE  /\ DOMAIN given = Owned(db, u)
           /\ \A v \in Owned(db, u) :
                 /\ given[v] \in Seq(Words) /\ given[v] # <<>>
                 /\ \A x : Marked(given[v], x) => x \in {u} \cup Gone
                 /\ \A y \in Owned(db, heir) : given[v] # db.name[y]
                 /\ \A y \in Owned(db, u) : y # v => given[v] # given[y]
  <1> DEFINE vs == Owned(db, u)
             had == {db.name[w] : w \in Owned(db, heir)}
  <1>1. PICK turn \in Injection(vs, 1..Cardinality(vs)) :
           \A v \in vs :
              given[v] = HeirName(u, v, had \cup {given[w] : w \in {x \in vs : turn[x] < turn[v]}})
    BY DEF HeirNames
  <1>2. DOMAIN given = vs
    BY DEF HeirNames
  <1>3. turn \in [vs -> 1..Cardinality(vs)] /\ \A v, w \in vs : turn[v] = turn[w] => v = w
    BY <1>1 DEF Injection, IsInjective
  <1>4. vs \subseteq Vaults /\ \A v \in vs : db.owner[v] = u
    BY DEF Owned
  <1> DEFINE before(v) == {given[w] : w \in {x \in vs : turn[x] < turn[v]}}
  <1>5. \A t \in had : ~ Marked(t, u)
    <2>1. u \notin Gone
      BY DEF Gone
    <2>2. \A y \in Owned(db, heir) : y \in Vaults /\ db.owner[y] # Null
      BY ConstantsAssumption DEF Owned
    <2>3. QED
      BY <2>1, <2>2 DEF BookInv, DbOK, NamesOK
  <1>6. ASSUME NEW v \in vs
        PROVE  /\ given[v] \in Seq(Words) /\ given[v] # <<>>
               /\ \A x : Marked(given[v], x) => x \in {u} \cup Gone
               /\ Marked(given[v], u) => given[v][Len(given[v])] = v
               /\ (\A t \in had \cup before(v) : Marked(t, u) => t[Len(t)] # v)
                     => given[v] \notin had \cup before(v)
    <2>1. v \in Vaults /\ db.owner[v] = u
      BY <1>4
    <2>2. given[v] = HeirName(u, v, had \cup before(v))
      BY <1>1
    <2>3. QED
      BY <2>1, <2>2, HeirNameForm
  <1>7. ASSUME NEW v \in vs PROVE given[v] \notin had \cup before(v)
    <2>1. ASSUME NEW t \in before(v), Marked(t, u) PROVE t[Len(t)] # v
      <3>1. PICK w \in vs : t = given[w] /\ turn[w] < turn[v]
        BY <2>1
      <3>2. w # v
        BY <1>3, <3>1
      <3>3. t[Len(t)] = w
        BY <1>6, <2>1, <3>1
      <3>4. QED
        BY <3>2, <3>3
    <2>2. QED
      BY <1>5, <1>6, <2>1
  <1>8. ASSUME NEW v \in vs, NEW y \in vs, y # v PROVE given[v] # given[y]
    <2>1. turn[v] < turn[y] \/ turn[y] < turn[v]
      BY <1>3, <1>8
    <2>2. given[v] \in before(y) \/ given[y] \in before(v)
      BY <2>1
    <2>3. QED
      BY <1>7, <2>2
  <1>9. QED
    BY <1>2, <1>6, <1>7, <1>8

\* delete_user: one heir, whose names stay distinct, and the excused lists.
LEMMA DeleteUserBook ==
    ASSUME BookInv, NEW p \in Sessions, NEW actor, NEW u \in Users, DeleteUser(p, actor, u)
    PROVE  BookInv'
  <1>0. PICK given \in HeirNames(u, actor) :
           Begin(p, actor, "delete_user",
                 [NoWrites EXCEPT
                    !.handover = [v \in Owned(db, u) |-> actor],
                    !.rename = [v \in {x \in Owned(db, u) : given[x] # db.name[x]} |-> given[v]],
                    !.heir = actor,
                    !.drop = {u}])
    BY DEF DeleteUser
  <1>1. PICK w :
           /\ Begin(p, actor, "delete_user", w)
           /\ w = [NoWrites EXCEPT
                     !.handover = [v \in Owned(db, u) |-> actor],
                     !.rename = [v \in {x \in Owned(db, u) : given[x] # db.name[x]} |-> given[v]],
                     !.heir = actor,
                     !.drop = {u}]
    BY <1>0
  <1> DEFINE vs == Owned(db, u)
             e == After(db, w)
  <1>2. /\ w.handover = [v \in vs |-> actor]
        /\ w.rename = [v \in {x \in vs : given[x] # db.name[x]} |-> given[v]]
        /\ w.heir = actor /\ w.drop = {u}
        /\ w.found = {} /\ w.raze = {} /\ w.insert = <<>> /\ w.role = <<>> /\ w.revoke = {}
        /\ w.born = {} /\ w.admin = <<>> /\ w.empty = {} /\ w.fill = <<>>
    BY <1>1 DEF NoWrites
  <1>3. /\ DOMAIN w.handover = vs /\ \A v \in vs : w.handover[v] = actor
        /\ DOMAIN w.rename \subseteq vs /\ \A v \in DOMAIN w.rename : w.rename[v] = given[v]
        /\ \A v \in vs : v \notin DOMAIN w.rename => given[v] = db.name[v]
        /\ DOMAIN w.insert = {} /\ DOMAIN w.role = {} /\ DOMAIN w.admin = {} /\ DOMAIN w.fill = {}
        /\ Founding(w) = {}
    BY <1>2 DEF Founding
  <1>4. db \in Tables /\ Keys(db) /\ \A v \in Live(db) : db.owner[v] \in held[v]
    BY DEF BookInv, DbOK
  <1>5. /\ u \in db.users /\ actor \in db.users /\ u # actor /\ used' = used
        /\ actor \in Users /\ actor # Null /\ u # Null
    BY <1>4, TablesFields, ConstantsAssumption DEF DeleteUser, IsAdmin
  <1>6. /\ vs \subseteq Vaults /\ vs \subseteq Live(db) /\ \A v \in Vaults : v \in vs <=> db.owner[v] = u
    BY <1>5 DEF Owned, Live
  <1>7. \A v \in vs :
           /\ given[v] \in Seq(Words) /\ given[v] # <<>>
           /\ \A x : Marked(given[v], x) => x \in {u} \cup Gone
           /\ \A y \in Owned(db, actor) : given[v] # db.name[y]
           /\ \A y \in vs : y # v => given[v] # given[y]
    BY <1>1, <1>5, HeirNamesDistinct
  <1> HIDE DEF vs
  <1>8. WritesOK(w)
    BY <1>2, <1>3, <1>5, <1>7 DEF WritesOK
  <1>9. Closes(w)
    <2>1. Rows(w) = <<{}, vs, {}, {}, {}, {}, {u}>>
      BY <1>2, <1>3 DEF Rows
    <2>2. vs \in SUBSET Vaults
      BY <1>6
    <2>3. QED
      BY <1>2, <1>3, <1>5, <2>1, <2>2 DEF Closes
  <1>10. RowsThere(db, w)
    BY <1>2, <1>3, <1>6 DEF RowsThere
  <1>11. ASSUME NEW v \in Vaults
         PROVE  /\ e.owner[v] = IF v \in vs THEN actor ELSE db.owner[v]
                /\ e.name[v] = IF v \in vs THEN given[v] ELSE db.name[v]
                /\ v \notin DOMAIN w.rename => e.name[v] = db.name[v]
    <2>1. v \notin w.raze /\ v \notin Founding(w)
      BY <1>2, <1>3
    <2>2. /\ e.owner[v] = IF v \in DOMAIN w.handover THEN w.handover[v] ELSE db.owner[v]
          /\ e.name[v] = IF v \in DOMAIN w.rename THEN w.rename[v] ELSE db.name[v]
      BY <2>1, OwnerAfter, NameAfter
    <2>3. QED
      BY <1>3, <2>2
  <1>12. ASSUME NEW v \in Vaults, NEW x \in Users
         PROVE  e.grants[v][x] = IF x = u THEN NoAccess ELSE db.grants[v][x]
    <2>1. /\ v \notin w.raze /\ <<v, x>> \notin w.revoke /\ <<v, x>> \notin DOMAIN w.role
          /\ <<v, x>> \notin DOMAIN w.insert /\ (x \in w.drop <=> x = u)
      BY <1>2, <1>3
    <2>2. QED
      BY <2>1, GrantAfter
  <1>13. /\ e.users = db.users \ {u} /\ e.admins \subseteq db.users \ {u}
         /\ e.signed \subseteq db.users \ {u}
    <2>1. /\ e.users = (db.users \cup w.born) \ w.drop
          /\ e.admins \subseteq (db.users \cup w.born) \ w.drop
          /\ e.signed = {g.owner : g \in w.found} \cup
                        IF w.drop \cap db.signed = {} THEN db.signed
                        ELSE (db.signed \ w.drop) \cup {w.heir}
      BY PeopleAfter
    <2>2. {g.owner : g \in w.found} = {} /\ db.signed \subseteq db.users
      BY <1>2, <1>4 DEF Keys
    <2>3. e.signed \subseteq db.users \ {u}
      <3>1. CASE w.drop \cap db.signed = {}
        BY <1>2, <2>1, <2>2, <3>1
      <3>2. CASE w.drop \cap db.signed # {}
        BY <1>2, <1>5, <2>1, <2>2, <3>2
      <3>3. QED
        BY <3>1, <3>2
    <2>4. e.users = db.users \ {u} /\ e.admins \subseteq db.users \ {u}
      BY <1>2, <2>1
    <2>5. QED
      BY <2>3, <2>4
  <1>14. ASSUME NEW x \in Users PROVE e.lists[x] = IF x = u THEN Null ELSE db.lists[x]
    BY <1>2, <1>3, ListAfter
  <1> HIDE DEF e
  <1>15. Keys(e)
    <2>1. \A v \in Vaults : e.owner[v] \in e.users \cup {Null}
      BY <1>4, <1>5, <1>6, <1>11, <1>13 DEF Keys
    <2>2. ASSUME NEW v \in Vaults, NEW y \in Vaults, v # y, e.owner[v] = e.owner[y],
                 e.owner[v] # Null
          PROVE  e.name[v] # e.name[y]
      <3>1. CASE v \in vs /\ y \in vs
        BY <1>7, <1>11, <2>2, <3>1
      <3>2. CASE v \in vs /\ y \notin vs
        <4>1. y \in Owned(db, actor)
          BY <1>11, <2>2, <3>2 DEF Owned
        <4>2. QED
          BY <1>7, <1>11, <3>2, <4>1
      <3>3. CASE v \notin vs /\ y \in vs
        <4>1. v \in Owned(db, actor)
          BY <1>11, <2>2, <3>3 DEF Owned
        <4>2. QED
          BY <1>7, <1>11, <3>3, <4>1
      <3>4. CASE v \notin vs /\ y \notin vs
        BY <1>4, <1>11, <2>2, <3>4 DEF Keys
      <3>5. QED
        BY <3>1, <3>2, <3>3, <3>4
    <2>3. ASSUME NEW v \in Vaults, NEW x \in Users, e.grants[v][x] # NoAccess
          PROVE  e.owner[v] # Null /\ x \in e.users
      BY <1>4, <1>5, <1>11, <1>12, <1>13, <2>3 DEF Keys
    <2>4. e.admins \cup e.signed \subseteq e.users
      BY <1>13
    <2>5. QED
      BY <2>1, <2>2, <2>3, <2>4 DEF Keys
  <1>16. Fits(w)
    BY <1>10, <1>15 DEF Fits, e
  <1>17. PICK r : r = [kind |-> "delete_user", actor |-> actor, writes |-> w]
    OBVIOUS
  <1>18. r.kind = "delete_user" /\ r.writes = w
    BY <1>17
  <1>19. ASSUME NEW x \in e.users \ (excused \cup Inherited(r))
         PROVE  e.lists[x] \in {Null, BuildVaultList(e, x)}
    <2>1. x \in db.users /\ x # u /\ x \in Users
      BY <1>4, <1>13, <1>19, TablesFields
    <2>2. db.lists[x] \in {Null, BuildVaultList(db, x)}
      BY <1>19, <2>1 DEF BookInv, ListsFresh
    <2>3. ASSUME NEW v \in vs
          PROVE  x # actor /\ (v \in DOMAIN w.rename => db.grants[v][x] = NoAccess)
      <3>1. w.handover # <<>>
        BY <1>3, <2>3
      <3>2. Inherited(r) = {actor} \cup {y \in Users : \E z \in DOMAIN w.rename :
                                                          db.grants[z][y] # NoAccess}
        BY <1>2, <1>18, <3>1 DEF Inherited
      <3>3. QED
        BY <1>19, <2>1, <3>2
    <2>4. ASSUME NEW v \in Vaults
          PROVE  /\ Seen(db, v, x) <=> Seen(e, v, x)
                 /\ Seen(db, v, x) => db.name[v] = e.name[v]
      <3>1. e.grants[v][x] = db.grants[v][x]
        BY <1>12, <2>1
      <3>2. CASE v \in vs
        BY <1>5, <1>6, <1>11, <2>1, <2>3, <3>1, <3>2 DEF Seen
      <3>3. CASE v \notin vs
        BY <1>11, <3>1, <3>3 DEF Seen
      <3>4. QED
        BY <3>2, <3>3
    <2>5. BuildVaultList(db, x) = BuildVaultList(e, x)
      BY <2>4, SameList
    <2>6. QED
      BY <1>14, <2>1, <2>2, <2>5
  <1>20. Refreshes(r)
    BY <1>18, <1>19 DEF Refreshes, e
  <1>21. Shape(r)
    BY <1>9, <1>18 DEF Shape
  <1>22. /\ used \subseteq used' /\ w.born \subseteq used' \ used /\ Founding(w) \subseteq used' \ used
         /\ w.drop \subseteq db.users
         /\ \A v \in DOMAIN w.handover \cap Vaults : w.drop \subseteq held[v]
    BY <1>2, <1>3, <1>4, <1>5, <1>6
  <1>23. QED
    BY <1>1, <1>8, <1>16, <1>17, <1>20, <1>21, <1>22, BeginBook

\* A freshly set up system satisfies the invariant.
LEMMA InitBook == Init => BookInv
  <1> SUFFICES ASSUME Init PROVE BookInv
    OBVIOUS
  <1>1. PICK as \in (SUBSET Humans) \ {{}}, gs \in SUBSET Agents :
           /\ db = [users |-> as \cup gs, admins |-> as, signed |-> {},
                    owner |-> [v \in Vaults |-> Null], name |-> [v \in Vaults |-> Null],
                    grants |-> [v \in Vaults |-> [u \in Users |-> NoAccess]],
                    lists |-> [u \in Users |-> Null]]
           /\ used = as \cup gs
    BY DEF Init
  <1>2. as \subseteq Users /\ gs \subseteq Users
    BY DEF Users
  <1>3. /\ db.users = as \cup gs /\ db.admins = as /\ db.signed = {}
        /\ \A v \in Vaults : /\ db.owner[v] = Null /\ db.name[v] = Null
                             /\ \A u \in Users : db.grants[v][u] = NoAccess
        /\ \A u \in Users : db.lists[u] = Null
    BY <1>1
  <1>4. db \in Tables
    BY <1>1, <1>2 DEF Tables
  <1>5. Keys(db)
    BY <1>3 DEF Keys
  <1>6. Live(db) = {} /\ NamesOK
    BY <1>3 DEF Live, NamesOK
  <1>7. held \in [Vaults -> SUBSET Users]
    BY DEF Init
  <1>8. DbOK
    BY <1>1, <1>3, <1>4, <1>5, <1>6, <1>7 DEF DbOK
  <1>9. Busy = {} /\ aged = {} /\ excused = {} /\ req = [p \in Sessions |-> req[p]]
    BY DEF Init, Busy
  <1>10. ListsFresh
    BY <1>2, <1>3 DEF ListsFresh
  <1>11. QED
    BY <1>8, <1>9, <1>10 DEF BookInv, Apart

\* And every step keeps it: a request of either blueprint, a commit, a stutter.
LEMMA NextKeepsBook == BookInv /\ [Next]_vars => BookInv'
  <1> SUFFICES ASSUME BookInv, [Next]_vars PROVE BookInv'
    OBVIOUS
  <1>1. ASSUME NEW p \in Sessions, NEW u \in Humans, VaultRequest(p, u) PROVE BookInv'
    <2>0. u \in Users
      BY DEF Users
    <2>1. ASSUME NEW n \in Names, CreateVault(p, u, n) PROVE BookInv'
      BY <2>0, <2>1, CreateVaultBook
    <2>2. ASSUME NEW v \in Vaults, NEW n \in Names, RenameVault(p, u, v, n) PROVE BookInv'
      BY <2>2, RenameVaultBook
    <2>3. ASSUME NEW v \in Vaults, DeleteVault(p, u, v) PROVE BookInv'
      BY <2>3, RazeBook DEF DeleteVault
    <2>4. ASSUME NEW v \in Vaults, NEW x \in Users, NEW r \in Roles, GrantVaultAccess(p, u, v, x, r)
          PROVE  BookInv'
      BY <2>4, GrantBook
    <2>5. ASSUME NEW v \in Vaults, NEW x \in Users, RevokeVaultAccess(p, u, v, x) PROVE BookInv'
      BY <2>5, RevokeBook
    <2>6. ASSUME ListVaults(p, u) PROVE BookInv'
      BY <2>0, <2>6, ListVaultsBook
    <2>7. QED
      BY <1>1, <2>1, <2>2, <2>3, <2>4, <2>5, <2>6 DEF VaultRequest
  <1>2. ASSUME NEW p \in Sessions, NEW u \in Humans, AdminRequest(p, u) PROVE BookInv'
    <2>1. ASSUME NEW v \in Vaults, AdminDeleteVault(p, u, v) PROVE BookInv'
      BY <2>1, RazeBook DEF AdminDeleteVault
    <2>2. ASSUME NEW x \in Humans, NEW a \in BOOLEAN, CreateUser(p, u, x, a) PROVE BookInv'
      <3>1. PICK w : /\ Begin(p, u, "create_user", w)
                     /\ w = [NoWrites EXCEPT !.born = {x}, !.admin = [y \in {x} |-> a]]
        BY <2>2 DEF CreateUser
      <3>2. w.born = {x} /\ SetsAdmin(w, x)
        BY <3>1 DEF NoWrites, SetsAdmin
      <3>3. /\ x \in Users /\ used' = used \cup w.born /\ w.born \cap used = {}
            /\ x \in db.users \cup w.born /\ "create_user" # "delete_user"
        BY <2>2, <3>2 DEF CreateUser, Users
      <3>4. QED
        BY <3>1, <3>2, <3>3, AdminBook
    <2>3. ASSUME NEW x \in Users, NEW a \in BOOLEAN, SetAdmin(p, u, x, a) PROVE BookInv'
      <3>1. PICK w : /\ Begin(p, u, "update_user", w)
                     /\ w = [NoWrites EXCEPT !.admin = [y \in {x} |-> a]]
        BY <2>3 DEF SetAdmin
      <3>2. w.born = {} /\ SetsAdmin(w, x)
        BY <3>1 DEF NoWrites, SetsAdmin
      <3>3. /\ used' = used \cup w.born /\ w.born \cap used = {}
            /\ x \in db.users \cup w.born /\ "update_user" # "delete_user"
        BY <2>3, <3>2 DEF SetAdmin
      <3>4. QED
        BY <3>1, <3>2, <3>3, AdminBook
    <2>4. ASSUME NEW x \in Users, DeleteUser(p, u, x) PROVE BookInv'
      BY <2>4, DeleteUserBook
    <2>5. QED
      BY <1>2, <2>1, <2>2, <2>3, <2>4 DEF AdminRequest
  <1>3. ASSUME NEW p \in Sessions, Commit(p) PROVE BookInv'
    BY <1>3, CommitBook
  <1>4. CASE UNCHANGED vars
    <2>1. db' = db /\ req' = req /\ aged' = aged /\ excused' = excused /\ held' = held /\ used' = used
      BY <1>4 DEF vars
    <2>2. Busy' = Busy /\ Born' = Born
      BY <2>1 DEF Busy, Born
    <2>3. Gone' = Gone
      BY <2>1, <2>2 DEF Gone
    <2>4. DbOK' /\ ListsFresh'
      BY <2>1, <2>3 DEF DbOK, NamesOK, BookInv, ListsFresh
    <2>5. \A p \in Busy' : WritesOK(req[p].writes)' /\ Shape(req[p])'
      BY ZenonT(60), <2>1, <2>2, <2>3 DEF BookInv, WritesOK
    <2>6. Apart'
      BY <2>1, <2>2 DEF BookInv, Apart
    <2>7. \A p \in Busy' \ aged' : Fits(req[p].writes)' /\ Refreshes(req[p])'
      BY <2>1, <2>2 DEF BookInv, Fits, Refreshes, Inherited
    <2>8. QED
      BY <2>1, <2>2, <2>4, <2>5, <2>6, <2>7 DEF BookInv
  <1>5. QED
    BY <1>1, <1>2, <1>3, <1>4 DEF Next

-----------------------------------------------------------------------------
(***************************************************************************)
(* VaultBook, step by step.                                                *)
(***************************************************************************)
\* What each user may do in each vault.
Rights(d) == [v \in Vaults |-> [u \in Users |-> Access(d, v, u)]]

LEMMA RightsCells ==
    ASSUME NEW d
    PROVE  /\ Rights(d) = [v \in Vaults |-> Rights(d)[v]]
           /\ \A v \in Vaults : Rights(d)[v] = [u \in Users |-> Rights(d)[v][u]]
           /\ \A v \in Vaults, u \in Users : Rights(d)[v][u] = Access(d, v, u)
  BY DEF Rights

\* One cell of a table changed.
LEMMA CellSet ==
    ASSUME NEW A, NEW B, NEW v, NEW u, NEW r,
           A = [y \in Vaults |-> A[y]], \A y \in Vaults : A[y] = [x \in Users |-> A[y][x]],
           B = [y \in Vaults |-> B[y]], \A y \in Vaults : B[y] = [x \in Users |-> B[y][x]],
           \A y \in Vaults, x \in Users : B[y][x] = IF y = v /\ x = u THEN r ELSE A[y][x]
    PROVE  B = [A EXCEPT ![v][u] = r]
  <1>1. ASSUME NEW y \in Vaults PROVE B[y] = IF y = v THEN [A[v] EXCEPT ![u] = r] ELSE A[y]
    BY <1>1
  <1>2. QED
    BY <1>1

\* A system without vaults is an empty book.
LEMMA InitMapped == BookInv /\ Init => Book!Init
  <1> SUFFICES ASSUME BookInv, Init PROVE Book!Init
    OBVIOUS
  <1>1. db \in Tables
    BY DEF BookInv, DbOK
  <1>2. db.owner \in [Vaults -> Users \cup {Null}]
    BY <1>1 DEF Tables
  <1>3. \A v \in Vaults : db.owner[v] = Null
    BY DEF Init
  <1>4. \A v \in Vaults, u \in Users : Access(db, v, u) = NoAccess
    BY <1>3 DEF Access
  <1>5. Rights(db) \in [Vaults -> [Users -> Roles \cup {NoAccess}]]
    BY <1>4 DEF Rights
  <1>6. held = [v \in Vaults |-> {db.owner[v]} \ {Null}]
    BY <1>3 DEF Init
  <1>7. QED
    BY <1>2, <1>5, <1>6 DEF Book!Init, Rights, Roles, Viewer, Editor, NoAccess,
                            Book!Roles, Book!Viewer, Book!Editor, Book!NoAccess

\* Owners, access and the history as they were: a stutter of the book.
LEMMA BookUnchanged ==
    ASSUME BookInv, DbOK', held' = held,
           \A v \in Vaults : db'.owner[v] = db.owner[v],
           \A v \in Vaults, u \in Users : Access(db', v, u) = Access(db, v, u)
    PROVE  UNCHANGED Book!vars
  <1>1. db'.owner = db.owner
    <2>1. db \in Tables /\ db' \in Tables
      BY DEF BookInv, DbOK, Tables
    <2>2. db.owner = [v \in Vaults |-> db.owner[v]] /\ db'.owner = [v \in Vaults |-> db'.owner[v]]
      BY <2>1 DEF Tables
    <2>3. QED
      BY <2>2
  <1>2. [v \in Vaults |-> [u \in Users |-> Access(db', v, u)]]
           = [v \in Vaults |-> [u \in Users |-> Access(db, v, u)]]
    OBVIOUS
  <1>3. QED
    BY <1>1, <1>2 DEF Book!vars

\* What every accepted commit does to the owners and to who ever was one.
LEMMA CommitOwners ==
    ASSUME BookInv, NEW p \in Sessions, Commit(p), Accepted(p), NEW w, w = req[p].writes
    PROVE  /\ db' = After(db, w) /\ db \in Tables /\ db' \in Tables /\ p \in Busy
           /\ Keys(db) /\ Keys(db') /\ RowsThere(db, w) /\ WritesOK(w) /\ Shape(req[p])
           /\ db.owner = [v \in Vaults |-> db.owner[v]]
           /\ db'.owner = [v \in Vaults |-> db'.owner[v]]
           /\ held = [v \in Vaults |-> held[v]]
           /\ held' = [v \in Vaults |-> held[v] \cup ({db'.owner[v]} \ {Null})]
           /\ \A v \in Vaults : db.owner[v] # Null => db.owner[v] \in held[v]
  <1>1. p \in Busy /\ db' = After(db, w)
    BY CommitClears DEF Commit
  <1>2. DbOK /\ DbOK'
    BY CommitDb DEF BookInv
  <1>3. db \in Tables /\ db' \in Tables /\ Keys(db) /\ Keys(db')
    BY <1>2 DEF DbOK
  <1>4. /\ db.owner = [v \in Vaults |-> db.owner[v]]
        /\ db'.owner = [v \in Vaults |-> db'.owner[v]]
    BY <1>3 DEF Tables
  <1>5. /\ held = [v \in Vaults |-> held[v]]
        /\ \A v \in Vaults : db.owner[v] # Null => db.owner[v] \in held[v]
    BY <1>2 DEF DbOK, Live
  <1>6. QED
    BY <1>1, <1>3, <1>4, <1>5 DEF BookInv, Accepted, Commit

\* A commit that leaves the vaults' owners and all grants but one.
LEMMA OneGrantMapped ==
    ASSUME BookInv, NEW p \in Sessions, Commit(p), Accepted(p),
           \A y \in Vaults : db'.owner[y] = db.owner[y],
           NEW v \in Vaults, NEW u \in Users, NEW r \in Roles \cup {NoAccess},
           \A y \in Vaults, x \in Users :
              db'.grants[y][x] = IF y = v /\ x = u THEN r ELSE db.grants[y][x]
    PROVE  Book!Next \/ UNCHANGED Book!vars
  <1>1. /\ db.owner = [y \in Vaults |-> db.owner[y]]
        /\ db'.owner = [y \in Vaults |-> db'.owner[y]]
        /\ held = [y \in Vaults |-> held[y]]
        /\ held' = [y \in Vaults |-> held[y] \cup ({db'.owner[y]} \ {Null})]
        /\ \A y \in Vaults : db.owner[y] # Null => db.owner[y] \in held[y]
    BY CommitOwners
  <1>2. held' = held /\ db'.owner = db.owner
    BY <1>1
  <1>3. CASE db.owner[v] \in {Null, u}
    <2>1. ASSUME NEW y \in Vaults, NEW x \in Users PROVE Access(db', y, x) = Access(db, y, x)
      BY <1>3 DEF Access
    <2>2. UNCHANGED Book!vars
      BY <1>2, <2>1, CommitDb, BookUnchanged
    <2>3. QED
      BY <2>2
  <1>4. CASE db.owner[v] \notin {Null, u}
    <2>1. ASSUME NEW y \in Vaults, NEW x \in Users
          PROVE  Access(db', y, x) = IF y = v /\ x = u THEN r ELSE Access(db, y, x)
      BY <1>4 DEF Access
    <2>2. Rights(db') = [Rights(db) EXCEPT ![v][u] = r]
      <3>1. PICK A, B : A = Rights(db) /\ B = Rights(db')
        OBVIOUS
      <3>2. /\ A = [y \in Vaults |-> A[y]] /\ \A y \in Vaults : A[y] = [x \in Users |-> A[y][x]]
            /\ B = [y \in Vaults |-> B[y]] /\ \A y \in Vaults : B[y] = [x \in Users |-> B[y][x]]
        BY <3>1, RightsCells
      <3>3. \A y \in Vaults, x \in Users : B[y][x] = IF y = v /\ x = u THEN r ELSE A[y][x]
        BY <2>1, <3>1, RightsCells
      <3>4. B = [A EXCEPT ![v][u] = r]
        BY <3>2, <3>3, CellSet
      <3>5. QED
        BY <3>1, <3>4
    <2>3. Book!SetAccess(v, u, r)
      BY <1>2, <1>4, <2>2 DEF Book!SetAccess, Rights
    <2>4. r \in Book!Roles \cup {Book!NoAccess}
      BY DEF Roles, Viewer, Editor, NoAccess, Book!Roles, Book!Viewer, Book!Editor, Book!NoAccess
    <2>5. QED
      BY <2>3, <2>4 DEF Book!Next
  <1>5. QED
    BY <1>3, <1>4

\* A vault deleted, or already gone.
LEMMA RazeMapped ==
    ASSUME BookInv, NEW p \in Sessions, Commit(p), Accepted(p), NEW v \in Vaults,
           \A y \in Vaults : db'.owner[y] = IF y = v THEN Null ELSE db.owner[y],
           \A y \in Vaults, x \in Users : y # v => db'.grants[y][x] = db.grants[y][x]
    PROVE  Book!Next \/ UNCHANGED Book!vars
  <1>1. /\ db.owner = [y \in Vaults |-> db.owner[y]]
        /\ db'.owner = [y \in Vaults |-> db'.owner[y]]
        /\ held = [y \in Vaults |-> held[y]]
        /\ held' = [y \in Vaults |-> held[y] \cup ({db'.owner[y]} \ {Null})]
        /\ \A y \in Vaults : db.owner[y] # Null => db.owner[y] \in held[y]
    BY CommitOwners
  <1>2. held' = held
    BY <1>1
  <1>3. ASSUME NEW y \in Vaults, NEW x \in Users
        PROVE  Access(db', y, x) = IF y = v THEN NoAccess ELSE Access(db, y, x)
    BY DEF Access
  <1>4. CASE db.owner[v] = Null
    <2>1. ASSUME NEW y \in Vaults
          PROVE  /\ db'.owner[y] = db.owner[y]
                 /\ \A x \in Users : Access(db', y, x) = Access(db, y, x)
      BY <1>3, <1>4 DEF Access
    <2>2. UNCHANGED Book!vars
      BY <1>2, <2>1, CommitDb, BookUnchanged
    <2>3. QED
      BY <2>2
  <1>5. CASE db.owner[v] # Null
    <2>1. [y \in Vaults |-> [x \in Users |-> Access(db', y, x)]]
             = [[y \in Vaults |-> [x \in Users |-> Access(db, y, x)]]
                   EXCEPT ![v] = [x \in Users |-> Book!NoAccess]]
      BY <1>3 DEF NoAccess, Book!NoAccess
    <2>2. db'.owner = [db.owner EXCEPT ![v] = Null]
      BY <1>1
    <2>3. Book!Raze(v)
      BY <1>2, <1>5, <2>1, <2>2 DEF Book!Raze
    <2>4. QED
      BY <2>3 DEF Book!Next
  <1>6. QED
    BY <1>4, <1>5

\* A vault founded, with an agent or without.
LEMMA FoundMapped ==
    ASSUME BookInv, NEW p \in Sessions, Commit(p), Accepted(p), NEW v \in Vaults, NEW u \in Users,
           NEW gs \in {{}} \cup {{a} : a \in Agents}, db.owner[v] = Null,
           \A y \in Vaults : db'.owner[y] = IF y = v THEN u ELSE db.owner[y],
           \A y \in Vaults, x \in Users :
              db'.grants[y][x] = IF y = v /\ x \in gs THEN Editor ELSE db.grants[y][x]
    PROVE  Book!Next
  <1>1. /\ db.owner = [y \in Vaults |-> db.owner[y]]
        /\ db'.owner = [y \in Vaults |-> db'.owner[y]]
        /\ held = [y \in Vaults |-> held[y]]
        /\ held' = [y \in Vaults |-> held[y] \cup ({db'.owner[y]} \ {Null})]
        /\ \A y \in Vaults : db.owner[y] # Null => db.owner[y] \in held[y]
        /\ Keys(db)
    BY CommitOwners
  <1>2. u # Null
    BY ConstantsAssumption
  <1>3. held' = [held EXCEPT ![v] = held[v] \cup {u}]
    <2>1. \A y \in Vaults : held[y] \cup ({db'.owner[y]} \ {Null})
                              = IF y = v THEN held[v] \cup {u} ELSE held[y]
      BY <1>1, <1>2
    <2>2. QED
      BY <1>1, <2>1
  <1>4. db'.owner = [db.owner EXCEPT ![v] = u]
    BY <1>1
  <1>5. \A x \in Users : db.grants[v][x] = NoAccess
    BY <1>1 DEF Keys
  <1>6. ASSUME NEW y \in Vaults, NEW x \in Users
        PROVE  Access(db', y, x) = IF y = v THEN IF x \in gs \cup {u} THEN Editor ELSE NoAccess
                                   ELSE Access(db, y, x)
    BY <1>2, <1>5 DEF Access
  <1> DEFINE row == [x \in Users |-> IF x \in gs \cup {u} THEN Editor ELSE NoAccess]
  <1>7. Rights(db') = [Rights(db) EXCEPT ![v] = row]
    <2>1. PICK A, B, z : A = Rights(db) /\ B = Rights(db') /\ z = row
      OBVIOUS
    <2>2. /\ A = [y \in Vaults |-> A[y]] /\ \A y \in Vaults : A[y] = [x \in Users |-> A[y][x]]
          /\ B = [y \in Vaults |-> B[y]] /\ \A y \in Vaults : B[y] = [x \in Users |-> B[y][x]]
          /\ z = [x \in Users |-> z[x]]
      BY <2>1, RightsCells
    <2>3. \A y \in Vaults, x \in Users : B[y][x] = IF y = v THEN z[x] ELSE A[y][x]
      BY <1>6, <2>1, RightsCells
    <2>4. ASSUME NEW y \in Vaults PROVE B[y] = IF y = v THEN z ELSE A[y]
      BY <2>2, <2>3
    <2>5. B = [A EXCEPT ![v] = z]
      BY <2>2, <2>4
    <2>6. QED
      BY <2>1, <2>5
  <1>8. Book!Found(v, u)
    BY <1>3, <1>4, <1>7 DEF Book!Found, Rights, NoAccess, Editor, Book!NoAccess, Book!Editor
  <1>9. QED
    BY <1>8 DEF Book!Next

\* An account closed.  Its owner cannot keep a vault, or the commit is refused.
LEMMA HandOverMapped ==
    ASSUME BookInv, NEW p \in Sessions, Commit(p), Accepted(p),
           NEW u \in Users, NEW h \in Users, u # h, NEW vs \in SUBSET Vaults,
           \A y \in vs : db.owner[y] # Null /\ u \in held[y],
           \A y \in Vaults : db'.owner[y] = IF y \in vs THEN h ELSE db.owner[y],
           \A y \in Vaults, x \in Users :
              db'.grants[y][x] = IF x = u THEN NoAccess ELSE db.grants[y][x],
           u \notin db'.users
    PROVE  Book!Next
  <1>1. /\ db.owner = [y \in Vaults |-> db.owner[y]]
        /\ db'.owner = [y \in Vaults |-> db'.owner[y]]
        /\ held = [y \in Vaults |-> held[y]]
        /\ held' = [y \in Vaults |-> held[y] \cup ({db'.owner[y]} \ {Null})]
        /\ \A y \in Vaults : db.owner[y] # Null => db.owner[y] \in held[y]
        /\ Keys(db')
    BY CommitOwners
  <1>2. u # Null /\ h # Null
    BY ConstantsAssumption
  <1>3. \A y \in Vaults : db'.owner[y] # u
    BY <1>1, <1>2 DEF Keys
  <1>4. {y \in Vaults : db.owner[y] = u} \subseteq vs
    BY <1>3
  <1>5. db'.owner = [y \in Vaults |-> IF y \in vs THEN h ELSE db.owner[y]]
    BY <1>1
  <1>6. held' = [y \in Vaults |-> IF y \in vs THEN held[y] \cup {h} ELSE held[y]]
    BY <1>1, <1>2
  <1>7. ASSUME NEW y \in Vaults, NEW x \in Users
        PROVE  \/ Access(db', y, x) = IF db'.owner[y] = x THEN Editor
                                      ELSE IF x = u THEN NoAccess ELSE Access(db, y, x)
               \/ db.owner[y] = x /\ db'.owner[y] # x
    <2>1. CASE db'.owner[y] = x
      BY <1>2, <1>3, <2>1, ConstantsAssumption DEF Access
    <2>2. CASE db'.owner[y] # x /\ db.owner[y] # x
      <3>1. db'.owner[y] = Null <=> db.owner[y] = Null
        BY <1>2
      <3>2. QED
        BY <2>2, <3>1 DEF Access
    <2>3. QED
      BY <2>1, <2>2
  <1>8. vs \in SUBSET {y \in Vaults : db.owner[y] # Null /\ u \in held[y]}
    OBVIOUS
  <1>9. Book!HandOver(u, h)
    BY ZenonT(60), <1>4, <1>5, <1>6, <1>7, <1>8
       DEF Book!HandOver, NoAccess, Editor, Book!NoAccess, Book!Editor
  <1>10. QED
    BY <1>9 DEF Book!Next

\* An accepted commit is one step of the book, whatever request it ends.
LEMMA CommitMapped ==
    ASSUME BookInv, NEW p \in Sessions, Commit(p), Accepted(p)
    PROVE  Book!Next \/ UNCHANGED Book!vars
  <1>1. PICK w : w = req[p].writes
    OBVIOUS
  <1>2. /\ db' = After(db, w) /\ db \in Tables /\ p \in Busy
        /\ Keys(db) /\ RowsThere(db, w) /\ WritesOK(w) /\ Shape(req[p])
    BY <1>1, CommitOwners
  <1>3. \A v \in Vaults, u \in Users : db.grants[v][u] \in Roles \cup {NoAccess}
    BY <1>2, TablesFields
  <1>4. ASSUME NEW v \in Vaults, NEW u \in Users
        PROVE  db'.grants[v][u] = IF v \in w.raze \/ <<v, u>> \in w.revoke \/ u \in w.drop
                                  THEN NoAccess
                                  ELSE IF <<v, u>> \in DOMAIN w.role THEN w.role[<<v, u>>]
                                  ELSE IF <<v, u>> \in DOMAIN w.insert THEN w.insert[<<v, u>>]
                                  ELSE db.grants[v][u]
    BY <1>2, GrantAfter
  <1>5. ASSUME NEW v \in Vaults, w.found = {}
        PROVE  db'.owner[v] = IF v \in w.raze THEN Null
                              ELSE IF v \in DOMAIN w.handover THEN w.handover[v] ELSE db.owner[v]
    BY <1>2, <1>5, OwnerAfter DEF Founding
  <1>6. CASE Founds(w)
    <2>1. PICK v \in Vaults, u \in Users, s \in Names, gs \in {{}} \cup {{g} : g \in Agents} :
             /\ Rows(w) = <<{[vault |-> v, owner |-> u, name |-> s]}, {}, {}, {v} \X gs, {}, {}, {}>>
             /\ \A c \in {v} \X gs : w.insert[c] = Editor
      BY <1>6 DEF Founds
    <2>2. PICK f : f = [vault |-> v, owner |-> u, name |-> s]
      OBVIOUS
    <2>3. /\ w.found = {f} /\ DOMAIN w.handover = {} /\ w.raze = {} /\ DOMAIN w.insert = {v} \X gs
          /\ DOMAIN w.role = {} /\ w.revoke = {} /\ w.drop = {} /\ f.vault = v /\ f.owner = u
      BY <2>1, <2>2 DEF Rows
    <2>4. Founding(w) = {v}
      BY <2>3 DEF Founding
    <2>5. db.owner[v] = Null
      BY <1>1, <1>2, <2>4 DEF BookInv, Apart, Live
    <2>6. ASSUME NEW y \in Vaults PROVE db'.owner[y] = IF y = v THEN u ELSE db.owner[y]
      <3>1. CASE y = v
        BY <1>2, <2>3, <3>1, OwnerAfter
      <3>2. CASE y # v
        BY <1>2, <2>3, <2>4, <3>2, OwnerAfter
      <3>3. QED
        BY <3>1, <3>2
    <2>7. ASSUME NEW y \in Vaults, NEW x \in Users
          PROVE  db'.grants[y][x] = IF y = v /\ x \in gs THEN Editor ELSE db.grants[y][x]
      <3>1. <<y, x>> \in DOMAIN w.insert <=> y = v /\ x \in gs
        BY <2>3
      <3>2. y = v /\ x \in gs => w.insert[<<y, x>>] = Editor
        BY <2>1
      <3>3. QED
        BY <1>4, <2>3, <3>1, <3>2
    <2>8. Book!Next
      BY <2>5, <2>6, <2>7, FoundMapped
    <2>9. QED
      BY <2>8
  <1>7. CASE Razes(w)
    <2>1. PICK v \in Vaults : Rows(w) = <<{}, {}, {v}, {}, {}, {}, {}>>
      BY <1>7 DEF Razes
    <2>2. /\ w.found = {} /\ DOMAIN w.handover = {} /\ w.raze = {v} /\ DOMAIN w.insert = {}
          /\ DOMAIN w.role = {} /\ w.revoke = {} /\ w.drop = {}
      BY <2>1 DEF Rows
    <2>3. \A y \in Vaults : db'.owner[y] = IF y = v THEN Null ELSE db.owner[y]
      BY <1>5, <2>2
    <2>4. \A y \in Vaults, x \in Users : y # v => db'.grants[y][x] = db.grants[y][x]
      BY <1>4, <2>2
    <2>5. QED
      BY <2>3, <2>4, RazeMapped
  <1>8. CASE Grants(w)
    <2>1. PICK v \in Vaults, u \in Users, r \in Roles :
             /\ Rows(w) \in {<<{}, {}, {}, {<<v, u>>}, {}, {}, {}>>,
                             <<{}, {}, {}, {}, {<<v, u>>}, {}, {}>>}
             /\ \A c \in DOMAIN w.insert : w.insert[c] = r
             /\ \A c \in DOMAIN w.role : w.role[c] = r
      BY <1>8 DEF Grants
    <2>2. /\ w.found = {} /\ DOMAIN w.handover = {} /\ w.raze = {} /\ w.revoke = {} /\ w.drop = {}
          /\ \/ DOMAIN w.insert = {<<v, u>>} /\ DOMAIN w.role = {}
             \/ DOMAIN w.insert = {} /\ DOMAIN w.role = {<<v, u>>}
      <3>1. CASE Rows(w) = <<{}, {}, {}, {<<v, u>>}, {}, {}, {}>>
        BY <3>1 DEF Rows
      <3>2. CASE Rows(w) = <<{}, {}, {}, {}, {<<v, u>>}, {}, {}>>
        BY <3>2 DEF Rows
      <3>3. QED
        BY <2>1, <3>1, <3>2
    <2>3. \A y \in Vaults : db'.owner[y] = db.owner[y]
      BY <1>5, <2>2
    <2>4. ASSUME NEW y \in Vaults, NEW x \in Users
          PROVE  db'.grants[y][x] = IF y = v /\ x = u THEN r ELSE db.grants[y][x]
      <3>1. /\ DOMAIN w.insert \cup DOMAIN w.role = {<<v, u>>}
            /\ <<y, x>> = <<v, u>> <=> y = v /\ x = u
        BY <2>2
      <3>2. db'.grants[y][x] = IF <<y, x>> \in DOMAIN w.role THEN w.role[<<y, x>>]
                               ELSE IF <<y, x>> \in DOMAIN w.insert THEN w.insert[<<y, x>>]
                               ELSE db.grants[y][x]
        BY <1>4, <2>2
      <3>3. QED
        BY <2>1, <3>1, <3>2
    <2>5. QED
      BY <2>3, <2>4, OneGrantMapped
  <1>9. CASE Revokes(w)
    <2>1. PICK v \in Vaults, u \in Users : Rows(w) = <<{}, {}, {}, {}, {}, {<<v, u>>}, {}>>
      BY <1>9 DEF Revokes
    <2>2. /\ w.found = {} /\ DOMAIN w.handover = {} /\ w.raze = {} /\ DOMAIN w.insert = {}
          /\ DOMAIN w.role = {} /\ w.revoke = {<<v, u>>} /\ w.drop = {}
      BY <2>1 DEF Rows
    <2>3. \A y \in Vaults : db'.owner[y] = db.owner[y]
      BY <1>5, <2>2
    <2>4. ASSUME NEW y \in Vaults, NEW x \in Users
          PROVE  db'.grants[y][x] = IF y = v /\ x = u THEN NoAccess ELSE db.grants[y][x]
      <3>1. <<y, x>> \in w.revoke <=> y = v /\ x = u
        BY <2>2
      <3>2. QED
        BY <1>4, <2>2, <3>1
    <2>5. QED
      BY <2>3, <2>4, OneGrantMapped
  <1>10. CASE Closes(w)
    <2>1. PICK u \in Users, h \in Users, vs \in SUBSET Vaults :
             /\ u # h /\ Rows(w) = <<{}, vs, {}, {}, {}, {}, {u}>> /\ \A v \in vs : w.handover[v] = h
      BY <1>10 DEF Closes
    <2>2. /\ w.found = {} /\ DOMAIN w.handover = vs /\ w.raze = {} /\ DOMAIN w.insert = {}
          /\ DOMAIN w.role = {} /\ w.revoke = {} /\ w.drop = {u}
      BY <2>1 DEF Rows
    <2>3. \A y \in vs : db.owner[y] # Null /\ u \in held[y]
      BY <1>1, <1>2, <2>2 DEF RowsThere, Live, BookInv, Apart
    <2>4. \A y \in Vaults : db'.owner[y] = IF y \in vs THEN h ELSE db.owner[y]
      BY <1>5, <2>1, <2>2
    <2>5. \A y \in Vaults, x \in Users :
             db'.grants[y][x] = IF x = u THEN NoAccess ELSE db.grants[y][x]
      BY <1>4, <2>2
    <2>6. u \notin db'.users
      BY <1>2, <2>2, PeopleAfter
    <2>7. Book!Next
      BY <2>1, <2>3, <2>4, <2>5, <2>6, HandOverMapped
    <2>8. QED
      BY <2>7
  <1>11. CASE Spans(w)
    <2>1. /\ w.found = {} /\ DOMAIN w.handover = {} /\ w.raze = {} /\ DOMAIN w.insert = {}
          /\ DOMAIN w.role = {} /\ w.revoke = {} /\ w.drop = {}
      BY <1>11 DEF Spans, Rows
    <2>2. \A y \in Vaults : db'.owner[y] = db.owner[y]
      BY <1>5, <2>1
    <2>3. ASSUME NEW y \in Vaults, NEW x \in Users PROVE db'.grants[y][x] = db.grants[y][x]
      BY <1>4, <2>1
    <2>4. ASSUME NEW y \in Vaults, NEW x \in Users PROVE Access(db', y, x) = Access(db, y, x)
      BY <2>2, <2>3 DEF Access
    <2>5. held' = held
      <3>1. /\ held = [v \in Vaults |-> held[v]]
            /\ held' = [v \in Vaults |-> held[v] \cup ({db'.owner[v]} \ {Null})]
            /\ \A v \in Vaults : db.owner[v] # Null => db.owner[v] \in held[v]
        BY CommitOwners
      <3>2. QED
        BY <2>2, <3>1
    <2>6. UNCHANGED Book!vars
      BY <2>2, <2>4, <2>5, CommitDb, BookUnchanged
    <2>7. QED
      BY <2>6
  <1>12. Founds(w) \/ Razes(w) \/ Grants(w) \/ Revokes(w) \/ Closes(w) \/ Spans(w)
    BY <1>1, <1>2 DEF Shape
  <1>13. QED
    BY <1>6, <1>7, <1>8, <1>9, <1>10, <1>11, <1>12

\* Only commits reach the book; a request, and a commit refused, stutter.
LEMMA NextMapped == BookInv /\ [Next]_vars => [Book!Next]_(Book!vars)
  <1> SUFFICES ASSUME BookInv, [Next]_vars PROVE Book!Next \/ UNCHANGED Book!vars
    OBVIOUS
  <1>1. ASSUME db' = db, held' = held PROVE UNCHANGED Book!vars
    BY <1>1 DEF Book!vars
  <1>2. ASSUME NEW p \in Sessions, Commit(p) PROVE Book!Next \/ UNCHANGED Book!vars
    <2>1. CASE Accepted(p)
      BY <1>2, <2>1, CommitMapped
    <2>2. CASE ~ Accepted(p)
      BY <1>1, <1>2, <2>2 DEF Commit
    <2>3. QED
      BY <2>1, <2>2
  <1>3. ASSUME NEW p, NEW u, NEW kind, NEW w, Begin(p, u, kind, w) PROVE UNCHANGED Book!vars
    BY <1>1, <1>3 DEF Begin, Ready
  <1>4. ASSUME NEW p \in Sessions, NEW u \in Humans, VaultRequest(p, u) \/ AdminRequest(p, u)
        PROVE  UNCHANGED Book!vars
    <2>1. \E kind, w : \E a : Begin(p, a, kind, w)
      BY <1>4 DEF VaultRequest, AdminRequest, CreateVault, RenameVault, DeleteVault,
                  GrantVaultAccess, RevokeVaultAccess, ListVaults, AdminDeleteVault, CreateUser,
                  SetAdmin, DeleteUser
    <2>2. QED
      BY <1>3, <2>1
  <1>5. CASE UNCHANGED vars
    BY <1>1, <1>5 DEF vars
  <1>6. QED
    BY <1>2, <1>4, <1>5 DEF Next

\* Writes whose names fit leave tables whose names fit.
LEMMA ShortNamesFit ==
    ASSUME db \in Tables, Lengths(db), NEW w, NamesWritten(w) \cap TooLong = {}
    PROVE  Lengths(After(db, w))
  <1> SUFFICES ASSUME NEW x \in TooLong
               PROVE  /\ \A v \in Vaults : After(db, w).name[v] # x
                      /\ x \notin After(db, w).users
    BY DEF Lengths
  <1>1. x # Null /\ x \notin db.users /\ \A v \in Vaults : db.name[v] # x
    BY ConstantsAssumption DEF Lengths
  <1>2. /\ x \notin w.born
        /\ \A f \in w.found : f.name # x
        /\ \A v \in DOMAIN w.rename : w.rename[v] # x
    BY DEF NamesWritten
  <1>3. x \notin After(db, w).users
    BY <1>1, <1>2, AdminsAfter
  <1>4. ASSUME NEW v \in Vaults PROVE After(db, w).name[v] # x
    <2>1. After(db, w).name[v] =
              IF v \in w.raze THEN Null
              ELSE IF \E f \in w.found : f.vault = v
                   THEN (CHOOSE f \in w.found : f.vault = v).name
              ELSE IF v \in DOMAIN w.rename THEN w.rename[v] ELSE db.name[v]
      BY DEF After
    <2>2. CASE \E f \in w.found : f.vault = v
      <3>1. (CHOOSE f \in w.found : f.vault = v) \in w.found
        BY <2>2
      <3>2. QED
        BY <1>1, <1>2, <2>1, <2>2, <3>1
    <2>3. CASE ~ \E f \in w.found : f.vault = v
      BY <1>1, <1>2, <2>1, <2>3
    <2>4. QED
      BY <2>2, <2>3
  <1>5. QED
    BY <1>3, <1>4

\* Every stored name fits its column: the database sees to it.
LEMMA LengthsStay == Spec => []Lengths(db)
  <1>1. ASSUME Init PROVE Lengths(db)
    <2>1. PICK as \in (SUBSET (Humans \ TooLong)) \ {{}}, gs \in SUBSET (Agents \ TooLong) :
             db = [users |-> as \cup gs, admins |-> as, signed |-> {},
                   owner |-> [v \in Vaults |-> Null], name |-> [v \in Vaults |-> Null],
                   grants |-> [v \in Vaults |-> [u \in Users |-> NoAccess]],
                   lists |-> [u \in Users |-> Null]]
      BY <1>1, Zenon DEF Init
    <2>2. QED
      BY <2>1, ConstantsAssumption DEF Lengths
  <1>2. Lengths(db) /\ [Next]_vars => Lengths(db)'
    <2> SUFFICES ASSUME Lengths(db), [Next]_vars PROVE Lengths(db)'
      OBVIOUS
    <2>1. ASSUME NEW p \in Sessions, Commit(p) PROVE Lengths(db)'
      <3>1. CASE Accepted(p)
        BY <2>1, <3>1 DEF Commit, Accepted, Integrity, Lengths
      <3>2. CASE ~ Accepted(p)
        BY <2>1, <3>2 DEF Commit, Lengths
      <3>3. QED
        BY <3>1, <3>2
    <2>2. CASE db' = db
      BY <2>2 DEF Lengths
    <2>3. ASSUME NEW p \in Sessions, NEW u \in Humans, VaultRequest(p, u) \/ AdminRequest(p, u)
          PROVE  db' = db
      BY <2>3 DEF VaultRequest, AdminRequest, CreateVault, RenameVault, DeleteVault,
                  GrantVaultAccess, RevokeVaultAccess, ListVaults, AdminDeleteVault, CreateUser,
                  SetAdmin, DeleteUser, Begin, Ready
    <2>4. QED
      BY <2>1, <2>2, <2>3 DEF Next, vars
  <1>3. QED
    BY <1>1, <1>2, PTL DEF Spec

\* The tables, the lists and the history have their types, and the schema's
\* constraints hold, after any requests.
THEOREM TypeCorrect == Spec => []TypeOK
  <1>1. BookInv /\ Lengths(db) => TypeOK
    <2> SUFFICES ASSUME BookInv, Lengths(db) PROVE TypeOK
      OBVIOUS
    <2>1. /\ db \in Tables /\ Keys(db) /\ held \in [Vaults -> SUBSET Users]
          /\ aged \subseteq Busy /\ excused \subseteq Users
      BY DEF BookInv, DbOK
    <2>2. \A v \in Vaults : IF db.owner[v] = Null THEN db.name[v] = Null
                            ELSE db.name[v] \in Seq(Words)
      BY DEF BookInv, DbOK, NamesOK
    <2>3. DOMAIN db = {"users", "admins", "signed", "owner", "name", "grants", "lists"}
      BY <2>1 DEF Tables
    <2>4. /\ db.users \subseteq Users /\ db.owner \in [Vaults -> Users \cup {Null}]
          /\ db.grants \in [Vaults -> [Users -> Roles \cup {NoAccess}]]
      BY <2>1 DEF Tables
    <2>5. \A u \in Users : db.lists[u] = Null \/ db.lists[u] \subseteq Vaults \X Seq(Words)
      BY <2>1, TablesFields
    <2>6. QED
      BY <2>1, <2>2, <2>3, <2>4, <2>5 DEF TypeOK, Integrity
  <1>2. QED
    BY <1>1, InitBook, NextKeepsBook, LengthsStay, PTL DEF Spec

\* What a request has checked is all that the database asks of it, unless
\* another commit has overtaken it: no rename of an inherited vault, no foreign
\* key and no missing row ever refuses it, only a name too long for its column.
THEOREM ChecksAreEnough == Spec => []ChecksSuffice
  <1>1. BookInv /\ Lengths(db) => ChecksSuffice
    <2> SUFFICES ASSUME BookInv, Lengths(db), NEW p \in Busy \ aged,
                        NamesWritten(req[p].writes) \cap TooLong = {}
                 PROVE  Accepted(p)
      BY DEF ChecksSuffice
    <2>1. db \in Tables /\ Fits(req[p].writes)
      BY DEF BookInv, DbOK
    <2>2. Lengths(After(db, req[p].writes))
      BY <2>1, ShortNamesFit
    <2>3. QED
      BY <2>1, <2>2 DEF Fits, Accepted, Integrity
  <1>2. QED
    BY <1>1, InitBook, NextKeepsBook, LengthsStay, PTL DEF Spec

\* A cached vault list is that of the tables, but for the excused.
THEOREM ListsStayFresh == Spec => []ListsFresh
  <1>1. BookInv => ListsFresh
    BY DEF BookInv
  <1>2. QED
    BY <1>1, InitBook, NextKeepsBook, PTL DEF Spec

\* Whatever requests overlap, owners and access change as VaultBook says.
THEOREM BookRefined == Spec => ImplementsVaultBook
  <1>1. BookInv /\ Init => Book!Init
    BY InitMapped
  <1>2. BookInv /\ [Next]_vars => [Book!Next]_(Book!vars)
    BY NextMapped
  <1>3. QED
    BY <1>1, <1>2, InitBook, NextKeepsBook, PTL DEF Spec, ImplementsVaultBook, Book!Spec
=============================================================================
