------------------------------ MODULE VaultAccess ------------------------------
(***************************************************************************)
(* Vaults, users, grants and each user's cached vault list:                *)
(* vault_service, user_service, import_vault's new vault, and the handlers *)
(* of api/vaults and api/admin that call them.                             *)
(*                                                                         *)
(* A request is one session and two steps.  The first is everything it     *)
(* reads: the decorators and the service's checks, on rows as they were    *)
(* committed then, and what it makes of them.  The second is its commit:   *)
(* the UPDATEs of the columns that differ from the loaded rows, the        *)
(* INSERTs and DELETEs, accepted only if the rows are still there and the  *)
(* schema's constraints hold.  Nothing is locked in between, so a check    *)
(* may have aged when its writes are committed.                            *)
(*                                                                         *)
(* A name is a sequence: <<n>> is a name somebody typed, <<n, u>> is       *)
(* "n (from u)" and <<n, u, v>> "n (from u, vault v)".  A username is used *)
(* once.  Passwords, display names and created_at decide nothing here.     *)
(***************************************************************************)
EXTENDS Naturals, Sequences, FiniteSets, Functions

CONSTANTS
    Sessions,       \* requests that may be under way at once
    Humans,         \* usernames of people
    Agents,         \* usernames of LLM assistants
    Vaults,         \* ids of vaults
    Names,          \* names that requests ask for
    TooLong,        \* names and usernames that do not fit their columns
    Null,
    MaxRequests     \* bound: requests that are ever made

Users == Humans \cup Agents

ASSUME ConstantsAssumption ==
    /\ Humans \cap Agents = {}
    /\ Null \notin Users
    /\ Users \cap Vaults = {}
    /\ Vaults \subseteq Nat
    /\ Null \notin TooLong
    /\ MaxRequests \in Nat

\* Nobody types a name of the last form: taken, it would make delete_user fail.
ASSUME NamesAssumption ==
    \A n \in Names : \E k \in 1..2 : n = [i \in 1..k |-> n[i]]

VARIABLES
    db,         \* the committed tables
    req,        \* what each session is doing
    aged,       \* history: sessions overtaken by another request's commit
    overtaken,  \* history: an overtaken request has taken an administrator away
    excused,    \* history: users whose cached list need not be that of the tables
    held,       \* history: who has ever owned each vault
    used,       \* ids of vaults and usernames that have been given out
    requests    \* requests made so far

vars == <<db, req, aged, overtaken, excused, held, used, requests>>

-----------------------------------------------------------------------------
\* VaultRole.
NoAccess == 0
Viewer == 1
Editor == 2
Roles == {Viewer, Editor}

\* The schema: users (admins: is_admin; lists: cached_vault_list), vaults,
\* vault_access, and signed, the users that other records name: the author of
\* a vault's first version stands for those of versions, tasks and imports.
\* Its constraints on several rows: foreign keys, and one name per owner.
Keys(d) ==
    /\ d.admins \cup d.signed \subseteq d.users
    /\ \A v \in Vaults : d.owner[v] \in d.users \cup {Null}
    /\ \A v, w \in Vaults : v # w /\ d.owner[v] = d.owner[w] /\ d.owner[v] # Null
                               => d.name[v] # d.name[w]
    /\ \A v \in Vaults, u \in Users :
          d.grants[v][u] # NoAccess => d.owner[v] # Null /\ u \in d.users

\* Those on one row: vaults.name is a String(255), users.username a String(80).
Lengths(d) == ({d.name[v] : v \in Vaults} \cup d.users) \cap TooLong = {}

Integrity(d) == Keys(d) /\ Lengths(d)

Live(d) == {v \in Vaults : d.owner[v] # Null}
Owned(d, u) == {v \in Vaults : d.owner[v] = u}

\* Mutant: the grant is asked first, then whose vault it is.
Access_GrantFirst(d, v, u) ==
    IF d.owner[v] = Null THEN NoAccess
    ELSE IF d.grants[v][u] # NoAccess THEN d.grants[v][u]
    ELSE IF d.owner[v] = u THEN Editor ELSE NoAccess

\* get_vault_access.
Access(d, v, u) ==
    IF d.owner[v] = Null THEN NoAccess
    ELSE IF d.owner[v] = u THEN Editor ELSE d.grants[v][u]

\* _build_vault_list; the list is in the order of the names.
BuildVaultList(d, u) ==
    {<<v, d.name[v]>> : v \in {w \in Live(d) : d.owner[w] = u \/ d.grants[w][u] # NoAccess}}

\* _collect_affected_user_ids; a mutant that forgets the owner.
AffectedUsers_GranteesOnly(v) == {u \in Users : db.grants[v][u] # NoAccess}
AffectedUsers(v) == {db.owner[v]} \cup {u \in Users : db.grants[v][u] # NoAccess}

\* invalidate_vault_list_cache: an UPDATE only where a list was loaded.
Cached(us) == {u \in us \cap db.users : db.lists[u] # Null}

\* owner_or_admin_required.
Manages(u, v) == u \in db.users /\ db.owner[v] # Null /\ (db.owner[v] = u \/ u \in db.admins)

\* admin_required.
IsAdmin(u) == u \in db.users /\ u \in db.admins

-----------------------------------------------------------------------------
\* What a session will write: rows inserted (found, born, granted anew), rows
\* updated (rename, handover, granted, admin, empty, fill) and deleted (raze,
\* revoke, drop).
NoWrites == [found |-> {}, rename |-> <<>>, handover |-> <<>>, raze |-> {},
             insert |-> <<>>, role |-> <<>>, revoke |-> {},
             born |-> {}, admin |-> <<>>, drop |-> {}, heir |-> Null,
             empty |-> {}, fill |-> <<>>]

\* The names and usernames among them, whose length no service looks at.
NamesWritten(w) ==
    {f.name : f \in w.found} \cup {w.rename[v] : v \in DOMAIN w.rename} \cup w.born

\* Mutant: an UPDATE of a vault that is gone passes unnoticed.
RowsThere_VaultsUnnoticed(d, w) ==
    /\ (DOMAIN w.admin \ w.born) \cup w.empty \cup DOMAIN w.fill \subseteq d.users
    /\ w.born \cap d.users = {}
    /\ \A p \in DOMAIN w.role : d.grants[p[1]][p[2]] # NoAccess
    /\ \A p \in DOMAIN w.insert : d.grants[p[1]][p[2]] = NoAccess

\* The rows that the UPDATEs expect; an UPDATE that finds none is an error, a
\* DELETE that finds none is not.
RowsThere(d, w) ==
    /\ DOMAIN w.rename \cup DOMAIN w.handover \subseteq Live(d)
    /\ (DOMAIN w.admin \ w.born) \cup w.empty \cup DOMAIN w.fill \subseteq d.users
    /\ w.born \cap d.users = {}
    /\ \A p \in DOMAIN w.role : d.grants[p[1]][p[2]] # NoAccess
    /\ \A p \in DOMAIN w.insert : d.grants[p[1]][p[2]] = NoAccess

\* The tables after the writes.  A deleted vault takes its grants with it.
After(d, w) ==
    LET ownerOf(v) == IF v \in w.raze THEN Null
                      ELSE IF \E f \in w.found : f.vault = v
                           THEN (CHOOSE f \in w.found : f.vault = v).owner
                      ELSE IF v \in DOMAIN w.handover THEN w.handover[v] ELSE d.owner[v]
        nameOf(v) == IF v \in w.raze THEN Null
                     ELSE IF \E f \in w.found : f.vault = v
                          THEN (CHOOSE f \in w.found : f.vault = v).name
                     ELSE IF v \in DOMAIN w.rename THEN w.rename[v] ELSE d.name[v]
        grantOf(v, u) == IF v \in w.raze \/ <<v, u>> \in w.revoke \/ u \in w.drop THEN NoAccess
                         ELSE IF <<v, u>> \in DOMAIN w.role THEN w.role[<<v, u>>]
                         ELSE IF <<v, u>> \in DOMAIN w.insert THEN w.insert[<<v, u>>]
                         ELSE d.grants[v][u]
    IN [users |-> (d.users \cup w.born) \ w.drop,
        admins |-> {u \in (d.users \cup w.born) \ w.drop :
                       IF u \in DOMAIN w.admin THEN w.admin[u] ELSE u \in d.admins},
        signed |-> {f.owner : f \in w.found} \cup
                   IF w.drop \cap d.signed = {} THEN d.signed
                   ELSE (d.signed \ w.drop) \cup {w.heir},
        owner |-> [v \in Vaults |-> ownerOf(v)],
        name |-> [v \in Vaults |-> nameOf(v)],
        grants |-> [v \in Vaults |-> [u \in Users |-> grantOf(v, u)]],
        lists |-> [u \in Users |-> IF u \in w.empty \cup w.drop THEN Null
                                   ELSE IF u \in DOMAIN w.fill THEN w.fill[u] ELSE d.lists[u]]]

-----------------------------------------------------------------------------
Idle == [kind |-> "idle"]
Busy == {p \in Sessions : req[p] # Idle}

Ready(p) == req[p] = Idle /\ requests < MaxRequests

\* Requests are made by people: an assistant has no password and no token.
Begin(p, actor, kind, writes) ==
    /\ Ready(p)
    /\ actor \in Humans \cap db.users
    /\ requests' = requests + 1
    /\ req' = [req EXCEPT ![p] = [kind |-> kind, actor |-> actor, writes |-> writes]]
    /\ aged' = aged \ {p}
    /\ UNCHANGED <<db, overtaken, excused, held>>

\* create_vault and import_vault: the owner has no vault of this name; the
\* first LLM assistant, if there is one, becomes an editor.
CreateVault(p, u, n) ==
    /\ \A v \in Owned(db, u) : db.name[v] # n
    /\ \E v \in Vaults \ used :
       \E gs \in IF Agents \cap db.users = {} THEN {{}} ELSE {{g} : g \in Agents \cap db.users} :
          /\ Begin(p, u, "create_vault",
                   [NoWrites EXCEPT !.found = {[vault |-> v, owner |-> u, name |-> n]},
                                    !.insert = [x \in {v} \X gs |-> Editor],
                                    !.empty = Cached(gs \cup {u})])
          /\ used' = used \cup {v}

\* rename_vault asks the owner's own vaults, admin_rename_vault those of the
\* vault's owner: the same when the actor is the owner.
RenameVault(p, u, v, n) ==
    /\ db.owner[v] # Null
    /\ db.owner[v] = u \/ IsAdmin(u)
    /\ \A w \in Owned(db, db.owner[v]) : w # v => db.name[w] # n
    /\ Begin(p, u, "rename_vault",
             [NoWrites EXCEPT !.rename = IF n = db.name[v] THEN <<>> ELSE [x \in {v} |-> n],
                              !.empty = Cached(AffectedUsers(v))])
    /\ UNCHANGED used

\* Mutant: the last vault too.
DeleteVault_Last(p, u, v) ==
    /\ db.owner[v] = u
    /\ Cardinality(Owned(db, u)) >= 1
    /\ Begin(p, u, "delete_vault",
             [NoWrites EXCEPT !.raze = {v}, !.empty = Cached(AffectedUsers(v))])
    /\ UNCHANGED used

\* delete_vault.
DeleteVault(p, u, v) ==
    /\ db.owner[v] = u
    /\ Cardinality(Owned(db, u)) > 1
    /\ Begin(p, u, "delete_vault",
             [NoWrites EXCEPT !.raze = {v}, !.empty = Cached(AffectedUsers(v))])
    /\ UNCHANGED used

\* admin_delete_vault: the last vault too.
AdminDeleteVault(p, u, v) ==
    /\ IsAdmin(u)
    /\ db.owner[v] # Null
    /\ Begin(p, u, "admin_delete_vault",
             [NoWrites EXCEPT !.raze = {v}, !.empty = Cached(AffectedUsers(v))])
    /\ UNCHANGED used

\* grant_vault_access: the role of the row it finds, or a new row.
GrantVaultAccess(p, actor, v, u, r) ==
    /\ Manages(actor, v)
    /\ db.owner[v] # u
    /\ u \in db.users
    /\ Begin(p, actor, "grant_vault_access",
             [NoWrites EXCEPT
                !.insert = IF db.grants[v][u] = NoAccess THEN [c \in {<<v, u>>} |-> r] ELSE <<>>,
                !.role = IF db.grants[v][u] \in {NoAccess, r} THEN <<>>
                         ELSE [c \in {<<v, u>>} |-> r],
                !.empty = Cached({u})])
    /\ UNCHANGED used

\* revoke_vault_access.
RevokeVaultAccess(p, actor, v, u) ==
    /\ Manages(actor, v)
    /\ db.owner[v] # u
    /\ db.grants[v][u] # NoAccess
    /\ Begin(p, actor, "revoke_vault_access",
             [NoWrites EXCEPT !.revoke = {<<v, u>>}, !.empty = Cached({u})])
    /\ UNCHANGED used

\* get_vaults_for_user_cached where nothing is cached; a hit changes nothing.
ListVaults(p, u) ==
    /\ u \in db.users
    /\ db.lists[u] = Null
    /\ Begin(p, u, "list_vaults", [NoWrites EXCEPT !.fill = [x \in {u} |-> BuildVaultList(db, u)]])
    /\ UNCHANGED used

\* create_user, by an administrator.
CreateUser(p, actor, u, admin) ==
    /\ IsAdmin(actor)
    /\ u \in Humans \ used
    /\ Begin(p, actor, "create_user", [NoWrites EXCEPT !.born = {u}, !.admin = [x \in {u} |-> admin]])
    /\ used' = used \cup {u}

\* Mutant: the count is asked of others than oneself only.
SetAdmin_OthersOnly(p, actor, u, admin) ==
    /\ IsAdmin(actor)
    /\ u \in db.users
    /\ u \in db.admins \ {actor} /\ ~admin => Cardinality(db.admins) > 1
    /\ (u \in db.admins) # admin
    /\ Begin(p, actor, "update_user", [NoWrites EXCEPT !.admin = [x \in {u} |-> admin]])
    /\ UNCHANGED used

\* update_user_details with is_admin: not of the last administrator.
SetAdmin(p, actor, u, admin) ==
    /\ IsAdmin(actor)
    /\ u \in db.users
    /\ u \in db.admins /\ ~admin => Cardinality(db.admins) > 1
    /\ (u \in db.admins) # admin    \* setting what is there writes nothing
    /\ Begin(p, actor, "update_user", [NoWrites EXCEPT !.admin = [x \in {u} |-> admin]])
    /\ UNCHANGED used

\* Mutant: the name of an inherited vault is kept.
HeirName_Kept(u, v, taken) == db.name[v]

\* The names under which an heir takes over u's vaults: as they are, or with
\* u's name, or with the vault's id as well.
HeirName(u, v, taken) ==
    IF db.name[v] \notin taken THEN db.name[v]
    ELSE IF Append(db.name[v], u) \notin taken THEN Append(db.name[v], u)
    ELSE db.name[v] \o <<u, v>>

\* What all of them may be called: the rows come in any order, and a name that
\* was given is taken for those that follow.
HeirNames(u, heir) ==
    LET vs == Owned(db, u)
        asked == UNION {{db.name[v], Append(db.name[v], u), db.name[v] \o <<u, v>>} : v \in vs}
    IN {given \in [vs -> asked] : \E turn \in Injection(vs, 1..Cardinality(vs)) :
          \A v \in vs :
             given[v] = HeirName(u, v, {db.name[w] : w \in Owned(db, heir)}
                                          \cup {given[w] : w \in {x \in vs : turn[x] < turn[v]}})}

\* delete_user: neither oneself nor the last administrator.  The acting
\* administrator inherits the vaults and all records, nobody the grants.
DeleteUser(p, actor, u) ==
    /\ IsAdmin(actor)
    /\ u \in db.users \ {actor}
    /\ u \in db.admins => Cardinality(db.admins) > 1
    /\ \E given \in HeirNames(u, actor) :
          Begin(p, actor, "delete_user",
                [NoWrites EXCEPT
                   !.handover = [v \in Owned(db, u) |-> actor],
                   !.rename = [v \in {w \in Owned(db, u) : given[w] # db.name[w]} |-> given[v]],
                   !.heir = actor,
                   !.drop = {u}])
    /\ UNCHANGED used

\* A session's commit, refused when a row it updates is gone or a constraint
\* would be broken.
Accepted(p) == RowsThere(db, req[p].writes) /\ Integrity(After(db, req[p].writes))

\* Whose list a commit may leave other than the tables: the reader's and the
\* writers' that were overtaken, and after delete_user, which empties no list,
\* those of the heir and of the grantees of a vault it renamed.
LeftStale(p) ==
    LET w == req[p].writes
        after == After(db, w)
        gone == IF p \in aged
                THEN {u \in after.users : after.lists[u] \notin {Null, BuildVaultList(after, u)}}
                ELSE {}
        inherited == IF req[p].kind # "delete_user" \/ w.handover = <<>> THEN {}
                     ELSE {w.heir} \cup {u \in Users : \E v \in DOMAIN w.rename :
                                                          db.grants[v][u] # NoAccess}
    IN gone \cup inherited

Commit(p) ==
    /\ req[p] # Idle
    /\ req' = [req EXCEPT ![p] = Idle]
    /\ IF Accepted(p)
       THEN /\ db' = After(db, req[p].writes)
            /\ aged' = (aged \cup Busy) \ {p}
            /\ overtaken' = (overtaken \/ (p \in aged /\ db'.admins # db.admins))
            /\ excused' = {u \in excused \cup LeftStale(p) : db'.lists[u] # Null}
            /\ held' = [v \in Vaults |-> held[v] \cup ({db'.owner[v]} \ {Null})]
       ELSE /\ aged' = aged \ {p}
            /\ UNCHANGED <<db, overtaken, excused, held>>
    /\ UNCHANGED <<used, requests>>

-----------------------------------------------------------------------------
\* A freshly set up system: one or several administrators, perhaps an agent
\* (create-admin, create-llm-agent), and no vault yet.
Init ==
    /\ \E as \in (SUBSET (Humans \ TooLong)) \ {{}}, gs \in SUBSET (Agents \ TooLong) :
          /\ db = [users |-> as \cup gs, admins |-> as, signed |-> {},
                   owner |-> [v \in Vaults |-> Null], name |-> [v \in Vaults |-> Null],
                   grants |-> [v \in Vaults |-> [u \in Users |-> NoAccess]],
                   lists |-> [u \in Users |-> Null]]
          /\ used = as \cup gs
    /\ req = [p \in Sessions |-> Idle]
    /\ aged = {}
    /\ overtaken = FALSE
    /\ excused = {}
    /\ held = [v \in Vaults |-> {}]
    /\ requests = 0

\* The routes of api/vaults that write.
VaultRequest(p, u) ==
    \/ \E n \in Names : CreateVault(p, u, n)
    \/ \E v \in Vaults, n \in Names : RenameVault(p, u, v, n)
    \/ \E v \in Vaults : DeleteVault(p, u, v)
    \/ \E v \in Vaults, x \in Users, r \in Roles : GrantVaultAccess(p, u, v, x, r)
    \/ \E v \in Vaults, x \in Users : RevokeVaultAccess(p, u, v, x)
    \/ ListVaults(p, u)

\* Those of api/admin; renaming and granting are the actions above, which an
\* administrator may take on any vault.
AdminRequest(p, u) ==
    \/ \E v \in Vaults : AdminDeleteVault(p, u, v)
    \/ \E x \in Humans, a \in BOOLEAN : CreateUser(p, u, x, a)
    \/ \E x \in Users, a \in BOOLEAN : SetAdmin(p, u, x, a)
    \/ \E x \in Users : DeleteUser(p, u, x)

Next ==
    \/ \E p \in Sessions, u \in Humans \cap db.users :
          /\ Ready(p)
          /\ VaultRequest(p, u) \/ AdminRequest(p, u)
    \/ \E p \in Sessions : Commit(p)

Spec == Init /\ [][Next]_vars

-----------------------------------------------------------------------------
Words == (UNION {{n[i] : i \in DOMAIN n} : n \in Names}) \cup Users \cup Vaults

TypeOK ==
    /\ DOMAIN db = {"users", "admins", "signed", "owner", "name", "grants", "lists"}
    /\ db.users \subseteq Users
    /\ db.owner \in [Vaults -> Users \cup {Null}]
    /\ \A v \in Vaults : IF db.owner[v] = Null THEN db.name[v] = Null ELSE db.name[v] \in Seq(Words)
    /\ db.grants \in [Vaults -> [Users -> Roles \cup {NoAccess}]]
    /\ \A u \in Users : db.lists[u] = Null \/ db.lists[u] \subseteq Vaults \X Seq(Words)
    /\ Integrity(db)
    /\ aged \subseteq Busy
    /\ excused \subseteq Users
    /\ held \in [Vaults -> SUBSET Users]

\* The system keeps an administrator: update_user_details and delete_user spare
\* the last one, whoever takes part, unless the count that one of them read had
\* aged when it took an administrator away (user_service.py:82, 202).
AdminRemains == db.admins # {} \/ overtaken

\* What a request has checked is all that the database will ask of it, but for
\* the length of the names it writes, which nothing checks: one that no other
\* commit overtakes is refused for a name that is too long or not at all.  "so
\* no foreign key blocks the delete" (user_service.py:116), and no other owner's
\* vault the rename of an inherited one.
ChecksSuffice ==
    \A p \in Busy \ aged :
        Accepted(p) \/ NamesWritten(req[p].writes) \cap TooLong # {}

\* A cached vault list shows the vaults and the names of the tables, whichever
\* of the ten operations wrote last: each empties the lists of all whom it
\* concerns.  The exceptions are the overtaken requests and delete_user.
ListsFresh ==
    \A u \in db.users \ excused : db.lists[u] \in {Null, BuildVaultList(db, u)}

\* An owner's own request never takes his last vault, unless it was overtaken.
OwnerKeepsAVault ==
    [][\A p \in Busy \ aged :
          req[p].kind = "delete_vault" /\ req'[p] = Idle
             => Owned(db', req[p].actor) # {}]_vars

\* Whatever requests overlap, users, vaults and grants change as VaultBook says.
Book == INSTANCE VaultBook WITH
           owner <- db.owner,
           held <- held,
           access <- [v \in Vaults |-> [u \in Users |-> Access(db, v, u)]]

ImplementsVaultBook == Book!Spec
=============================================================================
