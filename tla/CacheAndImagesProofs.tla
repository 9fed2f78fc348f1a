------------------------- MODULE CacheAndImagesProofs -------------------------
(***************************************************************************)
(* What is kept of a vault beside its nodes, and has to agree with them:   *)
(* the trees cached in its row, and the image files in its folder.  The    *)
(* two components have no variable in common.                              *)
(*                                                                         *)
(* TreeCache, for any trees and any number of sessions: the ETags stand    *)
(* beside their trees, and a request that is alone leaves the cache fresh. *)
(* The first holds because every pair of columns a session ever holds      *)
(* belongs together (Paired), so that an UPDATE writes both columns of a   *)
(* pair or neither.  For the second, what a session that no other has      *)
(* overlapped holds is what is in the database (Alone).                    *)
(*                                                                         *)
(* ImageAssets, for any number of calls, payloads and files: rows and      *)
(* files match, and what is referred to is kept.  Neither is inductive.    *)
(* A row keeps its file because nobody unlinks a file whose row is there   *)
(* or still to come: a call that stores an asset has it to itself (Owned), *)
(* and a deletion that has reached the file has no row to leave behind     *)
(* (RowGone).  The deletion's question about references outlives its       *)
(* answer only for texts written since (Asked).                            *)
(***************************************************************************)
EXTENDS TreeCache, ImageAssets, FiniteSetTheorems, TLAPS

-----------------------------------------------------------------------------
(***************************************************************************)
(* TreeCache.                                                              *)
(***************************************************************************)
Paired(columns) == columns.ui_etag = columns.ui /\ columns.agent_etag = columns.agent

OpsPaired == \A s \in Sessions : op[s] # Idle => Paired(op[s].loaded) /\ Paired(op[s].built)

\* s is the only session at work, and what it has read is still so.
UpToDate(s) ==
    /\ \A u \in Sessions \ {s} : op[u] = Idle
    /\ op[s].stage = "checked" => op[s].loaded = cache
    /\ op[s].stage = "built" => op[s].built = View
    /\ op[s].stage = "built" /\ op[s].kind = "read" => op[s].loaded = cache
    /\ op[s].stage = "loaded" => op[s].built = View /\ op[s].loaded = cache

Alone == \A s \in Sessions \ overlapped : op[s] # Idle => UpToDate(s)

IInv == TypeOK /\ EtagMatchesTree /\ OpsPaired /\ Alone

-----------------------------------------------------------------------------
(***************************************************************************)
(* The UPDATE.                                                             *)
(***************************************************************************)
LEMMA ColumnsOf ==
    ASSUME NEW c \in Columns
    PROVE  /\ DOMAIN c = {"ui", "ui_etag", "agent", "agent_etag"}
           /\ c = [ui |-> c.ui, ui_etag |-> c.ui_etag,
                   agent |-> c.agent, agent_etag |-> c.agent_etag]
           /\ c.ui \in UiTrees \cup {Null} /\ c.ui_etag \in UiTrees \cup {Null}
           /\ c.agent \in AgentTrees \cup {Null} /\ c.agent_etag \in AgentTrees \cup {Null}
  BY DEF Columns

LEMMA WrittenColumns ==
    ASSUME cache \in Columns, NEW old, NEW new \in Columns
    PROVE  Written(old, new) =
              [ui |-> IF new.ui = old.ui THEN cache.ui ELSE new.ui,
               ui_etag |-> IF new.ui_etag = old.ui_etag THEN cache.ui_etag ELSE new.ui_etag,
               agent |-> IF new.agent = old.agent THEN cache.agent ELSE new.agent,
               agent_etag |-> IF new.agent_etag = old.agent_etag THEN cache.agent_etag
                                                                 ELSE new.agent_etag]
  <1>1. DOMAIN cache = {"ui", "ui_etag", "agent", "agent_etag"}
    BY ColumnsOf
  <1>2. QED
    BY <1>1 DEF Written

\* A row written from pairs holds pairs.
LEMMA WrittenPaired ==
    ASSUME cache \in Columns, EtagMatchesTree,
           NEW old \in Columns, Paired(old), NEW new \in Columns, Paired(new)
    PROVE  Written(old, new) \in Columns /\ Paired(Written(old, new))
  <1>1. Written(old, new) =
           [ui |-> IF new.ui = old.ui THEN cache.ui ELSE new.ui,
            ui_etag |-> IF new.ui_etag = old.ui_etag THEN cache.ui_etag ELSE new.ui_etag,
            agent |-> IF new.agent = old.agent THEN cache.agent ELSE new.agent,
            agent_etag |-> IF new.agent_etag = old.agent_etag THEN cache.agent_etag
                                                              ELSE new.agent_etag]
    BY WrittenColumns
  <1>2. Paired(Written(old, new))
    BY <1>1 DEF Paired, EtagMatchesTree
  <1>3. Written(old, new) \in Columns
    BY <1>1, ColumnsOf DEF Columns
  <1>4. QED
    BY <1>2, <1>3

\* Nothing is lost when the row has not aged.
LEMMA WrittenOverItself ==
    ASSUME cache \in Columns, NEW new \in Columns
    PROVE  Written(cache, new) = new
  BY WrittenColumns, ColumnsOf

LEMMA ViewColumns ==
    ASSUME TypeOK
    PROVE  View \in Columns /\ Paired(View) /\ Emptied \in Columns /\ Paired(Emptied)
  BY DEF TypeOK, View, Columns, UiTrees, AgentTrees, Emptied, NoTrees, Paired

-----------------------------------------------------------------------------
LEMMA InitIInv == Init => IInv
  <1> SUFFICES ASSUME Init PROVE IInv
    OBVIOUS
  <1>1. TypeOK
    BY ConstantsAssumption DEF Init, TypeOK, NoTrees, Columns, Op
  <1>2. EtagMatchesTree /\ OpsPaired /\ Alone
    BY DEF Init, EtagMatchesTree, NoTrees, OpsPaired, Alone
  <1>3. QED
    BY <1>1, <1>2 DEF IInv

LEMMA OpIsNotIdle == \A o \in Op : o # Idle
  <1> SUFFICES ASSUME NEW o \in Op, o = Idle PROVE FALSE
    OBVIOUS
  <1>1. "stage" \in DOMAIN o /\ DOMAIN o = {"kind"}
    BY DEF Op, Idle
  <1>2. QED
    BY <1>1

\* What a busy session holds.
LEMMA OpFields ==
    ASSUME TypeOK, NEW s \in Sessions, op[s] # Idle
    PROVE  /\ op[s] \in Op
           /\ op[s].loaded \in Columns /\ op[s].built \in Columns
  BY DEF TypeOK, Op

\* A commit's row, and a stored row, hold pairs again.
LEMMA CommitCache ==
    ASSUME IInv, NEW s \in Sessions, op[s] # Idle,
           NEW new \in Columns, Paired(new), cache' = Written(op[s].loaded, new)
    PROVE  cache' \in Columns /\ EtagMatchesTree'
  <1>1. op[s].loaded \in Columns /\ Paired(op[s].loaded) /\ cache \in Columns
    BY OpFields DEF IInv, OpsPaired, TypeOK
  <1>2. cache' \in Columns /\ Paired(cache')
    BY <1>1, WrittenPaired DEF IInv
  <1>3. QED
    BY <1>2 DEF Paired, EtagMatchesTree

LEMMA NextKeepsTypes == IInv /\ [Next]_vars => TypeOK'
  <1> SUFFICES ASSUME IInv, Next PROVE TypeOK'
    BY DEF vars, TypeOK, IInv
  <1>1. PICK s \in Sessions : Step(s)
    BY DEF Next
  <1>2. TypeOK
    BY DEF IInv
  <1>3. CASE \E kind \in {"write", "manual", "patch", "copy", "read"} : Begin(s, kind)
    <2>1. PICK kind \in {"write", "manual", "patch", "copy", "read"} : Begin(s, kind)
      BY <1>3
    <2>2. [kind |-> kind, stage |-> "checked", loaded |-> cache, built |-> NoTrees] \in Op
      BY <1>2, ViewColumns DEF Emptied, Op, TypeOK
    <2>3. QED
      BY <1>2, <2>1, <2>2 DEF Begin, TypeOK, Busy
  <1>4. CASE CommitWrite(s)
    <2>1. [op[s] EXCEPT !.stage = "committed"] \in Op
      BY <1>2, <1>4, OpFields DEF CommitWrite, Op
    <2>2. QED
      BY <1>2, <1>4, <2>1 DEF CommitWrite, ChangeNodes, TypeOK
  <1>5. CASE CommitEmptied(s)
    <2>1. [op[s] EXCEPT !.stage = "committed"] \in Op
      BY <1>2, <1>5, OpFields DEF CommitEmptied, Op
    <2>2. cache' \in Columns
      BY <1>2, <1>5, ViewColumns, CommitCache DEF CommitEmptied
    <2>3. /\ structure' \in Structures /\ summary' \in Summaries
          /\ overlapped' \subseteq Sessions /\ deaths' \in Nat
      BY <1>2, <1>5 DEF CommitEmptied, ChangeNodes, Finish, TypeOK
    <2>4. op' \in [Sessions -> Op \cup {Idle}]
      BY <1>2, <1>5, <2>1 DEF CommitEmptied, Finish, TypeOK
    <2>5. QED
      BY <2>2, <2>3, <2>4 DEF TypeOK
  <1>6. CASE Build(s)
    <2>1. [op[s] EXCEPT !.built = View, !.stage = "built"] \in Op
      BY <1>2, <1>6, OpFields, ViewColumns DEF Build, Op
    <2>2. QED
      BY <1>2, <1>6, <2>1 DEF Build, TypeOK
  <1>7. CASE GetVault(s)
    <2>1. \A c \in Columns : [op[s] EXCEPT !.stage = "loaded", !.loaded = c] \in Op
      BY <1>2, <1>7, OpFields DEF GetVault, Op
    <2>2. op'[s] \in Op
      BY <1>2, <1>7, <2>1, OpFields DEF GetVault, TypeOK
    <2>3. QED
      BY <1>2, <1>7, <2>2 DEF GetVault, TypeOK
  <1>8. CASE Store(s)
    <2>1. cache' \in Columns
      BY <1>2, <1>8, CommitCache, OpFields DEF Store, IInv, OpsPaired
    <2>2. QED
      BY <1>2, <1>8, <2>1 DEF Store, Finish, TypeOK
  <1>9. CASE Die(s)
    BY <1>2, <1>9 DEF Die, Finish, TypeOK
  <1>10. QED
    BY <1>1, <1>3, <1>4, <1>5, <1>6, <1>7, <1>8, <1>9 DEF Step

LEMMA NextKeepsPairs == IInv /\ [Next]_vars => EtagMatchesTree' /\ OpsPaired'
  <1> SUFFICES ASSUME IInv, Next PROVE EtagMatchesTree' /\ OpsPaired'
    BY DEF vars, IInv, EtagMatchesTree, OpsPaired, Paired
  <1>1. PICK s \in Sessions : Step(s)
    BY DEF Next
  <1>2. TypeOK /\ EtagMatchesTree /\ OpsPaired /\ Paired(cache)
    BY DEF IInv, EtagMatchesTree, Paired
  <1>3. Paired(View) /\ Paired(Emptied) /\ Emptied \in Columns
    BY <1>2, ViewColumns
  \* A step that leaves the cache alone and holds pairs, or ends.
  <1>4. ASSUME UNCHANGED cache, \A u \in Sessions \ {s} : op'[u] = op[u],
               op'[s] # Idle => Paired(op'[s].loaded) /\ Paired(op'[s].built)
        PROVE  EtagMatchesTree' /\ OpsPaired'
    BY <1>2, <1>4 DEF EtagMatchesTree, OpsPaired
  <1>5. CASE \E kind \in {"write", "manual", "patch", "copy", "read"} : Begin(s, kind)
    BY <1>2, <1>3, <1>4, <1>5 DEF Begin, Emptied, TypeOK
  <1>6. CASE CommitWrite(s)
    BY <1>2, <1>4, <1>6, OpFields DEF CommitWrite, OpsPaired, TypeOK, Op
  <1>7. CASE CommitEmptied(s)
    <2>1. EtagMatchesTree'
      BY <1>3, <1>7, CommitCache DEF CommitEmptied
    <2>2. /\ \A u \in Sessions \ {s} : op'[u] = op[u]
          /\ op'[s] # Idle => op'[s].loaded = op[s].loaded /\ op'[s].built = op[s].built
      BY <1>2, <1>7, OpFields DEF CommitEmptied, Finish, TypeOK, Op
    <2>3. QED
      BY <1>2, <1>7, <2>1, <2>2 DEF OpsPaired, CommitEmptied
  <1>8. CASE Build(s)
    <2>1. op'[s].loaded = op[s].loaded /\ op'[s].built = View
      BY <1>2, <1>8, OpFields DEF Build, TypeOK, Op
    <2>2. QED
      BY <1>2, <1>3, <1>4, <1>8, <2>1 DEF Build, OpsPaired, TypeOK
  <1>9. CASE GetVault(s)
    <2>1. op'[s].loaded \in {op[s].loaded, cache} /\ op'[s].built = op[s].built
      BY <1>2, <1>9, OpFields DEF GetVault, TypeOK, Op
    <2>2. QED
      BY <1>2, <1>4, <1>9, <2>1 DEF GetVault, OpsPaired, TypeOK
  <1>10. CASE Store(s)
    <2>1. EtagMatchesTree'
      BY <1>2, <1>10, CommitCache, OpFields DEF Store, OpsPaired
    <2>2. QED
      BY <1>2, <1>10, <2>1 DEF Store, Finish, OpsPaired, TypeOK
  <1>11. CASE Die(s)
    BY <1>2, <1>4, <1>11 DEF Die, Finish, TypeOK
  <1>12. QED
    BY <1>1, <1>5, <1>6, <1>7, <1>8, <1>9, <1>10, <1>11 DEF Step

-----------------------------------------------------------------------------
(***************************************************************************)
(* The session that is alone.                                              *)
(***************************************************************************)

\* It is alone, and stays so but for a Begin, which marks everyone.
LEMMA StepOfAnother ==
    ASSUME IInv, NEW s \in Sessions, Step(s), NEW u \in Sessions \ {s},
           u \notin overlapped', op'[u] # Idle
    PROVE  FALSE
  <1>1. TypeOK /\ Alone
    BY DEF IInv
  <1>2. op'[u] = op[u]
    BY <1>1 DEF Step, Begin, CommitWrite, CommitEmptied, Build, GetVault, Store, Die, Finish, TypeOK
  <1>3. CASE \E kind \in {"write", "manual", "patch", "copy", "read"} : Begin(s, kind)
    BY <1>2, <1>3 DEF Begin, Busy
  <1>4. CASE op[s] # Idle
    <2>1. u \notin overlapped
      BY <1>4 DEF Step, Begin, CommitWrite, CommitEmptied, Build, GetVault, Store, Die, Finish
    <2>2. UpToDate(u)
      BY <1>1, <1>2, <2>1 DEF Alone
    <2>3. QED
      BY <1>4, <2>2 DEF UpToDate
  <1>5. QED
    BY <1>3, <1>4 DEF Step, CommitWrite, CommitEmptied, Build, GetVault, Store, Die

\* A session that begins alone, and one that is and goes on.
LEMMA BeginAlone ==
    ASSUME IInv, NEW s \in Sessions, NEW kind, Begin(s, kind), s \notin overlapped'
    PROVE  UpToDate(s)'
  <1>1. Busy = {}
    BY DEF Begin
  <1>2. /\ op'[s].stage = "checked" /\ op'[s].loaded = cache /\ cache' = cache
        /\ \A u \in Sessions \ {s} : op'[u] = Idle
    BY <1>1 DEF Begin, Busy, IInv, TypeOK
  <1>3. QED
    BY <1>2 DEF UpToDate

LEMMA GoOnAlone ==
    ASSUME IInv, NEW s \in Sessions, Step(s), op[s] # Idle,
           s \notin overlapped', op'[s] # Idle
    PROVE  UpToDate(s)'
  <1>1. TypeOK /\ Alone /\ op[s] \in Op
    BY OpFields DEF IInv
  <1>2. ASSUME s \in overlapped PROVE FALSE
    <2>1. CASE op'[s] = Idle
      BY <2>1
    <2>2. CASE overlapped' = overlapped
      BY <1>2, <2>2
    <2>3. QED
      BY <1>1, <1>2, <2>1, <2>2
         DEF Step, Begin, CommitWrite, CommitEmptied, Build, GetVault, Store, Die, Finish, TypeOK
  <1>3. UpToDate(s)
    BY <1>1, <1>2 DEF Alone
  <1>4. \A u \in Sessions \ {s} : op'[u] = Idle
    <2>1. \A u \in Sessions \ {s} : op'[u] = op[u]
      BY <1>1 DEF Step, Begin, CommitWrite, CommitEmptied, Build, GetVault, Store, Die, Finish, TypeOK
    <2>2. QED
      BY <1>3, <2>1 DEF UpToDate
  <1>5. CASE CommitWrite(s) \/ CommitEmptied(s)
    <2>1. op'[s].stage = "committed"
      BY <1>1, <1>5 DEF CommitWrite, CommitEmptied, Finish, TypeOK, Op
    <2>2. QED
      BY <1>4, <2>1 DEF UpToDate
  <1>6. CASE Build(s)
    <2>1. /\ op'[s].stage = "built" /\ op'[s].built = View
          /\ op'[s].kind = op[s].kind /\ op'[s].loaded = op[s].loaded
      BY <1>1, <1>6 DEF Build, TypeOK, Op
    <2>2. View' = View /\ cache' = cache
      BY <1>6 DEF Build, View
    <2>3. op[s].kind = "read" => op[s].loaded = cache
      BY <1>3, <1>6 DEF Build, UpToDate
    <2>4. QED
      BY <1>4, <2>1, <2>2, <2>3 DEF UpToDate
  <1>7. CASE GetVault(s)
    <2>1. /\ op'[s].stage = "loaded" /\ op'[s].built = op[s].built
          /\ op'[s].loaded = IF op[s].kind = "read" THEN op[s].loaded ELSE cache
      BY <1>1, <1>7 DEF GetVault, TypeOK, Op
    <2>2. View' = View /\ cache' = cache
      BY <1>7 DEF GetVault, View
    <2>3. op[s].built = View /\ (op[s].kind = "read" => op[s].loaded = cache)
      BY <1>3, <1>7 DEF GetVault, UpToDate
    <2>4. QED
      BY <1>4, <2>1, <2>2, <2>3 DEF UpToDate
  <1>8. CASE Store(s) \/ Die(s)
    BY <1>1, <1>8 DEF Store, Die, Finish, TypeOK
  <1>9. QED
    BY <1>5, <1>6, <1>7, <1>8 DEF Step, Begin

LEMMA NextKeepsAlone == IInv /\ [Next]_vars => Alone'
  <1>1. ASSUME IInv, UNCHANGED vars PROVE Alone'
    <2>1. View' = View
      BY <1>1 DEF vars, View
    <2>2. QED
      BY <1>1, <2>1 DEF vars, IInv, Alone, UpToDate
  <1>2. ASSUME IInv, NEW s \in Sessions, Step(s),
               NEW u \in Sessions, u \notin overlapped', op'[u] # Idle
        PROVE  UpToDate(u)'
    <2>1. u = s
      BY <1>2, StepOfAnother
    <2>2. CASE op[s] = Idle
      BY <1>2, <2>1, <2>2, BeginAlone
         DEF Step, CommitWrite, CommitEmptied, Build, GetVault, Store, Die
    <2>3. CASE op[s] # Idle
      BY <1>2, <2>1, <2>3, GoOnAlone
    <2>4. QED
      BY <2>2, <2>3
  <1>3. ASSUME IInv, Next PROVE Alone'
    BY <1>2, <1>3 DEF Next, Alone
  <1>4. QED
    BY <1>1, <1>3

LEMMA NextKeepsIInv == IInv /\ [Next]_vars => IInv'
  BY NextKeepsTypes, NextKeepsPairs, NextKeepsAlone DEF IInv

\* A request that ends, and was alone, leaves what the nodes are or nothing.
LEMMA LoneEnd ==
    ASSUME IInv, [Next]_vars, NEW s \in Sessions \ overlapped,
           op[s] # Idle, op'[s] = Idle, deaths' = deaths
    PROVE  Fresh'
  <1>1. TypeOK /\ op[s] \in Op /\ cache \in Columns
    BY OpFields DEF IInv, TypeOK
  <1>2. UpToDate(s)
    BY DEF IInv, Alone
  <1>3. PICK u \in Sessions : Step(u)
    BY DEF Next, vars
  <1>4. u = s
    BY <1>1, <1>2, <1>3
       DEF UpToDate, Step, Begin, CommitWrite, CommitEmptied, Build, GetVault, Store, Die, Finish, TypeOK
  <1>5. CASE CommitEmptied(s)
    <2>1. op[s].loaded = cache
      BY <1>2, <1>5 DEF CommitEmptied, UpToDate
    <2>2. cache' = Emptied
      BY <1>1, <1>5, <2>1, ViewColumns, WrittenOverItself DEF CommitEmptied
    <2>3. QED
      BY <2>2 DEF Fresh, Emptied, NoTrees
  <1>6. CASE Store(s)
    <2>1. op[s].loaded = cache /\ op[s].built = View
      BY <1>2, <1>6 DEF Store, UpToDate
    <2>2. cache' = View
      BY <1>1, <1>6, <2>1, ViewColumns, WrittenOverItself DEF Store
    <2>3. View' = View
      BY <1>6 DEF Store, View
    <2>4. QED
      BY <2>2, <2>3 DEF Fresh
  <1>7. ASSUME CommitWrite(s) \/ Build(s) \/ GetVault(s) PROVE FALSE
    <2>1. op'[s].kind = op[s].kind /\ op'[s].stage \in {"committed", "built", "loaded"}
      BY <1>1, <1>7 DEF CommitWrite, Build, GetVault, TypeOK, Op
    <2>2. op'[s] \in Op
      BY <1>1, <1>7, ViewColumns DEF CommitWrite, Build, GetVault, TypeOK, Op
    <2>3. QED
      BY <2>2, OpIsNotIdle
  <1>8. ASSUME Die(s) PROVE FALSE
    BY <1>1, <1>8 DEF Die, TypeOK
  <1>9. QED
    BY <1>3, <1>4, <1>5, <1>6, <1>7, <1>8 DEF Step, Begin

-----------------------------------------------------------------------------
\* The strengthening of the properties below is inductive: the session that is
\* alone and the pairs are as described at the top.
THEOREM Inductive == Spec => []IInv
  BY InitIInv, NextKeepsIInv, PTL DEF Spec

\* Every variable keeps its type.
THEOREM TypeCorrect == Spec => []TypeOK
  <1>1. IInv => TypeOK
    BY DEF IInv
  <1>2. QED
    BY <1>1, Inductive, PTL

\* A client is told "not modified" (get_nodes_as_tree) of the very tree whose
\* ETag it has, however the UPDATEs of rebuilds and invalidations interleave.
THEOREM EtagsCorrect == Spec => []EtagMatchesTree
  <1>1. IInv => EtagMatchesTree
    BY DEF IInv
  <1>2. QED
    BY <1>1, Inductive, PTL

\* A request that nothing overlaps leaves no stale tree behind, whatever those
\* before it left (rebuild_vault_tree_cache, invalidate_vault_tree_cache).
THEOREM LoneRequestIsFresh == Spec => LoneRequestRefreshes
  <1>1. IInv /\ [Next]_vars =>
          [ \A s \in Sessions \ overlapped :
                op[s] # Idle /\ op'[s] = Idle /\ deaths' = deaths => Fresh' ]_vars
    BY LoneEnd
  <1>2. QED
    BY <1>1, Inductive, PTL DEF Spec, LoneRequestRefreshes

-----------------------------------------------------------------------------
(***************************************************************************)
(* ImageAssets.                                                            *)
(***************************************************************************)
Storing == {"temp", "insert"}
DeletionSteps == {"checked", "unlink"}

AssetTypeOK ==
    /\ rows \in SUBSET [asset : Assets, image : Images]
    /\ files \in SUBSET (Assets \X {"tmp", "file"})
    /\ refs \in SUBSET (Assets \X Places)
    /\ begun \in 0..MaxAssets
    /\ call \in [Calls -> [step : {"idle"} \cup Storing \cup DeletionSteps,
                           asset : 0..MaxAssets, image : Images \cup {{}}]]

\* An asset of a row or of a call has been begun.
Known ==
    /\ \A r \in rows : r.asset <= begun
    /\ \A c \in Calls : call[c].asset <= begun
    /\ \A f \in files : f[1] <= begun

\* A call that stores an asset has it to itself.
Owned == \A c \in Calls : call[c].step \in Storing =>
            /\ call[c].asset # 0 /\ call[c].image \in Images
            /\ call[c].asset \notin Present
            /\ \A d \in Calls \ {c} : call[d].asset # call[c].asset
            /\ call[c].step = "insert" => <<call[c].asset, "file">> \in files

RowGone == \A c \in Calls : call[c].step = "unlink" => call[c].asset \notin Present

\* Only a call that has not come to os.replace is about a temporary file.
TempIsFresh == \A f \in files : f[2] = "tmp" =>
    /\ f[1] \notin Present
    /\ \A c \in Calls : call[c].step \in {"insert", "checked", "unlink"} => call[c].asset # f[1]

\* FilesMatchRows, where a deletion that has only asked accounts for no file.
Accounted ==
    /\ \A a \in Present : <<a, "file">> \in files
    /\ \A f \in files : \/ f[1] \in Present
                        \/ f[1] \in leaked
                        \/ \E c \in Calls : /\ call[c].step \in Storing \cup {"unlink"}
                                            /\ call[c].asset = f[1]

\* A reference to an asset whose deletion has asked was written since.
Asked == \A c \in Calls, ref \in refs :
            call[c].step = "checked" /\ call[c].asset = ref[1] => ref[1] \in late

FileInv == AssetTypeOK /\ Known /\ Owned /\ RowGone /\ TempIsFresh /\ Accounted
RefInv == AssetTypeOK /\ ReferredAreKept /\ Asked

-----------------------------------------------------------------------------
(***************************************************************************)
(* The types.                                                              *)
(***************************************************************************)
LEMMA InitAssetTypeOK == AssetInit => AssetTypeOK
  BY MaxAssetsAssumption DEF AssetInit, AssetTypeOK, NoCall

\* Owned tells a storing call, with an asset and an image, from one at rest.
LEMMA NextTypeOK ==
    ASSUME AssetTypeOK, Owned, [AssetNext]_assetVars
    PROVE  AssetTypeOK'
  <1> USE MaxAssetsAssumption DEF AssetTypeOK, Owned, Storing, DeletionSteps, Assets
  <1>1. ASSUME NEW c \in Calls, NEW image \in Images, FindExisting(c, image) PROVE AssetTypeOK'
    BY <1>1 DEF FindExisting
  <1>2. ASSUME NEW c \in Calls, NEW image \in Images, WriteTemp(c, image) PROVE AssetTypeOK'
    BY <1>2 DEF WriteTemp, NoCall
  <1>3. ASSUME NEW c \in Calls, NEW a \in Assets, CheckDelete(c, a) PROVE AssetTypeOK'
    BY <1>3 DEF CheckDelete, NoCall
  <1>4. ASSUME NEW c \in Calls, Replace(c) PROVE AssetTypeOK'
    BY <1>4 DEF Replace, Goto
  <1>5. ASSUME NEW c \in Calls, Insert(c) PROVE AssetTypeOK'
    <2>1. [asset |-> call[c].asset, image |-> call[c].image] \in [asset : Assets, image : Images]
      BY <1>5 DEF Insert
    <2>2. rows' \in SUBSET [asset : Assets, image : Images]
      BY <1>5, <2>1 DEF Insert
    <2>3. call' \in [Calls -> [step : {"idle"} \cup Storing \cup DeletionSteps,
                              asset : 0..MaxAssets, image : Images \cup {{}}]]
      BY <1>5 DEF Insert, Return, NoCall
    <2>4. QED
      BY <1>5, <2>2, <2>3 DEF Insert
  <1>6. ASSUME NEW c \in Calls, DeleteRow(c) PROVE AssetTypeOK'
    BY <1>6 DEF DeleteRow, Goto
  <1>7. ASSUME NEW c \in Calls, Unlink(c) PROVE AssetTypeOK'
    BY <1>7 DEF Unlink, Return, NoCall
  <1>8. ASSUME NEW a \in Assets, NEW place \in Places, Refer(a, place) PROVE AssetTypeOK'
    BY <1>8 DEF Refer
  <1>9. ASSUME NEW a \in Assets, NEW place \in Places, Forget(a, place) PROVE AssetTypeOK'
    BY <1>9 DEF Forget
  <1>10. ASSUME DeleteVault PROVE AssetTypeOK'
    BY <1>10 DEF DeleteVault
  <1>11. ASSUME Crash PROVE AssetTypeOK'
    BY <1>11 DEF Crash, NoCall
  <1>12. CASE UNCHANGED assetVars
    BY <1>12 DEF assetVars
  <1>13. QED
    BY <1>1, <1>2, <1>3, <1>4, <1>5, <1>6, <1>7, <1>8, <1>9, <1>10, <1>11, <1>12 DEF AssetNext

-----------------------------------------------------------------------------
(***************************************************************************)
(* Rows and files, one lemma per action.                                   *)
(***************************************************************************)

\* A new name is nobody else's.
LEMMA WriteTempFiles ==
    ASSUME FileInv, NEW c \in Calls, NEW image \in Images, WriteTemp(c, image)
    PROVE  Known' /\ Owned' /\ RowGone' /\ TempIsFresh' /\ Accounted'
  <1> USE MaxAssetsAssumption DEF FileInv, Storing, DeletionSteps, AssetTypeOK, Assets
  <1>0. call[c].step = "idle"
    BY DEF WriteTemp, NoCall
  <1>1. \A d \in Calls : /\ call'[d].asset = IF d = c THEN begun + 1 ELSE call[d].asset
                         /\ call'[d].step = IF d = c THEN "temp" ELSE call[d].step
                         /\ call'[d].image = IF d = c THEN image ELSE call[d].image
    BY DEF WriteTemp
  <1>2. Present' = Present
    BY DEF WriteTemp, Present
  <1>3. Known'
    BY <1>0, <1>1 DEF WriteTemp, Known, Owned, Present
  <1>4. Owned'
    BY <1>0, <1>1, <1>2 DEF WriteTemp, Owned, Known, RowGone, Present
  <1>5. RowGone'
    BY <1>0, <1>1, <1>2 DEF RowGone, Owned
  <1>6. TempIsFresh'
    BY <1>0, <1>1 DEF WriteTemp, TempIsFresh, Known, Present
  <1>7. Accounted'
    BY <1>0, <1>1, <1>2 DEF WriteTemp, Accounted, Owned, RowGone, TempIsFresh
  <1>8. QED
    BY <1>3, <1>4, <1>5, <1>6, <1>7

\* The temporary file becomes the asset's.
LEMMA ReplaceFiles ==
    ASSUME FileInv, NEW c \in Calls, Replace(c)
    PROVE  Known' /\ Owned' /\ RowGone' /\ TempIsFresh' /\ Accounted'
  <1> USE MaxAssetsAssumption DEF FileInv, Storing, DeletionSteps, AssetTypeOK, Assets
  <1>0. call[c].step = "temp"
    BY DEF Replace, NoCall
  <1>1. \A d \in Calls : /\ call'[d].asset = call[d].asset
                         /\ call'[d].step = IF d = c THEN "insert" ELSE call[d].step
                         /\ call'[d].image = call[d].image
    BY DEF Replace, Goto
  <1>2. Present' = Present
    BY DEF Replace, Present
  <1>3. Known'
    BY <1>0, <1>1 DEF Replace, Known, Owned, Present
  <1>4. Owned'
    BY <1>0, <1>1, <1>2 DEF Replace, Owned, Known, RowGone, Present
  <1>5. RowGone'
    BY <1>0, <1>1, <1>2 DEF RowGone, Owned
  <1>6. TempIsFresh'
    BY <1>0, <1>1, <1>2 DEF Replace, TempIsFresh, Owned, Known
  <1>7. Accounted'
    BY <1>0, <1>1, <1>2 DEF Replace, Accounted, Owned, RowGone, TempIsFresh
  <1>8. QED
    BY <1>3, <1>4, <1>5, <1>6, <1>7

\* The row finds its file, and no deletion of it: it had none before.
LEMMA InsertFiles ==
    ASSUME FileInv, NEW c \in Calls, Insert(c)
    PROVE  Known' /\ Owned' /\ RowGone' /\ TempIsFresh' /\ Accounted'
  <1> USE MaxAssetsAssumption DEF FileInv, Storing, DeletionSteps, AssetTypeOK, Assets
  <1>0. call[c].step = "insert"
    BY DEF Insert, NoCall
  <1>1. \A d \in Calls : /\ call'[d].asset = IF d = c THEN 0 ELSE call[d].asset
                         /\ call'[d].step = IF d = c THEN "idle" ELSE call[d].step
                         /\ call'[d].image = IF d = c THEN {} ELSE call[d].image
    BY DEF Insert, Return, NoCall
  <1>2. \/ Present' = Present \cup {call[c].asset}
        \/ Present' = Present /\ call[c].asset \in leaked'
    <2>1. ASSUME NEW row, row.asset = call[c].asset, rows' = rows \cup {row}
          PROVE  Present' = Present \cup {call[c].asset}
      BY <2>1 DEF Present
    <2>2. CASE rows' = rows /\ leaked' = leaked \cup {call[c].asset}
      BY <2>2 DEF Present
    <2>3. QED
      BY <2>1, <2>2, [asset |-> call[c].asset, image |-> call[c].image].asset = call[c].asset
         DEF Insert
  <1>3. Known'
    BY <1>0, <1>1 DEF Insert, Known, Owned, Present
  <1>4. Owned'
    BY <1>0, <1>1, <1>2 DEF Insert, Owned, Known, RowGone, Present
  <1>5. RowGone'
    <2>1. ASSUME NEW d \in Calls, call'[d].step = "unlink"
          PROVE  call'[d].asset \notin Present \cup {call[c].asset}
      <3>1. d # c /\ call[d].step = "unlink" /\ call'[d].asset = call[d].asset
        BY <1>1, <2>1
      <3>2. call[d].asset # call[c].asset
        BY <1>0, <3>1 DEF Owned
      <3>3. QED
        BY <3>1, <3>2 DEF RowGone
    <2>2. QED
      BY <1>2, <2>1 DEF RowGone
  <1>6. TempIsFresh'
    BY <1>0, <1>1, <1>2 DEF Insert, TempIsFresh, Owned, Known
  <1>7. Accounted'
    BY <1>0, <1>1, <1>2 DEF Insert, Accounted, Owned, RowGone, TempIsFresh
  <1>8. QED
    BY <1>3, <1>4, <1>5, <1>6, <1>7

\* Whoever deletes has found the row, which no storing call has.
LEMMA CheckDeleteFiles ==
    ASSUME FileInv, NEW c \in Calls, NEW a \in Assets, CheckDelete(c, a)
    PROVE  Known' /\ Owned' /\ RowGone' /\ TempIsFresh' /\ Accounted'
  <1> USE MaxAssetsAssumption DEF FileInv, Storing, DeletionSteps, AssetTypeOK, Assets
  <1>0. call[c].step = "idle"
    BY DEF CheckDelete, NoCall
  <1>1. \A d \in Calls : /\ call'[d].asset = IF d = c THEN a ELSE call[d].asset
                         /\ call'[d].step = IF d = c THEN "checked" ELSE call[d].step
                         /\ call'[d].image = IF d = c THEN {} ELSE call[d].image
    BY DEF CheckDelete
  <1>2. Present' = Present
    BY DEF CheckDelete, Present
  <1>3. Known'
    BY <1>0, <1>1 DEF CheckDelete, Known, Owned, Present
  <1>4. Owned'
    BY <1>0, <1>1, <1>2 DEF CheckDelete, Owned, Known, RowGone, Present
  <1>5. RowGone'
    BY <1>0, <1>1, <1>2 DEF RowGone, Owned
  <1>6. TempIsFresh'
    BY <1>0, <1>1, <1>2 DEF CheckDelete, TempIsFresh, Owned, Known
  <1>7. Accounted'
    BY <1>0, <1>1, <1>2 DEF CheckDelete, Accounted, Owned, RowGone, TempIsFresh
  <1>8. QED
    BY <1>3, <1>4, <1>5, <1>6, <1>7

\* From the row's deletion on, the call accounts for the file.
LEMMA DeleteRowFiles ==
    ASSUME FileInv, NEW c \in Calls, DeleteRow(c)
    PROVE  Known' /\ Owned' /\ RowGone' /\ TempIsFresh' /\ Accounted'
  <1> USE MaxAssetsAssumption DEF FileInv, Storing, DeletionSteps, AssetTypeOK, Assets
  <1>0. call[c].step = "checked"
    BY DEF DeleteRow, NoCall
  <1>1. \A d \in Calls : /\ call'[d].asset = call[d].asset
                         /\ call'[d].step = IF d = c THEN "unlink" ELSE call[d].step
                         /\ call'[d].image = call[d].image
    BY DEF DeleteRow, Goto
  <1>2. Present' = Present \ {call[c].asset}
    BY DEF DeleteRow, Present
  <1>3. Known'
    BY <1>0, <1>1 DEF DeleteRow, Known, Owned, Present
  <1>4. Owned'
    BY <1>0, <1>1, <1>2 DEF DeleteRow, Owned, Known, RowGone, Present
  <1>5. RowGone'
    BY <1>0, <1>1, <1>2 DEF RowGone, Owned
  <1>6. TempIsFresh'
    BY <1>0, <1>1, <1>2 DEF DeleteRow, TempIsFresh, Owned, Known
  <1>7. Accounted'
    BY <1>0, <1>1, <1>2 DEF DeleteRow, Accounted, Owned, RowGone, TempIsFresh
  <1>8. QED
    BY <1>3, <1>4, <1>5, <1>6, <1>7

\* The file has no row, and its name no other file.
LEMMA UnlinkFiles ==
    ASSUME FileInv, NEW c \in Calls, Unlink(c)
    PROVE  Known' /\ Owned' /\ RowGone' /\ TempIsFresh' /\ Accounted'
  <1> USE MaxAssetsAssumption DEF FileInv, Storing, DeletionSteps, AssetTypeOK, Assets
  <1>0. call[c].step = "unlink"
    BY DEF Unlink, NoCall
  <1>1. \A d \in Calls : /\ call'[d].asset = IF d = c THEN 0 ELSE call[d].asset
                         /\ call'[d].step = IF d = c THEN "idle" ELSE call[d].step
                         /\ call'[d].image = IF d = c THEN {} ELSE call[d].image
    BY DEF Unlink, Return, NoCall
  <1>2. Present' = Present
    BY DEF Unlink, Present
  <1>3. Known'
    BY <1>0, <1>1 DEF Unlink, Known, Owned, Present
  <1>4. Owned'
    BY <1>0, <1>1, <1>2 DEF Unlink, Owned, Known, RowGone, Present
  <1>5. RowGone'
    BY <1>0, <1>1, <1>2 DEF RowGone, Owned
  <1>6. TempIsFresh'
    BY <1>0, <1>1, <1>2 DEF Unlink, TempIsFresh, Owned, Known
  <1>7. Accounted'
    BY <1>0, <1>1, <1>2 DEF Unlink, Accounted, Owned, RowGone, TempIsFresh
  <1>8. QED
    BY <1>3, <1>4, <1>5, <1>6, <1>7

\* The rows of a deleted vault leave their files behind.
LEMMA DeleteVaultFiles ==
    ASSUME FileInv, DeleteVault
    PROVE  Known' /\ Owned' /\ RowGone' /\ TempIsFresh' /\ Accounted'
  <1> USE DEF FileInv, DeleteVault
  <1>1. Present' = {}
    BY DEF Present
  <1>2. Known'
    BY DEF Known
  <1>3. Owned' /\ RowGone' /\ TempIsFresh'
    BY <1>1 DEF Owned, RowGone, TempIsFresh, Storing
  <1>4. Accounted'
    BY <1>1 DEF Accounted, Storing
  <1>5. QED
    BY <1>2, <1>3, <1>4

\* Every call that accounts for a file leaks it.
LEMMA CrashFiles ==
    ASSUME FileInv, Crash
    PROVE  Known' /\ Owned' /\ RowGone' /\ TempIsFresh' /\ Accounted'
  <1> USE DEF FileInv, Storing, DeletionSteps
  <1>1. \A d \in Calls : call'[d].step = "idle" /\ call'[d].asset = 0
    BY DEF Crash, NoCall
  <1>2. Present' = Present
    BY DEF Crash, Present
  <1>3. Known'
    BY <1>1 DEF Crash, Known, AssetTypeOK
  <1>4. Owned' /\ RowGone' /\ TempIsFresh'
    BY <1>1, <1>2 DEF Crash, Owned, RowGone, TempIsFresh
  <1>5. \A d \in Calls : call[d].step \in Storing \cup {"unlink"} => call[d].asset \in leaked'
    BY DEF Crash, NoCall
  <1>6. Accounted'
    BY <1>2, <1>5 DEF Crash, Accounted
  <1>7. QED
    BY <1>3, <1>4, <1>6

\* The rest is about clients and texts.
LEMMA OtherFiles ==
    ASSUME FileInv, UNCHANGED <<rows, files, call, begun, leaked>>
    PROVE  Known' /\ Owned' /\ RowGone' /\ TempIsFresh' /\ Accounted'
  <1>1. Present' = Present
    BY DEF Present
  <1>2. QED
    BY <1>1 DEF FileInv, Known, Owned, RowGone, TempIsFresh, Accounted, Storing

LEMMA NextKeepsFileInv == FileInv /\ [AssetNext]_assetVars => FileInv'
  <1> SUFFICES ASSUME FileInv, [AssetNext]_assetVars
               PROVE  Known' /\ Owned' /\ RowGone' /\ TempIsFresh' /\ Accounted'
    BY NextTypeOK DEF FileInv
  <1> DEFINE Goal == Known /\ Owned /\ RowGone /\ TempIsFresh /\ Accounted
  <1>1. ASSUME NEW c \in Calls, NEW image \in Images, FindExisting(c, image) PROVE Goal'
    BY <1>1, OtherFiles DEF FindExisting
  <1>2. ASSUME NEW c \in Calls, NEW image \in Images, WriteTemp(c, image) PROVE Goal'
    BY <1>2, WriteTempFiles
  <1>3. ASSUME NEW c \in Calls, NEW a \in Assets, CheckDelete(c, a) PROVE Goal'
    BY <1>3, CheckDeleteFiles
  <1>4. ASSUME NEW c \in Calls, Replace(c) PROVE Goal'
    BY <1>4, ReplaceFiles
  <1>5. ASSUME NEW c \in Calls, Insert(c) PROVE Goal'
    BY <1>5, InsertFiles
  <1>6. ASSUME NEW c \in Calls, DeleteRow(c) PROVE Goal'
    BY <1>6, DeleteRowFiles
  <1>7. ASSUME NEW c \in Calls, Unlink(c) PROVE Goal'
    BY <1>7, UnlinkFiles
  <1>8. ASSUME NEW a \in Assets, NEW place \in Places, Refer(a, place) PROVE Goal'
    BY <1>8, OtherFiles DEF Refer
  <1>9. ASSUME NEW a \in Assets, NEW place \in Places, Forget(a, place) PROVE Goal'
    BY <1>9, OtherFiles DEF Forget
  <1>10. ASSUME DeleteVault PROVE Goal'
    BY <1>10, DeleteVaultFiles
  <1>11. ASSUME Crash PROVE Goal'
    BY <1>11, CrashFiles
  <1>12. CASE UNCHANGED assetVars
    BY <1>12, OtherFiles DEF assetVars
  <1>13. QED
    BY <1>1, <1>2, <1>3, <1>4, <1>5, <1>6, <1>7, <1>8, <1>9, <1>10, <1>11, <1>12 DEF AssetNext

-----------------------------------------------------------------------------
(***************************************************************************)
(* References, one step per action.                                        *)
(***************************************************************************)
LEMMA NextKeepsRefInv ==
    ASSUME RefInv, AssetTypeOK', [AssetNext]_assetVars
    PROVE  RefInv'
  <1> SUFFICES ReferredAreKept' /\ Asked'
    BY DEF RefInv
  <1> USE DEF RefInv, ReferredAreKept, Asked, AssetTypeOK
  <1>1. ASSUME NEW c \in Calls, NEW image \in Images, FindExisting(c, image)
        PROVE  ReferredAreKept' /\ Asked'
    BY <1>1 DEF FindExisting, Present
  <1>2. ASSUME NEW c \in Calls, NEW image \in Images, WriteTemp(c, image)
        PROVE  ReferredAreKept' /\ Asked'
    BY <1>2 DEF WriteTemp, Present, NoCall
  <1>3. ASSUME NEW c \in Calls, NEW a \in Assets, CheckDelete(c, a)
        PROVE  ReferredAreKept' /\ Asked'
    BY <1>3 DEF CheckDelete, Present, NoCall
  <1>4. ASSUME NEW c \in Calls, Replace(c)
        PROVE  ReferredAreKept' /\ Asked'
    BY <1>4 DEF Replace, Goto, Present
  <1>5. ASSUME NEW c \in Calls, Insert(c)
        PROVE  ReferredAreKept' /\ Asked'
    BY <1>5 DEF Insert, Return, NoCall, Present
  <1>6. ASSUME NEW c \in Calls, DeleteRow(c)
        PROVE  ReferredAreKept' /\ Asked'
    BY <1>6 DEF DeleteRow, Goto, Present
  <1>7. ASSUME NEW c \in Calls, Unlink(c)
        PROVE  ReferredAreKept' /\ Asked'
    BY <1>7 DEF Unlink, Return, NoCall, Present
  <1>8. ASSUME NEW a \in Assets, NEW place \in Places, Refer(a, place)
        PROVE  ReferredAreKept' /\ Asked'
    BY <1>8 DEF Refer, Deleting, Present
  <1>9. ASSUME NEW a \in Assets, NEW place \in Places, Forget(a, place)
        PROVE  ReferredAreKept' /\ Asked'
    <2>1. ASSUME NEW ref \in refs' PROVE ref \in refs /\ (ref[1] \in late => ref[1] \in late')
      <3>1. ref \in refs /\ ref = <<ref[1], ref[2]>> /\ ref[2] \in Places
        BY <1>9 DEF Forget
      <3>2. ref[1] = a => late' = late
        BY <1>9, <3>1 DEF Forget
      <3>3. ref[1] # a => (ref[1] \in late => ref[1] \in late')
        BY <1>9 DEF Forget
      <3>4. QED
        BY <3>1, <3>2, <3>3
    <2>2. Present' = Present /\ call' = call
      BY <1>9 DEF Forget, Present
    <2>3. QED
      BY <2>1, <2>2
  <1>10. ASSUME DeleteVault PROVE ReferredAreKept' /\ Asked'
    BY <1>10 DEF DeleteVault
  <1>11. ASSUME Crash PROVE ReferredAreKept' /\ Asked'
    BY <1>11 DEF Crash, NoCall, Present
  <1>12. CASE UNCHANGED assetVars
    BY <1>12 DEF assetVars, Present
  <1>13. QED
    BY <1>1, <1>2, <1>3, <1>4, <1>5, <1>6, <1>7, <1>8, <1>9, <1>10, <1>11, <1>12 DEF AssetNext

-----------------------------------------------------------------------------
(***************************************************************************)
(* The theorems.                                                           *)
(***************************************************************************)
LEMMA InitInvs == AssetInit => FileInv /\ RefInv
  <1> SUFFICES ASSUME AssetInit
               PROVE  FileInv /\ RefInv
    OBVIOUS
  <1>1. AssetTypeOK
    BY InitAssetTypeOK
  <1>2. Present = {}
    BY DEF AssetInit, Present
  <1>3. Known /\ Owned /\ RowGone /\ TempIsFresh /\ Accounted
    BY <1>2 DEF AssetInit, NoCall, Known, Owned, RowGone, TempIsFresh, Accounted, Storing
  <1>4. ReferredAreKept /\ Asked
    BY DEF AssetInit, NoCall, ReferredAreKept, Asked
  <1>5. QED
    BY <1>1, <1>3, <1>4 DEF FileInv, RefInv

LEMMA NextKeepsInvs == FileInv /\ RefInv /\ [AssetNext]_assetVars => (FileInv /\ RefInv)'
  BY NextKeepsFileInv, NextKeepsRefInv DEF FileInv

\* Every row of image_assets has its file, whatever create_asset and
\* delete_asset overlap and wherever the server stops, and every file its row,
\* its call, or a crash, a refused row or a deleted vault to blame.
THEOREM RowsHaveFiles == AssetSpec => []FilesMatchRows
  <1>1. FileInv => FilesMatchRows
    BY DEF FileInv, Accounted, FilesMatchRows
  <1>2. QED
    BY InitInvs, NextKeepsInvs, <1>1, PTL DEF AssetSpec

\* delete_asset never takes an asset from under a text, unless the text came to
\* refer to it after the deletion had looked for references.
THEOREM DeletionSparesReferred == AssetSpec => []ReferredAreKept
  <1>1. RefInv => ReferredAreKept
    BY DEF RefInv
  <1>2. QED
    BY InitInvs, NextKeepsInvs, <1>1, PTL DEF AssetSpec
=============================================================================
