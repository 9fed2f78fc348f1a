------------------------------ MODULE ImageAssets ------------------------------
(***************************************************************************)
(* The managed images of one vault: a row in image_assets and a file in    *)
(* the storage folder, which no transaction spans, and the texts that      *)
(* refer to them (image_asset_service).                                    *)
(*                                                                         *)
(* create_asset writes the file, under a name of its own, and then commits *)
(* the row; delete_asset asks for references, commits the row's deletion   *)
(* and then unlinks the file.  Requests, the PDF import and the conversion *)
(* of legacy images overlap at these steps, and the server may stop at any *)
(* of them.  An asset is known here by one number, its id and its file's.  *)
(***************************************************************************)
EXTENDS Naturals

CONSTANTS
    Calls,      \* calls of create_asset and delete_asset that may overlap
    Images,     \* payloads, as their hashes tell them apart
    MaxAssets   \* bound: files that are ever begun

ASSUME MaxAssetsAssumption == MaxAssets \in Nat

Assets == 1..MaxAssets

\* Where a reference can stand: in a version, current or not, or in a summary.
Places == {"version", "summary"}

VARIABLES
    vault,      \* the vault has not been deleted
    rows,       \* the rows: [asset, image]
    files,      \* what the storage folder holds of each asset: "tmp", "file"
    refs,       \* references in the vault's texts: <<asset, place>>
    call,       \* where each call is
    begun,      \* file names given out so far
    urls,       \* assets whose URL a client has been told
    late,       \* history: assets referred to when their deletion had begun
    leaked      \* history: assets whose file a crash, a refused row or the
                \* deletion of the vault has left behind

assetVars == <<vault, rows, files, refs, call, begun, urls, late, leaked>>

-----------------------------------------------------------------------------
NoCall == [step |-> "idle", asset |-> 0, image |-> {}]

Present == {r.asset : r \in rows}

Deleting(a) == \E c \in Calls : call[c].step \in {"checked", "unlink"} /\ call[c].asset = a

Goto(c, step) == call' = [call EXCEPT ![c].step = step]
Return(c) == call' = [call EXCEPT ![c] = NoCall]

AssetInit ==
    /\ vault = TRUE
    /\ rows = {}
    /\ files = {}
    /\ refs = {}
    /\ call = [c \in Calls |-> NoCall]
    /\ begun = 0
    /\ urls = {}
    /\ late = {}
    /\ leaked = {}

\* create_asset: the payload is known already, and its asset is the answer.
FindExisting(c, image) ==
    /\ vault
    /\ call[c] = NoCall
    /\ \E r \in rows : r.image = image /\ urls' = urls \cup {r.asset}
    /\ UNCHANGED <<vault, rows, files, refs, call, begun, late, leaked>>

\* create_asset: it is not, and goes to a temporary file of a new name.
WriteTemp(c, image) ==
    /\ vault
    /\ call[c] = NoCall
    /\ ~\E r \in rows : r.image = image
    /\ begun < MaxAssets
    /\ begun' = begun + 1
    /\ files' = files \cup {<<begun', "tmp">>}
    /\ call' = [call EXCEPT ![c] = [step |-> "temp", asset |-> begun', image |-> image]]
    /\ UNCHANGED <<vault, rows, refs, urls, late, leaked>>

\* os.replace.
Replace(c) ==
    /\ call[c].step = "temp"
    /\ files' = (files \ {<<call[c].asset, "tmp">>}) \cup {<<call[c].asset, "file">>}
    /\ Goto(c, "insert")
    /\ UNCHANGED <<vault, rows, refs, begun, urls, late, leaked>>

\* The row: one per payload in a vault, and only in a vault that is there.
Insert(c) ==
    /\ call[c].step = "insert"
    /\ IF vault /\ ~\E r \in rows : r.image = call[c].image
       THEN /\ rows' = rows \cup {[asset |-> call[c].asset, image |-> call[c].image]}
            /\ urls' = urls \cup {call[c].asset}
            /\ UNCHANGED leaked
       ELSE /\ leaked' = leaked \cup {call[c].asset}
            /\ UNCHANGED <<rows, urls>>
    /\ Return(c)
    /\ UNCHANGED <<vault, files, refs, begun, late>>

\* Mutant: the references of summaries are forgotten.
CheckDelete_VersionsOnly(c, a) ==
    /\ call[c] = NoCall
    /\ a \in Present
    /\ <<a, "version">> \notin refs
    /\ call' = [call EXCEPT ![c] = [step |-> "checked", asset |-> a, image |-> {}]]
    /\ UNCHANGED <<vault, rows, files, refs, begun, urls, late, leaked>>

\* delete_asset, up to its decision.
CheckDelete(c, a) ==
    /\ call[c] = NoCall
    /\ a \in Present
    /\ \A place \in Places : <<a, place>> \notin refs
    /\ call' = [call EXCEPT ![c] = [step |-> "checked", asset |-> a, image |-> {}]]
    /\ UNCHANGED <<vault, rows, files, refs, begun, urls, late, leaked>>

\* Mutant: the file goes first.
DeleteRow_FileFirst(c) ==
    /\ call[c].step = "checked"
    /\ files' = files \ {<<call[c].asset, "file">>}
    /\ Goto(c, "unlink")
    /\ UNCHANGED <<vault, rows, refs, begun, urls, late, leaked>>

\* Its commit; a row that another call has deleted is no error.
DeleteRow(c) ==
    /\ call[c].step = "checked"
    /\ rows' = {r \in rows : r.asset # call[c].asset}
    /\ Goto(c, "unlink")
    /\ UNCHANGED <<vault, files, refs, begun, urls, late, leaked>>

\* path.unlink(missing_ok=True).
Unlink(c) ==
    /\ call[c].step = "unlink"
    /\ files' = files \ {<<call[c].asset, "file">>}
    /\ leaked' = leaked \ {call[c].asset}
    /\ Return(c)
    /\ UNCHANGED <<vault, rows, refs, begun, urls, late>>

\* A client that was told a URL writes it into a node: nothing asks whether the
\* asset is still there.
Refer(a, place) ==
    /\ vault
    /\ a \in urls
    /\ refs' = refs \cup {<<a, place>>}
    /\ late' = IF a \notin Present \/ Deleting(a) THEN late \cup {a} ELSE late
    /\ UNCHANGED <<vault, rows, files, call, begun, urls, leaked>>

\* The summary is rewritten, or the node deleted with its versions.
Forget(a, place) ==
    /\ <<a, place>> \in refs
    /\ refs' = refs \ {<<a, place>>}
    /\ late' = IF \E other \in Places : <<a, other>> \in refs' THEN late ELSE late \ {a}
    /\ UNCHANGED <<vault, rows, files, call, begun, urls, leaked>>

\* delete_vault: the rows go by their foreign key, the files stay.
DeleteVault ==
    /\ vault
    /\ vault' = FALSE
    /\ rows' = {}
    /\ refs' = {}
    /\ late' = {}
    /\ leaked' = leaked \cup Present
    /\ UNCHANGED <<files, call, begun, urls>>

\* The server stops; what the calls had begun stays in the folder.
Crash ==
    /\ \E c \in Calls : call[c] # NoCall
    /\ leaked' = leaked \cup {call[c].asset : c \in {d \in Calls :
                                 call[d] # NoCall /\ call[d].step # "checked"}}
    /\ call' = [c \in Calls |-> NoCall]
    /\ UNCHANGED <<vault, rows, files, refs, begun, urls, late>>

AssetNext ==
    \/ \E c \in Calls :
          \/ \E image \in Images : FindExisting(c, image) \/ WriteTemp(c, image)
          \/ \E a \in Assets : CheckDelete(c, a)
          \/ Replace(c) \/ Insert(c) \/ DeleteRow(c) \/ Unlink(c)
    \/ \E a \in Assets, place \in Places : Refer(a, place) \/ Forget(a, place)
    \/ DeleteVault
    \/ Crash

AssetSpec == AssetInit /\ [][AssetNext]_assetVars

-----------------------------------------------------------------------------
\* A row is never without its file, whatever overlaps and wherever the server
\* stops: the file comes before the row and goes after it.  A file without a
\* row is at work in some call, or left behind by a crash, by a row that was
\* refused or by the deletion of its vault; nothing else wastes the folder.
FilesMatchRows ==
    /\ \A a \in Present : <<a, "file">> \in files
    /\ \A f \in files : \/ f[1] \in Present
                        \/ f[1] \in leaked
                        \/ \E c \in Calls : call[c].asset = f[1]

\* delete_asset spares an asset that a version or a summary refers to: a text
\* refers to an asset that is not there only if it was written when the
\* deletion had asked already.
ReferredAreKept == \A ref \in refs : ref[1] \in Present \cup late
=============================================================================
