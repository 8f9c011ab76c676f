--------------------------- MODULE VaultVersions ---------------------------
(***************************************************************************)
(* The versions of one vault: its row in mind_maps, the objects under its  *)
(* base key, and the requests of backend/src/routes/mindmaps_sql.rs that   *)
(* change them.                                                            *)
(*                                                                         *)
(* A handler reads the row once (find_owned) and works from that copy; it  *)
(* then calls the object store and the database, and every call is a step  *)
(* of its own here, because other requests run between two awaits.  The    *)
(* row keeps the columns the handlers below read or write: title, envelope *)
(* and the presentation columns are written blindly and decide nothing.    *)
(***************************************************************************)
EXTENDS Naturals, Sequences, FiniteSets

CONSTANTS
    Requests,           \* slots for requests in flight on this vault
    Versions,           \* version ids: bounds how many saves a run can make
    LegacyIds,          \* ids of versions saved before per-version keys
    LegacyCurrent,      \* the one of them whose bytes are at the base key
    MaxVersionsValues,  \* retention settings a client may choose (u32, >= 1)
    DefaultMaxVersions, \* max_versions of a new row: 50 in the code
    Scenarios,          \* the kinds of run there are, see below
    BaseKey,            \* the row's object_key
    None                \* Rust's None

(***************************************************************************)
(* Every behaviour is one of several scenarios, which say how many         *)
(* requests run at a time, which failures strike and which retention       *)
(* settings clients choose; a property that needs quieter circumstances    *)
(* than others names them.  The failures:                                  *)
(*                                                                         *)
(* "store": a call to the object store fails; "db": a statement fails and  *)
(* has no effect; "lost_reply": a statement takes effect but its reply is  *)
(* lost, so the handler sees an error; "crash": a handler's future is      *)
(* dropped at an await, or the process ends; "reconfirm": a client sends   *)
(* confirm_upload again for an id it has already confirmed.                *)
(***************************************************************************)
FaultKinds == {"store", "db", "lost_reply", "crash", "reconfirm"}

ASSUME VersionsAssumption ==
    /\ LegacyIds \subseteq Versions
    /\ LegacyCurrent \in LegacyIds
    /\ None \notin Versions
    /\ MaxVersionsValues \subseteq Nat \ {0}
    /\ DefaultMaxVersions \in MaxVersionsValues
    /\ Scenarios \subseteq [requests : SUBSET Requests,
                            faults   : SUBSET FaultKinds,
                            limits   : SUBSET MaxVersionsValues]

(* S3Store::version_key appends "/v/" and the id to the base key: the key  *)
(* determines the id, and no version key is the base key itself.           *)
VersionKey(v) == <<BaseKey, v>>

Keys == {VersionKey(v) : v \in Versions} \cup {BaseKey}

ASSUME BaseKeyAssumption ==
    /\ None \notin Keys
    /\ \A v \in Versions : BaseKey # VersionKey(v)

Snapshot == [version_id : Versions, object_key : Keys \cup {None}]

Row == [current_version_id : Versions \cup {None},
        version_history    : Seq(Snapshot),
        max_versions       : MaxVersionsValues]

EmptyRow == [current_version_id |-> None,
             version_history    |-> <<>>,
             max_versions       |-> DefaultMaxVersions]

VARIABLES
    scenario, \* what may happen in this behaviour; never changes
    life,     \* whether the row exists: "absent", "present" or "deleted"
    row,      \* the row's columns, meaningful while life = "present"
    objects,  \* the keys under which the store holds an object
    minted,   \* version ids that new_version_id has produced
    pending,  \* ids handed out with a presigned PUT URL and not yet confirmed
    req,      \* what each request in flight is doing
    cleanup,  \* keys handed to spawn_object_cleanup and not yet deleted
    ghost     \* what was asked of the vault; read by properties only

vars == <<scenario, life, row, objects, minted, pending, req, cleanup, ghost>>

Faults == scenario.faults

-----------------------------------------------------------------------------
(* Helpers on version_history.                                             *)

(* The elements of h at the indices I, in the order of h: the n-th of them *)
(* is the one whose index has rank n in I.                                 *)
Rank(I, i) == Cardinality({j \in I : j <= i})

At(h, I) == [n \in 1..Cardinality(I) |-> h[CHOOSE i \in I : Rank(I, i) = n]]

Ids(h) == {h[i].version_id : i \in DOMAIN h}

(* normalize_version_history: the first snapshot of every id. *)
NormalizeVersionHistory(h) ==
    At(h, {i \in DOMAIN h :
             \A j \in DOMAIN h : j < i => h[j].version_id # h[i].version_id})

(* The filter in delete_vault_version. *)
Without(h, v) == At(h, {i \in DOMAIN h : h[i].version_id # v})

Keep(n) == IF n = 0 THEN 1 ELSE n

(* Mutants of the next two: retention that trims the wrong end, and one    *)
(* that also returns the oldest key it keeps.                              *)
PruneHistoryNewest(h, n) ==
    IF Len(h) <= Keep(n) THEN h ELSE SubSeq(h, 1, Keep(n))

PrunedKeysOneMore(h, n) ==
    {h[i].object_key : i \in {j \in DOMAIN h : j + Keep(n) <= Len(h) + 1}} \ {None}

(* prune_history: what it leaves in the history, and the keys it returns. *)
PruneHistory(h, n) ==
    IF Len(h) <= Keep(n) THEN h ELSE SubSeq(h, Len(h) - Keep(n) + 1, Len(h))

PrunedKeys(h, n) ==
    {h[i].object_key : i \in {j \in DOMAIN h : j + Keep(n) <= Len(h)}} \ {None}

(* The history confirm_upload and upload_blob build from the row they read *)
(* before they prune it.                                                   *)
Pushed(m, v) ==
    Append(NormalizeVersionHistory(m.version_history),
           [version_id |-> v, object_key |-> VersionKey(v)])

(* The version a request means: the one it names, else the current one. *)
Wanted(m, v) == IF v = None THEN m.current_version_id ELSE v

KeysListed(h, v) ==
    {h[i].object_key : i \in {j \in DOMAIN h : h[j].version_id = v}}

(* Mutant: falls back to the base key for any version without a key.       *)
ResolveBlobKeyAnyFallback(m, v) ==
    LET own == KeysListed(NormalizeVersionHistory(m.version_history),
                          Wanted(m, v)) \ {None}
    IN  IF own # {} THEN CHOOSE k \in own : TRUE ELSE BaseKey

(* resolve_blob_key; None stands for its NotFound. *)
ResolveBlobKey(m, v) ==
    LET w   == Wanted(m, v)
        own == KeysListed(NormalizeVersionHistory(m.version_history), w) \ {None}
    IN  IF w # None /\ own # {} THEN CHOOSE k \in own : TRUE
        ELSE IF w = m.current_version_id THEN BaseKey ELSE None

-----------------------------------------------------------------------------
(* Requests.  A request in flight holds the row it read, the version id it *)
(* works on, and for delete_mind_map the keys still to be deleted.         *)

Pcs == {"idle", "create", "create_undo", "put", "head", "save", "rollback",
        "download", "delete_object", "delete_write", "meta",
        "list", "delete_keys", "delete_row"}

Idle == [pc |-> "idle", seen |-> EmptyRow, vid |-> None, keys |-> {}]

Goto(r, pc) == req' = [req EXCEPT ![r].pc = pc]

Finish(r) == req' = [req EXCEPT ![r] = Idle]

Doing(r, pc) == req[r].pc = pc

(* find_owned: the handler starts by reading the row and keeps m of it. *)
FindOwned(r, pc, m, v) ==
    /\ Doing(r, "idle")
    /\ life = "present"
    /\ req' = [req EXCEPT ![r] =
                 [pc |-> pc, seen |-> m, vid |-> v, keys |-> {}]]

(* new_version_id: a fresh UUID. *)
Mint(v) ==
    /\ v \in Versions \ minted
    /\ minted' = minted \cup {v}

(* update_mind_map_upload: UPDATE ... WHERE id AND user_id.  With the row  *)
(* deleted it changes nothing and still succeeds.                          *)
UpdateMindMapUpload(current, history) ==
    row' = IF life = "present"
           THEN [row EXCEPT !.current_version_id = current,
                            !.version_history = history]
           ELSE row

-----------------------------------------------------------------------------
(* create_mind_map *)

CreateMindMap(r) ==
    /\ life = "absent"
    /\ Doing(r, "idle")
    /\ life' = "present"
    /\ row' = EmptyRow
    /\ Goto(r, "create")
    /\ UNCHANGED <<objects, minted, pending, cleanup, ghost>>

CreateUrl(r) ==
    /\ Doing(r, "create")
    /\ \E v \in Versions : Mint(v) /\ pending' = pending \cup {v}
    /\ Finish(r)
    /\ UNCHANGED <<life, row, objects, cleanup, ghost>>

CreateUrlFails(r) ==
    /\ Doing(r, "create")
    /\ "store" \in Faults
    /\ Goto(r, "create_undo")
    /\ UNCHANGED <<life, row, objects, minted, pending, cleanup, ghost>>

(* The roll-back of the row; if it fails as well, only a log line remains. *)
CreateUndo(r) ==
    /\ Doing(r, "create_undo")
    /\ \/ life' = "deleted"
       \/ "db" \in Faults /\ life' = life
    /\ Finish(r)
    /\ UNCHANGED <<row, objects, minted, pending, cleanup, ghost>>

(* get_upload_url, and the URL update_mind_map answers with: the row is    *)
(* only asked for its object_key, which never changes.                     *)
GetUploadUrl(r) ==
    /\ Doing(r, "idle")
    /\ life = "present"
    /\ \E v \in Versions : Mint(v) /\ pending' = pending \cup {v}
    /\ UNCHANGED <<life, row, objects, req, cleanup, ghost>>

(* The client's PUT to a presigned URL, which the backend does not see. *)
ClientPut(v) ==
    /\ v \in pending
    /\ objects' = objects \cup {VersionKey(v)}
    /\ UNCHANGED <<life, row, minted, pending, req, cleanup, ghost>>

-----------------------------------------------------------------------------
(* upload_blob and confirm_upload *)

UploadBlob(r) ==
    /\ \E v \in Versions : Mint(v) /\ FindOwned(r, "put", row, v)
    /\ UNCHANGED <<life, row, objects, pending, cleanup, ghost>>

PutObject(r) ==
    /\ Doing(r, "put")
    /\ objects' = objects \cup {VersionKey(req[r].vid)}
    /\ Goto(r, "save")
    /\ UNCHANGED <<life, row, minted, pending, cleanup, ghost>>

(* A PUT that reports an error may still have stored the object. *)
PutObjectFails(r) ==
    /\ Doing(r, "put")
    /\ "store" \in Faults
    /\ objects' \in {objects, objects \cup {VersionKey(req[r].vid)}}
    /\ Finish(r)
    /\ UNCHANGED <<life, row, minted, pending, cleanup, ghost>>

ConfirmUpload(r) ==
    /\ \E v \in IF "reconfirm" \in Faults THEN minted \ LegacyIds ELSE pending :
         /\ FindOwned(r, "head", row, v)
         /\ pending' = pending \ {v}
    /\ UNCHANGED <<life, row, objects, minted, cleanup, ghost>>

(* head_size is what proves that the upload arrived. *)
HeadObject(r) ==
    /\ Doing(r, "head")
    /\ VersionKey(req[r].vid) \in objects
    /\ Goto(r, "save")
    /\ UNCHANGED <<life, row, objects, minted, pending, cleanup, ghost>>

HeadObjectFails(r) ==
    /\ Doing(r, "head")
    /\ VersionKey(req[r].vid) \notin objects \/ "store" \in Faults
    /\ Finish(r)
    /\ UNCHANGED <<life, row, objects, minted, pending, cleanup, ghost>>

SavedHistory(r) ==
    PruneHistory(Pushed(req[r].seen, req[r].vid), req[r].seen.max_versions)

(* Mutant: forgets to hand the pruned keys to spawn_object_cleanup. *)
SaveRowNoCleanup(r) ==
    /\ Doing(r, "save")
    /\ UpdateMindMapUpload(req[r].vid, SavedHistory(r))
    /\ ghost' = [ghost EXCEPT !.lastSave = req[r].vid]
    /\ Finish(r)
    /\ UNCHANGED <<life, objects, minted, pending, cleanup>>

(* The row takes the history built from the copy the request read, and the *)
(* keys retention dropped go to the background task.                       *)
SaveRow(r) ==
    /\ Doing(r, "save")
    /\ UpdateMindMapUpload(req[r].vid, SavedHistory(r))
    /\ ghost' = [ghost EXCEPT !.lastSave = req[r].vid]
    /\ cleanup' = cleanup \cup
         PrunedKeys(Pushed(req[r].seen, req[r].vid), req[r].seen.max_versions)
    /\ Finish(r)
    /\ UNCHANGED <<life, objects, minted, pending>>

SaveRowFails(r) ==
    /\ Doing(r, "save")
    /\ \/ "db" \in Faults /\ UNCHANGED <<row, ghost>>
       \/ /\ "lost_reply" \in Faults
          /\ UpdateMindMapUpload(req[r].vid, SavedHistory(r))
          /\ ghost' = [ghost EXCEPT !.lastSave = req[r].vid]
    /\ Goto(r, "rollback")
    /\ UNCHANGED <<life, objects, minted, pending, cleanup>>

(* Deletes the version's object after the metadata update failed. *)
RollBackSave(r) ==
    /\ Doing(r, "rollback")
    /\ \/ objects' = objects \ {VersionKey(req[r].vid)}
       \/ "store" \in Faults /\ objects' = objects
    /\ Finish(r)
    /\ UNCHANGED <<life, row, minted, pending, cleanup, ghost>>

-----------------------------------------------------------------------------
(* download_blob, and get_download_url with the client's GET *)

DownloadBlob(r) ==
    /\ \E w \in Versions \cup {None} :
         /\ ResolveBlobKey(row, w) # None
         /\ FindOwned(r, "download", row, w)
    /\ UNCHANGED <<life, row, objects, minted, pending, cleanup, ghost>>

GetObject(r) ==
    /\ Doing(r, "download")
    /\ Finish(r)
    /\ UNCHANGED <<life, row, objects, minted, pending, cleanup, ghost>>

-----------------------------------------------------------------------------
(* delete_vault_version *)

(* The active version is refused.  With no key to delete the handler goes  *)
(* straight to the row, unless the row has no current version to write.    *)
DeleteVaultVersion(r) ==
    /\ \E v \in Versions :
         /\ v # row.current_version_id
         /\ \/ /\ ResolveBlobKey(row, v) # None
               /\ FindOwned(r, "delete_object", row, v)
            \/ /\ ResolveBlobKey(row, v) = None
               /\ row.current_version_id # None
               /\ FindOwned(r, "delete_write", row, v)
         /\ ghost' = [ghost EXCEPT !.dropped = @ \cup {v}]
    /\ UNCHANGED <<life, row, objects, minted, pending, cleanup>>

(* Only after the object is gone does the handler notice that the row has  *)
(* no current version and refuse.                                          *)
DeleteVersionObject(r) ==
    /\ Doing(r, "delete_object")
    /\ objects' = objects \ {ResolveBlobKey(req[r].seen, req[r].vid)}
    /\ IF req[r].seen.current_version_id = None
       THEN Finish(r)
       ELSE Goto(r, "delete_write")
    /\ UNCHANGED <<life, row, minted, pending, cleanup, ghost>>

DeleteVersionObjectFails(r) ==
    /\ Doing(r, "delete_object")
    /\ "store" \in Faults
    /\ objects' \in
         {objects, objects \ {ResolveBlobKey(req[r].seen, req[r].vid)}}
    /\ Finish(r)
    /\ UNCHANGED <<life, row, minted, pending, cleanup, ghost>>

(* Mutant: makes the oldest remaining version the current one. *)
DeleteVersionRowPicksFirst(r) ==
    LET left == Without(NormalizeVersionHistory(req[r].seen.version_history),
                        req[r].vid)
    IN  /\ Doing(r, "delete_write")
        /\ UpdateMindMapUpload(
             IF left = <<>> THEN None ELSE left[1].version_id, left)
        /\ Finish(r)
        /\ UNCHANGED <<life, objects, minted, pending, cleanup, ghost>>

(* Both columns are written from the copy the request read. *)
DeleteVersionRow(r) ==
    /\ Doing(r, "delete_write")
    /\ \/ UpdateMindMapUpload(
            req[r].seen.current_version_id,
            Without(NormalizeVersionHistory(req[r].seen.version_history),
                    req[r].vid))
       \/ "db" \in Faults /\ row' = row
    /\ Finish(r)
    /\ UNCHANGED <<life, objects, minted, pending, cleanup, ghost>>

-----------------------------------------------------------------------------
(* update_vault_meta: reads the row and writes all its columns back; the   *)
(* retention setting is the client's or, when it sends none, the one read. *)

UpdateVaultMeta(r) ==
    /\ \E n \in scenario.limits :
         FindOwned(r, "meta", [EmptyRow EXCEPT !.max_versions = n], None)
    /\ UNCHANGED <<life, row, objects, minted, pending, cleanup, ghost>>

UpdateMindMapMeta(r) ==
    /\ Doing(r, "meta")
    /\ \/ row' = IF life = "present"
                 THEN [row EXCEPT !.max_versions = req[r].seen.max_versions]
                 ELSE row
       \/ "db" \in Faults /\ row' = row
    /\ Finish(r)
    /\ UNCHANGED <<life, objects, minted, pending, cleanup, ghost>>

-----------------------------------------------------------------------------
(* delete_mind_map *)

DeleteMindMap(r) ==
    /\ FindOwned(r, "list", EmptyRow, None)
    /\ ghost' = [ghost EXCEPT !.doomed = TRUE]
    /\ UNCHANGED <<life, row, objects, minted, pending, cleanup>>

(* The vault's attachments go first, and their rows or objects may fail    *)
(* the request.                                                            *)
DeleteAttachmentsFails(r) ==
    /\ Doing(r, "list")
    /\ Faults \cap {"db", "store"} # {}
    /\ Finish(r)
    /\ UNCHANGED <<life, row, objects, minted, pending, cleanup, ghost>>

(* delete_all_versions lists the version keys; a listing that fails counts *)
(* as an empty one, and the base key is always added.                      *)
ListVersionKeys(r) ==
    /\ Doing(r, "list")
    /\ \E listed \in {objects} \cup (IF "store" \in Faults THEN {{}} ELSE {}) :
         req' = [req EXCEPT ![r].pc = "delete_keys",
                            ![r].keys = listed \cup {BaseKey}]
    /\ UNCHANGED <<life, row, objects, minted, pending, cleanup, ghost>>

DeleteListedKey(r) ==
    /\ Doing(r, "delete_keys")
    /\ \E k \in req[r].keys :
         /\ objects' = objects \ {k}
         /\ req' = [req EXCEPT
              ![r].keys = @ \ {k},
              ![r].pc = IF req[r].keys = {k} THEN "delete_row" ELSE @]
    /\ UNCHANGED <<life, row, minted, pending, cleanup, ghost>>

DeleteListedKeyFails(r) ==
    /\ Doing(r, "delete_keys")
    /\ "store" \in Faults
    /\ Finish(r)
    /\ UNCHANGED <<life, row, objects, minted, pending, cleanup, ghost>>

DeleteRow(r) ==
    /\ Doing(r, "delete_row")
    /\ \/ life' = "deleted"
       \/ "db" \in Faults /\ life' = life
    /\ Finish(r)
    /\ UNCHANGED <<row, objects, minted, pending, cleanup, ghost>>

-----------------------------------------------------------------------------
(* The background task, and what can end a request half way *)

CleanupObject(k) ==
    /\ k \in cleanup
    /\ \/ objects' = objects \ {k}
       \/ "store" \in Faults /\ objects' = objects
    /\ cleanup' = cleanup \ {k}
    /\ UNCHANGED <<life, row, minted, pending, req, ghost>>

(* The client disconnects and the handler's future is dropped. *)
Cancel(r) ==
    /\ "crash" \in Faults
    /\ ~Doing(r, "idle")
    /\ Finish(r)
    /\ UNCHANGED <<life, row, objects, minted, pending, cleanup, ghost>>

(* The process ends: requests and background tasks with it. *)
ServerCrash ==
    /\ "crash" \in Faults
    /\ req' = [r \in Requests |-> Idle]
    /\ cleanup' = {}
    /\ UNCHANGED <<life, row, objects, minted, pending, ghost>>

-----------------------------------------------------------------------------
(* The rows a vault can start from: none yet, or one that an older release *)
(* left and the start-up migration could not move.                         *)

Legacy(v) == [version_id |-> v, object_key |-> None]

LegacyHistories ==
    {<<>>, <<Legacy(LegacyCurrent)>>}
      \cup {<<Legacy(v), Legacy(LegacyCurrent)>> :
              v \in LegacyIds \ {LegacyCurrent}}

LegacyRows ==
    {[EmptyRow EXCEPT !.current_version_id = LegacyCurrent,
                      !.version_history = h] : h \in LegacyHistories}
      \cup {EmptyRow}

Init ==
    /\ scenario \in Scenarios
    /\ \/ life = "absent" /\ row = EmptyRow /\ objects = {}
       \/ life = "present" /\ row \in LegacyRows /\ objects = {BaseKey}
    /\ minted = LegacyIds
    /\ pending = {}
    /\ req = [r \in Requests |-> Idle]
    /\ cleanup = {}
    /\ ghost = [lastSave |-> row.current_version_id,
                dropped  |-> {},
                doomed   |-> FALSE]

Begin(r) ==
    \/ CreateMindMap(r) \/ GetUploadUrl(r) \/ UploadBlob(r)
    \/ ConfirmUpload(r) \/ DownloadBlob(r) \/ DeleteVaultVersion(r)
    \/ UpdateVaultMeta(r) \/ DeleteMindMap(r)

Continue(r) ==
    \/ CreateUrl(r) \/ CreateUrlFails(r) \/ CreateUndo(r)
    \/ PutObject(r) \/ PutObjectFails(r)
    \/ HeadObject(r) \/ HeadObjectFails(r)
    \/ SaveRow(r) \/ SaveRowFails(r) \/ RollBackSave(r)
    \/ GetObject(r)
    \/ DeleteVersionObject(r) \/ DeleteVersionObjectFails(r)
    \/ DeleteVersionRow(r)
    \/ UpdateMindMapMeta(r)
    \/ DeleteAttachmentsFails(r)
    \/ ListVersionKeys(r) \/ DeleteListedKey(r) \/ DeleteListedKeyFails(r)
    \/ DeleteRow(r)

Next ==
    /\ \/ \E r \in scenario.requests : Begin(r) \/ Continue(r) \/ Cancel(r)
       \/ \E v \in Versions : ClientPut(v)
       \/ \E k \in Keys : CleanupObject(k)
       \/ ServerCrash
    /\ UNCHANGED scenario

Spec == Init /\ [][Next]_vars

-----------------------------------------------------------------------------
(* Properties *)

Request == [pc   : Pcs,
            seen : Row,
            vid  : Versions \cup {None},
            keys : SUBSET Keys]

(* Every variable, a request's copy of the row included, keeps its shape. *)
TypeOK ==
    /\ life \in {"absent", "present", "deleted"}
    /\ row \in Row
    /\ objects \subseteq Keys
    /\ minted \subseteq Versions
    /\ pending \subseteq Versions
    /\ req \in [Requests -> Request]
    /\ cleanup \subseteq Keys
    /\ ghost \in [lastSave : Versions \cup {None},
                  dropped  : SUBSET Versions,
                  doomed   : BOOLEAN]

(* However requests interleave and fail, the current version of a row is   *)
(* one its history lists, or the one the base key holds; and a row without *)
(* a current version lists nothing.  resolve_blob_key relies on the first  *)
(* when it falls back to the base key, delete_vault_version on the second  *)
(* when it deletes the object before it looks at current_version_id.       *)
CurrentListedIn(m) ==
    IF m.current_version_id = None
    THEN m.version_history = <<>>
    ELSE m.current_version_id \in Ids(m.version_history) \cup {LegacyCurrent}

CurrentIsListed == CurrentListedIn(row)

(* What a download serves is the version it was asked for, never another   *)
(* one's bytes: the key resolve_blob_key picked is that version's own key, *)
(* or the base key for the version or the unversioned data kept there.     *)
ServesOnly(k, w) ==
    \/ w # None /\ k = VersionKey(w)
    \/ w \in {LegacyCurrent, None} /\ k = BaseKey

DownloadServesWanted ==
    \A r \in Requests :
        Doing(r, "download") =>
            ServesOnly(ResolveBlobKey(req[r].seen, req[r].vid),
                       Wanted(req[r].seen, req[r].vid))

(* One request at a time, each of which may fail or be abandoned at any    *)
(* call, with every upload confirmed once and no reply of a statement      *)
(* lost.  (With two saves at a time each writes its own history.)          *)
Orderly ==
    /\ \A r, s \in scenario.requests : r = s
    /\ Faults \cap {"reconfirm", "lost_reply"} = {}

(* While nobody asked for the vault to be deleted, every version its       *)
(* history lists can be loaded, except those somebody asked to delete, and *)
(* so can the current one ("deleting objects alone would leave rows        *)
(* pointing at bytes that are gone", prune_history).                       *)
HistoryNeverDangles ==
    Orderly /\ life = "present" /\ ~ghost.doomed =>
        /\ \A i \in DOMAIN row.version_history :
             LET s == row.version_history[i]
             IN  s.object_key # None /\ s.version_id \notin ghost.dropped
                   => s.object_key \in objects
        /\ row.current_version_id # None
             => ResolveBlobKey(row, None) \in objects

(* The current version is the one the latest save wrote: neither a delete  *)
(* nor a failed or abandoned request takes the vault back to an older one. *)
CurrentIsLastSave ==
    Orderly /\ life = "present" => row.current_version_id = ghost.lastSave
=============================================================================
