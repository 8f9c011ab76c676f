--------------------------- MODULE BlobMigration ---------------------------
(***************************************************************************)
(* The start-up migration of backend/src/db/blob_migration.rs on one vault *)
(* of VaultVersions, composed with the requests that run once the server   *)
(* listens.                                                                *)
(*                                                                         *)
(* run comes before the server listens and its failures are only logged:   *)
(* the vault is then served as it is until the next start tries again.     *)
(* Another replica that finds the advisory lock taken does not wait: it    *)
(* serves while this one migrates.  Every call that migrate_one and        *)
(* rescue_version make is a step of its own.                               *)
(***************************************************************************)
EXTENDS VaultVersions

(***************************************************************************)
(* Where the vault lives.  A versioned store lists and serves the versions *)
(* in kept, and the one whose bytes are at the bare key; any other keeps   *)
(* none, refuses to list and answers a request for a version with the bare *)
(* key's bytes.                                                            *)
(***************************************************************************)
CONSTANT Sites

ASSUME SitesAssumption ==
    /\ Sites \subseteq [versioned : BOOLEAN,
                        replicas  : BOOLEAN,
                        kept      : SUBSET LegacyIds]
    /\ \A s \in Sites : ~s.versioned => s.kept = {}

VARIABLES
    site,  \* the store and the deployment; never changes
    filed, \* for a version, whose bytes its own key was given
    mig    \* what the process that migrates is doing

migVars == <<vars, site, filed, mig>>

MigrationPcs ==
    {"maps", "versions", "snapshot", "get", "put", "verify", "bare", "serving"}

Before(pc) == [pc |-> pc, seen |-> EmptyRow, left |-> <<>>, done |-> <<>>,
            listed |-> {}, held |-> None]

Starting == Before("maps")

(* run is over, for this vault, whatever became of it. *)
Listening == Before("serving")

Reached(pc) == mig.pc = pc

(* What blob_migration.rs leaves alone. *)
Elsewhere == <<life, minted, pending, req, cleanup, ghost, scenario, site>>

-----------------------------------------------------------------------------
(* migrate_one *)

(* is_migrated *)
IsMigrated(m) ==
    \/ m.current_version_id = None
    \/ /\ m.current_version_id \in Ids(m.version_history)
       /\ \A i \in DOMAIN m.version_history :
            m.version_history[i].object_key # None

(* The row is read once, with those of all the user's other vaults. *)
ListMindMaps ==
    /\ Reached("maps")
    /\ mig' = IF life = "present" /\ ~IsMigrated(row)
              THEN [Before("versions") EXCEPT !.seen = row,
                                           !.left = row.version_history]
              ELSE Listening
    /\ UNCHANGED <<row, objects, filed, Elsewhere>>

ListMindMapsFails ==
    /\ Reached("maps")
    /\ "db" \in Faults
    /\ mig' = Listening
    /\ UNCHANGED <<row, objects, filed, Elsewhere>>

(* list_legacy_versions: any error counts as a store without versions. *)
ListLegacyVersions ==
    /\ Reached("versions")
    /\ \E listed \in
         {IF site.versioned THEN site.kept \cup {LegacyCurrent} ELSE {}}
           \cup (IF "store" \in Faults THEN {{}} ELSE {}) :
         mig' = [mig EXCEPT !.pc = "snapshot", !.listed = listed]
    /\ UNCHANGED <<row, objects, filed, Elsewhere>>

(* The snapshot in hand, or, when all are done, the current version that   *)
(* the history turned out not to have.                                     *)
Target == IF mig.left = <<>> THEN mig.seen.current_version_id
          ELSE Head(mig.left).version_id

IsCurrent == Target = mig.seen.current_version_id

AllMoved == mig.left = <<>> /\ mig.seen.current_version_id \in Ids(mig.done)

(* On to the next snapshot. *)
Onward(done) ==
    [mig EXCEPT !.pc = "snapshot",
                !.left = IF @ = <<>> THEN <<>> ELSE Tail(@),
                !.done = done,
                !.held = None]

(* No call: a snapshot that has its key is kept as it is. *)
KeepKeyed ==
    /\ Reached("snapshot")
    /\ mig.left # <<>> /\ Head(mig.left).object_key # None
    /\ mig' = Onward(Append(mig.done, Head(mig.left)))
    /\ UNCHANGED <<row, objects, filed, Elsewhere>>

(* rescue_version returns a size, or None: a snapshot without bytes is     *)
(* dropped, a current version without bytes is an error.                   *)
Rescued ==
    Onward(Append(mig.done, [version_id |-> Target,
                             object_key |-> VersionKey(Target)]))

NotRescued == IF mig.left = <<>> THEN Listening ELSE Onward(mig.done)

Rescuing ==
    /\ Reached("snapshot")
    /\ ~AllMoved
    /\ mig.left # <<>> => Head(mig.left).object_key = None

(* head_size on the version's own key: an earlier run got this far. *)
HeadCopyFinds ==
    /\ Rescuing
    /\ VersionKey(Target) \in objects
    /\ mig' = Rescued
    /\ UNCHANGED <<row, objects, filed, Elsewhere>>

(* Mutant: asks the store for versions it did not list. *)
HeadCopyMissesTrusting ==
    /\ Rescuing
    /\ VersionKey(Target) \notin objects \/ "store" \in Faults
    /\ mig' = [mig EXCEPT !.pc = "get"]
    /\ UNCHANGED <<row, objects, filed, Elsewhere>>

HeadCopyMisses ==
    /\ Rescuing
    /\ VersionKey(Target) \notin objects \/ "store" \in Faults
    /\ mig' = IF IsCurrent \/ Target \in mig.listed
              THEN [mig EXCEPT !.pc = "get"]
              ELSE NotRescued
    /\ UNCHANGED <<row, objects, filed, Elsewhere>>

(* Whose bytes the store answers with, if any: download_blob of the bare   *)
(* key for the current version, download_legacy_version for an older one.  *)
Source ==
    IF ~IsCurrent /\ site.versioned
    THEN {Target} \cap (site.kept \cup {LegacyCurrent})
    ELSE IF BaseKey \in objects THEN {LegacyCurrent} ELSE {}

GetSource ==
    /\ Reached("get")
    /\ mig' \in IF Source = {} THEN {NotRescued}
                ELSE {[mig EXCEPT !.pc = "put", !.held = b] : b \in Source}
    /\ UNCHANGED <<row, objects, filed, Elsewhere>>

StoreCopy ==
    /\ objects' = objects \cup {VersionKey(Target)}
    /\ filed' = [filed EXCEPT ![Target] = mig.held]

PutCopy ==
    /\ Reached("put")
    /\ StoreCopy
    /\ mig' = [mig EXCEPT !.pc = "verify"]
    /\ UNCHANGED <<row, Elsewhere>>

PutCopyFails ==
    /\ Reached("put")
    /\ "store" \in Faults
    /\ StoreCopy \/ UNCHANGED <<objects, filed>>
    /\ mig' = Listening
    /\ UNCHANGED <<row, Elsewhere>>

(* The copy is read back and compared with what was sent. *)
VerifyCopy ==
    /\ Reached("verify")
    /\ mig' = IF VersionKey(Target) \in objects /\ filed[Target] = mig.held
              THEN Rescued
              ELSE Listening
    /\ UNCHANGED <<row, objects, filed, Elsewhere>>

(* The read of the source, or of the copy, fails. *)
ReadFails ==
    /\ Reached("get") \/ Reached("verify")
    /\ "store" \in Faults
    /\ mig' = Listening
    /\ UNCHANGED <<row, objects, filed, Elsewhere>>

WriteRow ==
    /\ Reached("snapshot")
    /\ AllMoved
    /\ UpdateMindMapUpload(mig.seen.current_version_id, mig.done)
    /\ mig' = [mig EXCEPT !.pc = "bare"]
    /\ UNCHANGED <<objects, filed, Elsewhere>>

(* Mutant: deletes the old object although the row was not written. *)
WriteRowFailsUnnoticed ==
    /\ Reached("snapshot")
    /\ AllMoved
    /\ "db" \in Faults
    /\ mig' = [mig EXCEPT !.pc = "bare"]
    /\ UNCHANGED <<row, objects, filed, Elsewhere>>

WriteRowFails ==
    /\ Reached("snapshot")
    /\ AllMoved
    /\ \/ "db" \in Faults /\ row' = row
       \/ /\ "lost_reply" \in Faults
          /\ UpdateMindMapUpload(mig.seen.current_version_id, mig.done)
    /\ mig' = Listening
    /\ UNCHANGED <<objects, filed, Elsewhere>>

(* Only once the row points at the copies. *)
DeleteBareKey ==
    /\ Reached("bare")
    /\ \/ objects' = objects \ {BaseKey}
       \/ "store" \in Faults /\ objects' = objects
    /\ mig' = Listening
    /\ UNCHANGED <<row, filed, Elsewhere>>

Migrate ==
    \/ ListMindMaps \/ ListMindMapsFails
    \/ ListLegacyVersions
    \/ KeepKeyed
    \/ HeadCopyFinds \/ HeadCopyMisses
    \/ GetSource \/ PutCopy \/ PutCopyFails \/ VerifyCopy \/ ReadFails
    \/ WriteRow \/ WriteRowFails
    \/ DeleteBareKey

-----------------------------------------------------------------------------
(* The server *)

(* Mutant: listens before run has returned. *)
ServingEarly == TRUE

(* The server listens after run; a replica that found the lock taken does  *)
(* so at once.                                                             *)
Serving == Reached("serving") \/ site.replicas

(* Requests, a client's PUTs and the background task, as in VaultVersions. *)
Serve ==
    /\ \/ \E r \in scenario.requests :
            (Serving /\ Begin(r)) \/ Continue(r) \/ Cancel(r)
       \/ \E v \in Versions : ClientPut(v)
       \/ \E k \in Keys : CleanupObject(k)
    /\ UNCHANGED <<scenario, site, filed, mig>>

(* The process ends, during run or after it, and starts again. *)
Restart ==
    /\ ~site.replicas
    /\ ServerCrash
    /\ mig' = Starting
    /\ UNCHANGED <<scenario, site, filed>>

(* A vault that an older release left, and a store that never lost the     *)
(* bytes at its bare key.                                                  *)
MigrationInit ==
    /\ Init
    /\ row.current_version_id # None
    /\ site \in Sites
    /\ filed = [v \in Versions |-> v]
    /\ mig = Starting

MigrationNext == Migrate \/ Serve \/ Restart

MigrationSpec == MigrationInit /\ [][MigrationNext]_migVars

(* run goes on until it returns; requests and the background task run as   *)
(* VaultVersions says.                                                     *)
MigrationFairness ==
    /\ WF_migVars(Migrate)
    /\ \A r \in Requests :
         WF_migVars(Continue(r) /\ UNCHANGED <<scenario, site, filed, mig>>)
    /\ \A k \in Keys :
         WF_migVars(CleanupObject(k) /\ UNCHANGED <<scenario, site, filed, mig>>)

FairMigrationSpec == MigrationSpec /\ MigrationFairness

-----------------------------------------------------------------------------
(* Properties *)

(* Every variable keeps its shape. *)
MigrationTypeOK ==
    /\ TypeOK
    /\ site \in Sites
    /\ filed \in [Versions -> Versions]
    /\ mig \in [pc : MigrationPcs, seen : Row, left : Seq(Snapshot),
                done : Seq(Snapshot), listed : SUBSET LegacyIds,
                held : LegacyIds \cup {None}]

(* A version's own key never holds another version's bytes, however often  *)
(* the migration is interrupted, fails and is run again ("Asking a store   *)
(* that ignores version ids would hand back the current ciphertext, and it *)
(* would be stored under an older version's id", rescue_version).          *)
CopiesKeepTheirBytes ==
    \A v \in Versions : VersionKey(v) \in objects => filed[v] = v

(* The versions a download can be answered with. *)
Loadable ==
    {v \in Versions : life = "present" /\ ResolveBlobKey(row, v) \in objects}

(* The versions whose bytes the store has, at whatever address. *)
Stored ==
    {v \in Versions : \/ VersionKey(v) \in objects
                      \/ v = LegacyCurrent /\ BaseKey \in objects
                      \/ v \in site.kept}

(* No step of the migration makes a version unavailable that could be      *)
(* downloaded before it, whatever fails; and where the store answers, what *)
(* it drops from the history has no bytes ("Dropping the row is what stops *)
(* the history offering a version that cannot be opened").  Other replicas *)
(* that serve meanwhile are not covered.                                   *)
MigrationLosesNothing ==
    [][~site.replicas /\ Migrate =>
         /\ Loadable \subseteq Loadable'
         /\ {"store", "db"} \cap Faults = {} =>
              (Ids(row.version_history) \ Ids(row'.version_history))
                \cap Stored = {}]_migVars

(* The current version is the one saved last, through every restart and    *)
(* every migration that failed and is tried again: run writes a row it     *)
(* read earlier, and nothing may be saved in between.                      *)
LastSaveStaysCurrent == ~site.replicas => CurrentIsLastSave

(* Without failures nothing in the store is forgotten: the object of a     *)
(* version that no history lists and no client is uploading to is deleted  *)
(* in the end, those the migration made included.                          *)
Calm == Faults = {} /\ ~site.replicas

Listed(v) == life = "present" /\ v \in Ids(row.version_history)

OrphansAreCollected ==
    \A v \in Versions :
        (Calm /\ VersionKey(v) \in objects /\ v \notin pending)
          ~> (VersionKey(v) \notin objects \/ Listed(v))
=============================================================================
