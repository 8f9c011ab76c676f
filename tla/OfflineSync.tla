---------------------------- MODULE OfflineSync ----------------------------
(***************************************************************************)
(* The offline client: one vault as an installed app sees it.  The editor  *)
(* loads and saves it (frontend_app/src/pages/EditorPage.tsx) through the  *)
(* offline adapter (storage/offline.ts), which keeps a copy of the vault   *)
(* and a queue of postponed calls in IndexedDB (storage/idb.ts), sends the *)
(* queue when the connection is back and asks the user what to do when the *)
(* server's version has moved on.  Another session saves the same vault.   *)
(*                                                                         *)
(* Every await is a step.  A save encrypts the tree under a new key: work  *)
(* n is the ciphertext of save n, and only the envelope of save n opens    *)
(* it.  On the server an update or an upload is one step here; the steps   *)
(* inside it are VaultVersions'.                                           *)
(***************************************************************************)
EXTENDS Naturals, FiniteSets, Sequences

CONSTANTS
    Drains,       \* calls of drainSyncQueue that may be under way at once
    MaxSaves,     \* bound on this editor's saves: works 1 .. MaxSaves
    MaxElsewhere, \* bound on the other session's: the works above those
    MaxVersions,  \* bound on the versions the server gets
    None,
    Scenarios

(* "net": the connection drops in the middle of an operation, or a call    *)
(* fails; "lost_reply": a call takes effect and fails; "idb": IndexedDB    *)
(* fails; "reload": the page is reloaded; "reopen": the vault is opened    *)
(* while calls are queued; "overlap": operations run at the same time, the *)
(* other session's too, and the connection returns in the middle of one.   *)
FaultKinds == {"net", "lost_reply", "idb", "reload", "reopen", "overlap"}

ASSUME OfflineAssumption ==
    /\ MaxSaves \in Nat /\ MaxElsewhere \in Nat /\ MaxVersions \in Nat \ {0}
    /\ None \notin Nat
    /\ Drains \cap {"editor", "choice"} = {}
    /\ Scenarios \subseteq [drains : SUBSET Drains, saves : 0 .. MaxSaves,
                            elsewhere : 0 .. MaxElsewhere,
                            faults : SUBSET FaultKinds]

Works == 0 .. (MaxSaves + MaxElsewhere)

Versions == 1 .. MaxVersions

VARIABLES
    scenario,
    online,   \* navigator.onLine, and whether calls can reach the server
    server,   \* the vault's row (its envelope) and its versions, oldest first
    cache,    \* the vault's records in vault_meta and vault_blobs
    queue,    \* the records of sync_queue
    page,     \* draining and _status of the adapter
    job,      \* what each asynchronous operation is doing
    elsewhere,\* the other session: how many saves, and whether one is halfway
    user      \* the editor: see User

vars == <<scenario, online, server, cache, queue, page, job, elsewhere, user>>

world == <<scenario, elsewhere>>

Faults == scenario.faults

(* minio_version_id of a version is its position.                          *)
Version == [work : Works, by : {"here", "elsewhere"}]

Detail == [envelope : Works, version : Versions]   \* what getVault returns

(* seen is a ghost in every record that has it: the newest version that    *)
(* the work in question was made from, or as which it was stored.          *)
Blob == [buf : Works, version : Versions \cup {None}, seen : Versions]

(* Keys of sync_queue grow in the order of the saves, which do not overlap *)
(* (the editor's saving flag), and each adds at most these two.            *)
Key(work, op) == IF op = "updateVault" THEN 2 * work ELSE 2 * work + 1

(* since is a ghost: the number of versions when the call was queued.      *)
Entry == [seq : Nat, op : {"updateVault", "uploadBlob"}, work : Works,
          base : Versions \cup {None}, attempts : 0 .. 3,
          seen : Versions, since : Versions]

ASSUME NoneAssumption == None \notin Detail \cup Blob

(* seen: what the open tree was made from, None while no vault is open;    *)
(* saves: saves begun; the others are ghosts: kept is the last work that   *)
(* the adapter took, None when the user gave it up, whole whether the last *)
(* save went through, and dropped whether a drain gave up an entry.        *)
User == [seen : Versions \cup {None}, unlocked : BOOLEAN,
         saves : 0 .. MaxSaves, kept : Works \cup {None},
         whole : BOOLEAN, dropped : BOOLEAN]

-----------------------------------------------------------------------------
Tasks == {"editor", "choice"} \cup Drains

Ops == {"none", "load", "save", "drain", "local", "server"}

Pcs == {"idle", "open", "noteOpen", "fetch", "label", "store",
        "put", "queuePut", "countPut", "base", "keep", "queueUpload",
        "countUpload", "upload", "refresh", "note", "tag", "confirm",
        "noteConfirm", "snapshot", "check", "read", "dequeue", "failed",
        "reconsider", "finish", "report"}

NoDetail == [envelope |-> 0, version |-> 1]

Idle == [op |-> "none", at |-> "idle", work |-> 0, base |-> None, seen |-> 1,
         detail |-> NoDetail, left |-> {}, conflict |-> FALSE,
         error |-> FALSE]

At(t, pc) == job[t].at = pc

Goto(t, j) == job' = [job EXCEPT ![t] = j]

Quiet == elsewhere.halfway = None /\ \A t \in Tasks : At(t, "idle")

(* Without "overlap" an operation begins when no other is under way.       *)
Turn(t) == At(t, "idle") /\ ("overlap" \in Faults \/ Quiet)

Latest == Len(server.versions)

Answer == [envelope |-> server.envelope, version |-> Latest]

-----------------------------------------------------------------------------
(* The loop over the queue's snapshot that drainSyncQueue and              *)
(* resolveConflict share; getAll returns it in the order of the keys.      *)
FirstNewest(left) == CHOOSE e \in left : \A f \in left : e.seq >= f.seq

First(left) == CHOOSE e \in left : \A f \in left : e.seq <= f.seq

Continue(j) ==
    [j EXCEPT !.at =
        IF j.left = {} THEN IF j.op = "drain" THEN "finish" ELSE "report"
        ELSE IF j.op = "server" THEN "dequeue"
        ELSE IF First(j.left).op = "updateVault" THEN "put"
        ELSE IF j.op = "drain" THEN "check" ELSE "read"]

Skip(j) == LET rest == j.left \ {First(j.left)} IN
           Continue([Idle EXCEPT !.op = j.op, !.left = rest,
                                 !.conflict = j.conflict, !.error = j.error])

(* What a rejected promise leads to: drainSyncQueue counts the attempt,    *)
(* resolveConflict goes on to the next entry, everything else gives up.    *)
Rejected(j) == IF j.op = "drain" THEN [j EXCEPT !.at = "failed"]
               ELSE IF j.op = "local" THEN Skip(j)
               ELSE Idle

Fail(t) == Goto(t, Rejected(job[t]))

CallFails == ~online \/ "net" \in Faults

(* A call that changes the server's state to s and lets t go on as j.      *)
Call(t, s, j) ==
    \/ /\ online
       /\ server' = s
       /\ Goto(t, j) \/ ("lost_reply" \in Faults /\ Fail(t))
    \/ CallFails /\ Fail(t) /\ UNCHANGED server

(* A write to the cache that changes it to c, or whose failure is ignored. *)
WriteCache(c) == cache' = c \/ ("idb" \in Faults /\ UNCHANGED cache)

(* The version of a cached record; a failing read counts as no record.     *)
VersionRead(record) ==
    {IF record = None THEN None ELSE record.version}
       \cup (IF "idb" \in Faults THEN {None} ELSE {})

-----------------------------------------------------------------------------
(* The state of an app whose editor loaded the vault while online; what it *)
(* got may not have reached the cache.                                     *)
Init ==
    /\ scenario \in Scenarios
    /\ online = TRUE
    /\ server = [envelope |-> 0, versions |-> <<[work |-> 0, by |-> "here"]>>]
    /\ LET blob     == [buf |-> 0, version |-> 1, seen |-> 1]
           unstored == IF "idb" \in Faults THEN {None} ELSE {}
       IN  cache \in [meta : {NoDetail} \cup unstored,
                      blob : {blob} \cup unstored]
    /\ queue = {}
    /\ page = [draining |-> FALSE, state |-> "idle", pending |-> 0]
    /\ job = [t \in Tasks |-> Idle]
    /\ elsewhere = [saves |-> 0, halfway |-> None]
    /\ user = [seen |-> 1, unlocked |-> TRUE, saves |-> 0, kept |-> 0,
               whole |-> TRUE, dropped |-> FALSE]

-----------------------------------------------------------------------------
(* drainSyncQueue, called by the handlers of the page: when the            *)
(* connection is back, when the editor opens and from the banner's Retry.  *)
(* The flag is tested here and set only after the queue was read.          *)
Drained(jobs, draining) ==
    LET drain == [Idle EXCEPT !.op = "drain", !.at = "snapshot"]
        free  == {d \in scenario.drains : jobs[d].at = "idle"}
    IN  IF draining THEN {jobs}
        ELSE {[jobs EXCEPT ![d] = drain] : d \in free}

(* Opening the vault: load in EditorPage.tsx, which also drains the queue  *)
(* when the page is new; after a reload the queue was drained before the   *)
(* user unlocked the keys.                                                 *)
StartLoad ==
    /\ Turn("editor")
    /\ queue = {} \/ "reopen" \in Faults
    /\ user.unlocked \/ online   \* UnlockModal asks the server
    /\ LET jobs == [job EXCEPT !["editor"] =
                       [Idle EXCEPT !.op = "load", !.at = "open"]]
       IN  job' \in IF online /\ user.unlocked /\ queue # {}
                    THEN Drained(jobs, page.draining) ELSE {jobs}
    /\ user' = [user EXCEPT !.seen = None, !.unlocked = TRUE]
    /\ UNCHANGED <<world, online, server, cache, queue, page>>

(* getVault, from the server or from the cache.                            *)
Open ==
    /\ At("editor", "open")
    /\ \/ /\ online
          /\ Goto("editor", [job["editor"] EXCEPT !.at = "noteOpen",
                                                  !.detail = Answer])
       \/ /\ ~online
          /\ cache.meta # None
          /\ Goto("editor", [job["editor"] EXCEPT !.at = "fetch",
                                                  !.detail = cache.meta])
       \/ /\ \/ online /\ "net" \in Faults
             \/ ~online /\ (cache.meta = None \/ "idb" \in Faults)
          /\ Fail("editor")
    /\ UNCHANGED <<world, online, server, cache, queue, page, user>>

(* The tree opens if the envelope that was read is that of the bytes.      *)
Opened(j, seen) ==
    /\ Goto("editor", Idle)
    /\ user' = IF j.detail.envelope = j.work
               THEN [user EXCEPT !.seen = seen] ELSE user

(* downloadBlob; it asks again whether the app is online.                  *)
Fetch ==
    /\ At("editor", "fetch")
    /\ \/ /\ online
          /\ Goto("editor", [job["editor"] EXCEPT !.at = "label",
                                 !.work = server.versions[Latest].work,
                                 !.seen = Latest])
          /\ UNCHANGED user
       \/ /\ ~online
          /\ cache.blob # None
          /\ Opened([job["editor"] EXCEPT !.work = cache.blob.buf],
                    cache.blob.seen)
       \/ /\ \/ online /\ "net" \in Faults
             \/ ~online /\ (cache.blob = None \/ "idb" \in Faults)
          /\ Fail("editor")
          /\ UNCHANGED user
    /\ UNCHANGED <<world, online, server, cache, queue, page>>

(* The downloaded bytes are cached under the version of the cached record. *)
Label ==
    /\ At("editor", "label")
    /\ \E v \in VersionRead(cache.meta) :
          Goto("editor", [job["editor"] EXCEPT !.at = "store", !.base = v])
    /\ UNCHANGED <<world, online, server, cache, queue, page, user>>

Store ==
    /\ At("editor", "store")
    /\ WriteCache([cache EXCEPT !.blob =
          [buf |-> job["editor"].work, version |-> job["editor"].base,
           seen |-> job["editor"].seen]])
    /\ Opened(job["editor"], job["editor"].seen)
    /\ UNCHANGED <<world, online, server, queue, page>>

-----------------------------------------------------------------------------
(* Saving: handleSave, updateVault and uploadBlob.                         *)
StartSave ==
    /\ Turn("editor")
    /\ user.seen # None
    /\ user.saves < scenario.saves
    /\ Goto("editor", [Idle EXCEPT !.op = "save", !.at = "put",
                                   !.work = user.saves + 1,
                                   !.seen = user.seen])
    /\ user' = [user EXCEPT !.saves = @ + 1, !.whole = FALSE]
    /\ UNCHANGED <<world, online, server, cache, queue, page>>

(* updateVault of a save, which is postponed when the app is offline.      *)
Put ==
    /\ At("editor", "put")
    /\ \/ /\ online
          /\ Call("editor", [server EXCEPT !.envelope = job["editor"].work],
                  [job["editor"] EXCEPT !.at = "base"])
       \/ /\ ~online
          /\ Goto("editor", [job["editor"] EXCEPT !.at = "queuePut"])
          /\ UNCHANGED server
    /\ UNCHANGED <<world, online, cache, queue, page, user>>

(* The version that the cached copy came from.                             *)
ReadBase ==
    /\ At("editor", "base")
    /\ \E v \in VersionRead(cache.blob) :
          Goto("editor", [job["editor"] EXCEPT !.at = "keep", !.base = v])
    /\ UNCHANGED <<world, online, server, cache, queue, page, user>>

KeepNothing ==
    /\ At("editor", "keep")
    /\ Goto("editor", [job["editor"] EXCEPT
                           !.at = IF online THEN "upload" ELSE "queueUpload"])
    /\ UNCHANGED <<world, online, server, cache, queue, page, user>>

(* The work is kept locally before anything else is done with it.          *)
Keep ==
    /\ At("editor", "keep")
    /\ WriteCache([cache EXCEPT !.blob =
          [buf |-> job["editor"].work, version |-> job["editor"].base,
           seen |-> job["editor"].seen]])
    /\ Goto("editor", [job["editor"] EXCEPT
                           !.at = IF online THEN "upload" ELSE "queueUpload"])
    /\ UNCHANGED <<world, online, server, queue, page, user>>

(* enqueue, of either call.                                                *)
Enqueue ==
    /\ \/ At("editor", "queuePut")
       \/ At("editor", "queueUpload")
    /\ LET j  == job["editor"]
           op == IF j.at = "queuePut" THEN "updateVault" ELSE "uploadBlob"
       IN  \/ /\ queue' = queue \cup
                    {[seq |-> Key(j.work, op), op |-> op, work |-> j.work,
                      base |-> j.base, attempts |-> 0, seen |-> j.seen,
                      since |-> Latest]}
              /\ Goto("editor", [j EXCEPT !.at = IF j.at = "queuePut"
                                    THEN "countPut" ELSE "countUpload"])
           \/ "idb" \in Faults /\ Fail("editor") /\ UNCHANGED queue
    /\ UNCHANGED <<world, online, server, cache, page, user>>

(* What the adapter took, the user may count on.                           *)
Taken(j) == user' = [user EXCEPT !.kept = j.work, !.whole = TRUE,
                                 !.seen = j.seen]

(* refreshPendingCount.  After the second one handleSave fails on the      *)
(* preview it uploads; everything it was asked to keep is in the queue.    *)
Count ==
    /\ \/ At("editor", "countPut")
       \/ At("editor", "countUpload")
    /\ LET j == job["editor"] IN
       \/ /\ page' = [page EXCEPT !.pending = Cardinality(queue)]
          /\ IF j.at = "countPut"
             THEN Goto("editor", [j EXCEPT !.at = "base"]) /\ UNCHANGED user
             ELSE Taken(j) /\ Goto("editor", [j EXCEPT !.at = "confirm"])
       \/ "idb" \in Faults /\ Fail("editor") /\ UNCHANGED <<page, user>>
    /\ UNCHANGED <<world, online, server, cache, queue>>

-----------------------------------------------------------------------------
(* executeQueueEntry, whose calls do not ask whether the app is online, and *)
(* the part of uploadBlob that it repeats.                                 *)
SendPut(t) ==
    /\ At(t, "put")
    /\ t # "editor"
    /\ Call(t, [server EXCEPT !.envelope = First(job[t].left).work],
            [job[t] EXCEPT !.at = "dequeue"])
    /\ UNCHANGED <<world, online, cache, queue, page, user>>

(* The bytes that an upload entry sends are those the cache holds now.     *)
ReadCached(t) ==
    /\ At(t, "read")
    /\ \/ /\ cache.blob # None
          /\ Goto(t, [job[t] EXCEPT !.at = "upload", !.work = cache.blob.buf])
       \/ (cache.blob = None \/ "idb" \in Faults) /\ Fail(t)
    /\ UNCHANGED <<world, online, server, cache, queue, page, user>>

(* At the bound the server answers every upload with an error.             *)
Upload(t) ==
    /\ At(t, "upload")
    /\ \/ /\ Latest < MaxVersions
          /\ Call(t, [server EXCEPT !.versions =
                        Append(@, [work |-> job[t].work, by |-> "here"])],
                  [job[t] EXCEPT !.at = "refresh", !.seen = Latest + 1])
       \/ Latest = MaxVersions /\ Fail(t) /\ UNCHANGED server
    /\ UNCHANGED <<world, online, cache, queue, page, user>>

(* getVault after an upload, and again at the end of handleSave.  Offline  *)
(* that end is not reached: the preview's upload has failed before it.     *)
Refresh(t) ==
    /\ At(t, "refresh") \/ At(t, "confirm")
    /\ \/ /\ online
          /\ Goto(t, [job[t] EXCEPT !.detail = Answer,
                        !.at = IF @ = "refresh" THEN "note"
                                                ELSE "noteConfirm"])
       \/ CallFails /\ Fail(t)
    /\ UNCHANGED <<world, online, server, cache, queue, page, user>>

(* setVaultMeta with the server's answer.                                  *)
Note(t) ==
    /\ At(t, "note") \/ At(t, "noteConfirm") \/ At(t, "noteOpen")
    /\ WriteCache([cache EXCEPT !.meta = job[t].detail])
    /\ Goto(t, IF At(t, "noteConfirm") THEN Idle
               ELSE [job[t] EXCEPT !.at = IF @ = "note" THEN "tag"
                                                        ELSE "fetch"])
    /\ UNCHANGED <<world, online, server, queue, page, user>>

(* The bytes are cached again, under the version the server names now.     *)
(* Someone who chose the local edits knows what they replace.              *)
Tag(t) ==
    /\ At(t, "tag")
    /\ WriteCache([cache EXCEPT !.blob =
          [buf |-> job[t].work, version |-> job[t].detail.version,
           seen |-> job[t].seen]])
    /\ IF t = "editor"
       THEN Taken(job[t]) /\ Goto(t, [job[t] EXCEPT !.at = "confirm"])
       ELSE /\ Goto(t, [job[t] EXCEPT !.at = "dequeue"])
            /\ user' = IF t = "choice" /\ user.seen # None
                       THEN [user EXCEPT !.seen = job[t].seen] ELSE user
    /\ UNCHANGED <<world, online, server, queue, page>>

Remove(t) == queue' = {e \in queue : e.seq # First(job[t].left).seq}

Dequeue(t) ==
    /\ At(t, "dequeue")
    /\ \/ Remove(t) /\ Goto(t, Skip(job[t]))
       \/ "idb" \in Faults /\ Fail(t) /\ UNCHANGED queue
    /\ UNCHANGED <<world, online, server, cache, page, user>>

-----------------------------------------------------------------------------
(* The banner's Retry.                                                     *)
Retry ==
    /\ "overlap" \in Faults \/ Quiet
    /\ online
    /\ page.state = "error"
    /\ job' \in Drained(job, page.draining)
    /\ UNCHANGED <<world, online, server, cache, queue, page, user>>

(* resolveConflict, from the banner's buttons.                             *)
StartChoice(op) ==
    /\ Turn("choice")
    /\ online
    /\ page.state = "conflict"
    /\ Goto("choice", [Idle EXCEPT !.op = op, !.at = "snapshot"])
    /\ user' = IF op = "server" THEN [user EXCEPT !.kept = None] ELSE user
    /\ UNCHANGED <<world, online, server, cache, queue, page>>

Snapshot(t) ==
    /\ At(t, "snapshot")
    /\ \/ /\ job[t].op = "drain" /\ queue = {}
          /\ Goto(t, Idle)
          /\ UNCHANGED page
       \/ /\ job[t].op # "drain" \/ queue # {}
          /\ Goto(t, Continue([job[t] EXCEPT !.left = queue]))
          /\ page' = IF job[t].op = "drain"
                     THEN [page EXCEPT !.draining = TRUE, !.state = "syncing"]
                     ELSE page
       \/ "idb" \in Faults /\ Goto(t, Idle) /\ UNCHANGED page
    /\ UNCHANGED <<world, online, server, cache, queue, user>>

(* A drain uploads only over the version the entry was made from; the      *)
(* server always names a version here.                                     *)
Conflicts(base, version) == base # None /\ base # version

Check(t) ==
    /\ At(t, "check")
    /\ \/ /\ online
          /\ Goto(t, IF Conflicts(First(job[t].left).base, Latest)
                     THEN [Skip(job[t]) EXCEPT !.conflict = TRUE]
                     ELSE [job[t] EXCEPT !.at = "read"])
       \/ CallFails /\ Fail(t)
    /\ UNCHANGED <<world, online, server, cache, queue, page, user>>

(* The catch clause of the loop: the attempt is counted, and the third one *)
(* drops the entry.  A failing getSyncQueue leaves the loop, and draining  *)
(* set for good.                                                           *)
Attempt(t) ==
    /\ At(t, "failed")
    /\ \/ queue' = {IF e.seq = First(job[t].left).seq /\ e.attempts < 3
                    THEN [e EXCEPT !.attempts = @ + 1] ELSE e : e \in queue}
       \/ "idb" \in Faults /\ UNCHANGED queue
    /\ Goto(t, [job[t] EXCEPT !.at = "reconsider", !.error = TRUE])
    /\ UNCHANGED <<world, online, server, cache, page, user>>

SpentEarly(t) ==
    \E e \in queue : e.seq = First(job[t].left).seq /\ e.attempts >= 2

Spent(t) == \E e \in queue : e.seq = First(job[t].left).seq /\ e.attempts >= 3

Reconsider(t) ==
    /\ At(t, "reconsider")
    /\ \/ /\ Spent(t)
          /\ Remove(t) \/ ("idb" \in Faults /\ UNCHANGED queue)
          /\ user' = [user EXCEPT !.dropped = TRUE]
          /\ Goto(t, Skip(job[t]))
       \/ /\ ~Spent(t)
          /\ Goto(t, Skip(job[t]))
          /\ UNCHANGED <<queue, user>>
       \/ "idb" \in Faults /\ Goto(t, Idle) /\ UNCHANGED <<queue, user>>
    /\ UNCHANGED <<world, online, server, cache, page>>

Finish(t) ==
    /\ At(t, "finish")
    /\ page' = [page EXCEPT !.draining = FALSE]
    /\ Goto(t, [job[t] EXCEPT !.at = "report"])
    /\ UNCHANGED <<world, online, server, cache, queue, user>>

ReportCleared(t) ==
    /\ At(t, "report")
    /\ page' = [page EXCEPT !.state = IF job[t].conflict THEN "conflict"
                                      ELSE "idle", !.pending = 0]
    /\ Goto(t, Idle)
    /\ UNCHANGED <<world, online, server, cache, queue, user>>

(* The status at the end; what remains is counted first.                   *)
Report(t) ==
    /\ At(t, "report")
    /\ LET remaining == Cardinality(queue)
           state     == IF job[t].conflict THEN "conflict"
                        ELSE IF job[t].error /\ remaining > 0 THEN "error"
                        ELSE "idle"
       IN  \/ page' = [page EXCEPT !.state = state, !.pending =
                         IF job[t].op = "drain" /\ state = "idle"
                         THEN 0 ELSE remaining]
           \/ "idb" \in Faults /\ UNCHANGED page
    /\ Goto(t, Idle)
    /\ UNCHANGED <<world, online, server, cache, queue, user>>

-----------------------------------------------------------------------------
(* The connection, the page and the other session.                         *)
GoOffline ==
    /\ online
    /\ "net" \in Faults \/ Quiet
    /\ online' = FALSE
    /\ UNCHANGED <<world, server, cache, queue, page, job, user>>

GoOnline ==
    /\ ~online
    /\ "overlap" \in Faults \/ Quiet
    /\ online' = TRUE
    /\ job' \in Drained(job, page.draining)
    /\ UNCHANGED <<world, server, cache, queue, page, user>>

(* A reload ends every operation; IndexedDB and the server stay.  The      *)
(* adapter's constructor counts what is queued.                            *)
Reload ==
    /\ "reload" \in Faults
    /\ "overlap" \in Faults \/ elsewhere.halfway = None
    /\ LET jobs == [t \in Tasks |-> Idle] IN
       job' \in IF online THEN Drained(jobs, FALSE) ELSE {jobs}
    /\ page' = [draining |-> FALSE, state |-> "idle",
                pending |-> Cardinality(queue)]
    /\ user' = [user EXCEPT !.seen = None, !.unlocked = FALSE]
    /\ UNCHANGED <<world, online, server, cache, queue>>

(* The other session's save, an update and an upload like this one's.      *)
ElsewherePut ==
    /\ elsewhere.halfway = None
    /\ elsewhere.saves < scenario.elsewhere
    /\ Latest < MaxVersions
    /\ "overlap" \in Faults \/ Quiet
    /\ LET work == MaxSaves + elsewhere.saves + 1 IN
       /\ server' = [server EXCEPT !.envelope = work]
       /\ elsewhere' = [saves |-> elsewhere.saves + 1, halfway |-> work]
    /\ UNCHANGED <<scenario, online, cache, queue, page, job, user>>

ElsewhereUpload ==
    /\ elsewhere.halfway # None
    /\ Latest < MaxVersions
    /\ server' = [server EXCEPT !.versions =
                    Append(@, [work |-> elsewhere.halfway,
                               by |-> "elsewhere"])]
    /\ elsewhere' = [elsewhere EXCEPT !.halfway = None]
    /\ UNCHANGED <<scenario, online, cache, queue, page, job, user>>

Drain(t) == \/ Check(t) \/ Attempt(t) \/ Reconsider(t)
            \/ Finish(t)

Replay(t) == \/ Snapshot(t) \/ SendPut(t) \/ ReadCached(t) \/ Dequeue(t)
             \/ Report(t)

Deliver(t) == Upload(t) \/ Refresh(t) \/ Note(t) \/ Tag(t)

Editor == \/ StartLoad \/ Open \/ Fetch \/ Label \/ Store
          \/ StartSave \/ Put \/ ReadBase \/ Keep \/ Enqueue \/ Count

Environment == \/ GoOffline \/ GoOnline \/ Reload
               \/ ElsewherePut \/ ElsewhereUpload

Next ==
    \/ Editor
    \/ \E t \in Drains : Drain(t)
    \/ \E t \in Drains \cup {"choice"} : Replay(t)
    \/ \E t \in Tasks : Deliver(t)
    \/ \E op \in {"local", "server"} : StartChoice(op)
    \/ Retry
    \/ Environment

Spec == Init /\ [][Next]_vars

-----------------------------------------------------------------------------
Job == [op : Ops, at : Pcs, work : Works, base : Versions \cup {None},
        seen : Versions, detail : Detail, left : SUBSET Entry,
        conflict : BOOLEAN, error : BOOLEAN]

(* Every part of the state keeps its shape; in particular whatever is left *)
(* of a snapshot was taken from the queue, and an operation that is about  *)
(* to handle an entry has one.                                             *)
TypeOK ==
    /\ scenario \in Scenarios
    /\ online \in BOOLEAN
    /\ server \in [envelope : Works, versions : Seq(Version)]
    /\ Latest \in Versions
    /\ cache \in [meta : Detail \cup {None}, blob : Blob \cup {None}]
    /\ queue \subseteq Entry
    /\ page \in [draining : BOOLEAN,
                 state : {"idle", "syncing", "conflict", "error"},
                 pending : Nat]
    /\ job \in [Tasks -> Job]
    /\ elsewhere \in [saves : 0 .. MaxElsewhere, halfway : Works \cup {None}]
    /\ user \in User
    /\ \A t \in Tasks \ {"editor"} :
          job[t].at \in {"put", "check", "read", "upload", "refresh", "note",
                         "tag", "dequeue", "failed", "reconsider"}
             => job[t].left # {}

(* One operation at a time, and an IndexedDB that works.                   *)
Orderly == Faults \cap {"overlap", "idb", "reopen"} = {}

Uploaded(work) == \E i \in 1 .. Latest :
                     server.versions[i].by = "here"
                     /\ server.versions[i].work >= work

Waiting(work) == /\ cache.blob # None
                 /\ cache.blob.buf \in work .. MaxSaves
                 /\ \E e \in queue : e.op = "uploadBlob"

(* What the adapter took is on the server or waits to be sent, itself or a *)
(* later save of the same editor, until the user gives it up or a third    *)
(* attempt fails: uploadBlob keeps the work before it does anything else.  *)
WorkIsKept ==
    Orderly /\ user.kept # None /\ ~user.dropped
       => Uploaded(user.kept) \/ Waiting(user.kept)

(* A drain never uploads over a version of another session that the work   *)
(* was not made from: base_version_id is what Check compares.              *)
UploadsOverOwn ==
    \A t \in Drains :
        Orderly /\ At(t, "upload") /\ Len(server'.versions) > Latest
            => \A i \in First(job[t].left).seen + 1 .. Latest :
                  server.versions[i].by = "here"

LeavesForAReason(e) ==
    \/ e.attempts >= 3
    \/ At("choice", "dequeue") /\ job["choice"].op = "server"
    \/ \E i \in e.since + 1 .. Latest : server.versions[i].by = "here"

(* However operations overlap and fail, an upload leaves the queue only    *)
(* after one from here succeeded since it was queued, after three attempts *)
(* or because the user chose the server's version (drainSyncQueue,         *)
(* resolveConflict).                                                       *)
UploadsLeaveForAReason ==
    \A e \in queue :
        e.op = "uploadBlob" /\ (\A f \in queue' : f.seq # e.seq)
            => LeavesForAReason(e)

(* drainSyncQueue and resolveConflict, on both counts.                     *)
DrainIsCareful == [][UploadsOverOwn /\ UploadsLeaveForAReason]_vars

Settled == /\ Quiet /\ queue = {} /\ user.whole /\ ~user.dropped
           /\ elsewhere.saves = 0

(* Once a save went through and nothing is left to send, the envelope on   *)
(* the server is that of the current bytes, although the two are sent one  *)
(* after the other and several saves' calls are sent one by one.  Calls    *)
(* that fail, at the bound too, or another session may leave them apart.   *)
SettledVaultOpens ==
    Orderly /\ Faults \cap {"net", "lost_reply"} = {} /\ Settled
      /\ Latest < MaxVersions
       => server.envelope = server.versions[Latest].work

(* Between operations the banner counts what waits to be sent.             *)
StatusIsHonest == Orderly /\ Quiet => page.pending = Cardinality(queue)
=============================================================================
