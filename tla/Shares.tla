------------------------------- MODULE Shares -------------------------------
(***************************************************************************)
(* The life of one share link: its row in mind_map_shares, the rows of its *)
(* attachments, the ciphertext it keeps in the object store, the owner's   *)
(* requests (backend/src/routes/mindmaps_sql.rs), the recipients' reads    *)
(* (routes/share_public.rs) and the sweep that clears shares that are over *)
(* (purge_expired_shares in main.rs, run by a daily timer and on demand by *)
(* an administrator).                                                      *)
(*                                                                         *)
(* Every call to the database or the object store is a step of its own.    *)
(* The owner's requests start with find_owned, which changes nothing and   *)
(* succeeds while the share's row exists; it is part of the first step.    *)
(***************************************************************************)
EXTENDS Naturals, FiniteSets

CONSTANTS
    Requests,     \* slots for requests of the owner and of recipients
    Sweeper,      \* the slot of the daily timer
    Attachments,  \* attachment ids, and the keys of their objects
    Blob,         \* the share's s3_key
    Scenarios     \* the kinds of run there are

(* Every behaviour is one of several scenarios, which say which slots are  *)
(* used, which attachments the owner may add and which failures strike; a  *)
(* property that needs quieter circumstances than others names them.       *)
(* "store": a call to the object store fails; "db": a statement fails and  *)
(* has no effect; "lost_reply": a statement takes effect and its reply is  *)
(* lost; "crash": a handler's future is dropped at an await.               *)
FaultKinds == {"store", "db", "lost_reply", "crash"}

ASSUME SharesAssumption ==
    /\ Blob \notin Attachments
    /\ Scenarios \subseteq [slots       : SUBSET (Requests \cup {Sweeper}),
                            attachments : SUBSET Attachments,
                            faults      : SUBSET FaultKinds]

Slots == Requests \cup {Sweeper}

Keys == Attachments \cup {Blob}

VARIABLES
    scenario, \* what may happen in this behaviour; never changes
    share,    \* the row: see Share
    att,      \* status of each attachment's row, "none" while there is none
    expired,  \* whether the clock has passed expires_at
    objects,  \* the keys under which the store holds an object
    req,      \* what each request and the sweep are doing
    over      \* ghost: the share was revoked, purged or ran out; read by
              \* properties only

vars == <<scenario, share, att, expired, objects, req, over>>

Faults == scenario.faults

Share == [row                 : {"none", "present", "gone"},
          status              : {"pending", "available", "revoked"},
          revoked             : BOOLEAN,
          expires_at          : BOOLEAN,   \* whether it has an expiry
          include_attachments : BOOLEAN,
          purged              : BOOLEAN]   \* size_bytes was zeroed

NoShare == [row |-> "none", status |-> "pending", revoked |-> FALSE,
            expires_at |-> FALSE, include_attachments |-> FALSE,
            purged |-> FALSE]

-----------------------------------------------------------------------------
Pcs == {"idle", "put", "init", "head", "complete", "rollback",
        "revoke", "list", "delete", "mark",
        "sweep_list", "sweep_delete", "sweep_mark",
        "find_attachment", "serve"}

(* key is the object the request is about, keys those it has yet to delete *)
(* and late whether the share was over when a recipient's read began.      *)
Idle == [pc |-> "idle", key |-> Blob, keys |-> {}, failed |-> FALSE,
         late |-> FALSE]

Doing(r, pc) == req[r].pc = pc

Goto(r, pc) == req' = [req EXCEPT ![r].pc = pc]

Finish(r) == req' = [req EXCEPT ![r] = Idle]

Start(r, pc, k) ==
    /\ Doing(r, "idle")
    /\ share.row = "present"
    /\ req' = [req EXCEPT ![r] = [Idle EXCEPT !.pc = pc, !.key = k,
                                              !.late = over]]

(* The share's own key and those of its attachments' rows: what find_share *)
(* and find_share_attachment can return.                                   *)
KeysOnRecord == {Blob} \cup {a \in Attachments : att[a] # "none"}

(* Statements on a row that a cascade has removed change nothing and       *)
(* succeed.                                                                *)
UpdateShare(s) == share' = IF share.row = "present" THEN s ELSE share

-----------------------------------------------------------------------------
(* create_share *)

CreateShare(r) ==
    /\ Doing(r, "idle")
    /\ share.row = "none"
    /\ \E e, i \in BOOLEAN :
         share' = [NoShare EXCEPT !.row = "present", !.expires_at = e,
                                  !.include_attachments = i]
    /\ UNCHANGED <<att, expired, objects, req, over>>

(* init_share_attachment: the checks, and then the INSERT of a row with a  *)
(* fresh id, which a cascade in between makes fail.                        *)
InitShareAttachment(r) ==
    /\ share.include_attachments /\ ~share.revoked
    /\ \E a \in scenario.attachments :
         /\ att[a] = "none"
         /\ \A q \in Slots : ~(Doing(q, "init") /\ req[q].key = a)
         /\ Start(r, "init", a)
    /\ UNCHANGED <<share, att, expired, objects, over>>

CreateShareAttachment(r) ==
    /\ Doing(r, "init")
    /\ \/ /\ share.row = "present"
          /\ att' = [att EXCEPT ![req[r].key] = "pending"]
       \/ /\ share.row = "gone" \/ "db" \in Faults
          /\ att' = att
    /\ Finish(r)
    /\ UNCHANGED <<share, expired, objects, over>>

(* upload_share_blob and upload_share_attachment_blob: only a revoked      *)
(* share is refused, an expired one is not.                                *)
UploadShareBlob(r) ==
    /\ ~share.revoked
    /\ \E k \in KeysOnRecord : Start(r, "put", k)
    /\ UNCHANGED <<share, att, expired, objects, over>>

PutShareObject(r) ==
    /\ Doing(r, "put")
    /\ \/ objects' = objects \cup {req[r].key}
       \/ "store" \in Faults /\ objects' = objects
    /\ Finish(r)
    /\ UNCHANGED <<share, att, expired, over>>

(* complete_share_upload and complete_share_attachment_upload: neither     *)
(* asks whether the share is still alive.                                  *)
CompleteShareUpload(r) ==
    /\ \E k \in KeysOnRecord : Start(r, "head", k)
    /\ UNCHANGED <<share, att, expired, objects, over>>

(* Mutant: takes the client's word for the upload. *)
HeadShareObjectUnchecked(r) ==
    /\ Doing(r, "head")
    /\ Goto(r, "complete")
    /\ UNCHANGED <<share, att, expired, objects, over>>

HeadShareObject(r) ==
    /\ Doing(r, "head")
    /\ \/ req[r].key \in objects /\ Goto(r, "complete")
       \/ (req[r].key \notin objects \/ "store" \in Faults) /\ Finish(r)
    /\ UNCHANGED <<share, att, expired, objects, over>>

(* complete_mind_map_share_upload, or the same for an attachment *)
SetAvailable(k) ==
    IF k = Blob
    THEN UpdateShare([share EXCEPT !.status = "available"]) /\ att' = att
    ELSE /\ share' = share
         /\ att' = IF share.row = "present"
                   THEN [att EXCEPT ![k] = "available"] ELSE att

MarkAvailable(r) ==
    /\ Doing(r, "complete")
    /\ SetAvailable(req[r].key)
    /\ Finish(r)
    /\ UNCHANGED <<expired, objects, over>>

MarkAvailableFails(r) ==
    /\ Doing(r, "complete")
    /\ \/ "db" \in Faults /\ UNCHANGED <<share, att>>
       \/ "lost_reply" \in Faults /\ SetAvailable(req[r].key)
    /\ Goto(r, "rollback")
    /\ UNCHANGED <<expired, objects, over>>

RollBackShareUpload(r) ==
    /\ Doing(r, "rollback")
    /\ \/ objects' = objects \ {req[r].key}
       \/ "store" \in Faults /\ objects' = objects
    /\ Finish(r)
    /\ UNCHANGED <<share, att, expired, over>>

-----------------------------------------------------------------------------
(* revoke_share *)

RevokeShare(r) ==
    /\ Start(r, "revoke", Blob)
    /\ UNCHANGED <<share, att, expired, objects, over>>

SetRevoked(r) ==
    /\ Doing(r, "revoke")
    /\ \/ /\ UpdateShare([share EXCEPT !.revoked = TRUE, !.status = "revoked"])
          /\ over' = TRUE
          /\ Goto(r, "list")
       \/ /\ "db" \in Faults
          /\ UNCHANGED <<share, over>>
          /\ Finish(r)
    /\ UNCHANGED <<att, expired, objects>>

(* delete_share_objects, and the first lines of the sweep's loop: the keys *)
(* of the attachments' rows, then the share's own.                         *)
ListObjects(r, from, to) ==
    /\ Doing(r, from)
    /\ \/ req' = [req EXCEPT
             ![r].pc = to, ![r].keys = KeysOnRecord]
       \/ "db" \in Faults /\ Finish(r)
    /\ UNCHANGED <<share, att, expired, objects, over>>

(* The next key to be deleted: the share's own is the last one. *)
NextKey(r, k) == k \in req[r].keys /\ (k = Blob => req[r].keys = {Blob})

DeleteObject(r, k) ==
    /\ Doing(r, "delete")
    /\ NextKey(r, k)
    /\ objects' = objects \ {k}
    /\ req' = [req EXCEPT ![r].keys = @ \ {k},
                          ![r].pc = IF k = Blob THEN "mark" ELSE @]
    /\ UNCHANGED <<share, att, expired, over>>

(* Any error but NotFound ends the request. *)
DeleteObjectFails(r) ==
    /\ Doing(r, "delete")
    /\ "store" \in Faults
    /\ Finish(r)
    /\ UNCHANGED <<share, att, expired, objects, over>>

(* mark_mind_map_share_purged *)
MarkPurged(r, from) ==
    /\ Doing(r, from)
    /\ \/ /\ UpdateShare([share EXCEPT !.status = "revoked", !.revoked = TRUE,
                                       !.purged = TRUE])
          /\ over' = TRUE
       \/ "db" \in Faults /\ UNCHANGED <<share, over>>
    /\ Finish(r)
    /\ UNCHANGED <<att, expired, objects>>

-----------------------------------------------------------------------------
(* purge_expired_shares *)

(* The WHERE clause of list_purgeable_mind_map_shares *)
Purgeable ==
    /\ share.row = "present"
    /\ share.status = "available"
    /\ share.revoked \/ expired

(* Mutant: sweeps revoked shares only. *)
PurgeRevokedShares(r) ==
    /\ Purgeable /\ share.revoked
    /\ Start(r, "sweep_list", Blob)
    /\ UNCHANGED <<share, att, expired, objects, over>>

PurgeExpiredShares(r) ==
    /\ Purgeable
    /\ Start(r, "sweep_list", Blob)
    /\ UNCHANGED <<share, att, expired, objects, over>>

(* Mutant: marks the share as purged although a deletion failed. *)
SweepObjectForgetsFailure(r, k, fails) ==
    /\ Doing(r, "sweep_delete")
    /\ NextKey(r, k)
    /\ objects' = IF fails THEN objects ELSE objects \ {k}
    /\ IF k # Blob THEN req' = [req EXCEPT ![r].keys = @ \ {k}]
                   ELSE Goto(r, "sweep_mark")
    /\ UNCHANGED <<share, att, expired, over>>

(* A failure is remembered, and the loop goes on with the next object. *)
SweepObject(r, k, fails) ==
    /\ Doing(r, "sweep_delete")
    /\ NextKey(r, k)
    /\ objects' = IF fails THEN objects ELSE objects \ {k}
    /\ LET failed == req[r].failed \/ fails
       IN  IF k # Blob
           THEN req' = [req EXCEPT ![r].keys = @ \ {k}, ![r].failed = failed]
           ELSE IF failed THEN Finish(r) ELSE Goto(r, "sweep_mark")
    /\ UNCHANGED <<share, att, expired, over>>

SweepObjectFails(r) ==
    /\ "store" \in Faults
    /\ \E k \in Keys : SweepObject(r, k, TRUE)

-----------------------------------------------------------------------------
(* A recipient's read: find_public_share, the attachment's row if it is    *)
(* about one, then the object.                                             *)

(* Mutant: trusts the status alone. *)
OpenByStatus ==
    share.row = "present" /\ share.status = "available" /\ ~expired

Open ==
    /\ share.row = "present"
    /\ share.status = "available" /\ ~share.revoked
    /\ ~expired

FindPublicShare(r) ==
    /\ Open
    /\ \/ Start(r, "serve", Blob)
       \/ /\ share.include_attachments
          /\ \E a \in Attachments : Start(r, "find_attachment", a)
    /\ UNCHANGED <<share, att, expired, objects, over>>

FindShareAttachment(r) ==
    /\ Doing(r, "find_attachment")
    /\ IF share.row = "present" /\ att[req[r].key] = "available"
       THEN Goto(r, "serve")
       ELSE Finish(r)
    /\ UNCHANGED <<share, att, expired, objects, over>>

DownloadShareObject(r) ==
    /\ Doing(r, "serve")
    /\ Finish(r)
    /\ UNCHANGED <<share, att, expired, objects, over>>

-----------------------------------------------------------------------------
(* The clock passes expires_at, which create_share requires to lie ahead.  *)
Expire ==
    /\ share.expires_at /\ ~expired
    /\ expired' = TRUE
    /\ over' = TRUE
    /\ UNCHANGED <<share, att, objects, req>>

(* delete_mind_map or delete_profile removes the vault's row, and the      *)
(* cascade those of its shares; their objects stay.                        *)
DeleteVault ==
    /\ share.row = "present"
    /\ share' = [share EXCEPT !.row = "gone"]
    /\ att' = [a \in Attachments |-> "none"]
    /\ over' = TRUE
    /\ UNCHANGED <<expired, objects, req>>

Cancel(r) ==
    /\ "crash" \in Faults
    /\ ~Doing(r, "idle")
    /\ Finish(r)
    /\ UNCHANGED <<share, att, expired, objects, over>>

-----------------------------------------------------------------------------
Init ==
    /\ scenario \in Scenarios
    /\ share = NoShare
    /\ att = [a \in Attachments |-> "none"]
    /\ expired = FALSE
    /\ objects = {}
    /\ req = [r \in Slots |-> Idle]
    /\ over = FALSE

Begin(r) ==
    \/ CreateShare(r) \/ InitShareAttachment(r)
    \/ UploadShareBlob(r) \/ CompleteShareUpload(r)
    \/ RevokeShare(r) \/ FindPublicShare(r)

Continue(r) ==
    \/ CreateShareAttachment(r) \/ PutShareObject(r)
    \/ HeadShareObject(r) \/ MarkAvailable(r) \/ MarkAvailableFails(r)
    \/ RollBackShareUpload(r)
    \/ SetRevoked(r)
    \/ ListObjects(r, "list", "delete")
    \/ \E k \in Keys : DeleteObject(r, k)
    \/ DeleteObjectFails(r)
    \/ MarkPurged(r, "mark")
    \/ ListObjects(r, "sweep_list", "sweep_delete")
    \/ \E k \in Keys : SweepObject(r, k, FALSE)
    \/ SweepObjectFails(r)
    \/ MarkPurged(r, "sweep_mark")
    \/ FindShareAttachment(r) \/ DownloadShareObject(r)

Next ==
    /\ \/ \E r \in scenario.slots \cap Requests : Begin(r)
       \/ \E r \in scenario.slots : PurgeExpiredShares(r) \/ Continue(r) \/ Cancel(r)
       \/ Expire
       \/ DeleteVault
    /\ UNCHANGED scenario

Spec == Init /\ [][Next]_vars

(* The timer keeps ticking and a handler runs on.  The store's outages     *)
(* end: a deletion that is tried again and again succeeds.                 *)
Fairness ==
    /\ WF_vars(PurgeExpiredShares(Sweeper) /\ UNCHANGED scenario)
    /\ \A r \in Slots : WF_vars(Continue(r) /\ UNCHANGED scenario)
    /\ \A k \in Keys : SF_vars(SweepObject(Sweeper, k, FALSE) /\ UNCHANGED scenario)
    /\ \A r \in Requests, k \in Keys :
         SF_vars(DeleteObject(r, k) /\ UNCHANGED scenario)

FairSpec == Spec /\ Fairness

-----------------------------------------------------------------------------
(* Properties *)

Request == [pc : Pcs, key : Keys, keys : SUBSET Keys, failed : BOOLEAN,
            late : BOOLEAN]

(* Every variable keeps its shape. *)
TypeOK ==
    /\ share \in Share
    /\ att \in [Attachments -> {"none", "pending", "available"}]
    /\ expired \in BOOLEAN
    /\ objects \subseteq Keys
    /\ req \in [Slots -> Request]
    /\ over \in BOOLEAN

(* A recipient whose read begins after the share was revoked, purged or    *)
(* ran out is never served, whatever the owner's requests were doing       *)
(* meanwhile: complete_share_upload may turn the status of a revoked share *)
(* back to available, and find_public_share must still refuse it.          *)
ServedOnlyWhileOpen ==
    \A r \in Slots : req[r].pc \in {"find_attachment", "serve"} => ~req[r].late

(* No statement fails.  (When the UPDATE of a completion sent twice fails, *)
(* its roll-back deletes the object the first one made available.)         *)
StatementsSucceed == Faults \cap {"db", "lost_reply"} = {}

(* A share that recipients are shown has its ciphertext, and so has every  *)
(* attachment it offers: nothing deletes an object of a share that is      *)
(* still open, and nothing makes a share available before its bytes are    *)
(* there.                                                                  *)
OpenShareHasBytes ==
    StatementsSucceed /\ Open =>
        /\ Blob \in objects
        /\ \A a \in Attachments : att[a] = "available" => a \in objects

(* One request or sweep at a time.  (An upload that passed its check before *)
(* a revocation stores its object after the revocation deleted it.)        *)
OneAtATime == \A r, s \in scenario.slots : r = s

(* A row marked as purged has no bytes left ("Only mark it done once the   *)
(* bytes are actually gone", purge_expired_shares; "Revoking has to remove *)
(* the ciphertext, not just hide the row", revoke_share).                  *)
PurgedLeavesNothing ==
    OneAtATime /\ share.row = "present" /\ share.purged => objects = {}

(* The owner's requests are done by the time the share is over. *)
Quiet ==
    over => \A r \in Requests :
              req[r].pc \in {"idle", "find_attachment", "serve"}

(* The sweep clears a share that ran out of time, through any number of    *)
(* failed deletions, provided the owner has stopped writing to it.         *)
ExpiredIsCleared ==
    []Quiet => \A k \in Keys :
        (Purgeable /\ k \in objects) ~> (k \notin objects \/ share.row = "gone")
=============================================================================
