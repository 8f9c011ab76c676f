---------------------------- MODULE SharesProofs ----------------------------
(***************************************************************************)
(* Theorems about Shares, for any number of requests and attachments.      *)
(*                                                                         *)
(* The argument rests on one stable fact: once a share is over, its row or *)
(* the clock says so for good.  complete_share_upload may still write the  *)
(* status, but nothing writes FALSE to revoked, moves the clock back or    *)
(* brings a deleted row back.                                              *)
(***************************************************************************)
EXTENDS Shares, TLAPS

Dead == share.revoked \/ expired \/ share.row = "gone"

(* Before the share exists nothing has happened to it. *)
Unborn ==
    share.row = "none" =>
        /\ share = NoShare /\ ~expired /\ ~over
        /\ \A r \in Slots : req[r].pc = "idle"

OverIsRecorded == over => Dead

SharesInv == TypeOK /\ Unborn /\ OverIsRecorded /\ ServedOnlyWhileOpen

(* The initial state satisfies the invariant. *)
LEMMA InitEstablishesSharesInv == Init => SharesInv
  <1> SUFFICES ASSUME Init PROVE SharesInv
    OBVIOUS
  <1>1. Idle \in Request /\ Idle.pc = "idle"
    BY DEF Idle, Request, Pcs, Keys
  <1>2. NoShare \in Share
    BY DEF NoShare, Share
  <1>3. TypeOK
    BY <1>1, <1>2 DEF Init, TypeOK
  <1>4. \A r \in Slots : req[r].pc = "idle"
    BY <1>1 DEF Init
  <1> QED
    BY <1>3, <1>4 DEF Init, SharesInv, Unborn, OverIsRecorded, ServedOnlyWhileOpen

(* Goto changes the program counter of one slot. *)
LEMMA GotoOK ==
  ASSUME TypeOK, NEW r \in Slots, NEW pc \in Pcs, Goto(r, pc)
  PROVE  /\ req' \in [Slots -> Request]
         /\ req'[r].pc = pc /\ req'[r].late = req[r].late
         /\ \A q \in Slots : q # r => req'[q] = req[q]
  BY DEF TypeOK, Goto, Request

(* Finish frees one slot. *)
LEMMA FinishOK ==
  ASSUME TypeOK, NEW r \in Slots, Finish(r)
  PROVE  /\ req' \in [Slots -> Request]
         /\ req'[r].pc = "idle"
         /\ \A q \in Slots : q # r => req'[q] = req[q]
  <1>1. Idle \in Request /\ Idle.pc = "idle"
    BY DEF Idle, Request, Pcs, Keys
  <1> QED
    BY <1>1 DEF TypeOK, Finish

(* Start takes a free slot and records whether the share is over. *)
LEMMA StartOK ==
  ASSUME TypeOK, NEW r \in Slots, NEW pc \in Pcs, NEW k \in Keys, Start(r, pc, k)
  PROVE  /\ req' \in [Slots -> Request]
         /\ req'[r].pc = pc /\ req'[r].late = over
         /\ \A q \in Slots : q # r => req'[q] = req[q]
  <1> DEFINE new == [Idle EXCEPT !.pc = pc, !.key = k, !.late = over]
  <1>1. new \in Request /\ new.pc = pc /\ new.late = over
    BY DEF Idle, Request, TypeOK
  <1>2. req' = [req EXCEPT ![r] = new]
    BY DEF Start
  <1> HIDE DEF new
  <1> QED
    BY <1>1, <1>2 DEF TypeOK

(* A request's first step keeps the invariant. *)
LEMMA BeginKeepsSharesInv ==
  ASSUME SharesInv, scenario \in Scenarios,
         NEW r \in Slots, Begin(r) \/ PurgeExpiredShares(r)
  PROVE  SharesInv'
  <1> USE DEF SharesInv
  <1>1. TypeOK /\ share \in Share /\ req \in [Slots -> Request]
    BY DEF TypeOK
  <1>2. CASE CreateShare(r)
    <2>1. PICK e, i \in BOOLEAN :
            share' = [NoShare EXCEPT !.row = "present", !.expires_at = e,
                                     !.include_attachments = i]
      BY <1>2 DEF CreateShare
    <2>2. share' \in Share /\ share'.row = "present" /\ ~over
      BY <1>2, <2>1 DEF CreateShare, NoShare, Share, Unborn
    <2> QED
      BY <1>1, <1>2, <2>2 DEF CreateShare, TypeOK, Unborn, OverIsRecorded, Dead,
                         ServedOnlyWhileOpen
  <1>3. ASSUME NEW pc \in Pcs, NEW k \in Keys, Start(r, pc, k),
               UNCHANGED <<share, att, expired, objects, over>>,
               pc \in {"find_attachment", "serve"} => ~Dead
        PROVE  SharesInv'
    <2>1. /\ req' \in [Slots -> Request]
          /\ req'[r].pc = pc /\ req'[r].late = over
          /\ \A q \in Slots : q # r => req'[q] = req[q]
      BY <1>1, <1>3, StartOK
    <2>2. TypeOK' /\ OverIsRecorded'
      BY <1>1, <1>3, <2>1 DEF TypeOK, OverIsRecorded, Dead
    <2>3. Unborn'
      BY <1>3 DEF Unborn, Start
    <2>4. ServedOnlyWhileOpen'
      BY <1>3, <2>1 DEF ServedOnlyWhileOpen, OverIsRecorded
    <2> QED
      BY <2>2, <2>3, <2>4
  <1>4. KeysOnRecord \subseteq Keys /\ Attachments \subseteq Keys /\ Blob \in Keys
    BY DEF KeysOnRecord, Keys
  <1>5. CASE InitShareAttachment(r)
    BY <1>3, <1>4, <1>5, SharesAssumption DEF InitShareAttachment, Pcs
  <1>6. CASE UploadShareBlob(r)
    BY <1>3, <1>4, <1>6 DEF UploadShareBlob, Pcs
  <1>7. CASE CompleteShareUpload(r)
    BY <1>3, <1>4, <1>7 DEF CompleteShareUpload, Pcs
  <1>8. CASE RevokeShare(r)
    BY <1>3, <1>4, <1>8 DEF RevokeShare, Pcs
  <1>9. CASE PurgeExpiredShares(r)
    BY <1>3, <1>4, <1>9 DEF PurgeExpiredShares, Pcs
  <1>10. CASE FindPublicShare(r)
    <2>1. ~Dead
      BY <1>1, <1>10 DEF FindPublicShare, Open, Dead, Share
    <2> QED
      BY <1>3, <1>4, <1>10, <2>1 DEF FindPublicShare, Pcs
  <1> QED
    BY <1>2, <1>5, <1>6, <1>7, <1>8, <1>9, <1>10 DEF Begin

(* What every later step of a request does: a type-correct change in which *)
(* Dead is stable, a share that becomes over is Dead, and no slot starts   *)
(* serving that was not.                                                   *)
StepOK(r) ==
    /\ TypeOK'
    /\ share.row # "none" => share'.row # "none"
    /\ Dead => Dead'
    /\ over' => over \/ Dead'
    /\ \A q \in Slots :
         req'[q].pc \in {"find_attachment", "serve"}
           => /\ req[q].pc \in {"find_attachment", "serve"}
              /\ req'[q].late = req[q].late

(* Statements on the row keep its type, and a dead share stays dead. *)
LEMMA UpdateShareOK ==
  ASSUME TypeOK, share.row # "none", NEW s \in Share, UpdateShare(s),
         s.row = share.row, share.revoked => s.revoked, UNCHANGED expired
  PROVE  /\ share' \in Share
         /\ share'.row # "none"
         /\ Dead => Dead'
         /\ s.revoked => Dead'
  BY DEF TypeOK, UpdateShare, Dead, Share

(* Every later step of a request is StepOK. *)
LEMMA ContinueIsStepOK ==
  ASSUME SharesInv, NEW r \in Slots, Continue(r)
  PROVE  StepOK(r)
  <1>1. TypeOK /\ share \in Share /\ req \in [Slots -> Request]
          /\ req[r] \in Request /\ req[r].key \in Keys
    BY DEF SharesInv, TypeOK, Request
  <1>2. share.row # "none"
    <2>1. req[r].pc # "idle"
      BY DEF Continue, CreateShareAttachment, PutShareObject, HeadShareObject,
             MarkAvailable, MarkAvailableFails, RollBackShareUpload, SetRevoked,
             ListObjects, DeleteObject, DeleteObjectFails, MarkPurged,
             SweepObject, SweepObjectFails, FindShareAttachment,
             DownloadShareObject, Doing
    <2> QED
      BY <2>1 DEF SharesInv, Unborn
  <1>3. ASSUME Finish(r) \/ \E pc \in Pcs \ {"find_attachment", "serve"} : Goto(r, pc)
        PROVE  /\ req' \in [Slots -> Request]
               /\ \A q \in Slots :
                    req'[q].pc \in {"find_attachment", "serve"}
                      => req'[q] = req[q]
    <2>1. CASE Finish(r)
      BY <1>1, <2>1, FinishOK
    <2>2. CASE \E pc \in Pcs \ {"find_attachment", "serve"} : Goto(r, pc)
      BY <1>1, <2>2, GotoOK
    <2> QED
      BY <1>3, <2>1, <2>2
  <1>4. CASE CreateShareAttachment(r)
    <2>1. att' \in [Attachments -> {"none", "pending", "available"}]
      BY <1>1, <1>4 DEF TypeOK, CreateShareAttachment
    <2> QED
      BY <1>1, <1>2, <1>3, <1>4, <2>1 DEF CreateShareAttachment, StepOK, TypeOK, Dead
  <1>5. CASE PutShareObject(r) \/ RollBackShareUpload(r)
    <2>1. objects' \subseteq Keys
      BY <1>1, <1>5 DEF TypeOK, PutShareObject, RollBackShareUpload
    <2> QED
      BY <1>1, <1>2, <1>3, <1>5, <2>1
      DEF PutShareObject, RollBackShareUpload, StepOK, TypeOK, Dead
  <1>6. CASE HeadShareObject(r)
    BY <1>1, <1>2, <1>3, <1>6 DEF HeadShareObject, StepOK, TypeOK, Dead, Pcs
  <1>7. ASSUME SetAvailable(req[r].key), UNCHANGED expired
        PROVE  /\ share' \in Share /\ share'.row # "none"
               /\ att' \in [Attachments -> {"none", "pending", "available"}]
               /\ Dead => Dead'
    <2>1. CASE req[r].key = Blob
      <3>1. [share EXCEPT !.status = "available"] \in Share
        BY <1>1 DEF Share
      <3> QED
        BY <1>1, <1>2, <1>7, <2>1, <3>1, UpdateShareOK
        DEF SetAvailable, TypeOK, Share
    <2>2. CASE req[r].key # Blob
      BY <1>1, <1>2, <1>7, <2>2 DEF SetAvailable, TypeOK, Keys, Dead
    <2> QED
      BY <2>1, <2>2
  <1>8. CASE MarkAvailable(r)
    BY <1>1, <1>2, <1>3, <1>7, <1>8 DEF MarkAvailable, StepOK, TypeOK
  <1>9. CASE MarkAvailableFails(r)
    <2>1. /\ share' \in Share /\ share'.row # "none"
          /\ att' \in [Attachments -> {"none", "pending", "available"}]
          /\ Dead => Dead'
      BY <1>1, <1>2, <1>7, <1>9 DEF MarkAvailableFails, TypeOK, Dead
    <2> QED
      BY <1>1, <1>2, <1>3, <1>9, <2>1 DEF MarkAvailableFails, StepOK, TypeOK, Pcs
  <1>10. CASE SetRevoked(r)
    <2>1. [share EXCEPT !.revoked = TRUE, !.status = "revoked"] \in Share
      BY <1>1 DEF Share
    <2>2. /\ share' \in Share /\ share'.row # "none"
          /\ Dead => Dead'
          /\ over' => over \/ Dead'
      BY <1>1, <1>2, <1>10, <2>1, UpdateShareOK
      DEF SetRevoked, TypeOK, Share, Dead
    <2> QED
      BY <1>1, <1>2, <1>3, <1>10, <2>2 DEF SetRevoked, StepOK, TypeOK, Pcs
  <1>11. ASSUME NEW from \in Pcs, NEW to \in Pcs \ {"find_attachment", "serve"},
                ListObjects(r, from, to)
         PROVE  StepOK(r)
    <2>1. KeysOnRecord \subseteq Keys
      BY DEF KeysOnRecord, Keys
    <2>2. /\ req' \in [Slots -> Request]
          /\ \A q \in Slots :
               req'[q].pc \in {"find_attachment", "serve"} => req'[q] = req[q]
      BY <1>1, <1>3, <1>11, <2>1 DEF ListObjects, Request
    <2> QED
      BY <1>1, <1>2, <1>11, <2>2 DEF ListObjects, StepOK, TypeOK, Dead
  <1>12. CASE \E k \in Keys : DeleteObject(r, k)
    <2>1. PICK k \in Keys : DeleteObject(r, k)
      BY <1>12
    <2>2. /\ req' \in [Slots -> Request]
          /\ \A q \in Slots :
               req'[q].pc \in {"find_attachment", "serve"} => req'[q] = req[q]
      BY <1>1, <2>1 DEF DeleteObject, Doing, Request, Pcs
    <2> QED
      BY <1>1, <1>2, <2>1, <2>2 DEF DeleteObject, StepOK, TypeOK, Dead
  <1>13. CASE DeleteObjectFails(r)
    BY <1>1, <1>2, <1>3, <1>13 DEF DeleteObjectFails, StepOK, TypeOK, Dead
  <1>14. ASSUME NEW from \in Pcs, MarkPurged(r, from)
         PROVE  StepOK(r)
    <2>1. [share EXCEPT !.status = "revoked", !.revoked = TRUE,
                        !.purged = TRUE] \in Share
      BY <1>1 DEF Share
    <2>2. /\ share' \in Share /\ share'.row # "none"
          /\ Dead => Dead'
          /\ over' => over \/ Dead'
      BY <1>1, <1>2, <1>14, <2>1, UpdateShareOK
      DEF MarkPurged, TypeOK, Share, Dead
    <2> QED
      BY <1>1, <1>2, <1>3, <1>14, <2>2 DEF MarkPurged, StepOK, TypeOK
  <1>15. ASSUME NEW k \in Keys, NEW fails \in BOOLEAN, SweepObject(r, k, fails)
         PROVE  StepOK(r)
    <2>1. /\ req' \in [Slots -> Request]
          /\ \A q \in Slots :
               req'[q].pc \in {"find_attachment", "serve"} => req'[q] = req[q]
      <3>1. CASE k # Blob
        BY <1>1, <1>15, <3>1 DEF SweepObject, Doing, Request, Pcs
      <3>2. CASE k = Blob
        BY <1>1, <1>3, <1>15, <3>2 DEF SweepObject, Pcs
      <3> QED
        BY <3>1, <3>2
    <2> QED
      BY <1>1, <1>2, <1>15, <2>1 DEF SweepObject, StepOK, TypeOK, Dead
  <1>16. CASE FindShareAttachment(r)
    <2>1. /\ req' \in [Slots -> Request]
          /\ \A q \in Slots :
               req'[q].pc \in {"find_attachment", "serve"}
                 => /\ req[q].pc \in {"find_attachment", "serve"}
                    /\ req'[q].late = req[q].late
      <3>1. CASE Finish(r)
        BY <1>1, <3>1, FinishOK
      <3>2. CASE Goto(r, "serve")
        BY <1>1, <1>16, <3>2, GotoOK DEF FindShareAttachment, Doing, Pcs
      <3> QED
        BY <1>16, <3>1, <3>2 DEF FindShareAttachment
    <2> QED
      BY <1>1, <1>2, <1>16, <2>1 DEF FindShareAttachment, StepOK, TypeOK, Dead
  <1>17. CASE DownloadShareObject(r)
    BY <1>1, <1>2, <1>3, <1>17 DEF DownloadShareObject, StepOK, TypeOK, Dead
  <1> QED
    BY <1>4, <1>5, <1>6, <1>8, <1>9, <1>10, <1>11, <1>12, <1>13, <1>14, <1>15,
       <1>16, <1>17 DEF Continue, SweepObjectFails, Pcs

(* The slots and attachments of a scenario are the module's. *)
LEMMA SlotsUsed ==
    ASSUME scenario \in Scenarios
    PROVE  scenario.slots \subseteq Slots /\ scenario.attachments \subseteq Attachments
  BY SharesAssumption DEF Slots

(* Every step keeps the invariant. *)
LEMMA NextKeepsSharesInv ==
    SharesInv /\ scenario \in Scenarios /\ [Next]_vars => SharesInv'
  <1> SUFFICES ASSUME SharesInv, scenario \in Scenarios, [Next]_vars
               PROVE  SharesInv'
    OBVIOUS
  <1> USE DEF SharesInv
  <1>1. TypeOK /\ share \in Share /\ req \in [Slots -> Request]
    BY DEF TypeOK
  <1>2. ASSUME NEW r \in Slots, Begin(r) \/ PurgeExpiredShares(r)
        PROVE  SharesInv'
    BY <1>2, BeginKeepsSharesInv
  <1>3. ASSUME NEW r \in Slots, Continue(r)
        PROVE  SharesInv'
    <2>1. StepOK(r)
      BY <1>3, ContinueIsStepOK
    <2>2. share.row # "none"
      <3>1. req[r].pc # "idle"
        BY <1>3
        DEF Continue, CreateShareAttachment, PutShareObject, HeadShareObject,
            MarkAvailable, MarkAvailableFails, RollBackShareUpload, SetRevoked,
            ListObjects, DeleteObject, DeleteObjectFails, MarkPurged,
            SweepObject, SweepObjectFails, FindShareAttachment,
            DownloadShareObject, Doing
      <3> QED
        BY <3>1 DEF Unborn
    <2> QED
      BY <2>1, <2>2 DEF StepOK, Unborn, OverIsRecorded, ServedOnlyWhileOpen
  <1>4. ASSUME NEW r \in Slots, Cancel(r)
        PROVE  SharesInv'
    <2>1. /\ req' \in [Slots -> Request]
          /\ req'[r].pc = "idle"
          /\ \A q \in Slots : q # r => req'[q] = req[q]
      BY <1>1, <1>4, FinishOK DEF Cancel
    <2> QED
      BY <1>1, <1>4, <2>1 DEF Cancel, TypeOK, Unborn, OverIsRecorded, Dead,
                         ServedOnlyWhileOpen
  <1>5. CASE Expire
    BY <1>1, <1>5 DEF Expire, TypeOK, Unborn, OverIsRecorded, Dead,
                 ServedOnlyWhileOpen, NoShare
  <1>6. CASE DeleteVault
    <2>1. share' \in Share /\ share'.row = "gone"
      BY <1>1, <1>6 DEF DeleteVault, Share
    <2> QED
      BY <1>1, <1>6, <2>1 DEF DeleteVault, TypeOK, Unborn, OverIsRecorded, Dead,
                         ServedOnlyWhileOpen
  <1>7. CASE UNCHANGED vars
    BY <1>7 DEF vars, TypeOK, Unborn, OverIsRecorded, Dead, ServedOnlyWhileOpen
  <1> QED
    BY <1>2, <1>3, <1>4, <1>5, <1>6, <1>7, SlotsUsed DEF Next, Slots

(* A behaviour stays in its scenario. *)
THEOREM ScenarioFixed == Spec => [](scenario \in Scenarios)
  <1>1. Init => scenario \in Scenarios
    BY DEF Init
  <1>2. scenario \in Scenarios /\ [Next]_vars => (scenario \in Scenarios)'
    BY DEF Next, vars
  <1> QED
    BY <1>1, <1>2, PTL DEF Spec

(* The invariant holds in every state of every behaviour. *)
THEOREM SharesInvariant == Spec => []SharesInv
  BY InitEstablishesSharesInv, NextKeepsSharesInv, ScenarioFixed, PTL DEF Spec

(* Every variable keeps its shape, for any number of requests. *)
THEOREM SharesTypeCorrect == Spec => []TypeOK
  <1>1. SharesInv => TypeOK
    BY DEF SharesInv
  <1> QED
    BY <1>1, SharesInvariant, PTL

(* Nobody who opens a share link after the share was revoked, purged or    *)
(* ran out is served, however the owner's requests, the sweep and their    *)
(* failures interleave.                                                    *)
THEOREM RecipientsServedOnlyWhileOpen == Spec => []ServedOnlyWhileOpen
  <1>1. SharesInv => ServedOnlyWhileOpen
    BY DEF SharesInv
  <1> QED
    BY <1>1, SharesInvariant, PTL

-----------------------------------------------------------------------------
(***************************************************************************)
(* An open share has its bytes.  Requests delete objects in three places:  *)
(* a revocation and the sweep only when the share is Dead, which is never  *)
(* undone, and the roll-back of a completion only when its statement       *)
(* failed.  So as long as statements do not fail, what a completion saw in *)
(* the store is there when it writes the row, or the share is Dead.        *)
(***************************************************************************)
Deleting == {"list", "delete", "mark", "sweep_list", "sweep_delete", "sweep_mark"}

BytesInv ==
    /\ \A r \in Slots : /\ req[r].pc \in Deleting => Dead
                        /\ req[r].pc = "complete" => req[r].key \in objects \/ Dead
                        /\ req[r].pc # "rollback"
    /\ share.status = "available" => Blob \in objects \/ Dead
    /\ \A a \in Attachments : att[a] = "available" => a \in objects \/ Dead

(* No step takes a share back from being over. *)
LEMMA DeadIsStable ==
    SharesInv /\ scenario \in Scenarios /\ [Next]_vars => (Dead => Dead')
  <1> SUFFICES ASSUME SharesInv, scenario \in Scenarios, [Next]_vars, Dead
               PROVE  Dead'
    OBVIOUS
  <1>1. TypeOK /\ share \in Share
    BY DEF SharesInv, TypeOK
  <1>2. ASSUME NEW r \in Slots, Continue(r) PROVE Dead'
    BY <1>2, ContinueIsStepOK DEF StepOK
  <1>3. ASSUME NEW r \in Slots, CreateShare(r) PROVE Dead'
    BY <1>3 DEF CreateShare, SharesInv, Unborn, Dead, NoShare
  <1>4. ASSUME NEW r \in Slots, (Begin(r) /\ ~CreateShare(r)) \/ PurgeExpiredShares(r) \/ Cancel(r)
        PROVE  Dead'
    BY <1>4 DEF Begin, InitShareAttachment, UploadShareBlob, CompleteShareUpload,
                RevokeShare, FindPublicShare, PurgeExpiredShares, Cancel, Dead
  <1>5. CASE Expire
    BY <1>5 DEF Expire, Dead
  <1>6. CASE DeleteVault
    BY <1>1, <1>6 DEF DeleteVault, Dead, Share
  <1>7. CASE UNCHANGED vars
    BY <1>7 DEF vars, Dead
  <1> QED
    BY <1>2, <1>3, <1>4, <1>5, <1>6, <1>7, SlotsUsed DEF Next, Slots

(* While statements do not fail, every step keeps BytesInv. *)
LEMMA NextKeepsBytesInv ==
    SharesInv /\ scenario \in Scenarios /\ StatementsSucceed /\ BytesInv
      /\ [Next]_vars => BytesInv'
  <1> SUFFICES ASSUME SharesInv, scenario \in Scenarios, StatementsSucceed,
                      BytesInv, [Next]_vars
               PROVE  BytesInv'
    OBVIOUS
  <1>1. TypeOK /\ share \in Share /\ req \in [Slots -> Request]
    BY DEF SharesInv, TypeOK
  <1>2. Dead => Dead'
    BY DeadIsStable
  <1> DEFINE SlotOK(q) ==
               /\ req[q].pc \in Deleting => Dead
               /\ req[q].pc = "complete" => req[q].key \in objects \/ Dead
               /\ req[q].pc # "rollback"
             RowsOK ==
               /\ share.status = "available" => Blob \in objects \/ Dead
               /\ \A a \in Attachments : att[a] = "available" => a \in objects \/ Dead
  <1>3. RowsOK /\ \A q \in Slots : SlotOK(q)
    BY DEF BytesInv
  <1>4. ASSUME NEW r \in Slots, SlotOK(r)', RowsOK',
               \A q \in Slots : q # r => req'[q] = req[q],
               objects \subseteq objects' \/ Dead
        PROVE  BytesInv'
    BY <1>2, <1>3, <1>4 DEF BytesInv
  <1>5. ASSUME NEW r \in Slots, Finish(r), RowsOK',
               objects \subseteq objects' \/ Dead
        PROVE  BytesInv'
    BY <1>1, <1>4, <1>5, FinishOK DEF Deleting
  <1>6. ASSUME NEW r \in Slots, NEW pc \in Pcs, NEW k \in Keys, Start(r, pc, k),
               UNCHANGED <<share, att, expired, objects, over>>,
               pc \in Deleting => Dead, pc \notin {"complete", "rollback"}
        PROVE  BytesInv'
    BY <1>1, <1>2, <1>3, <1>4, <1>6, StartOK DEF Dead
  <1>7. ASSUME UNCHANGED <<share, att, expired, objects>>
        PROVE  RowsOK'
    BY <1>3, <1>7 DEF Dead
  <1>8. ASSUME NEW r \in Slots, Begin(r) \/ PurgeExpiredShares(r)
        PROVE  BytesInv'
    <2>1. KeysOnRecord \subseteq Keys /\ Attachments \subseteq Keys /\ Blob \in Keys
      BY DEF KeysOnRecord, Keys
    <2>2. CASE CreateShare(r)
      BY <1>2, <1>3, <2>2 DEF CreateShare, BytesInv, NoShare, Dead
    <2>3. CASE InitShareAttachment(r)
      BY <1>6, <2>1, <2>3, SlotsUsed DEF InitShareAttachment, Pcs, Deleting
    <2>4. CASE UploadShareBlob(r)
      BY <1>6, <2>1, <2>4 DEF UploadShareBlob, Pcs, Deleting
    <2>5. CASE CompleteShareUpload(r)
      BY <1>6, <2>1, <2>5 DEF CompleteShareUpload, Pcs, Deleting
    <2>6. CASE RevokeShare(r)
      BY <1>6, <2>1, <2>6 DEF RevokeShare, Pcs, Deleting
    <2>7. CASE PurgeExpiredShares(r)
      BY <1>6, <2>1, <2>7 DEF PurgeExpiredShares, Purgeable, Pcs, Dead
    <2>8. CASE FindPublicShare(r)
      BY <1>6, <2>1, <2>8 DEF FindPublicShare, Pcs, Deleting
    <2> QED
      BY <1>8, <2>2, <2>3, <2>4, <2>5, <2>6, <2>7, <2>8 DEF Begin
  <1>9. ASSUME NEW r \in Slots, Continue(r)
        PROVE  BytesInv'
    <2>1. CASE CreateShareAttachment(r)
      <3>1. RowsOK'
        BY <1>1, <1>3, <2>1 DEF CreateShareAttachment, TypeOK, Dead
      <3> QED
        BY <1>5, <2>1, <3>1 DEF CreateShareAttachment
    <2>2. CASE PutShareObject(r)
      <3>1. RowsOK' /\ objects \subseteq objects'
        BY <1>3, <2>2 DEF PutShareObject, Dead
      <3> QED
        BY <1>5, <2>2, <3>1 DEF PutShareObject
    <2>3. CASE HeadShareObject(r)
      <3>1. CASE Finish(r)
        BY <1>5, <1>7, <2>3, <3>1 DEF HeadShareObject
      <3>2. CASE req[r].key \in objects /\ Goto(r, "complete")
        <4>1. req'[r].pc = "complete" /\ req'[r].key = req[r].key
          BY <1>1, <3>2 DEF Goto, Request
        <4> QED
          BY <1>1, <1>4, <1>7, <2>3, <3>2, <4>1, GotoOK
          DEF HeadShareObject, Pcs, Deleting
      <3> QED
        BY <2>3, <3>1, <3>2 DEF HeadShareObject
    <2>4. CASE MarkAvailable(r)
      <3>1. req[r].key \in objects \/ Dead
        BY <1>3, <2>4 DEF MarkAvailable, Doing
      <3>2. RowsOK'
        <4>1. CASE req[r].key = Blob
          BY <1>1, <1>2, <1>3, <2>4, <3>1, <4>1
          DEF MarkAvailable, SetAvailable, UpdateShare, Share, Dead
        <4>2. CASE req[r].key # Blob
          BY <1>1, <1>2, <1>3, <2>4, <3>1, <4>2
          DEF MarkAvailable, SetAvailable, TypeOK, Dead
        <4> QED
          BY <4>1, <4>2
      <3> QED
        BY <1>5, <2>4, <3>2 DEF MarkAvailable
    <2>5. CASE MarkAvailableFails(r) \/ RollBackShareUpload(r)
      BY <1>3, <2>5 DEF MarkAvailableFails, RollBackShareUpload, Doing, StatementsSucceed
    <2>6. CASE SetRevoked(r)
      <3>1. Goto(r, "list") /\ Dead'
        BY <1>1, <2>6 DEF SetRevoked, UpdateShare, Share, Dead, SharesInv, Unborn, Doing,
                           StatementsSucceed
      <3> QED
        BY <1>1, <1>4, <2>6, <3>1, GotoOK DEF SetRevoked, Pcs, Deleting
    <2>7. ASSUME Doing(r, "list") \/ Doing(r, "delete") \/ Doing(r, "mark")
                 \/ Doing(r, "sweep_list") \/ Doing(r, "sweep_delete")
                 \/ Doing(r, "sweep_mark"),
                 req'[r].pc # "rollback",
                 \A q \in Slots : q # r => req'[q] = req[q]
          PROVE  BytesInv'
      <3>1. Dead /\ Dead'
        BY <1>2, <1>3, <2>7 DEF Doing, Deleting
      <3> QED
        BY <1>4, <2>7, <3>1
    <2>8. CASE ListObjects(r, "list", "delete")
      BY <1>1, <2>7, <2>8 DEF ListObjects, Request, Finish, Idle
    <2>9. CASE ListObjects(r, "sweep_list", "sweep_delete")
      BY <1>1, <2>7, <2>9 DEF ListObjects, Request, Finish, Idle
    <2>10. CASE \E k \in Keys : DeleteObject(r, k)
      BY <1>1, <2>7, <2>10 DEF DeleteObject, Request, Doing
    <2>11. CASE DeleteObjectFails(r)
      BY <1>1, <2>7, <2>11, FinishOK DEF DeleteObjectFails
    <2>12. CASE MarkPurged(r, "mark") \/ MarkPurged(r, "sweep_mark")
      BY <1>1, <2>7, <2>12, FinishOK DEF MarkPurged
    <2>13. ASSUME NEW k \in Keys, NEW fails \in BOOLEAN, SweepObject(r, k, fails)
           PROVE  BytesInv'
      <3>1. CASE k # Blob
        BY <1>1, <2>7, <2>13, <3>1 DEF SweepObject, Request, Doing
      <3>2. CASE k = Blob
        BY <1>1, <2>7, <2>13, <3>2, FinishOK, GotoOK DEF SweepObject, Pcs
      <3> QED
        BY <3>1, <3>2
    <2>14. CASE FindShareAttachment(r)
      <3>1. CASE Finish(r)
        BY <1>5, <1>7, <2>14, <3>1 DEF FindShareAttachment
      <3>2. CASE Goto(r, "serve")
        BY <1>1, <1>4, <1>7, <2>14, <3>2, GotoOK DEF FindShareAttachment, Pcs, Deleting
      <3> QED
        BY <2>14, <3>1, <3>2 DEF FindShareAttachment
    <2>15. CASE DownloadShareObject(r)
      BY <1>5, <1>7, <2>15 DEF DownloadShareObject
    <2> QED
      BY <1>9, <2>1, <2>2, <2>3, <2>4, <2>5, <2>6, <2>8, <2>9, <2>10, <2>11, <2>12,
         <2>13, <2>14, <2>15 DEF Continue, SweepObjectFails
  <1>10. ASSUME NEW r \in Slots, Cancel(r)
         PROVE  BytesInv'
    BY <1>5, <1>7, <1>10 DEF Cancel
  <1>11. CASE Expire
    BY <1>3, <1>11 DEF Expire, BytesInv, Dead
  <1>12. CASE DeleteVault
    <2>1. Dead'
      BY <1>1, <1>12 DEF DeleteVault, Dead, Share
    <2> QED
      BY <1>3, <1>12, <2>1 DEF DeleteVault, BytesInv
  <1>13. CASE UNCHANGED vars
    BY <1>3, <1>13 DEF vars, BytesInv, Dead
  <1> QED
    BY <1>8, <1>9, <1>10, <1>11, <1>12, <1>13, SlotsUsed DEF Next, Slots

(* While the database's statements do not fail, an open share always has   *)
(* its ciphertext and that of every attachment it offers, whatever the     *)
(* store, the sweep, revocations and abandoned requests do.                *)
THEOREM OpenSharesHaveBytes == Spec => []OpenShareHasBytes
  <1> DEFINE CalmInv == StatementsSucceed => BytesInv
  <1>1. Init => CalmInv
    BY DEF Init, BytesInv, Idle, NoShare, Deleting
  <1>2. SharesInv /\ scenario \in Scenarios /\ CalmInv /\ [Next]_vars => CalmInv'
    <2>1. [Next]_vars /\ StatementsSucceed' => StatementsSucceed
      BY DEF Next, vars, StatementsSucceed, Faults
    <2> QED
      BY <2>1, NextKeepsBytesInv
  <1>3. SharesInv /\ CalmInv => OpenShareHasBytes
    BY DEF SharesInv, TypeOK, BytesInv, OpenShareHasBytes, Open, Dead, Share
  <1> QED
    BY <1>1, <1>2, <1>3, SharesInvariant, ScenarioFixed, PTL DEF Spec

-----------------------------------------------------------------------------
(***************************************************************************)
(* One request or sweep at a time: what is marked as purged has no bytes.  *)
(* Whatever is stored belongs to a row, so that the keys a revocation or a *)
(* sweep lists are all there are; nothing is stored while it deletes them  *)
(* one by one; and a share that was purged is revoked, so that no upload   *)
(* begins.                                                                 *)
(***************************************************************************)

(* What the request in flight knows about the objects. *)
SerialSlot(q) ==
    /\ q.pc = "put" => ~share.purged /\ q.key \in KeysOnRecord
    /\ q.pc = "delete" => objects \subseteq q.keys
    /\ q.pc = "sweep_delete" => q.failed \/ objects \subseteq q.keys
    /\ q.pc \in {"mark", "sweep_mark"} => objects = {}

PurgeOK ==
    /\ \A r \in Slots : r \notin scenario.slots => req[r].pc = "idle"
    /\ \A r \in Slots : SerialSlot(req[r])
    /\ objects \subseteq KeysOnRecord
    /\ share.row = "none" => objects = {}
    /\ share.purged => share.revoked /\ objects = {}

PurgeInv == OneAtATime /\ share.row # "gone" => PurgeOK

(* With one slot in use, a step that leaves its request in order leaves    *)
(* them all in order.                                                      *)
LEMMA OtherSlotsIdle ==
    ASSUME OneAtATime, \A q \in Slots : q \notin scenario.slots => req[q].pc = "idle",
           UNCHANGED scenario, NEW r \in scenario.slots,
           \A q \in Slots : q # r => req'[q] = req[q],
           SerialSlot(req[r])'
    PROVE  /\ \A q \in Slots : q \notin scenario.slots => req'[q].pc = "idle"
           /\ \A q \in Slots : SerialSlot(req[q])'
  <1>1. \A q \in Slots : q # r => req'[q] = req[q] /\ req[q].pc = "idle" /\ q \notin scenario.slots
    BY DEF OneAtATime
  <1>2. ASSUME NEW q \in Slots PROVE SerialSlot(req[q])'
    <2>1. CASE q = r
      BY <2>1
    <2>2. CASE q # r
      <3>1. req'[q].pc = "idle"
        BY <1>1, <2>2
      <3> QED
        BY <3>1 DEF SerialSlot
    <2> QED
      BY <2>1, <2>2
  <1> QED
    BY <1>1, <1>2

(* With one request at a time, every step keeps the invariant. *)
LEMMA NextKeepsPurgeInv ==
    SharesInv /\ SharesInv' /\ scenario \in Scenarios /\ PurgeInv /\ [Next]_vars
      => PurgeInv'
  <1> SUFFICES ASSUME SharesInv, SharesInv', scenario \in Scenarios, PurgeInv, [Next]_vars,
                      OneAtATime', share'.row # "gone"
               PROVE  PurgeOK'
    BY DEF PurgeInv
  <1>0. /\ TypeOK /\ TypeOK' /\ share \in Share /\ share' \in Share
        /\ req \in [Slots -> Request] /\ req' \in [Slots -> Request]
        /\ att \in [Attachments -> {"none", "pending", "available"}]
        /\ objects \subseteq Keys
        /\ scenario' = scenario /\ OneAtATime /\ scenario.slots \subseteq Slots
        /\ scenario.attachments \subseteq Attachments
    BY SlotsUsed DEF SharesInv, TypeOK, Next, vars, OneAtATime
  <1>1. CASE UNCHANGED vars
    <2>1. PurgeOK
      BY <1>0, <1>1 DEF PurgeInv, vars
    <2> QED
      BY <1>1, <2>1 DEF vars, PurgeOK, SerialSlot, KeysOnRecord
  <1>2. CASE DeleteVault
    BY <1>0, <1>2 DEF DeleteVault, Share
  <1>3. CASE Expire
    <2>1. PurgeOK
      BY <1>0, <1>3 DEF PurgeInv, Expire
    <2> QED
      BY <1>0, <1>3, <2>1 DEF Expire, PurgeOK, SerialSlot, KeysOnRecord
  <1>4. ASSUME NEW r \in scenario.slots,
               Begin(r) \/ PurgeExpiredShares(r) \/ Continue(r) \/ Cancel(r)
        PROVE  PurgeOK'
    <2>0. r \in Slots /\ req[r] \in Request /\ req[r].key \in Keys
      BY <1>0 DEF Request
    <2>a. CASE CreateShare(r)
      <3>1. share.row = "none" /\ PurgeOK /\ UNCHANGED <<att, objects, req>>
        BY <1>0, <2>a DEF CreateShare, PurgeInv
      <3>2. \A q \in Slots : req[q].pc = "idle"
        BY <3>1 DEF SharesInv, Unborn
      <3>3. ~share'.purged /\ objects = {}
        BY <2>a, <3>1 DEF CreateShare, NoShare, PurgeOK
      <3> QED
        BY <3>1, <3>2, <3>3 DEF PurgeOK, SerialSlot
    <2>b. CASE ~CreateShare(r)
      <3>1. share.row = "present" /\ share'.row = "present" /\ PurgeOK
        <4>1. share.row # "none"
          <5>1. CASE Begin(r) \/ PurgeExpiredShares(r)
            BY <2>b, <5>1 DEF Begin, InitShareAttachment, UploadShareBlob,
                   CompleteShareUpload, RevokeShare, FindPublicShare, PurgeExpiredShares, Start
          <5>2. CASE Continue(r) \/ Cancel(r)
            <6>1. req[r].pc # "idle"
              BY <5>2 DEF Continue, CreateShareAttachment, PutShareObject, HeadShareObject,
                     MarkAvailable, MarkAvailableFails, RollBackShareUpload, SetRevoked,
                     ListObjects, DeleteObject, DeleteObjectFails, MarkPurged,
                     SweepObject, SweepObjectFails, FindShareAttachment,
                     DownloadShareObject, Doing, Cancel
            <6> QED
              BY <2>0, <6>1 DEF SharesInv, Unborn
          <5> QED
            BY <1>4, <5>1, <5>2
        <4>2. share'.row \in {share.row}
          BY <1>0, <1>4, <2>b
          DEF Begin, InitShareAttachment, UploadShareBlob, Share,
              CompleteShareUpload, RevokeShare, FindPublicShare, PurgeExpiredShares,
              Continue, CreateShareAttachment, PutShareObject, HeadShareObject,
              MarkAvailable, MarkAvailableFails, RollBackShareUpload, SetRevoked,
              ListObjects, DeleteObject, DeleteObjectFails, MarkPurged, SetAvailable,
              SweepObject, SweepObjectFails, FindShareAttachment, UpdateShare,
              DownloadShareObject, Cancel
        <4> QED
          BY <1>0, <4>1, <4>2 DEF PurgeInv, Share
      <3>2. /\ SerialSlot(req[r]) /\ objects \subseteq KeysOnRecord
            /\ share.purged => share.revoked /\ objects = {}
            /\ \A q \in Slots : q \notin scenario.slots => req[q].pc = "idle"
        BY <2>0, <3>1 DEF PurgeOK
      <3>3. ASSUME SerialSlot(req[r])', \A q \in Slots : q # r => req'[q] = req[q],
                   objects' \subseteq KeysOnRecord',
                   share'.purged => share'.revoked /\ objects' = {}
            PROVE  PurgeOK'
        BY <1>0, <3>1, <3>2, <3>3, OtherSlotsIdle DEF PurgeOK
      <3>4. ASSUME NEW pc \in Pcs \ {"put", "delete", "sweep_delete", "mark", "sweep_mark"},
                   \/ Finish(r)
                   \/ Goto(r, pc)
                   \/ \E k \in Keys : Start(r, pc, k),
                   UNCHANGED att, objects' \subseteq objects,
                   share'.purged = share.purged /\ (share.revoked => share'.revoked)
            PROVE  PurgeOK'
        <4>1. /\ req'[r].pc \in {"idle", pc}
              /\ \A q \in Slots : q # r => req'[q] = req[q]
          BY <1>0, <2>0, <3>4, FinishOK, GotoOK, StartOK
        <4>2. SerialSlot(req[r])'
          BY <4>1 DEF SerialSlot
        <4>3. objects' \subseteq KeysOnRecord'
          BY <3>2, <3>4 DEF KeysOnRecord
        <4> QED
          BY <3>2, <3>3, <3>4, <4>1, <4>2, <4>3
      <3>5. KeysOnRecord \subseteq Keys /\ Attachments \subseteq Keys /\ Blob \in Keys
        BY DEF KeysOnRecord, Keys
      <3>6. CASE InitShareAttachment(r)
        <4>1. PICK a \in scenario.attachments : Start(r, "init", a)
          BY <3>6 DEF InitShareAttachment
        <4> QED
          BY <1>0, <3>4, <3>5, <3>6, <4>1 DEF InitShareAttachment, Pcs
      <3>7. CASE UploadShareBlob(r)
        <4>1. PICK k \in KeysOnRecord : Start(r, "put", k)
          BY <3>7 DEF UploadShareBlob
        <4>2. ~share.revoked /\ UNCHANGED <<share, att, objects>>
          BY <3>7 DEF UploadShareBlob
        <4>3. /\ req'[r].pc = "put" /\ req'[r].key = k
              /\ \A q \in Slots : q # r => req'[q] = req[q]
          BY <1>0, <2>0, <3>5, <4>1 DEF Start, Idle
        <4>4. SerialSlot(req[r])'
          BY <3>2, <4>2, <4>3 DEF SerialSlot, KeysOnRecord
        <4> QED
          BY <3>2, <3>3, <4>2, <4>3, <4>4 DEF KeysOnRecord
      <3>8. CASE CompleteShareUpload(r)
        BY <3>4, <3>5, <3>8 DEF CompleteShareUpload, Pcs
      <3>9. CASE RevokeShare(r)
        BY <3>4, <3>5, <3>9 DEF RevokeShare, Pcs
      <3>10. CASE FindPublicShare(r)
        BY <3>4, <3>5, <3>10 DEF FindPublicShare, Pcs
      <3>11. CASE PurgeExpiredShares(r)
        BY <3>4, <3>5, <3>11 DEF PurgeExpiredShares, Pcs
      <3>12. CASE Cancel(r)
        <4>1. "idle" \in Pcs \ {"put", "delete", "sweep_delete", "mark", "sweep_mark"}
          BY DEF Pcs
        <4> QED
          BY <3>4, <3>12, <4>1 DEF Cancel
      <3>13. CASE CreateShareAttachment(r)
        <4>1. req'[r].pc = "idle" /\ \A q \in Slots : q # r => req'[q] = req[q]
          BY <1>0, <2>0, <3>13, FinishOK DEF CreateShareAttachment
        <4>2. KeysOnRecord \subseteq KeysOnRecord'
          BY <1>0, <3>13 DEF CreateShareAttachment, KeysOnRecord
        <4>3. SerialSlot(req[r])'
          BY <4>1 DEF SerialSlot
        <4> QED
          BY <3>2, <3>3, <3>13, <4>1, <4>2, <4>3 DEF CreateShareAttachment
      <3>14. CASE PutShareObject(r)
        <4>1. req'[r].pc = "idle" /\ \A q \in Slots : q # r => req'[q] = req[q]
          BY <1>0, <2>0, <3>14, FinishOK DEF PutShareObject
        <4>2. ~share.purged /\ req[r].key \in KeysOnRecord
          BY <3>2, <3>14 DEF PutShareObject, Doing, SerialSlot
        <4>3. SerialSlot(req[r])'
          BY <4>1 DEF SerialSlot
        <4> QED
          BY <3>2, <3>3, <3>14, <4>1, <4>2, <4>3 DEF PutShareObject, KeysOnRecord
      <3>15. CASE HeadShareObject(r)
        BY <3>4, <3>15 DEF HeadShareObject, Pcs
      <3>16. ASSUME SetAvailable(req[r].key)
             PROVE  /\ share'.purged = share.purged /\ share'.revoked = share.revoked
                    /\ KeysOnRecord \subseteq KeysOnRecord'
        BY <1>0, <2>0, <3>1, <3>16 DEF SetAvailable, UpdateShare, KeysOnRecord, Share, Keys
      <3>17. CASE MarkAvailable(r) \/ MarkAvailableFails(r)
        <4>1. /\ req'[r].pc \in {"idle", "rollback"}
              /\ \A q \in Slots : q # r => req'[q] = req[q]
          BY <1>0, <2>0, <3>17, FinishOK, GotoOK DEF MarkAvailable, MarkAvailableFails, Pcs
        <4>2. /\ share'.purged = share.purged /\ share'.revoked = share.revoked
              /\ KeysOnRecord \subseteq KeysOnRecord' /\ objects' = objects
          BY <3>16, <3>17 DEF MarkAvailable, MarkAvailableFails, KeysOnRecord
        <4>3. SerialSlot(req[r])'
          BY <4>1 DEF SerialSlot
        <4> QED
          BY <3>2, <3>3, <4>1, <4>2, <4>3
      <3>18. CASE RollBackShareUpload(r)
        <4>1. "idle" \in Pcs \ {"put", "delete", "sweep_delete", "mark", "sweep_mark"}
          BY DEF Pcs
        <4> QED
          BY <3>4, <3>18, <4>1 DEF RollBackShareUpload
      <3>19. CASE SetRevoked(r)
        <4>1. "list" \in Pcs \ {"put", "delete", "sweep_delete", "mark", "sweep_mark"}
          BY DEF Pcs
        <4>2. share'.purged = share.purged /\ (share.revoked => share'.revoked)
          BY <1>0, <3>19 DEF SetRevoked, UpdateShare, Share
        <4> QED
          BY <3>4, <3>19, <4>1, <4>2 DEF SetRevoked
      <3>20. ASSUME NEW from \in Pcs, NEW to \in {"delete", "sweep_delete"},
                    ListObjects(r, from, to)
             PROVE  PurgeOK'
        <4>1. CASE Finish(r)
          <5>1. "idle" \in Pcs \ {"put", "delete", "sweep_delete", "mark", "sweep_mark"}
            BY DEF Pcs
          <5> QED
            BY <3>4, <3>20, <4>1, <5>1 DEF ListObjects
        <4>2. CASE req' = [req EXCEPT ![r].pc = to, ![r].keys = KeysOnRecord]
          <5>1. /\ req'[r].pc = to /\ req'[r].keys = KeysOnRecord
                /\ \A q \in Slots : q # r => req'[q] = req[q]
            BY <1>0, <2>0, <4>2 DEF Request
          <5>2. UNCHANGED <<share, att, objects>>
            BY <3>20 DEF ListObjects
          <5>3. SerialSlot(req[r])'
            BY <3>2, <5>1, <5>2 DEF SerialSlot
          <5> QED
            BY <3>2, <3>3, <5>1, <5>2, <5>3 DEF KeysOnRecord
        <4> QED
          BY <3>20, <4>1, <4>2 DEF ListObjects
      <3>21. ASSUME NEW k \in Keys, DeleteObject(r, k)
             PROVE  PurgeOK'
        <4>1. /\ objects \subseteq req[r].keys /\ objects' = objects \ {k}
              /\ k = Blob => req[r].keys = {Blob}
              /\ UNCHANGED <<share, att>>
          BY <3>2, <3>21 DEF DeleteObject, Doing, NextKey, SerialSlot
        <4>2. /\ req'[r].pc = (IF k = Blob THEN "mark" ELSE "delete")
              /\ req'[r].keys = req[r].keys \ {k}
              /\ \A q \in Slots : q # r => req'[q] = req[q]
          BY <1>0, <2>0, <3>21 DEF DeleteObject, Request, Doing
        <4>3. SerialSlot(req[r])'
          <5>1. k = Blob => objects' = {}
            BY <4>1
          <5>2. objects' \subseteq req'[r].keys
            BY <4>1, <4>2
          <5> QED
            BY <4>2, <5>1, <5>2 DEF SerialSlot
        <4> QED
          BY <3>2, <3>3, <4>1, <4>2, <4>3 DEF KeysOnRecord
      <3>22. CASE DeleteObjectFails(r) \/ DownloadShareObject(r)
        <4>1. "idle" \in Pcs \ {"put", "delete", "sweep_delete", "mark", "sweep_mark"}
          BY DEF Pcs
        <4> QED
          BY <3>4, <3>22, <4>1 DEF DeleteObjectFails, DownloadShareObject
      <3>23. CASE MarkPurged(r, "mark") \/ MarkPurged(r, "sweep_mark")
        <4>1. req'[r].pc = "idle" /\ \A q \in Slots : q # r => req'[q] = req[q]
          BY <1>0, <2>0, <3>23, FinishOK DEF MarkPurged
        <4>2. objects = {} /\ objects' = {} /\ UNCHANGED att
          BY <3>2, <3>23 DEF MarkPurged, Doing, SerialSlot
        <4>3. share'.purged => share'.revoked
          BY <1>0, <3>2, <3>23 DEF MarkPurged, UpdateShare, Share
        <4>4. SerialSlot(req[r])'
          BY <4>1 DEF SerialSlot
        <4> QED
          BY <3>3, <4>1, <4>2, <4>3, <4>4
      <3>24. ASSUME NEW k \in Keys, NEW fails \in BOOLEAN, SweepObject(r, k, fails)
             PROVE  PurgeOK'
        <4>1. /\ req[r].failed \/ objects \subseteq req[r].keys
              /\ objects' = IF fails THEN objects ELSE objects \ {k}
              /\ k = Blob => req[r].keys = {Blob}
              /\ UNCHANGED <<share, att>> /\ req[r].pc = "sweep_delete"
          BY <3>2, <3>24 DEF SweepObject, Doing, NextKey, SerialSlot
        <4>2. CASE k # Blob
          <5>1. /\ req'[r].pc = "sweep_delete" /\ req'[r].keys = req[r].keys \ {k}
                /\ req'[r].failed = (req[r].failed \/ fails)
                /\ \A q \in Slots : q # r => req'[q] = req[q]
            BY <1>0, <2>0, <3>24, <4>1, <4>2 DEF SweepObject, Request
          <5>2. SerialSlot(req[r])'
            BY <4>1, <5>1 DEF SerialSlot
          <5> QED
            BY <3>2, <3>3, <4>1, <5>1, <5>2 DEF KeysOnRecord
        <4>3. CASE k = Blob /\ Finish(r)
          <5>1. "idle" \in Pcs \ {"put", "delete", "sweep_delete", "mark", "sweep_mark"}
            BY DEF Pcs
          <5> QED
            BY <3>4, <4>1, <4>3, <5>1
        <4>4. CASE k = Blob /\ ~req[r].failed /\ ~fails /\ Goto(r, "sweep_mark")
          <5>1. /\ req'[r].pc = "sweep_mark"
                /\ \A q \in Slots : q # r => req'[q] = req[q]
            BY <1>0, <2>0, <4>4, GotoOK DEF Pcs
          <5>2. objects' = {}
            BY <4>1, <4>4
          <5>3. SerialSlot(req[r])'
            BY <5>1, <5>2 DEF SerialSlot
          <5> QED
            BY <3>2, <3>3, <4>1, <5>1, <5>2, <5>3 DEF KeysOnRecord
        <4> QED
          BY <3>24, <4>2, <4>3, <4>4 DEF SweepObject
      <3>25. CASE FindShareAttachment(r)
        BY <3>4, <3>25 DEF FindShareAttachment, Pcs
      <3> QED
        BY <1>4, <2>b, <3>6, <3>7, <3>8, <3>9, <3>10, <3>11, <3>12, <3>13, <3>14, <3>15,
           <3>17, <3>18, <3>19, <3>20, <3>21, <3>22, <3>23, <3>24, <3>25
        DEF Begin, Continue, SweepObjectFails, Pcs
    <2> QED
      BY <2>a, <2>b
  <1> QED
    BY <1>1, <1>2, <1>3, <1>4 DEF Next

(* A share that was revoked, or that the sweep is done with, leaves no     *)
(* object behind, its attachments' included, whichever deletions failed or *)
(* were given up on before.                                                *)
THEOREM PurgedSharesAreEmpty == Spec => []PurgedLeavesNothing
  <1>1. Init => PurgeInv
    BY DEF Init, PurgeInv, PurgeOK, SerialSlot, Idle, NoShare
  <1>2. SharesInv /\ PurgeInv => PurgedLeavesNothing
    BY DEF PurgeInv, PurgeOK, PurgedLeavesNothing
  <1> QED
    BY <1>1, <1>2, NextKeepsPurgeInv, SharesInvariant, ScenarioFixed, PTL DEF Spec
=============================================================================
