---------------------------- MODULE KeyRotation ----------------------------
(***************************************************************************)
(* A password change and everything that races it, for one account.        *)
(*                                                                         *)
(* The password's master key (with its salt, called a secret here) wraps   *)
(* the account's private keys and encrypts every vault title, every vault  *)
(* note and every attachment's file key.  A rotation fetches a manifest,   *)
(* re-encrypts all of that in the browser and sends it in one POST, which  *)
(* a transaction applies under a lock on the user's row                    *)
(* (rotate_user_credentials).  Tokens carry the key version they were      *)
(* issued under; the VerifiedWriter extractor of every route that writes   *)
(* compares it with an in-process cache before the handler runs.           *)
(*                                                                         *)
(* Each statement is a step, and so is each cache access that an await     *)
(* separates from the statement before it.  The transaction's writes are   *)
(* seen by others when it commits; the rows it has written are locked      *)
(* until then.  Its lock on the user's row (FOR UPDATE) also holds back    *)
(* every INSERT whose foreign key refers to that row, those of mind_maps   *)
(* and mind_map_attachments among them (db/schema.rs).                     *)
(***************************************************************************)
EXTENDS Naturals

CONSTANTS
    Clients,      \* browsers signed in to the account
    Requests,     \* slots for requests in flight
    Vaults,       \* vault ids
    Attachments,  \* attachment ids
    VaultOf,      \* the vault of each attachment
    Secrets,      \* master keys, each with the salt it was derived with
    FirstSecret,  \* the one in force at the start
    None,         \* no row, or an empty column
    Keep,         \* a column that a statement does not write
    Scenarios     \* the kinds of run there are

(* Every behaviour is one of several scenarios, which say who acts, which  *)
(* rows and secrets there can be and which failures strike; a property     *)
(* that needs quieter circumstances than others names them.                *)
(* "db": a statement fails, the transaction rolls back; "lost_reply": the  *)
(* commit takes effect and its reply is lost; "crash": the process ends    *)
(* and starts again; "cancel": a handler's future is dropped at an await.  *)
FaultKinds == {"db", "lost_reply", "crash", "cancel"}

ASSUME KeyRotationAssumption ==
    /\ Vaults \cap Attachments = {}
    /\ VaultOf \in [Attachments -> Vaults]
    /\ FirstSecret \in Secrets
    /\ None \notin Secrets \cup Clients
    /\ Keep \notin Secrets \cup {None}
    /\ Scenarios \subseteq [clients  : SUBSET Clients,
                            requests : SUBSET Requests,
                            rows     : SUBSET (Vaults \cup Attachments),
                            secrets  : SUBSET Secrets,
                            faults   : SUBSET FaultKinds]

(* The columns that hold ciphertext under the master key. *)
Items == ({"title", "note"} \X Vaults) \cup ({"wrap"} \X Attachments)

Title(v) == <<"title", v>>
Note(v)  == <<"note", v>>
Wrap(a)  == <<"wrap", a>>
Row(i)   == i[2]

VARIABLES
    scenario,  \* what may happen in this behaviour; never changes
    user,      \* the user's row: key_version and the secret it is wrapped by
    cipher,    \* the secret each column is encrypted under, None for no value
    cache,     \* KeyVersionCache, Cold while it has no entry
    sessions,  \* each browser's token (its kv claim) and master key
    req,       \* what each request is doing
    outcome,   \* what each browser's last rotation came to, as it was told
    minted     \* secrets, vault ids and attachment ids ever created

vars == <<scenario, user, cipher, cache, sessions, req, outcome, minted>>

Faults == scenario.faults

Cold == 0        \* key versions start at 1
SignedOut == [kv |-> 0, secret |-> FirstSecret]

Answers == {"none", "asking", "unchanged"}
NoOutcome == [says |-> "none", old |-> FirstSecret, new |-> FirstSecret]

WriteOps == {"create", "rename", "meta", "init", "copy", "delete"}

TxPcs == {"tx_vaults", "tx_attachments", "tx_rewrite"}
PostPcs == {"rotate", "tx_begin", "publish"} \cup TxPcs
Pcs == {"idle", "load_kv", "seed", "read", "write", "sign_in", "refresh",
        "manifest_vaults", "manifest_attachments"} \cup PostPcs

NoPut == [i \in Items |-> Keep]

(* kv is the claim of the request's token, or the version it will publish; *)
(* seen what the row said; items and rows what a rotation covers and the   *)
(* rows it has locked; put the columns a write is about to store.          *)
Idle == [pc |-> "idle", client |-> None, op |-> "meta", row |-> None,
         kv |-> 0, seen |-> 0, secret |-> FirstSecret, new |-> FirstSecret,
         items |-> {}, rows |-> {}, put |-> NoPut]

Doing(r, pc) == req[r].pc = pc
Goto(r, pc) == req' = [req EXCEPT ![r].pc = pc]
Finish(r) == req' = [req EXCEPT ![r] = Idle]

InTx(r) == req[r].pc \in TxPcs
UserLocked == \E r \in Requests : InTx(r)
Locked == UNION {req[r].rows : r \in Requests}

Exists(row) == \E i \in Items : Row(i) = row /\ i[1] # "note" /\ cipher[i] # None

Stored(kinds) == {i \in Items : i[1] \in kinds /\ cipher[i] # None}

-----------------------------------------------------------------------------
(* Tokens: login, the callback of a federated sign-in, refresh.            *)

(* The row is loaded, then the password is verified, which takes as long   *)
(* as Argon2 and its queue take.  A password that does not match the row   *)
(* is refused without a trace.                                             *)
SignIn(r, c) ==
    /\ Doing(r, "idle")
    /\ req' = [req EXCEPT ![r] = [Idle EXCEPT !.pc = "sign_in", !.client = c,
                                     !.kv = user.kv, !.secret = user.secret]]
    /\ UNCHANGED <<user, cipher, cache, sessions, outcome, minted>>

SignedIn(r) ==
    /\ Doing(r, "sign_in")
    /\ cache' = req[r].kv
    /\ sessions' = [sessions EXCEPT ![req[r].client] =
                       [kv |-> req[r].kv, secret |-> req[r].secret]]
    /\ Finish(r)
    /\ UNCHANGED <<user, cipher, outcome, minted>>

(* A refresh token of another key version is refused. *)
Refresh(r, c) ==
    /\ Doing(r, "idle")
    /\ sessions[c].kv = user.kv
    /\ req' = [req EXCEPT ![r] = [Idle EXCEPT !.pc = "refresh", !.kv = user.kv]]
    /\ UNCHANGED <<user, cipher, cache, sessions, outcome, minted>>

Refreshed(r) ==
    /\ Doing(r, "refresh")
    /\ cache' = req[r].kv
    /\ Finish(r)
    /\ UNCHANGED <<user, cipher, sessions, outcome, minted>>

(* A reloaded page still has its token and derives the master key anew,    *)
(* from the key bundle on the row as it is now.                            *)
Unlock(c) ==
    /\ sessions[c].kv # 0
    /\ sessions' = [sessions EXCEPT ![c].secret = user.secret]
    /\ UNCHANGED <<user, cipher, cache, req, outcome, minted>>

-----------------------------------------------------------------------------
(* Writes.  VerifiedWriter runs first: it compares the token's claim with  *)
(* the cache, which it fills from the row when it has no entry.            *)

VerifiedWriter(r, c, op, row) ==
    /\ Doing(r, "idle")
    /\ sessions[c].kv # 0
    /\ op \in {"create", "init", "copy"} => row \notin minted
    /\ op \in {"create", "rename", "meta"} => row \in Vaults
    /\ op \in {"init", "copy"} => row \in Attachments
    /\ cache \in {Cold, sessions[c].kv}
    /\ req' = [req EXCEPT ![r] =
                 [Idle EXCEPT !.pc = IF cache = Cold THEN "load_kv" ELSE "read",
                              !.op = op, !.row = row,
                              !.kv = sessions[c].kv,
                              !.secret = sessions[c].secret]]
    /\ minted' = IF op \in {"create", "init", "copy"}
                 THEN minted \cup {row} ELSE minted
    /\ UNCHANGED <<user, cipher, cache, sessions, outcome>>

LoadKeyVersion(r) ==
    /\ Doing(r, "load_kv")
    /\ req' = [req EXCEPT ![r].pc = "seed", ![r].seen = user.kv]
    /\ UNCHANGED <<user, cipher, cache, sessions, outcome, minted>>

SeedCache(r) ==
    /\ Doing(r, "seed")
    /\ cache' = req[r].seen
    /\ IF req[r].seen = req[r].kv
       THEN req' = [req EXCEPT ![r].pc = "read", ![r].seen = 0]
       ELSE Finish(r)
    /\ UNCHANGED <<user, cipher, sessions, outcome, minted>>

Put(S, s) == [i \in Items |-> IF i \in S THEN s ELSE Keep]

(* What the handler is about to store, from the client's ciphertext and    *)
(* from the rows it reads first.  update_vault_meta writes back the title  *)
(* and the note it read where the client sent none, and copy_attachment    *)
(* stores the wrap of the attachment it copies.                            *)
Stores(r) ==
    LET row == req[r].row
        own == req[r].secret
    IN CASE req[r].op = "create" -> {Put({Title(row)}, own)}
         [] req[r].op = "rename" /\ Exists(row) -> {Put({Title(row)}, own)}
         [] req[r].op = "meta" /\ Exists(row) ->
              {[Put({Title(row)}, t) EXCEPT ![Note(row)] = n] :
                 t \in {own, cipher[Title(row)]},
                 n \in {own, None, cipher[Note(row)]}}
         [] req[r].op = "init" /\ Exists(VaultOf[row]) -> {Put({Wrap(row)}, own)}
         [] req[r].op = "copy" ->
              {Put({Wrap(row)}, cipher[Wrap(a)]) :
                 a \in {b \in Attachments : VaultOf[b] = VaultOf[row] /\ Exists(b)}}
         [] req[r].op = "delete" /\ Exists(row) ->
              {Put({i \in Items :
                      Row(i) = row \/ (i[1] = "wrap" /\ VaultOf[Row(i)] = row)},
                   None)}
         [] OTHER -> {}

ReadRow(r) ==
    /\ Doing(r, "read")
    /\ \/ \E put \in Stores(r) :
            req' = [req EXCEPT ![r] = [Idle EXCEPT !.pc = "write", !.op = req[r].op,
                                           !.row = req[r].row, !.put = put]]
       \/ Finish(r)     \* not found, over quota, or a failed read
    /\ UNCHANGED <<user, cipher, cache, sessions, outcome, minted>>

(* An UPDATE or DELETE of a row that is gone changes nothing; an INSERT    *)
(* into a vault that is gone fails.                                        *)
Writable(r) ==
    CASE req[r].op = "create" -> TRUE
      [] req[r].op \in {"init", "copy"} -> Exists(VaultOf[req[r].row])
      [] OTHER -> Exists(req[r].row)

Touched(r) == {Row(i) : i \in {j \in Items : req[r].put[j] # Keep}}

WriteRow(r) ==
    /\ Doing(r, "write")
    /\ IF req[r].op \in {"create", "init", "copy"}
       THEN ~UserLocked
       ELSE Touched(r) \cap Locked = {}
    /\ cipher' = IF Writable(r)
                 THEN [i \in Items |-> IF req[r].put[i] = Keep
                                       THEN cipher[i] ELSE req[r].put[i]]
                 ELSE cipher
    /\ Finish(r)
    /\ UNCHANGED <<user, cache, sessions, outcome, minted>>

-----------------------------------------------------------------------------
(* The rotation: the manifest and the bundle built from it.                *)

RotationManifest(r, c) ==
    /\ Doing(r, "idle")
    /\ sessions[c].kv # 0
    /\ outcome[c].says # "asking"
    /\ \A q \in Requests : req[q].client = c =>
          req[q].pc \notin PostPcs \cup {"manifest_vaults", "manifest_attachments"}
    /\ req' = [req EXCEPT ![r] =
                 [Idle EXCEPT !.pc = "manifest_vaults", !.client = c,
                              !.kv = user.kv, !.secret = user.secret]]
    /\ outcome' = [outcome EXCEPT ![c] = NoOutcome]
    /\ UNCHANGED <<user, cipher, cache, sessions, minted>>

(* A title, a note or a wrap that the current password does not open stops *)
(* the rotation before anything is sent.                                   *)
Opens(r, S) == \A i \in S : cipher[i] = req[r].secret

ManifestVaults(r) ==
    /\ Doing(r, "manifest_vaults")
    /\ IF Opens(r, Stored({"title", "note"}))
       THEN req' = [req EXCEPT ![r].pc = "manifest_attachments",
                               ![r].items = Stored({"title", "note"})]
       ELSE Finish(r)
    /\ UNCHANGED <<user, cipher, cache, sessions, outcome, minted>>

(* The last read of the manifest, and the bundle under a fresh salt. *)
BuildPasswordRotationBundle(r) ==
    /\ Doing(r, "manifest_attachments")
    /\ \E s \in scenario.secrets \ minted :
         /\ IF Opens(r, Stored({"wrap"}))
            THEN req' = [req EXCEPT ![r].pc = "rotate", ![r].new = s,
                                    ![r].items = @ \cup Stored({"wrap"})]
            ELSE Finish(r)
         /\ minted' = minted \cup {s}
    /\ UNCHANGED <<user, cipher, cache, sessions, outcome>>

(* The handler ends without tokens, or its connection does: the form asks  *)
(* for the account's salt to find out what happened.                       *)
Asking(r) ==
    IF req[r].client = None THEN outcome
    ELSE [outcome EXCEPT ![req[r].client] =
            [says |-> "asking", old |-> req[r].secret, new |-> req[r].new]]

Refused(r) == Finish(r) /\ outcome' = Asking(r)

RotateCredentials(r) ==
    /\ Doing(r, "rotate")
    /\ IF req[r].secret = user.secret     \* verify_auth_token
       THEN Goto(r, "tx_begin") /\ outcome' = outcome
       ELSE Refused(r)
    /\ UNCHANGED <<user, cipher, cache, sessions, minted>>

-----------------------------------------------------------------------------
(* rotate_user_credentials: one transaction on a connection of its own.    *)

(* Mutant: trusts the version the manifest was built from. *)
LockUserUnchecked(r) ==
    /\ Doing(r, "tx_begin")
    /\ ~UserLocked
    /\ Goto(r, "tx_vaults")
    /\ UNCHANGED <<user, cipher, cache, sessions, outcome, minted>>

(* SELECT key_version ... FOR UPDATE, and the version is compared again. *)
LockUser(r) ==
    /\ Doing(r, "tx_begin")
    /\ ~UserLocked
    /\ IF req[r].kv + 1 = user.kv + 1
       THEN Goto(r, "tx_vaults") /\ outcome' = outcome
       ELSE Refused(r)
    /\ UNCHANGED <<user, cipher, cache, sessions, minted>>

(* The bundle names exactly the vaults on record, and has a note for every *)
(* vault that has one.                                                     *)
CheckVaults(r) ==
    /\ Doing(r, "tx_vaults")
    /\ IF /\ Stored({"title"}) = {i \in req[r].items : i[1] = "title"}
          /\ Stored({"note"}) \subseteq req[r].items
       THEN Goto(r, "tx_attachments") /\ outcome' = outcome
       ELSE Refused(r)
    /\ UNCHANGED <<user, cipher, cache, sessions, minted>>

(* Mutant: no coverage check of attachments. *)
CheckAttachmentsUnchecked(r) ==
    /\ Doing(r, "tx_attachments")
    /\ Goto(r, "tx_rewrite")
    /\ UNCHANGED <<user, cipher, cache, sessions, outcome, minted>>

CheckAttachments(r) ==
    /\ Doing(r, "tx_attachments")
    /\ IF Stored({"wrap"}) = {i \in req[r].items : i[1] = "wrap"}
       THEN Goto(r, "tx_rewrite") /\ outcome' = outcome
       ELSE Refused(r)
    /\ UNCHANGED <<user, cipher, cache, sessions, minted>>

RowsLeft(r) == {Row(i) : i \in req[r].items} \ req[r].rows

(* One UPDATE: vaults first, then attachments.  A row deleted since the    *)
(* check is not there to update.                                           *)
RewriteRow(r) ==
    /\ Doing(r, "tx_rewrite")
    /\ \E row \in RowsLeft(r) :
         /\ row \in Vaults \/ RowsLeft(r) \cap Vaults = {}
         /\ req' = IF Exists(row)
                   THEN [req EXCEPT ![r].rows = @ \cup {row}]
                   ELSE [req EXCEPT ![r].items = {i \in @ : Row(i) # row}]
    /\ UNCHANGED <<user, cipher, cache, sessions, outcome, minted>>

(* Mutant: leaves the file keys as they are. *)
CommitTxTitlesOnly(r) ==
    /\ Doing(r, "tx_rewrite")
    /\ RowsLeft(r) = {}
    /\ user' = [kv |-> req[r].kv + 1, secret |-> req[r].new]
    /\ cipher' = [i \in Items |-> IF i \in req[r].items /\ i[1] # "wrap"
                                  THEN req[r].new ELSE cipher[i]]

(* The transaction's writes, the user's row included, become visible. *)
CommitTx(r) ==
    /\ Doing(r, "tx_rewrite")
    /\ RowsLeft(r) = {}
    /\ user' = [kv |-> req[r].kv + 1, secret |-> req[r].new]
    /\ cipher' = [i \in Items |-> IF i \in req[r].items THEN req[r].new
                                  ELSE cipher[i]]

Commit(r) ==
    /\ CommitTx(r)
    /\ req' = [req EXCEPT ![r].pc = "publish", ![r].rows = {}, ![r].items = {}]
    /\ UNCHANGED <<cache, sessions, outcome, minted>>

(* The commit took effect, but the handler does not come to hear of it. *)
CommitUnheard(r) ==
    /\ Faults \cap {"lost_reply", "cancel"} # {}
    /\ CommitTx(r)
    /\ Refused(r)
    /\ UNCHANGED <<cache, sessions, minted>>

(* Mutant: forgets the cache. *)
PublishNothing(r) ==
    /\ Doing(r, "publish")
    /\ sessions' = IF req[r].client = None THEN sessions
                   ELSE [sessions EXCEPT ![req[r].client] =
                           [kv |-> req[r].kv + 1, secret |-> req[r].new]]
    /\ Finish(r)
    /\ UNCHANGED <<user, cipher, cache, outcome, minted>>

(* The new version goes into the cache; trusted devices are dropped; the   *)
(* tokens are sent, and the form puts the new master key in its session.   *)
Publish(r) ==
    /\ Doing(r, "publish")
    /\ cache' = req[r].kv + 1
    /\ sessions' = IF req[r].client = None THEN sessions
                   ELSE [sessions EXCEPT ![req[r].client] =
                           [kv |-> req[r].kv + 1, secret |-> req[r].new]]
    /\ Finish(r)
    /\ UNCHANGED <<user, cipher, outcome, minted>>

-----------------------------------------------------------------------------
(* A statement fails or the future is dropped: an open transaction is      *)
(* rolled back.                                                            *)
Abort(r) ==
    /\ req[r].pc # "idle"
    /\ \/ "cancel" \in Faults
       \/ "db" \in Faults /\ req[r].pc \notin {"sign_in", "refresh", "seed", "publish"}
    /\ Finish(r)
    /\ outcome' = IF req[r].pc \in PostPcs THEN Asking(r) ELSE outcome
    /\ UNCHANGED <<user, cipher, cache, sessions, minted>>

Crash ==
    /\ "crash" \in Faults
    /\ cache' = Cold
    /\ outcome' = [c \in Clients |->
         IF \E r \in Requests : req[r].client = c /\ req[r].pc \in PostPcs
         THEN Asking(CHOOSE r \in Requests : req[r].client = c /\ req[r].pc \in PostPcs)[c]
         ELSE outcome[c]]
    /\ req' = [r \in Requests |-> Idle]
    /\ UNCHANGED <<user, cipher, sessions, minted>>

(* The browser stops waiting for the rotation's answer; the handler may    *)
(* not know.                                                               *)
ConnectionLost(r) ==
    /\ req[r].pc \in PostPcs
    /\ req[r].client # None
    /\ req' = [req EXCEPT ![r].client = None]
    /\ outcome' = Asking(r)
    /\ UNCHANGED <<user, cipher, cache, sessions, minted>>

(* GET /auth/salt, compared with the old salt and the new one; the probe   *)
(* may fail too.  A committed rotation ends the session.                   *)
Probe(c) ==
    /\ outcome[c].says = "asking"
    /\ \/ /\ user.secret = outcome[c].old         \* "nothing was changed"
          /\ outcome' = [outcome EXCEPT ![c].says = "unchanged"]
          /\ sessions' = sessions
       \/ /\ user.secret = outcome[c].new         \* "your password was changed"
          /\ outcome' = [outcome EXCEPT ![c] = NoOutcome]
          /\ sessions' = [sessions EXCEPT ![c] = SignedOut]
       \/ /\ outcome' = [outcome EXCEPT ![c] = NoOutcome]   \* unknown
          /\ sessions' = sessions
    /\ UNCHANGED <<user, cipher, cache, req, minted>>

-----------------------------------------------------------------------------
Init ==
    /\ scenario \in Scenarios
    /\ user = [kv |-> 1, secret |-> FirstSecret]
    /\ cipher \in [Items -> {FirstSecret, None}]
    /\ \A i \in Items : cipher[i] # None => Row(i) \in scenario.rows
    /\ \A v \in Vaults : cipher[Title(v)] = None => cipher[Note(v)] = None
    /\ \A a \in Attachments : cipher[Title(VaultOf[a])] = None => cipher[Wrap(a)] = None
    /\ cache = Cold
    /\ sessions \in [Clients -> {SignedOut, user}]
    /\ \A c \in Clients \ scenario.clients : sessions[c] = SignedOut
    /\ req = [r \in Requests |-> Idle]
    /\ outcome = [c \in Clients |-> NoOutcome]
    /\ minted = {FirstSecret} \cup {Row(i) : i \in {j \in Items : cipher[j] # None}}

Write(r, c) == \E op \in WriteOps, row \in scenario.rows :
                  VerifiedWriter(r, c, op, row)

Token(r) == \/ \E c \in scenario.clients : SignIn(r, c) \/ Refresh(r, c)
            \/ SignedIn(r) \/ Refreshed(r)

WriteStep(r) == \/ \E c \in scenario.clients : Write(r, c)
                \/ LoadKeyVersion(r) \/ SeedCache(r) \/ ReadRow(r) \/ WriteRow(r)

Rotation(r) == \/ \E c \in scenario.clients : RotationManifest(r, c)
               \/ ManifestVaults(r) \/ BuildPasswordRotationBundle(r)
               \/ RotateCredentials(r) \/ LockUser(r) \/ CheckVaults(r)
               \/ CheckAttachments(r) \/ RewriteRow(r) \/ Commit(r)
               \/ CommitUnheard(r) \/ Publish(r)

Next ==
    /\ \/ \E r \in scenario.requests : \/ Token(r) \/ WriteStep(r) \/ Rotation(r)
                                       \/ Abort(r) \/ ConnectionLost(r)
       \/ \E c \in scenario.clients : Unlock(c) \/ Probe(c)
       \/ Crash
    /\ UNCHANGED scenario

Spec == Init /\ [][Next]_vars

-----------------------------------------------------------------------------
Request == [pc : Pcs, client : Clients \cup {None}, op : WriteOps,
            row : Vaults \cup Attachments \cup {None}, kv : Nat, seen : Nat,
            secret : Secrets, new : Secrets, items : SUBSET Items,
            rows : SUBSET (Vaults \cup Attachments),
            put : [Items -> Secrets \cup {None, Keep}]]

(* The shape of the state, and that the cache never runs ahead of the row: *)
(* a version is published after its commit.                                *)
TypeOK ==
    /\ user \in [kv : Nat, secret : Secrets]
    /\ cipher \in [Items -> Secrets \cup {None}]
    /\ cache \in Nat /\ cache <= user.kv
    /\ sessions \in [Clients -> [kv : Nat, secret : Secrets]]
    /\ req \in [Requests -> Request]
    /\ outcome \in [Clients -> [says : Answers, old : Secrets, new : Secrets]]
    /\ minted \subseteq Secrets \cup Vaults \cup Attachments

(* A token that carries the current key version belongs to a browser that  *)
(* holds the current master key.  The check of VerifiedWriter compares     *)
(* version numbers only; this is what makes it a check of keys, also when  *)
(* two browsers rotate from the same version at the same time.             *)
TokenNamesKeys ==
    \A c \in Clients : sessions[c].kv = user.kv => sessions[c].secret = user.secret

(* The commit of a rotation leaves no title and no file key under another  *)
(* secret than the new one, whatever was created, renamed, copied or       *)
(* deleted while the bundle was built and the transaction ran.  (A note    *)
(* is not covered: one that is added to a vault without a note, between    *)
(* the check and that vault's UPDATE, is preserved as it is.)              *)
CommitCoversKeys ==
    [][user' # user =>
         \A i \in Items : i[1] # "note" => cipher'[i] \in {None, user'.secret}]_vars

(* Everything on record opens with the current password, also after the    *)
(* writes that were under way when it changed.                             *)
NothingUnderDeadKeys ==
    \A i \in Items : cipher[i] \in {None, user.secret}

(* Once a rotation's handler has published its version, or died with the   *)
(* process, a session of an older version finds no way past the cache.     *)
StaleSessionsRefused ==
    cache \in {Cold, user.kv} \/ \E r \in Requests : Doing(r, "publish")

(* One request at a time, and a rotation's handler that hears of its       *)
(* commit and is not dropped after it.                                     *)
Orderly ==
    /\ \A r, q \in scenario.requests : r = q
    /\ Faults \cap {"lost_reply", "cancel"} = {}

(* In quiet circumstances nothing is left under an old key, by rotations   *)
(* one after the other from two browsers, with writes of stale sessions    *)
(* and cold caches between them.                                           *)
SerialStrandsNothing == Orderly => NothingUnderDeadKeys

(* The same of the cache: whatever order sign-ins, refreshes, rotations    *)
(* and restarts come in, it does not let a stale session through.          *)
SerialRefusesStale == Orderly => StaleSessionsRefused
=============================================================================
