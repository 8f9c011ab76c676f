# A TLA+ model of MindMapVault

MindMapVault keeps mind maps that only their owners can read. A browser, an installed
web app or a desktop application encrypts everything; a Rust server (`src/backend`, axum)
stores ciphertext, rows in PostgreSQL and objects in an S3 store; nothing but the calls
themselves ties the two stores together. This directory models the parts in which that
arrangement can go wrong: several stores that no transaction spans, requests that interleave
at every `await`, futures that are dropped when a client disconnects, keys that change while
writes are in flight, a client that works offline, and editors in which the user goes on
working while files, saves and loads are under way.

Contents: [1 the system](#1-the-system), [2 how the models are built](#2-how-the-models-are-built),
[3 the models](#3-the-models), [4 runs](#4-runs), [5 fairness](#5-fairness),
[6 proofs](#6-proofs), [7 where code and text disagree](#7-where-code-and-text-disagree),
[8 plan](#8-plan), [9 what is not modelled](#9-what-is-not-modelled).

## 1 The system

| Component | Code | State | Operations |
|---|---|---|---|
| Vault versions | `backend/src/routes/mindmaps_sql.rs`, `db/postgres/mind_map.rs`, `db/s3.rs` | a row per vault with the current version and a JSON history; one object per version | create, upload (through the server or with a presigned URL and a confirmation), download, delete a version, change retention, delete the vault |
| Share links | `mindmaps_sql.rs` (owner), `routes/share_public.rs` (recipient), `main.rs` (sweep) | a row per share and per shared attachment, their objects, the clock | create, add attachments, upload, complete, revoke, open, purge |
| Credentials and password rotation | `routes/auth_sql.rs`, `middleware/auth.rs`, `db/postgres/user.rs`, `PasswordRotationForm.tsx` | the user's row with its key version, an in-process cache of it, tokens in browsers, every column encrypted under the master key | sign in, refresh, unlock, rotate, guarded writes |
| Offline client | `frontend_app/src/storage/offline.ts`, `idb.ts`, `pages/EditorPage.tsx` | a cached vault, a queue of postponed calls, a status | load, save, drain, ask about a conflict, retry |
| Map editor | `components/MindMapEditor.tsx`, `components/mindmap/treeOps.ts`, `history.ts`, `notes/NoteEditor.tsx`, `pages/EditorPage.tsx` | the tree, its history, a clipboard, a text field, a note panel, callbacks in flight | edit, move, delete, undo, copy, cut, paste, upload, write notes, save, autosave |
| Evidence board | `board/BoardEngine.ts`, `components/BoardEditor.tsx`, `pages/BoardPage.tsx` | a scene of cards and connections, a tool, a dialog, the refs of a pending save | draw, connect, delete, upload, save after two seconds, leave, open |
| Session and unlock | `store/auth.ts`, `api/client.ts`, `crypto/trustedDevice.ts`, `components/UnlockModal.tsx`, `pages/LoginPage.tsx` | tokens and keys of one tab, a device record, the unlock screen | sign in (password, provider, new account), renew a token, unlock, remember a device, sign out, reload |
| Vault list | `pages/VaultsPage.tsx`, `pages/vaults/*` | rows, drafts, share counts, loads in flight | load, rename, change settings, create, delete, open |
| Vault attachments | `mindmaps_sql.rs` 519-803 | rows and objects in two phases | init, upload, complete, list, download, delete |
| Registration and invites | `auth_sql.rs`, `db/postgres/invite.rs` | invites, each for one account | register, claim, give back, create, revoke |
| Login throttle, verification budget | `middleware/throttle.rs`, `verify_budget.rs` | token buckets, failure counts and permits in memory | try, fail, succeed, prune |
| OIDC sign-in | `routes/oidc.rs`, `middleware/oidc_flow.rs`, `db/postgres/oidc.rs` | pending flows in memory, links of subjects to accounts, shell accounts | start, callback, enrol, purge |
| Blob migration | `db/blob_migration.rs`, `main.rs` | the rows, the objects at the base key, an advisory lock | copy each version to a key of its own, rewrite the row, delete the old object; before the server listens |
| Administration, settings | `routes/admin*.rs`, `frontend_admin` | an instance settings row, refreshed by a timer | settings, invites, locks, deletions, providers |
| Desktop vaults | `desktop` | files | save, load, delete |
| Cryptography | `frontend_app/src/crypto` | none | encrypt, wrap, derive |
| Import, export, rendering | `frontend_app/src/utils`, `packages` | none | convert, lay out, draw |

**How they interact.** The browser calls the server over HTTP; a handler calls the object
store and the database in turn. Vaults, shares and attachments share the store and are tied
by foreign keys (deleting a vault cascades to its shares' rows). Every route that writes
passes `VerifiedWriter`, so a rotation decides what every other component may store. The
offline adapter is a client of the vault routes and replays its queue through them. The pages of one
tab share the session store: signing in, a renewed token or an unlock renders whatever page is
open, and an unlock makes the vault list load. The map editor hands its tree to the page, which
saves it through the storage adapter; the board's page saves by itself. Three
tasks run in the background: the daily share sweep, the settings refresh and the pruning of
the throttle; a save and a deletion leave their clean-up to a spawned task.

**What is hard.** A handler reads a row once and writes it back several awaits later. The
object store and the database can disagree after any failure between two calls. A statement
may take effect and still report an error. A future that axum drops ends a handler at any
`await`. A rotation changes the meaning of every ciphertext at once. The offline queue is
replayed after the server has moved on. In the editors a callback resumes after an `await` with
what its closure held, while the user has edited, undone, left the page or signed out. A timer
outlives the page that set it. `PROJECT.json` lists each of these hazards at its
line, with the property that would notice it.

**What makes each component correct.**

* *Vault versions*: the current version is always one that can be named and loaded; a download
  never returns the bytes of another version; the history lists nothing that is gone; a save
  that was answered is not undone; nothing is stored forever without a row.
* *Share links*: nothing is served once a share is over; while it is open its bytes are there;
  what is marked as purged has no bytes; what ran out is cleared eventually.
* *Rotation*: nothing is left under a key no password yields; a token of the current version
  belongs to a browser with the current key; a stale session cannot write; the browser's account
  of what happened is true.
* *Offline client*: work that was taken is not lost; nothing another session saved is
  overwritten unseen; what the cache holds opens; the banner tells the truth.
* *Map editor*: whatever is dragged, pasted, undone or answered late, the map stays a tree and
  every node and file has one place; undo is an undo history; no typed word is lost; what is
  shown as saved is stored, and autosave stores everything in the end.
* *Evidence board*: a connection joins two cards that are there; "All saved" is true; what was
  drawn before leaving is stored.
* *Session*: tokens, name and keys belong to one account; a remembered device opens only the
  account it was remembered for; the unlock screen does not spin for ever.
* *Vault list*: the rows are the server's; saving settings leaves alone what was not edited; a
  row opens in the editor that can read what the vault holds.
* *Registration, sign-in and OIDC*: an invite admits one person and is not lost; wrong passwords
  are bounded by the lock-out however attempts interleave; an account's keys are established once;
  a person who enrolled is led to the same account by every later sign-in; a sign-up that was
  abandoned can be found and purged.
* *Blob migration*: interrupted or failed at any call, it makes no version unavailable, files none
  under another's key and undoes no save; what it drops from a history has no bytes.
* *Attachments, desktop* (see the plan): an available attachment has an object; a save survives a
  crash.

## 2 How the models are built

**A step is what runs between two awaits.** Every call to the database, the object store,
IndexedDB or the network is a step of its own, because other requests run in between. A
request is a record with a program counter (`pc`) and the local copy of what it has read;
`Begin`-like actions start one in a free slot, `Continue`-like actions take it on. Pure
computation between two calls belongs to the step that ends with the call. In a React page an
event handler is one step up to its first `await`, what follows an `await` is another, and the
page renders, with its effects, at the end of a step.

**Failures are actions.** A call that fails, a statement that takes effect without an answer,
a dropped future and a restarted process are each an action that continues, or ends, the handler
exactly as the code's error path does.

**Scenarios.** The variable `scenario` (`sitting` in `Board`) never changes; it says who acts, which inputs occur and
which failures strike in this behaviour. It serves two ends. A property that the code
promises only in quieter circumstances names them as an antecedent (`Orderly`,
`OneAtATime`, `StatementsSucceed`; in the pages `patient`: the user waits for an answer before
asking for something else; `calm`: the board is left alone while it is saved), which keeps properties honest about what they assume. And
one run covers several corners of the space, each small enough to finish, in place of a
product that is not. The proofs hold for every set of scenarios.

**Data.** A payload is its identity: a version id, a secret, the number of a save. Columns that
decide nothing (titles, presentation fields) are left out, except where they hold ciphertext under the
master key, in which case what counts is which key that is. The keys of the object store keep
their structure (a version's key is made from the base key and the id), since the code relies
on it.

**Ghosts.** A few variables record what happened for properties to read (`ghost` in
`VaultVersions`, `over` in `Shares`, parts of `user` in `OfflineSync`, `kept` and `twice` in
`MapEditor`, `last` in `Board`, `via`, `origin`, `raced`, `cut` and `guesses` in `Accounts`); the only guards that read one choose fresh data with it
(`TypeNote`, which types a word into one note only, and the board's fresh files). `filed` in
`BlobMigration` is no ghost: it is the content of the objects, which the migration reads back.

## 3 The models

### VaultVersions

One vault, from its creation or as an older release left it (history entries without a key,
the newest one's bytes at the base key). State: `life`, `row` (current version, history, retention limit), `objects`, the ids `minted`,
presigned uploads `pending`, requests `req`, the keys that clean-up tasks still have to
delete (`cleanup`).

| Handler | Actions |
|---|---|
| `create_mind_map` | `CreateMindMap`, `CreateUrl`, `CreateUrlFails`, `CreateUndo` |
| `get_upload_url`, the client's PUT, `confirm_upload` | `GetUploadUrl`, `ClientPut`, `ConfirmUpload`, `HeadObject(Fails)`, `SaveRow(Fails)`, `RollBackSave` |
| `upload_blob` | `UploadBlob`, `PutObject(Fails)`, then as above |
| `download_blob` | `DownloadBlob`, `GetObject` |
| `delete_vault_version` | `DeleteVaultVersion`, `DeleteVersionObject(Fails)`, `DeleteVersionRow` |
| `update_vault_meta` | `UpdateVaultMeta`, `UpdateMindMapMeta` |
| `delete_mind_map` | `DeleteMindMap`, `DeleteAttachmentsFails`, `ListVersionKeys`, `DeleteListedKey(Fails)`, `DeleteRow` |
| the spawned clean-up | `CleanupObject` |
| dropped future, process end | `Cancel`, `ServerCrash` |

`NormalizeVersionHistory`, `PruneHistory`, `PrunedKeys` and `ResolveBlobKey` are the pure
functions of the same names.

### BlobMigration

`VaultVersions` with the migration that runs at every start, before the server listens. `site` says
what cannot be told from the code: whether the store keeps versions, which old ones it still has, and
whether other replicas serve already (one that finds the advisory lock taken does not wait).
`filed` is what the key of each version was given; `mig` is the migration's place and locals
(`seen`: the row as read, `left` and `done`: the snapshots to come and those filed, `listed`: the
store's answer, `held`: the bytes in hand).

| Code | Actions |
|---|---|
| `run` for this vault, `is_migrated` | `ListMindMaps(Fails)` |
| `list_legacy_versions` | `ListLegacyVersions` (an error counts as no versions) |
| the loop over the history | `KeepKeyed`, `HeadCopyFinds`, `HeadCopyMisses` |
| `rescue_version` | `GetSource`, `PutCopy(Fails)`, `VerifyCopy`, `ReadFails` |
| `update_mind_map_upload`, deletion of the bare key | `WriteRow(Fails)`, `DeleteBareKey` |
| the server afterwards | `Serve` (all of `VaultVersions`' steps), `Restart` |

### Shares

One share and its attachments. State: `share` (the row), `att`, `expired` (the clock),
`objects`, `req`. The owner's handlers (`CreateShare`, `InitShareAttachment`,
`UploadShareBlob`, `CompleteShareUpload`, `RevokeShare` and the steps that follow each),
recipients' reads (`FindPublicShare`, `FindShareAttachment`, `DownloadShareObject`), the
sweep, on its timer or on an administrator's demand (`PurgeExpiredShares`,
`SweepObject(Fails)`, `MarkPurged`), and the environment: `Expire`, `DeleteVault` (the foreign
key's cascade), `Cancel`.

### KeyRotation

One account. State: the user's row, the cache, every stored column with the secret it is
encrypted under, the browsers with their tokens and keys, and the requests. `SignIn`,
`Refresh` and `Unlock` are the token routes; `VerifiedWriter`, `LoadKeyVersion`,
`SeedCache`, `ReadRow` and `WriteRow` are a guarded write; `RotationManifest`,
`BuildPasswordRotationBundle`, `RotateCredentials`, `LockUser`, `CheckVaults`,
`CheckAttachments`, `RewriteRow`, `Commit`, `CommitUnheard` and `Publish` are a rotation
from the form to the cache. The transaction's row locks and the wait of an `INSERT` for a lock
on the row its foreign key refers to are PostgreSQL's and are modelled as external.
`ConnectionLost` and `Probe` are what the form does when no answer comes.

### OfflineSync

One vault as an installed app sees it, and another session that saves the same vault. State:
`online`, `server` (envelope and versions), `cache` and `queue` (IndexedDB), `page` (the
adapter's variables, lost on a reload), `job` (the asynchronous operations under way),
`elsewhere`, `user` (the editor). A save encrypts under a new key, so *work n* is the
ciphertext of save *n* and opens only with *envelope n*: this is what makes the order of
`updateVault` and `uploadBlob` matter.

`StartLoad` .. `Store` are the load; `StartSave` .. `Count` the save, online or queued
(offline it ends in an error for the user because the preview cannot be uploaded, with the
work queued all the same); `Drained`, `Snapshot` .. `Report` are `drainSyncQueue`;
`Retry` and `StartChoice` are the conflict banner. On the server an update or an upload is one
step; what happens inside it is `VaultVersions`' subject.

### MindMapTree, UndoHistory, MapEditor

`MindMapTree` has the operations of `treeOps.ts` on a map, a function from ids to records that
name their parent. A subtree is the least closed set that contains its top, so nothing is
recursive. `MapEditor` is one open map: `map` is `root` and `rootRef`, `history` the entries and
cursor of `mindmap/history.ts`, `clip` the node clipboard, `naming` the open text field and the
30 ms timer that opens one, `panel` the note panel (`text` is the component's state, `doc` the
text in CodeMirror), `task` the callbacks that wait for an answer, `store` the stored files,
`saved` the map as stored and as being saved.

| Code | Actions |
|---|---|
| `addChild`, `addSibling`, `deleteSelected`, drag, edits of one or more nodes | `InsertNode`, `DeleteNodes`, `Reparent`, `EditFields`, `RemoveNodeImage` |
| the text field | `StartEditing`, `OpenInsertion`, `CommitEdit`, `CancelEdit` |
| `undo`, `redo` | `Undo`, `Redo` |
| duplicate, copy, cut, paste | `DuplicateNode`, `CopyNodes`, `CutNodes`, `PasteMoved`, `PasteCopies`, then `CopyFile` for each file and `FinishCopy` |
| files dropped on a node, attached, or its picture | `StartUpload`, `FinishUpload` |
| the note panel | `OpenNotes`, `TypeNote`, `SaveNotes`, `CloseNotes`, `DeleteNotes`, `StartNoteUpload`, `FinishNoteUpload`, `DeleteNotesAttachment` |
| saving and opening | `Save`, `Autosave`, `SaveOk`, `SaveFail`, `Reopen` |

`UndoHistory` is the abstract specification: past states, the present one, undone states.
`MapEditor` implements it under the mapping `Remembered`, which cuts the editor's entries at
the cursor.

### Board

The scene (`board`), the tool, selection, armed connector and dialog (`ui`), a file on its way
(`upload`), the refs of `BoardPage` (`page`: dirty, the pending board, its timer), the timer of a
page that was left (`late`), the calls of `flushSave` (`save`), what the server has (`stored`).
A save sends the envelope of a fresh key and then the ciphertext; `stored` has both keys, and a
board opens where they agree. `look` stands for a card's text, place, colour and a connection's
label. Every handler of `Interaction`, the dialogs and the toolbar is an action; saving is
`TimerFires`, `LateTimerFires`, `SaveByKey`, `SaveButton`, `UpdateVault`, `UploadBoard`,
`SaveFails`; `Leave` and `Reopen` are the visits. Its scenarios are called sittings, and its
`BoardSpec` shares no name with `Lobby`, so that one module can prove both.

### Session

One tab: `store` (the auth store), `page` (the route), `modal` (the unlock screen), `device`
(IndexedDB), `task` (callbacks that wait), `server` (key versions, registered devices,
accounts). `Become` is what every change of the store does to the page: the guard of the
routes, the unlock screen's mounting and its effect. A task keeps the tokens it captured. The server
takes its call in one step (`ServerReads`, `ServerCreates`, `ServerEnrols`, `ServerRegisters`,
`ServerRotates`, `ServerRenews`) and the tab hears the answer in another (`LoggedIn`, `ProfileRead`,
`Enrolled`, `WrappedMasterKey`, `SilentBundle`, `UnlockBundle`, `UnlockRegistered`, `ManifestRead`,
`Rotated`, `Saved`), so an answer may be older than the account by then: a bundle read before a
rotation is opened by the key of that time, whenever it arrives. A call may be refused with 401
(`Unauthorized`, answered and heard in one step, since what a request is refused for it stays refused
for) and renewed once (`TryRefresh`, `RefreshFails`), refused otherwise (`Refused`), or fail, before or
after the server did what was asked (`CallFails`). Key derivation and IndexedDB belong to the step
before them. A call that a reload cuts off was taken before the reload or never is.

Only writes ask for a token of the present version. The form that changes the passphrase does not: its
manifest and its commit take any authenticated session, and the current passphrase is what is typed,
not what the store holds; so a session that is behind may rotate. A scenario is *patient* when nobody signs
in or out, or leaves the page, while a call is under way, nor changes the passphrase here while one other than a
save is; it says nothing of other browsers or of the order of answers.

### Lobby

The vault list: `lobby` (rows with their drafts, share counts, what is on screen), `loads` (the
two loads an unlock starts, by what their closures hold), `asking` (the effect that lists active
shares), `calls` (renames, settings, creations, deletions), `server` (the rows). The server's
settings handler reads the row in one statement and writes all fields in another, as
`update_vault_meta` does. A note stands for every setting that is decrypted, labels for those
that are not; `Board` is the hidden label that tells a board from a map.

### LoginThrottle, Accounts

`LoginThrottle` is the failed-login record of one name as a value and the throttle's methods as
functions on it; each holds its mutex from end to end. Time is what the code asks of it: a record
is `stale` when its last failure is more than one lock-out ago, and its lock is still on or over.

`Accounts` has the tables (`users`, `identity` for `federated_identities`, `invite`, `open` for
`registration_enabled`, `provider`), what the server remembers (`flows`, `failures`, `tokens` for
the accounts somebody can act as) and the requests. An account with neither keys nor password is
a `Shell`: a federated sign-in that was not finished.

| Handler | Actions |
|---|---|
| `register` | `Register`, `RegisterInvited` (with `claim_registration_invite`), `RegisterLookup`, `RegisterCreate`, `ReleaseInvite` |
| `login` | `Login` (`lockout_remaining`), `LoginLoad`, `TakePermit`, `LoginJudged`; `LeftEnds` is the thread of a request that was dropped |
| `start`, `callback`, `resolve_account` | `OidcStart`, `Callback` (`take`), `CallbackLookup`, `CallbackCreate`, `CallbackLink` |
| `enrol` | `Enrol`, `EnrolWrite` |
| the console, `delete_profile` | `CreateInvite`, `RevokeInvite`, `SetRegistration`, `SetUserLock`, `DeleteAccount`, `SaveProvider`, `RemoveProvider` |
| the timer of `main.rs` | `Sweep`: the throttle's and the flows' `prune`, `purge_unenrolled_accounts` |
| time, dropped futures | `ExpireInvite`, `Grow`, `FlowIsLate`, `TimePasses`, `Cancel` |

## 4 Runs

`tlc -config <cfg> <MC module>`. Times are for two workers; all stay within a few minutes.

| Run | Checks | Shows |
|---|---|---|
| `vault` (648 k states, 2 min) | `CurrentIsListed`, `DownloadServesWanted`, `HistoryNeverDangles`, `CurrentIsLastSave` | the current version stays listed and a download never serves another version's bytes with two requests and every failure; one at a time, every listed version loads and the current one is the last save |
| `migration` (293 k, 2.5 min) | `CopiesKeepTheirBytes`, `LastSaveStaysCurrent`, `MigrationLosesNothing`, `OrphansAreCollected` | the migration of an old vault, interrupted, failed and run again, with requests between and after: no copy is filed under another version, no downloadable version is lost, no save undone; without failures every object that no row lists is deleted in the end |
| `shares` (547 k) | `ServedOnlyWhileOpen`, `OpenShareHasBytes`, `PurgedLeavesNothing` | a read that begins after the end of a share is refused, under every failure; an open share has its bytes while statements do not fail; a purged row has none when requests do not overlap |
| `shares_live` (10 k) | `ExpiredIsCleared` | the sweep clears an expired share through any number of failed deletions |
| `rotation` (1.4 M, 2.5 min) | `TokenNamesKeys`, `CommitCoversKeys`, `SerialStrandsNothing`, `SerialRefusesStale` | a version names one secret whatever interleaves; a commit leaves no title or file key behind; one request at a time, nothing is ever stranded and no stale session writes |
| `rotation_in_flight` | `NothingUnderDeadKeys` | violated: see section 7 |
| `offline` (1.6 M, 1 min) | `WorkIsKept`, `SettledVaultOpens`, `StatusIsHonest`, `DrainIsCareful` | while operations take turns, work is not lost, a drain uploads over nothing it was not made from, and the banner counts what waits; even when they overlap no entry leaves the queue without a reason |
| `editor` (356 k, 50 s) | `MapIsATree`, `OnePlaceEach`, `NotesAreKept`, `CleanMeansSaved`, `EditsSurviveAnswers`, `ImplementsUndo`, `AutosaveCatchesUp` | late answers of uploads and copies change their own node only; cut, paste, undo and failed calls leave a tree in which every id and file has one place; undo refines the abstract history; what is shown as saved is stored |
| `board` (203 k, 16 s) | `ConnectionsJoinCards`, `CalmWorkIsStored` | connections join two cards that are there, also after deletions behind an open dialog; for a user who leaves the board alone while it is saved, "All saved" is true after any failure, and without failures everything drawn is stored, the page left early or not |
| `session` (153 k, 1 min) | `SessionIsOneAccount`, `DeviceOpensOwn`, `UnlockIsAnswered` | however accounts follow one another on a tab, a device opens its own account only; for users who wait a session is one account's; the unlock screen is answered |
| `lobby` (1.06 M, 45 s) | `RowsTellServer`, `BoardsOpenAsBoards` | for users who wait, and an unlock whose loads are answered in order, rows are the server's when all is answered; a lobby opened with its keys counts the vaults with active shares; every vault opens in its own editor |
| `accounts` (176 k, 50 s) | `InviteAdmitsOne`, `SpentInvitesMadeAccounts`, `EnrolledStay`, `EnrolledIsReached`, `ShellsCanBeSwept`, `GuessesAreBounded` | with two requests at a time: a code admits one account under every failure but a lost reply, and where only writes fail it is spent for an account or given back; keys are established once and found again by later sign-ins; abandoned shells can be purged while callbacks end as they should; wrong passwords are bounded by the threshold and the attempts under way |

The type invariants are theorems (section 6; `MapEditor`'s is the part `PartsTypeOK` of
`EditorInv`) and not repeated in the runs, and so are all safety properties the runs check.

Each property of a passing run has a mutant in `PROJECT.json`: a plausible mistake in one
definition, written beside it, under which TLC finds the property violated.

**Bounds, and why they are enough.**

* *vault*: two new ids beside two old ones, retention 1 and 2. Two saves fill a history of two, so
  retention drops something, an old entry and a new one meet in one history, and two requests are
  what it takes for one to work from a stale row. Requests and unminted ids are symmetric. The
  view hides the ghost in scenarios whose properties do not read it.
* *migration*: the current version and one older, since what goes wrong is one being filed as the
  other; one new id and one request, so that a save comes between two runs; a store without versions,
  one that kept the older one, and a second replica. Three scenarios: no failures, crashes with lost
  replies, everything that may fail.
* *shares*: two requests and the timer, one attachment; or one request and two attachments, so that
  one deletion of several can fail.
* *rotation*: two rotations, so that there is a secret two versions old; one vault with a title and
  a note, one or two attachments, since coverage is checked per row; two browsers, since one of them must be
  stale.
* *offline*: two saves, so that the queue mixes entries of both; one save elsewhere, enough to
  move the server on; four versions, at which the server answers uploads with errors (the queue's retry limit of three
  is the code's own). Two drains under way are what the unguarded flag admits.
* *editor*: maps of two or three nodes that grow to six ids: a branch with a child, so that moving,
  cutting and copying take something along; a file that is also a picture; two callbacks at once, three
  files, two words; a history of three entries, so that the cap is reached; three or four things
  a user does. Each scenario combines two or three groups of operations, which is where they
  interfere; all of them at once would not finish.
* *board*: three cards, two files, two saves at once (a save by the timer and one by the
  user or by a page that was left), two to four things a user does.
* *session*: two accounts, two devices, two callbacks, five or six things a user does, three key
  versions: enough for one account to follow another while an answer for the first is on its way, and
  for a session left behind by another browser to rotate in its turn. Seven scenarios: in five the user
  is patient, in three tokens expire, in two calls fail and answers are lost; of each of these kinds one
  has a user who is not patient.
* *lobby*: two vaults, one of them a board, and room for a third; two names, two notes, one label; both loads
  of an unlock; four or five things a user does. Nine scenarios: in all but two the user waits, in all but two the two
  loads of an unlock are answered in order, in two calls fail.
* *accounts*: two requests, since every race here is between two (two claims, two enrolments, two
  first callbacks, two attempts at one name); one invite and one person, over which they race; two
  names and two key bundles, so that one account can have what another asks for; three ids and two
  sign-in flows, one more account than a race makes; a threshold of two with one permit, so that an
  attempt waits while another one locks the name. Nine scenarios: sign-up, federated sign-in with the
  timer, with deletions, with the provider changed, passwords with sign-up or with the timer, and two
  that mix the ways in, one request at a time.

Runs over a system that may stop (the vault is deleted, the secrets are used up) do not check
for deadlock, nor do the runs over pages, whose users may have had enough; `offline` does, and
an installed app is never stuck.

## 5 Fairness

* `BlobMigration`, with the steps of `VaultVersions`: weak fairness of `Migrate`, since `main` awaits
  `run`; of `Continue(r)`, since the runtime polls a handler whose call has
  returned; and of `CleanupObject(k)`, since a spawned task runs. Nothing obliges a client to
  begin a request.
* `Shares`: weak fairness of the sweep's start (the daily timer in `main.rs`) and of `Continue`;
  strong fairness of a deletion's success: a store that keeps coming back lets an attempt through now
  and then. The timer's retry is what turns that into progress, and what the
  mutant takes away.
* `MapEditor`: weak fairness of `Autosave`, a timer that is set again by every render, and of
  `SaveOk`: a save that was sent is answered. Users, uploads and failures are not fair.
* `Board`: weak fairness of both timers and of a save's two calls.
* `Session`: weak fairness of the effect of the unlock screen and, for each call under way, of the
  server's step or the answer, since a request that hangs ends with an error; users owe nothing.
* `KeyRotation`, `OfflineSync`, `Lobby` and `Accounts` claim nothing that must happen; their properties are safety
  properties, and no fairness is assumed.

## 6 Proofs

`tlapm <module>` checks the obligations of eight modules. Every safety property of the passing
runs, and every action property, is a theorem: it holds for any
number of requests, browsers, versions, attachments, nodes, files, cards, vaults, secrets, accounts,
names, invites, devices and restarts and for every set of
scenarios, under the named assumptions of the modules (`VersionsAssumption`, `BaseKeyAssumption`,
`SitesAssumption`, `SharesAssumption`, `KeyRotationAssumption`, `ThrottleAssumption`,
`AccountsAssumption`, `SessionAssumption`, `OfflineAssumption`, `NoneAssumption`, `TreeAssumption`,
`EditorAssumption`, `StartAssumption`, `BoardAssumption`, `LobbyAssumption`). They say that the constants have
their types and that distinct things are distinct, and besides

* `BoardAssumption`, `StartAssumption`: the board or map a scenario starts from is one its page could
  have saved (connections join cards that are there, no two of them the same pair; a tree, whose
  files have one node each);
* `SitesAssumption`: a store without versions has kept none of an older release's;
* `AccountsAssumption`, `BoardAssumption`: slots for requests and saves are finitely many, since guesses are
  counted by them and what is free is chosen among them.

| Theorem | States | Inductive invariant |
|---|---|---|
| *`VaultProofs`* | | |
| `TypeCorrect`, `CurrentAlwaysListed`, `DownloadsServeWanted` | `TypeOK`, `CurrentIsListed`, `DownloadServesWanted` | `VersionsInv` |
| `LastSaveIsCurrent`, `ListedVersionsLoad` | `CurrentIsLastSave`, `HistoryNeverDangles` | `SerialInv` on `VersionsInv` |
| `MigrationTypes`, `CopiesAreFaithful`, `MigratedDownloadsServeWanted` | `MigrationTypeOK`, `CopiesKeepTheirBytes`, `DownloadServesWanted` | `MigrationInv` |
| `MigrationKeepsTheLastSave` | `LastSaveStaysCurrent` | `SavedInv` on `MigrationInv` |
| `MigrationOnlyDropsLostVersions` | `MigrationLosesNothing` | `AlikeInv`, `RunInv`, `QuietInv` on `MigrationInv` |
| *`SharesProofs`* | | |
| `SharesTypeCorrect`, `RecipientsServedOnlyWhileOpen` | `TypeOK`, `ServedOnlyWhileOpen` | `SharesInv` |
| `OpenSharesHaveBytes` | `OpenShareHasBytes` | `BytesInv` |
| `PurgedSharesAreEmpty` | `PurgedLeavesNothing` | `PurgeInv` |
| *`KeyRotationProofs`* | | |
| `RotationTypeCorrect`, `TokensNameKeys`, `CommitsCoverKeys` | `TypeOK`, `TokenNamesKeys`, `CommitCoversKeys` | `RotationInv` |
| `NothingIsStranded`, `StaleTokensAreRefused` | `SerialStrandsNothing`, `SerialRefusesStale` | `SerialInv` on `RotationInv` |
| *`AccountsProofs`* | | |
| `AccountTypes`, `KeysAreNeverReplaced` | `TypeOK`, `EnrolledStay` | `TypeInv` |
| `InvitesAdmitOne`, `SpentInvitesMakeAccounts` | `InviteAdmitsOne`, `SpentInvitesMadeAccounts` | `InvitesInv`, `SpentInv` |
| `EnrolledAccountsAreReached`, `ShellsAreFound` | `EnrolledIsReached`, `ShellsCanBeSwept` | `ReachInv`, `SweepInv` |
| `GuessesStayBounded` | `GuessesAreBounded` | `GuessInv` |
| *`SessionProofs`* | | |
| `SessionTypes`, `DevicesOpenTheirOwn` | `TypeOK`, `DeviceOpensOwn` | `SessionInv` |
| `SessionsAreOneAccount` | `SessionIsOneAccount` | `PatientInv` on `SessionInv` |
| *`OfflineSyncProofs`* | | |
| `OfflineTypes` | `TypeOK` | `OfflineInv` |
| `TakenWorkIsKept`, `BannerCountsTheQueue`, `DrainsAreCareful` | `WorkIsKept`, `StatusIsHonest`, `DrainIsCareful` | `OrderlyInv` on `OfflineInv` |
| `SettledVaultsOpen` | `SettledVaultOpens` | `CalmInv` on `OrderlyInv` |
| *`MapEditorProofs`* | | |
| `MapStaysATree`, `OnePlaceForEach` | `MapIsATree`, `OnePlaceEach` | `EditorInv` with `PlaceInv`; `OwnInv`, `PictureInv` |
| `AnswersKeepEdits` | `EditsSurviveAnswers` | `EditorInv` |
| `NotesStayKept`, `CleanIsSaved` | `NotesAreKept`, `CleanMeansSaved` | `KeptInv`, `CleanInv` |
| `UndoIsImplemented` | `ImplementsUndo` (refinement of `UndoHistory`) | `EditorInv` |
| *`PagesProofs`* | | |
| `BoardTypes`, `ConnectionsAlwaysJoinCards` | `Board`'s `TypeOK`, `ConnectionsJoinCards` | `BoardInv` |
| `LobbyTypes` | `TypesOK` | `LobbyInv` |
| `RowsAreTheServers` | `RowsTellServer` | `PatientInv`, `TellInv`, `CountsInv` on `LobbyInv` |
| `RowsOpenTheirEditor` | `BoardsOpenAsBoards` | `KindInv` on `PatientInv`, `LobbyInv` |

Where a property has quieter circumstances as its antecedent, its invariant has the same antecedent, over
the scenario alone, and is inductive beside the invariant it builds on, which holds in all
scenarios. The quiet ones are longer to prove, not shorter: they describe what every intermediate state of every
handler owes to what has happened before it.

**VersionsInv.** That the current version is listed is not inductive: a handler writes back a
history it read long ago. The invariant therefore says of every request's *copy* what it says of
the row (`RowOK`: the current version is listed, each entry's key is its own, and of the old
versions only the one at the base key can be current), and what its program counter implies. Lemmas about `NormalizeVersionHistory`,
`PruneHistory` and `Without` show that the pure functions preserve it; `LegacyOK` says that nobody
uploads an old version again, so that the fallback of `ResolveBlobKey` to the base key finds that version's bytes
or none.

**SerialInv** (`VaultProofs`). With one request in flight, the row a request has read is the row there is, up
to its own UPDATE. So it can be said where every version is: a listed one is stored and no clean-up task
is about to delete it (`ListedOK`, `CleanupOK`), the current one is the last save that was
answered, or the one this request is about to answer (`CurrentOK`), and a completion knows the object it
is about to list (`SerialRequest`). A roll-back deletes what was not listed yet, which the same facts show.

**MigrationInv.** `VersionsInv`, which the requests preserve whatever the migration did, with what the
migration's locals carry from call to call: the row it read is a good one, the snapshots done have
their own key, and the version in hand is one an older release left, whose bytes are the ones held. An
older version is asked for only where the store listed it, and a store lists only if it keeps
versions: this is what keeps the current ciphertext from being filed as an older version's. The lemmas
on `Onward` show that the loop ends with the current version among those filed, so that the row it writes
is a good one.

**SavedInv, RunInv, QuietInv.** The last save stays current because the migration writes the row it has read
(`RunOK`: without replicas it is alone, and the row is `mig.seen` all the while). What a row drops, no
store had: `AlikeInv` says that an old version's entries agree on whether it has a key of its own, in
the row and in every copy; `RunOK` that each version with a key of its own is still to be handled or done,
and that what is done is stored; `QuietOK`, for a store that answers listings, that what the loop
has skipped was not among the versions the store offers.

**SharesInv, BytesInv.** A read in flight must remember that the share was open when it began:
`ServedOnlyWhileOpen` is strengthened by `OverIsRecorded` (whatever ended the share is visible to
`Open`, for good). `BytesInv` adds what a completion knows between its
look at the object and its UPDATE, and is stated for statements that do not fail. `PurgeInv`: with
one request or sweep at a time, whatever is stored belongs to a row (`KeysOnRecord`), so that the keys a
revocation or a sweep lists are all there are, and a purged share is revoked, so that no upload
begins.

**RotationInv.** A version names one secret because only the holder of the lock on the user's
row moves the version, and its bundle was made from a manifest of that version: `OneTx` (one
transaction at a time is past the lock) and `Fits` (per program counter, what a request has read
still agrees with the row, or its version is already too old to be used). `SerialInv` is
about the same requests one at a time: nothing is under a dead key and the cache knows the version of the row
(`StaleSessionsRefused`) between requests, and `SerialRequest` says, per program counter, what the one
request still owes: the rows it has yet to rewrite, the version it has yet to publish.

**BoardInv.** A board goes round: the scene is handed to the page, the page to a save (or to a
timer that outlives its page), the save to the server, and the next visit loads what the server
holds. That the scene's connections join its cards is therefore an invariant only together with
the same of every copy: `BoardInv` puts the scene, the page's last board, what each save and the
late timer carry and what is stored into the set `Boards` of sound boards, and lemmas about the
operations of the scene (`Add`, `Remove`, `Connect`, and those that change only looks, files or
connections) show that it stays in that set. It holds for any number of cards, saves and visits.

**InvitesInv, SpentInv.** That no two accounts have one invite needs the claim to outlive its
request: `InviteKept` says that a spent code is held by at most one sign-up, and that one which has
made an account is spent and held by nobody, so that no later failure gives it back. `SpentInv` adds that
an id nobody has got yet has no invite.

**ReachInv.** The account a person enrolled is the one they are led to because the callback links
before it hands out tokens: whoever holds a token of a federated account is led to it
(`HoldersAreLinked`), and keys come only from a holder (`EnrolledHaveHolders`). Between the look-up
and the link the request is the only first callback of its subject, unless the two raced
(`RequestsAreTrue`); links lead to accounts made for their subject, ids are not given twice.
`SweepInv` follows a shell from `create_user` to its link with the same parts.

**GuessInv.** The throttle counts after the password was judged, and a lock clears the count, so
that neither bounds the guesses by itself. While a name is not locked its guesses are counted; once
it is, those already past `lockout_remaining` may add one each, and their number only falls: `guesses` and
`Trying` together stay within the threshold and the slots.

**SessionInv.** What a device record opens is decided in two places, the browser's record and the
server's entry for the method, and an answer lies between them. `OwnMethod` says of a callback about to
register a method that no other account's record names it; `Fits` that the key it wraps is of the
account the record is for. Both survive a sign-out, a sign-in as somebody else and the clean-up
of the effect that began the call, because the callback captured the account with the key.
`PatientInv` is about all the tab holds, in the store, in the closure of a call or in an answer on its
way: its tokens, keys and names are of one account, no token is newer than the server's version, and
where any of its tokens is of that version all its keys are (`Holds`). A bundle on its way counts as a key, so it
may be old only while the tokens are; `Told` says the same of tokens on their way. A rotation that the server
took and whose answer is still to come, or lost, leaves old tokens with old keys. Which calls can meet (`Meets`)
is what makes this inductive: signing in is alone, and beside a rotation there are only saves, which
bring no keys.

**OfflineInv.** A drain works on a snapshot of the queue which other drains, the conflict banner and the
retry limit empty behind its back. `ReplayOK` ties every snapshot to the queue: entries with one key are one
call, queued at one time, because no key at or above `Limit` has been given yet (keys grow with the saves, and
where the editor is in its save says which of its two have been given). From there to `dequeue` a task
remembers that an upload from here succeeded after the call it holds was queued (`Sent`), and the server's
versions only grow. That `First` finds an entry needs a least key, for which a set of numbers has one by
well-foundedness.

**OrderlyInv, CalmInv.** Where operations take turns, `OrderlyInv` says what each knows of the others' work: work the
adapter took is the cache's bytes, a queued upload or the latest version (`KeptOK`); a drain's
snapshot has all that is queued unless it has met an obstacle (`StatusOK`); between the version a queued upload was
made from and the latest there are only this app's (`SpanOK`), so that an upload replaces what
the app has seen. `CalmInv`, without failing calls, follows a save's envelope and bytes through the queue: whatever stands between
them and the server is still queued, in the order they were taken, or in the hands of the task that
sends them.

**EditorInv, PlaceInv.** A map on the screen comes from the history, from the store, or from an edit of the one before; a
branch comes from the clipboard, in which nodes may long have been deleted. So every map that can come back is a
tree and every branch a forest below its tops, and no branch in a clipboard or a copy shares an id
with a map it may join: ids are used once (`used`), and a copy's are nobody's until it joins
(`PlaceInv`). Either alone is not inductive: pasting keeps a tree only if ids are disjoint, and they are
disjoint only because deleted branches were parts of trees. `Tree` is stated by closed sets (every set that
has the root and, with a node, its children is the whole map), which gives induction
over a tree without a recursive definition. `OwnInv` and `PictureInv` say the same of files;
`KeptInv` where each typed word is (in the map, the panel or a text that will be written), `CleanInv` that a
clean editor's map is stored or on its way. For the refinement, `UndoStep` shows that each step
changes the history as `UndoHistory` may, or not at all.

**LobbyInv, PatientInv, TellInv, CountsInv, KindInv.** `LobbyInv` is types, with the facts on which all else
rests: an id belongs to no row before its creation answers, and a page that was left shows and asks for nothing. For a
user who waits, each vault has one call at most, and what a call has read is what the server has
(`PatientInv`). Then `TellInv` follows the server's values: an answered load holds them, and rows that no load is
about to replace show them, except for vaults being made; of an unlock's two loads the one without keys is
not the last. `CountsInv` ties the list of shares to the rows it was asked for, for a lobby opened with keys.
`KindInv` follows the label of boards through the server, the rows, the drafts, the answers and the calls about to
write it.

Only model-checked: the liveness properties `ExpiredIsCleared`, `OrphansAreCollected`,
`AutosaveCatchesUp`, `CalmWorkIsStored` and `UnlockIsAnswered`, which need fairness and `ENABLED`
and are beyond the prover. (`CalmWorkIsStored` also says, of every state, that "All saved" is true; that
half is model-checked with the rest.) No theorem is about what a recursive
definition computes for every input, which the installed provers cannot show for lack of induction over data; the
modules define everything without recursion.

## 7 Where code and text disagree

One run states what a document says and finds a behaviour of the code that differs.

* `rotation_in_flight`: `PASSWORD_ROTATION.md:152` says the coverage check and the row lock close
  the window for writes already in flight. They do for what exists at the check; a write admitted before
  the commit takes effect after it.

Seen while modelling, not stated as runs, and the reason why some properties name quiet circumstances:

*Server and rotation*

* `main.rs:454` says the sweep also catches "anything an inline delete failed to remove". The
  sweep selects available rows; a share being revoked is no longer one.
* `auth_sql.rs:984` says a published version makes every other session's next write be refused. A
  sign-in that read the row before the rotation puts the old version back (hence `Orderly` in
  `SerialRefusesStale`).
* `PASSWORD_ROTATION.md:168` says the old salt means the rotation did not commit. It may be about to.
* `delete_vault_version` writes back the row it read, so a save that commits in between is undone
  (`mindmaps_sql.rs:896`; hence `Orderly` in `CurrentIsLastSave`).
* A repeated `confirm_upload` with retention 1 deletes the object it keeps; an upload in flight when
  its vault is deleted leaves an object no row lists.
* An upload that passed the check of `revoked` stores its object after the revocation deleted it; a repeated
  completion whose UPDATE fails deletes the object of an available share.
* A note added between the coverage check and its vault's UPDATE stays under the old key; a
  rotation whose handler is dropped between commit and publication leaves the old version in the
  cache.

*Blob migration*

* A replica that finds the lock taken serves at once (`blob_migration.rs:39`). A save there, between the
  migration's read of the row and its `update_mind_map_upload`, is undone and its version lost (hence
  `~site.replicas`).
* `blob_migration.rs:105` says that without a listing the older versions "were never stored".
  Any error of `list_object_versions` counts as no listing (273), so one refused or timed-out call on a
  store that keeps versions drops them from the history for good (hence the antecedent in
  `MigrationLosesNothing`).
* A migration that fails is logged and the server listens all the same (`main.rs:281-303`). A save then
  makes the version at the base key an older one; at the next start, without a listing, it is
  dropped like one that was never stored, and its bytes are deleted.
* Lines 184-185 say a base object left behind would double storage for good. A process that ends, or a
  deletion that fails, between the row and that deletion leaves it: `is_migrated` then skips the vault.

*Accounts*

* `auth_sql.rs:305` says "any failure has to give the invite back". The `?` on
  `load_user_by_username` (315) returns without it, and so do a dropped request and a release that
  fails (308-310): the code stays spent (hence the antecedent of `SpentInvitesMadeAccounts`).
* A `create_user` that takes effect and whose reply is lost gives the invite back all the same, and
  one code makes two accounts (hence `lost_reply` in `InviteAdmitsOne`).
* Two first callbacks of one person both create an account. The link of the second is ignored
  (`db/postgres/oidc.rs:129`), yet its session goes on to enrol; no later sign-in leads to what it
  enrolled (hence `raced` in `EnrolledIsReached`).
* `main.rs:72-76` says abandoned federated accounts do not pile up. One whose link was never written or
  was ignored has no link, and the purge asks for one (hence the antecedent of `ShellsCanBeSwept`).
* Deleting an account deletes its vaults' base objects and attachments (`auth_sql.rs:820`,
  `admin.rs:1026`); the per-version objects and those of shares stay in the store, although
  `SettingsModal.tsx:641` says every encrypted file goes.
* Comments at `auth_sql.rs:164` and `throttle.rs:228` say user names are matched case-insensitively. The throttle
  and the pseudo-salt lower-case them; the look-up (`db/postgres/user.rs:60`) and the unique column
  (`db/schema.rs:16`) do not. `Alice` and `alice` may be two accounts with one failed-login record, which signing
  in to either clears; `GuessesAreBounded` is about a record of the throttle, with one account to each.

*Offline client*

* `RELEASE_0.3.30.md:103` says a conflict is shown "instead of silently overwriting". The queued
  envelope has replaced the other session's by then.
* `RELEASE_0.3.30.md:76` says the app works without a connection. After an offline save the cache
  pairs new bytes with the old envelope, and the vault does not open.
* Opening a vault whose calls are queued replaces the cached bytes the queue is about to upload
  (`offline.ts:154`); two offline saves conflict with each other's upload; two drains can run at once
  (`offline.ts:179`); `draining` stays set if the queue cannot be read in the error path; a save
  made online before an older `updateVault` is sent gets that older envelope afterwards; an upload
  whose answer was lost is met as a conflict; an entry with no recorded version is never
  compared.
* Choosing the server's version in the banner removes the queued upload (`offline.ts:265`), but not
  an envelope that was sent before the conflict was met: the server keeps its bytes under the envelope of the
  work that was given up. With the faults that property excludes, a conflict takes another session's
  save (hence `elsewhere.saves = 0` in `SettledVaultOpens`); `dropped` there excludes the entry a drain
  gave up after its third attempt.
* At the bound of four versions the model's server refuses uploads, as a failing call would; hence
  `Latest < MaxVersions` in `SettledVaultOpens`.

*Map editor*

* `MindMapEditor.tsx:1371` says "closing or pressing Escape must never lose work". A file attached
  or deleted through the panel (1334, 1388-1415) rewrites the note from a text held earlier, and
  what was typed since is lost (hence `note_files` in `NotesAreKept`).
* In the desktop application a copied node gets new file ids and no files (952-953;
  `localAttachments.ts:1-17`).
* A save that failed leaves `isDirty` false (1487-1491), so that autosave does not try again before
  the next edit; that is why `CleanMeansSaved` looks at `failed`, too.

*Evidence board*

* `RELEASE_0.3.30.md:34` says the board is "encrypted and uploaded on every meaningful edit".
  `flushSave` (`BoardPage.tsx:246-248`) forgets a change made while it was saving; the button says "All
  saved" and nothing stores the change (hence `calm` in `CalmWorkIsStored`).
* Ctrl+S uses the handler of the first render and stores an empty title (`BoardPage.tsx:164-175`;
  hence `keyboard` in `CalmWorkIsStored`). A store that fails when a board is opened shows an empty
  board (125-133), which the next change stores. Two saves may interleave their four calls. A failed
  save is not tried again before the next change.
* An armed connector outlives its card (`BoardEngine.ts:1184`): a card deleted between the two presses leaves
  a connection to nothing (hence `armed` in `ConnectionsJoinCards`).
* Leaving within two seconds and opening again shows the board as it was before, until the timer has
  stored the newer one.

*Session*

* `UnlockModal.tsx:76` says a device record that opens nothing is dropped. After a rotation the server answers
  404 and the record is kept, to be tried at every unlock.
* The dialog says that a remembered device can be undone in the account settings; nothing calls
  `listUnlockMethods` or `revokeUnlockMethod`.
* Answers that arrive after a sign-out put keys, or a token, of the account that left into the
  session of the one that came (hence `patient` in `SessionIsOneAccount`).
* A password typed into the unlock screen is checked against the bundle it fetched (`UnlockModal.tsx:151`).
  If a silent unlock and a change of passphrase come first, its late answer puts the old keys back.
* `PASSWORD_ROTATION.md:117` says the rotating session gets fresh tokens and "continues seamlessly". A page
  that renders while a silent unlock is under way starts a second one. If the second opens the vault and
  the user rotates, the first, whose key bundle was answered before the rotation, may be heard of after it:
  `cancelled` is looked at before the call (`UnlockModal.tsx:81`) and not after it, the old key opens the old
  bundle, and the store has new tokens with the old master key. (Hence `patient` excludes a rotation while an
  unlock, typed or silent, is under way. With that condition of `RotateForm` dropped, TLC finds such a trace,
  in which the vault is opened by a passphrase whose device is being registered.)
* A session left behind by a rotation elsewhere may itself rotate: `rotation_manifest` and `rotate_credentials`
  (`auth_sql.rs:855`, 908) take an `AuthenticatedUser`, which has no version to compare. A form whose answer
  is lost leaves the tab with the old tokens and keys of a passphrase that was changed.
* A render of the page below hands the unlock screen a new `onUnlocked`, and the silent unlock begins again.

*Vault list*

* After an unlock, `onUnlocked` calls a `loadMaps` whose closure has no keys, beside the effect that
  loads with keys (`VaultsPage.tsx:495`, 849). If the keyless load ends last, rows show empty
  notes, and saving settings then erases the note on the server (750-762). The second load also clears the active-share
  counts (331) for good, since the list of ids has not changed; the comment at 332-335 and
  `vaultState.ts:151` say otherwise. (Hence `unlock` in `RowsTellServer` and `inOrder`.)
* Text typed while settings are being saved is overwritten by the drafts the handler captured (759-776);
  a second load re-enables the button, so that two saves of one row overlap.
* A rename and a settings save that overlap on the server revert one another (read, then write of every
  field). A load that began before a rename or a deletion brings the old row back.
* A board whose creation fails between the upload and `updateMeta` (650) opens in the map editor; a creation that fails
  after `createVault` leaves an empty vault.

## 8 Plan

Order: first what stores users' work and can lose it, then what grants access, then what runs
once.

1. **VaultVersions, Shares, KeyRotation, OfflineSync, MapEditor with MindMapTree and UndoHistory, Board,
   Session, Lobby, Accounts with LoginThrottle, BlobMigration on VaultVersions**: done as above.
2. **Abstract specifications**: a vault's history as a register of saves (a save appends, a
   deletion removes, a load returns one of them), implemented by `VaultVersions` one request at a time; a
   share as *open, then over*. The vault's abstract specification is also what the server's steps
   in `OfflineSync` should be, which ties the two modules.
3. **Attachments** (init, upload, complete, delete; with the vault's deletion), composed with
   `VaultVersions`' deletion.
4. **LocalStore**: the desktop application's files, written by a process that is interrupted.

Theorems to follow: the half of `CalmWorkIsStored` that is a safety property, and the refinements of
the abstract specifications above. Whatever is modelled next comes with its invariant.

## 9 What is not modelled

* *Cryptography*: primitives and formats; what matters here is which key a ciphertext belongs to.
* *Rendering, layout, import and export, administration pages*: functions of one document, or
  single-row reads and writes. They are the larger part of the front end's lines.
* *In the editors*: zoom, selection boxes, previews and thumbnails, the order of siblings, dialogs that
  only collect a value (each is an edit of `look`), the version panel, several tabs.
* *In the session*: several tabs, deletion of the account, revoking a device.
* *In the vault list*: previews, the storage summary, local mode, search and sorting, other browsers.
* *Several replicas of the server*: `BlobMigration` has one that serves while another migrates; the
  key-version cache is per process, and another replica's
  rotation does not reach it: `KeyRotation` has one process.
* *The migration's other vaults*: `run` reads every row of a user before it migrates the first; what
  is between two vaults is one user's listing, kept in `seen`.
* *The sweep's batch of 200*: it needs many shares; one share is modelled.
* *In the offline client*: renames (queued like `updateVault`), the list of vaults, creation and
  deletion of vaults, which need a connection, and historical versions, which bypass the adapter.
* *In the account*: profile, subscriptions and grants; of a deletion, the objects it deletes first (one
  step here: the row and what cascades from it).
* *At sign-in*: the address buckets of the throttle, discovery and ID tokens (a callback whose token
  does not hold only takes its flow), more than one provider.
