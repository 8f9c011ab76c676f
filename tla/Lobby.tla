------------------------------- MODULE Lobby -------------------------------
(***************************************************************************)
(* The list of vaults, pages/VaultsPage.tsx: how it is loaded, the rows'    *)
(* drafts, renaming, settings, creation of maps and boards, deletion, the   *)
(* counts of active shares, and which editor a row opens (vaultState.ts).   *)
(* The server's handlers are those of routes/mindmaps_sql.rs: settings are  *)
(* read in one statement and written, all of them, in another.              *)
(*                                                                          *)
(* A note stands for every setting that is decrypted, labels for those that *)
(* are not.  Previews and the storage summary are left out, and local mode. *)
(***************************************************************************)
EXTENDS Naturals, FiniteSets, Functions

CONSTANTS
    Vaults,    \* ids
    Names,
    Notes,
    Blank,     \* no note, no title
    Board,     \* BOARD_LABEL
    Tags,      \* labels of the user's own
    Scenarios

OpKinds == {"type", "tag", "rename", "save", "create", "board", "delete",
            "open", "back"}

(* seed are the vaults at the start, shared those with an active share.    *)
(* unlock: the page is opened without keys.  patient: nothing is asked of  *)
(* a vault while a call for it or a load is under way, and nobody returns   *)
(* to the lobby while one is; inOrder: the two    *)
(* loads after an unlock are answered in the order they were asked.        *)
ASSUME LobbyAssumption ==
    /\ Blank \notin Names /\ Blank \in Notes
    /\ Board \notin Tags
    /\ \A s \in Scenarios :
          /\ s.ops \subseteq OpKinds
          /\ s.steps \in Nat
          /\ s.seed \subseteq Vaults /\ s.boards \subseteq s.seed
          /\ s.shared \subseteq s.seed
          /\ {s.unlock, s.patient, s.inOrder, s.fails} \subseteq BOOLEAN

VARIABLES
    scenario,
    left,      \* how many more things the user does
    server,    \* the rows of mind_maps
    lobby,     \* the page's state
    loads,     \* loadMaps, by what its closure holds
    asking,    \* the effect that lists the active shares
    calls      \* the other calls under way

vars == <<scenario, left, server, lobby, loads, asking, calls>>

Ops(k) == k \in scenario.ops

Labels == SUBSET (Tags \cup {Board})

Kinds == {"absent", "empty", "map", "board", "gone"}

(* Deleted rows are gone, and no id is given twice.                        *)
Stored(k, n, t, ls) == [kind |-> k, name |-> n, note |-> t, labels |-> ls]
Absent == Stored("absent", Blank, Blank, {})
Listed == {v \in Vaults : server[v].kind \in {"empty", "map", "board"}}

(* visibleLabels                                                           *)
Visible(ls) == ls \ {Board}

(* toVaultRow, buildVaultDrafts                                            *)
Row(name, note, ls) ==
    [name |-> name, note |-> note, labels |-> ls, draftNote |-> note,
     draftLabels |-> ls, saving |-> FALSE]

Rows(items, keyed) ==
    [v \in DOMAIN items |-> IF keyed
        THEN Row(items[v].name, items[v].note, items[v].labels)
        ELSE Row(Blank, Blank, items[v].labels)]

Closures == {"keyless", "keyed"}
NotAsked == [stage |-> "none"]
Asked == [stage |-> "asked"]
Loading == {l \in Closures : loads[l].stage # "none"}

NoList == [stage |-> "none", ids |-> {}, shares |-> {}]

(* VaultsPage mounts: the lists are empty, and with keys an effect loads.  *)
Mounted(keys) ==
    [page |-> "lobby", keys |-> keys, rows |-> <<>>, counts |-> {},
     loading |-> keys, told |-> FALSE, opened |-> Blank]

Init ==
    /\ scenario \in Scenarios
    /\ left = scenario.steps
    /\ \E n \in Names, t \in Notes \ {Blank} :
          server = [v \in Vaults |->
              IF v \notin scenario.seed THEN Absent
              ELSE IF v \in scenario.boards THEN Stored("board", n, t, {Board})
              ELSE Stored("map", n, t, {})]
    /\ lobby = Mounted(~scenario.unlock)
    /\ loads = [l \in Closures |->
                  IF l = "keyed" /\ ~scenario.unlock THEN Asked ELSE NotAsked]
    /\ asking = NoList
    /\ calls = {}

UserDoes(k) == Ops(k) /\ left > 0 /\ left' = left - 1 /\ lobby.page = "lobby"

(* Rows are on screen unless a load hides them.                            *)
OnRow(v) == lobby.keys /\ ~lobby.loading /\ v \in DOMAIN lobby.rows

Idle(v) == scenario.patient => Loading = {} /\ ~\E c \in calls : c.vault = v

-----------------------------------------------------------------------------
(* The rows become new ones and the page is rendered; when the ids differ  *)
(* the effect that lists shares starts over and drops what was under way.  *)
ShowRowsDropsAsking(rows, counts, loading) ==
    /\ lobby' = [lobby EXCEPT !.rows = rows, !.counts = counts,
                              !.loading = loading]
    /\ asking' = IF DOMAIN rows = DOMAIN lobby.rows THEN asking
                 ELSE IF DOMAIN lobby.rows # {} THEN NoList
                 ELSE [stage |-> "asked", ids |-> DOMAIN rows, shares |-> {}]

ShowRows(rows, counts, loading) ==
    /\ lobby' = [lobby EXCEPT !.rows = rows, !.counts = counts,
                              !.loading = loading]
    /\ asking' = IF DOMAIN rows = DOMAIN lobby.rows THEN asking
                 ELSE IF DOMAIN rows = {} THEN NoList
                 ELSE [stage |-> "asked", ids |-> DOMAIN rows, shares |-> {}]

(* listShares of every row; what the requests return.                      *)
ListShares ==
    /\ asking.stage = "asked"
    /\ \/ asking' = [asking EXCEPT !.stage = "answered",
                                   !.shares = asking.ids \cap scenario.shared
                                                         \cap Listed]
       \/ /\ scenario.fails
          /\ \E ok \in SUBSET asking.ids :
                asking' = [asking EXCEPT !.stage = "answered",
                             !.shares = ok \cap scenario.shared \cap Listed]
    /\ UNCHANGED <<scenario, left, server, lobby, loads, calls>>

SharesListed ==
    /\ asking.stage = "answered"
    /\ lobby' = [lobby EXCEPT !.counts = asking.shares]
    /\ asking' = NoList
    /\ UNCHANGED <<scenario, left, server, loads, calls>>

(* UnlockModal's onUnlocked: the closure it calls is that of a render      *)
(* without keys, and the effect loads once more, with them.                *)
Unlock ==
    /\ lobby.page = "lobby" /\ ~lobby.keys
    /\ lobby' = [lobby EXCEPT !.keys = TRUE, !.loading = TRUE, !.told = FALSE]
    /\ loads' = [l \in Closures |-> Asked]
    /\ UNCHANGED <<scenario, left, server, asking, calls>>

(* The server answers a load: one statement.                               *)
ListVaults(l) ==
    /\ loads[l].stage = "asked"
    /\ loads' = [loads EXCEPT ![l] = [stage |-> "answered",
                    items |-> [v \in Listed |-> server[v]]]]
    /\ UNCHANGED <<scenario, left, server, lobby, asking, calls>>

InTurn(l) ==
    scenario.inOrder /\ l = "keyed" => loads["keyless"].stage = "none"

Loaded(l) ==
    /\ loads[l].stage = "answered" /\ InTurn(l)
    /\ loads' = [loads EXCEPT ![l] = NotAsked]
    /\ ShowRows(Rows(loads[l].items, l = "keyed"), {}, FALSE)
    /\ UNCHANGED <<scenario, left, server, calls>>

LoadFails(l) ==
    /\ scenario.fails
    /\ loads[l].stage # "none" /\ InTurn(l)
    /\ loads' = [loads EXCEPT ![l] = NotAsked]
    /\ lobby' = [lobby EXCEPT !.loading = FALSE, !.told = TRUE]
    /\ UNCHANGED <<scenario, left, server, asking, calls>>

-----------------------------------------------------------------------------
(* The drafts of a row.                                                    *)
SetDraftNote(v) ==
    /\ UserDoes("type") /\ OnRow(v)
    /\ \E t \in Notes \ {lobby.rows[v].draftNote} :
          lobby' = [lobby EXCEPT !.rows[v].draftNote = t]
    /\ UNCHANGED <<scenario, server, loads, asking, calls>>

(* A chip is added or removed; the board's label has none.                 *)
SetDraftLabels(v) ==
    /\ UserDoes("tag") /\ OnRow(v)
    /\ \E x \in Tags :
          LET ls == lobby.rows[v].draftLabels
          IN  lobby' = [lobby EXCEPT !.rows[v].draftLabels =
                           IF x \in Visible(ls) THEN ls \ {x} ELSE ls \cup {x}]
    /\ UNCHANGED <<scenario, server, loads, asking, calls>>

Dirty(r) == r.draftNote # r.note \/ r.draftLabels # r.labels

(* A call waits for its next answer at stage; live says that the page it   *)
(* was made from is still there; base is what the server read for it.      *)
Call(kind, v, stage, patch) ==
    [kind |-> kind, vault |-> v, stage |-> stage, live |-> TRUE,
     patch |-> patch, base |-> Absent]

Busy(kind) == \E c \in calls : c.kind = kind /\ c.live

HandleRenameConfirm(v) ==
    /\ UserDoes("rename") /\ OnRow(v) /\ Idle(v) /\ ~Busy("rename")
    /\ \E n \in Names :
          calls' = calls \cup {Call("rename", v, "read", [name |-> n])}
    /\ UNCHANGED <<scenario, server, lobby, loads, asking>>

HandleSaveMeta(v) ==
    LET r == lobby.rows[v]
    IN  /\ UserDoes("save") /\ OnRow(v) /\ Idle(v)
        /\ Dirty(r) /\ ~r.saving
        /\ calls' = calls \cup {Call("save", v, "read",
                        [note |-> r.draftNote, labels |-> r.draftLabels,
                         touched |-> r.draftNote # r.note])}
        /\ lobby' = [lobby EXCEPT !.rows[v].saving = TRUE]
        /\ UNCHANGED <<scenario, server, loads, asking>>

HandleDelete(v) ==
    /\ UserDoes("delete") /\ OnRow(v) /\ Idle(v) /\ ~Busy("delete")
    /\ calls' = calls \cup {Call("delete", v, "delete", <<>>)}
    /\ UNCHANGED <<scenario, server, lobby, loads, asking>>

(* handleCreate and handleImport; handleCreateBoard.                       *)
HandleCreate(kind) ==
    /\ UserDoes(kind) /\ lobby.keys /\ ~Busy(kind)
    /\ \E v \in Vaults, n \in Names :
          /\ server[v].kind = "absent" /\ \A c \in calls : c.vault # v
          /\ calls' = calls \cup {Call(kind, v, "create", [name |-> n])}
    /\ UNCHANGED <<scenario, server, lobby, loads, asking>>

-----------------------------------------------------------------------------
Becomes(c, d) == calls' = (calls \ {c}) \cup {d}

(* The client hears of an error, whatever the server did.                  *)
Told(c) == IF ~c.live THEN lobby
           ELSE IF c.kind = "save" /\ c.vault \in DOMAIN lobby.rows
             THEN [lobby EXCEPT !.told = TRUE, !.rows[c.vault].saving = FALSE]
           ELSE [lobby EXCEPT !.told = TRUE]

CallFails(c) ==
    /\ scenario.fails
    /\ calls' = calls \ {c}
    /\ lobby' = Told(c)
    /\ UNCHANGED <<scenario, left, server, loads, asking>>

(* find_owned                                                              *)
ReadMeta(c) ==
    /\ c.stage = "read"
    /\ IF c.vault \in Listed
         THEN /\ Becomes(c, [c EXCEPT !.stage = "write", !.base = server[c.vault]])
              /\ UNCHANGED lobby
         ELSE calls' = calls \ {c} /\ lobby' = Told(c)
    /\ UNCHANGED <<scenario, left, server, loads, asking>>

(* What the handler writes over the row it read.                           *)
PatchedVisible(c) ==
    IF c.kind = "rename" THEN [c.base EXCEPT !.name = c.patch.name]
    ELSE IF c.kind = "board" THEN [c.base EXCEPT !.labels = {Board}]
    ELSE [c.base EXCEPT !.note = c.patch.note, !.labels = Visible(c.patch.labels)]

Patched(c) ==
    IF c.kind = "rename" THEN [c.base EXCEPT !.name = c.patch.name]
    ELSE IF c.kind = "board" THEN [c.base EXCEPT !.labels = {Board}]
    ELSE [c.base EXCEPT !.note = c.patch.note, !.labels = c.patch.labels]

(* The blob and its version are columns the statement does not name, and   *)
(* that it finds no row is not an error.                                   *)
Written(c) ==
    IF c.vault \in Listed
      THEN server' = [server EXCEPT ![c.vault] =
                        [Patched(c) EXCEPT !.kind = server[c.vault].kind]]
      ELSE UNCHANGED server

(* The row after a rename or a save: the drafts that were sent, whatever   *)
(* was typed since.                                                        *)
Answered(c) ==
    LET r == lobby.rows[c.vault]
    IN  IF ~c.live \/ c.vault \notin DOMAIN lobby.rows THEN lobby
        ELSE IF c.kind = "rename"
          THEN [lobby EXCEPT !.rows[c.vault].name = c.patch.name]
        ELSE [lobby EXCEPT !.rows[c.vault] =
                Row(r.name, c.patch.note, c.patch.labels)]

WriteMeta(c) ==
    /\ c.stage = "write" /\ c.kind # "board"
    /\ Written(c)
    /\ calls' = calls \ {c}
    /\ \/ lobby' = Answered(c)
       \/ scenario.fails /\ lobby' = Told(c)
    /\ UNCHANGED <<scenario, left, loads, asking>>

DeleteVault(c) ==
    /\ c.stage = "delete"
    /\ calls' = calls \ {c}
    /\ server' = IF c.vault \in Listed THEN [server EXCEPT ![c.vault].kind = "gone"]
                 ELSE server
    /\ \/ /\ c.vault \in Listed /\ c.live
          /\ ShowRows(Restrict(lobby.rows, DOMAIN lobby.rows \ {c.vault}),
                      lobby.counts, lobby.loading)
       \/ /\ c.live => c.vault \notin Listed \/ scenario.fails
          /\ lobby' = Told(c) /\ UNCHANGED asking
    /\ UNCHANGED <<scenario, left, loads>>

(* Another page: the lobby unmounts, and what its calls return later       *)
(* reaches no row.                                                         *)
Navigate(path, v, cs) ==
    /\ lobby' = [Mounted(TRUE) EXCEPT !.page = path, !.opened = v,
                                      !.loading = FALSE]
    /\ loads' = [l \in Closures |-> NotAsked]
    /\ asking' = NoList
    /\ calls' = {[c EXCEPT !.live = FALSE] : c \in cs}

(* createVault, then uploadBlob, as far as they are heard of; then a map   *)
(* is fetched and opened, and a board labelled.                            *)
CreateVault(c) ==
    /\ c.stage = "create"
    /\ server' = [server EXCEPT ![c.vault] = Stored("empty", c.patch.name, Blank, {})]
    /\ \/ Becomes(c, [c EXCEPT !.stage = "upload"]) /\ UNCHANGED lobby
       \/ scenario.fails /\ calls' = calls \ {c} /\ lobby' = Told(c)
    /\ UNCHANGED <<scenario, left, loads, asking>>

UploadBlob(c) ==
    /\ c.stage = "upload"
    /\ IF c.vault \in Listed
         THEN /\ server' = [server EXCEPT ![c.vault].kind =
                              IF c.kind = "board" THEN "board" ELSE "map"]
              /\ \/ /\ Becomes(c, [c EXCEPT !.stage =
                                   IF c.kind = "board" THEN "read" ELSE "get"])
                    /\ UNCHANGED lobby
                 \/ scenario.fails /\ calls' = calls \ {c} /\ lobby' = Told(c)
         ELSE UNCHANGED server /\ calls' = calls \ {c} /\ lobby' = Told(c)
    /\ UNCHANGED <<scenario, left, loads, asking>>

MapCreated(c) ==
    /\ c.stage = "get"
    /\ IF c.vault \in Listed
         THEN Navigate("map", c.vault, calls \ {c})
         ELSE calls' = calls \ {c} /\ lobby' = Told(c) /\ UNCHANGED <<loads, asking>>
    /\ UNCHANGED <<scenario, left, server>>

BoardCreated(c) ==
    /\ c.stage = "write" /\ c.kind = "board"
    /\ Written(c)
    /\ \/ Navigate("board", c.vault, calls \ {c})
       \/ /\ scenario.fails
          /\ calls' = calls \ {c} /\ lobby' = Told(c) /\ UNCHANGED <<loads, asking>>
    /\ UNCHANGED <<scenario, left>>

(* deriveVaultState: the label says which editor opens the vault.          *)
PathOf(r) == IF Board \in r.labels THEN "board" ELSE "map"

Open(v) ==
    /\ UserDoes("open") /\ OnRow(v) /\ Idle(v)
    /\ Navigate(PathOf(lobby.rows[v]), v, calls)
    /\ UNCHANGED <<scenario, server>>

Back ==
    /\ Ops("back") /\ left > 0 /\ left' = left - 1
    /\ lobby.page # "lobby"
    /\ scenario.patient => calls = {}
    /\ lobby' = Mounted(TRUE)
    /\ loads' = [loads EXCEPT !["keyed"] = Asked]
    /\ UNCHANGED <<scenario, server, asking, calls>>

Next ==
    \/ Unlock
    \/ \E l \in Closures : ListVaults(l) \/ Loaded(l) \/ LoadFails(l)
    \/ ListShares \/ SharesListed
    \/ \E v \in Vaults :
          \/ SetDraftNote(v) \/ SetDraftLabels(v)
          \/ HandleRenameConfirm(v) \/ HandleSaveMeta(v) \/ HandleDelete(v)
          \/ Open(v)
    \/ \E kind \in {"create", "board"} : HandleCreate(kind)
    \/ \E c \in calls :
          \/ ReadMeta(c) \/ WriteMeta(c) \/ DeleteVault(c) \/ CallFails(c)
          \/ CreateVault(c) \/ UploadBlob(c) \/ MapCreated(c) \/ BoardCreated(c)
    \/ Back

Spec == Init /\ [][Next]_vars

-----------------------------------------------------------------------------
Settled == lobby.page = "lobby" /\ lobby.keys /\ Loading = {} /\ calls = {}

SharesTold ==
    asking = NoList /\ ~scenario.fails =>
        \A v \in DOMAIN lobby.rows \cap Listed :
            v \in lobby.counts <=> v \in scenario.shared

(* VaultsPage.tsx: once nothing is under way and no error is on screen,    *)
(* the rows of a user who waited for answers are the vaults of the server, *)
(* with the titles, notes and labels it has, provided the loads of an      *)
(* unlock were answered in order; and in a lobby that was opened with its  *)
(* keys the vaults with active shares, and no others, count as shared.     *)
RowsTellServer ==
    Settled /\ ~lobby.told =>
        /\ scenario.patient /\ scenario.inOrder =>
              /\ DOMAIN lobby.rows = Listed
              /\ \A v \in Listed :
                    LET r == lobby.rows[v] s == server[v]
                    IN  r.name = s.name /\ r.note = s.note /\ r.labels = s.labels
        /\ ~scenario.unlock => SharesTold

(* RELEASE_0.3.30.md:38: a row leads to the editor that can read what the  *)
(* vault holds, after any number of edits of its labels.                   *)
BoardsOpenAsBoards ==
    scenario.patient /\ ~scenario.fails =>
        /\ lobby.page = "map" => server[lobby.opened].kind # "board"
        /\ lobby.page = "board" => server[lobby.opened].kind # "map"
=============================================================================
