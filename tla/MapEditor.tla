----------------------------- MODULE MapEditor -----------------------------
(***************************************************************************)
(* The mind map editor (frontend_app/src/components/MindMapEditor.tsx, with *)
(* mindmap/history.ts, useMindMapHistory.ts and notes/NoteEditor.tsx) as    *)
(* EditorPage.tsx uses it: one open map, edited by its user while uploads,  *)
(* file copies and a save are under way.                                    *)
(*                                                                          *)
(* An event handler is one step, up to its first await; what follows an     *)
(* await is a step of its own, and anything may come in between.  The page  *)
(* is rendered between two steps, so that a handler's `root` is what        *)
(* rootRef holds when it runs; what a callback captured before an await is  *)
(* in its task.                                                             *)
(***************************************************************************)
EXTENDS MindMapTree, Sequences

CONSTANTS
    Words,         \* what can be typed into a note
    Files,         \* ids of stored files
    Tasks,         \* asynchronous callbacks that may be under way at once
    HISTORY_LIMIT,
    Scenarios

(* The groups of things a user may do.                                     *)
OpKinds == {"structure", "fields", "rename", "clipboard", "duplicate",
            "upload", "note", "note_files", "undo", "save", "open"}

(* start is the map as opened, edits how many things the user does, local  *)
(* whether files are kept beside the map (the desktop application),        *)
(* autosave whether the "change" or an interval mode is on, fails whether  *)
(* calls may fail.                                                         *)
ASSUME EditorAssumption ==
    /\ HISTORY_LIMIT \in Nat \ {0}
    /\ None \notin Words \cup Files \cup Tasks
    /\ Words \cap Files = {}
    /\ \A s \in Scenarios :
          /\ s.ops \subseteq OpKinds
          /\ s.edits \in Nat
          /\ {s.local, s.autosave, s.fails} \subseteq BOOLEAN

VARIABLES
    scenario,
    left,      \* how many more things the user does
    map,       \* root and rootRef
    history,   \* entries and the cursor into them
    dirty,     \* isDirty
    clip,      \* nodeClipboard
    naming,    \* editingId, and the node a timer is about to open
    panel,     \* the note panel
    task,      \* the callbacks that are waiting for an answer
    store,     \* the stored files, and the node the server has for each
    saved,     \* the map as stored; being saved; whether the last save failed
    used,      \* the ids given out so far
    twice,     \* ghost: ids that were put into a map which had them
    kept       \* ghost: the words of each note that the user did not remove

vars == <<scenario, left, map, history, dirty, clip, naming, panel, task,
          store, saved, used, twice, kept>>

Node == [parent : Ids \cup {None}, named : BOOLEAN, look : BOOLEAN,
         note : SUBSET (Words \cup Files), files : SUBSET Files,
         image : Files \cup {None}]

IsBranch(b) == \E D \in SUBSET Ids : b \in [D -> Node]

(* A file belongs to one node; a picture is a file of its node.            *)
OneOwner(m) ==
    \A n, k \in DOMAIN m : n # k => m[n].files \cap m[k].files = {}
Pictured(m) == \A n \in DOMAIN m : m[n].image # None => m[n].image \in m[n].files

(* What is opened is a map that was saved; None is not a map.              *)
ASSUME StartAssumption ==
    /\ ~IsBranch(None)
    /\ \A s \in Scenarios :
          /\ IsBranch(s.start) /\ Tree(s.start)
          /\ OneOwner(s.start)
          /\ "note_files" \in s.ops \/ Pictured(s.start)

NewNode(p) == [parent |-> p, named |-> FALSE, look |-> FALSE, note |-> {},
               files |-> {}, image |-> None]

NoClip == [branch |-> <<>>, tops |-> {}, cut |-> FALSE]

(* text is notesText, doc the text in CodeMirror; selected is selectedId,  *)
(* which is the open node unless a callback moves it.                      *)
ClosedPanel == [open |-> FALSE, node |-> None, text |-> {}, doc |-> {},
            selected |-> None]

Idle == [kind |-> "idle"]

NotNaming == [id |-> None, soon |-> None]

Ops(k) == k \in scenario.ops

Holds(n) == n \in DOMAIN map
-----------------------------------------------------------------------------
(* History.                                                                *)

LastOf(s, n) == IF Len(s) > n THEN SubSeq(s, Len(s) - n + 1, Len(s)) ELSE s

PushHistoryKeepsTail(h, m) ==
    LET entries == LastOf(Append(h.entries, m), HISTORY_LIMIT)
    IN  [entries |-> entries, index |-> Len(entries)]

PushHistory(h, m) ==
    LET upto == Append(SubSeq(h.entries, 1, h.index), m)
        entries == LastOf(upto, HISTORY_LIMIT)
    IN  [entries |-> entries, index |-> Len(entries)]

InitHistory(m) == [entries |-> <<m>>, index |-> 1]

Mutate(m) ==
    /\ map' = m
    /\ history' = PushHistory(history, m)
    /\ dirty' = TRUE

Unmutated == UNCHANGED <<map, history, dirty>>

WordsOf(m) == [n \in Ids |->
                 IF n \in DOMAIN m THEN m[n].note \cap Words ELSE {}]

Init ==
    /\ scenario \in Scenarios
    /\ left = scenario.edits
    /\ map = scenario.start
    /\ history = InitHistory(map)
    /\ dirty = FALSE
    /\ clip = NoClip
    /\ naming = NotNaming
    /\ panel = ClosedPanel
    /\ task = [t \in Tasks |-> Idle]
    /\ store = [has |-> UNION {map[n].files : n \in DOMAIN map},
                given |-> UNION {map[n].files : n \in DOMAIN map}]
    /\ saved = [map |-> map, now |-> None, failed |-> FALSE]
    /\ used = DOMAIN map
    /\ twice = {}
    /\ kept = WordsOf(map)

(* Something the user does on the canvas: the note panel is a modal        *)
(* dialog, and a click elsewhere commits an open text field first.         *)
UserDoes(k) ==
    /\ Ops(k)
    /\ left > 0
    /\ left' = left - 1
    /\ UNCHANGED scenario

OnCanvas == ~panel.open /\ naming.id = None

FreshIds == Ids \ used
FreshFiles == Files \ store.given
-----------------------------------------------------------------------------
(* Structure and fields.                                                   *)

(* addChild and addSibling: the new node's text field opens 30 ms later.   *)
InsertNode ==
    /\ UserDoes("structure") /\ OnCanvas
    /\ \E p \in DOMAIN map, new \in FreshIds :
          /\ naming.soon = None
          /\ Mutate(Attach(map, [k \in {new} |-> NewNode(p)], {new}, p))
          /\ used' = used \cup {new}
          /\ naming' = [naming EXCEPT !.soon = new]
    /\ UNCHANGED <<clip, panel, task, store, saved, twice, kept>>

DeleteNodes ==
    /\ UserDoes("structure") /\ OnCanvas
    /\ \E ids \in SUBSET DOMAIN map :
          /\ ids \ {Root} # {}
          /\ Mutate(RemoveNodes(map, ids))
    /\ UNCHANGED <<clip, naming, panel, task, store, saved, used, twice, kept>>

Reparent ==
    /\ UserDoes("structure") /\ OnCanvas
    /\ \E n, p \in DOMAIN map :
          /\ CanReparent(map, n, p)
          /\ Mutate(ReparentNode(map, n, p))
    /\ UNCHANGED <<clip, naming, panel, task, store, saved, used, twice, kept>>

(* Every edit of fields of one node or of the selected ones: colour, icon, *)
(* checkbox, progress, dates, links, tags, place, order among siblings.    *)
EditFields ==
    /\ UserDoes("fields") /\ OnCanvas
    /\ \E n \in DOMAIN map : Mutate([map EXCEPT ![n].look = ~@])
    /\ UNCHANGED <<clip, naming, panel, task, store, saved, used, twice, kept>>

RemoveNodeImage ==
    /\ UserDoes("fields") /\ OnCanvas
    /\ \E n \in DOMAIN map :
          map[n].image # None /\ Mutate([map EXCEPT ![n].image = None])
    /\ UNCHANGED <<clip, naming, panel, task, store, saved, used, twice, kept>>

StartEditing ==
    /\ UserDoes("rename") /\ OnCanvas
    /\ \E n \in DOMAIN map : naming' = [naming EXCEPT !.id = n]
    /\ Unmutated
    /\ UNCHANGED <<clip, panel, task, store, saved, used, twice, kept>>

(* The timer of an insertion, which does not ask whether the node is       *)
(* still there.                                                            *)
OpenInsertion ==
    /\ naming.soon # None
    /\ naming' = [id |-> naming.soon, soon |-> None]
    /\ panel' = IF panel.open THEN [panel EXCEPT !.selected = naming.soon]
                              ELSE panel
    /\ Unmutated
    /\ UNCHANGED <<scenario, left, clip, task, store, saved, used, twice, kept>>

(* commitEdit, with text in the field or without: a node without a text is *)
(* taken out, and what hangs below it.                                     *)
CommitEdit ==
    /\ naming.id # None
    /\ naming' = [naming EXCEPT !.id = None]
    /\ IF ~Holds(naming.id) THEN Unmutated
       ELSE \E blank \in BOOLEAN :
              IF blank /\ naming.id # Root
                THEN Mutate(RemoveNodes(map, {naming.id}))
                ELSE Mutate([map EXCEPT ![naming.id].named = @ \/ ~blank])
    /\ UNCHANGED <<scenario, left, clip, panel, task, store, saved, used,
                   twice, kept>>

(* cancelEdit: a node that never got a text is taken out.                  *)
CancelEdit ==
    /\ naming.id # None
    /\ naming' = [naming EXCEPT !.id = None]
    /\ IF naming.id # Root /\ Holds(naming.id) /\ ~map[naming.id].named
         THEN Mutate(RemoveNodes(map, {naming.id}))
         ELSE Unmutated
    /\ UNCHANGED <<scenario, left, clip, panel, task, store, saved, used,
                   twice, kept>>
-----------------------------------------------------------------------------
(* Undo and redo: the step puts the tree back and records nothing.         *)

Restore(i) ==
    /\ i \in 1 .. Len(history.entries)
    /\ history' = [history EXCEPT !.index = i]
    /\ map' = history.entries[i]
    /\ dirty' = TRUE
    /\ kept' = WordsOf(map')

Undo ==
    /\ UserDoes("undo") /\ OnCanvas
    /\ Restore(history.index - 1)
    /\ UNCHANGED <<clip, naming, panel, task, store, saved, used, twice>>

Redo ==
    /\ UserDoes("undo") /\ OnCanvas
    /\ Restore(history.index + 1)
    /\ UNCHANGED <<clip, naming, panel, task, store, saved, used, twice>>
-----------------------------------------------------------------------------
(* Copies.  A clone gets its ids at once and its files one call at a time; *)
(* it joins the map when all were answered.                                *)

(* The pairs of a node and a file that copyCloneAttachments goes through.  *)
FilesOf(b) == {p \in (DOMAIN b) \X Files : p[2] \in b[p[1]].files}

(* The ways to give every node of b an id that was never given.            *)
Renamings(b) == {id \in [DOMAIN b -> FreshIds] : IsInjective(id)}

CopyTask(t, b, tops, at, target) ==
    /\ task[t] = Idle
    /\ Renamings(b) # {}
    /\ LET id == CHOOSE i \in Renamings(b) : TRUE
           clone == WithNewIds(b, id)
       IN  /\ task' = [task EXCEPT ![t] =
                  [kind |-> "copy", branch |-> clone,
                   tops |-> {id[n] : n \in tops},
                   todo |-> FilesOf(clone), at |-> at, node |-> target,
                   root |-> map]]
           /\ used' = used \cup Range(id)

DuplicateNode ==
    /\ UserDoes("duplicate") /\ OnCanvas
    /\ \E n \in DOMAIN map \ {Root}, t \in Tasks :
          CopyTask(t, Clone(map, {n}), {n}, "after", n)
    /\ Unmutated
    /\ UNCHANGED <<clip, naming, panel, store, saved, twice, kept>>

CopyNodes ==
    /\ UserDoes("clipboard") /\ OnCanvas
    /\ \E ids \in (SUBSET DOMAIN map) \ {{}} :
          LET tops == TopLevel(map, ids)
          IN  clip' = [branch |-> Clone(map, tops), tops |-> tops,
                       cut |-> FALSE]
    /\ Unmutated
    /\ UNCHANGED <<naming, panel, task, store, saved, used, twice, kept>>

CutNodes ==
    /\ UserDoes("clipboard") /\ OnCanvas
    /\ \E ids \in (SUBSET (DOMAIN map \ {Root})) \ {{}} :
          LET tops == TopLevel(map, ids)
          IN  /\ clip' = [branch |-> Clone(map, tops), tops |-> tops,
                          cut |-> TRUE]
              /\ Mutate(RemoveNodes(map, tops))
    /\ UNCHANGED <<naming, panel, task, store, saved, used, twice, kept>>

(* The first paste after a cut moves the nodes, unless one is in the map.  *)
Moves == clip.cut /\ DOMAIN clip.branch \cap DOMAIN map = {}

PasteTarget(n) == IF Holds(n) THEN n ELSE Root

PasteMoved ==
    /\ UserDoes("clipboard") /\ OnCanvas
    /\ clip.tops # {} /\ Moves
    /\ \E n \in used :
          Mutate(Attach(map, clip.branch, clip.tops, PasteTarget(n)))
    /\ clip' = [clip EXCEPT !.cut = FALSE]
    /\ twice' = twice \cup (DOMAIN clip.branch \cap DOMAIN map)
    /\ kept' = [k \in Ids |-> IF k \in DOMAIN clip.branch
                                THEN WordsOf(map')[k] ELSE kept[k]]
    /\ UNCHANGED <<naming, panel, task, store, saved, used>>

PasteCopies ==
    /\ UserDoes("clipboard") /\ OnCanvas
    /\ clip.tops # {} /\ ~Moves
    /\ \E n \in used, t \in Tasks :
          CopyTask(t, clip.branch, clip.tops, "under", n)
    /\ Unmutated
    /\ UNCHANGED <<clip, naming, panel, store, saved, twice, kept>>

(* One call of onCopyNodeAttachment; a local file only gets another id. A  *)
(* file that cannot be copied is left out of the copy.                     *)
CopyOf(f, g) ==
    IF scenario.local THEN [store EXCEPT !.given = @ \cup {g}]
                      ELSE [has |-> store.has \cup {g},
                            given |-> store.given \cup {g}]

SwapKeepsPicture(x, k, f, gs) ==
    [x EXCEPT !.todo = @ \ {<<k, f>>},
              !.branch[k].files = (@ \ {f}) \cup gs]

WithCopies(n, f, gs) ==
    [n EXCEPT !.files = (n.files \ {f}) \cup gs,
              !.image = IF n.image # f THEN n.image
                        ELSE IF gs = {} THEN None ELSE CHOOSE g \in gs : TRUE]

Swap(x, k, f, gs) ==
    [x EXCEPT !.todo = @ \ {<<k, f>>}, !.branch[k] = WithCopies(@, f, gs)]

CopyFile(t) ==
    /\ task[t].kind = "copy"
    /\ \E p \in task[t].todo :
          \/ \E g \in FreshFiles :
                /\ scenario.local \/ p[2] \in store.has
                /\ store' = CopyOf(p[2], g)
                /\ task' = [task EXCEPT ![t] = Swap(@, p[1], p[2], {g})]
          \/ /\ ~scenario.local
             /\ scenario.fails \/ p[2] \notin store.has
             /\ task' = [task EXCEPT ![t] = Swap(@, p[1], p[2], {})]
             /\ UNCHANGED store
    /\ Unmutated
    /\ UNCHANGED <<scenario, left, clip, naming, panel, saved, used, twice,
                   kept>>

Selects(n) == IF panel.open THEN [panel EXCEPT !.selected = n] ELSE panel

CurrentAsItWas(t) == task[t].root

(* The map as it is when the files have come, not as it was.               *)
Current(t) == map

FinishCopy(t) ==
    /\ task[t].kind = "copy" /\ task[t].todo = {}
    /\ LET x == task[t]
           m == Current(t)
           there == x.node \in DOMAIN m
           p == IF x.at = "under" THEN PasteTarget(x.node)
                ELSE IF there THEN m[x.node].parent ELSE None
       IN  IF p = None
             THEN Unmutated /\ UNCHANGED <<panel, twice>>
             ELSE /\ Mutate(Attach(m, x.branch, x.tops, p))
                  /\ twice' = twice \cup (DOMAIN x.branch \cap DOMAIN m)
                  /\ \E n \in x.tops : panel' = Selects(n)
    /\ task' = [task EXCEPT ![t] = Idle]
    /\ UNCHANGED <<scenario, left, clip, naming, store, saved, used, kept>>
-----------------------------------------------------------------------------
(* Files for a node: dropped on it, attached to it, or its picture.  The   *)
(* node gets its files, and its text or picture names them, when the       *)
(* upload has been answered.                                               *)

StartUpload ==
    /\ UserDoes("upload") /\ OnCanvas
    /\ \E n \in DOMAIN map, t \in Tasks, how \in {"attach", "drop", "image"} :
          /\ task[t] = Idle
          /\ how = "attach" => n # Root
          /\ task' = [task EXCEPT ![t] =
                        [kind |-> "upload", how |-> how, node |-> n,
                         root |-> map]]
    /\ Unmutated
    /\ UNCHANGED <<clip, naming, panel, store, saved, used, twice, kept>>

Stored(f) == [has |-> store.has \cup {f}, given |-> store.given \cup {f}]

WithFile(n, f, how) ==
    [n EXCEPT !.files = n.files \cup {f},
              !.named = n.named \/ how # "image",
              !.image = IF how = "image" THEN f ELSE n.image]

WithNote(n, files, text) == [n EXCEPT !.files = files, !.note = text]

FinishUpload(t) ==
    /\ task[t].kind = "upload"
    /\ task' = [task EXCEPT ![t] = Idle]
    /\ LET n == task[t].node
           how == task[t].how
           m == Current(t)
       IN  \/ \E f \in FreshFiles :
                 /\ store' = Stored(f)
                 /\ IF n \in DOMAIN m
                      THEN /\ Mutate([m EXCEPT ![n] = WithFile(@, f, how)])
                           /\ panel' = IF how = "drop" THEN Selects(n)
                                                       ELSE panel
                      ELSE Unmutated /\ UNCHANGED panel
           \/ /\ scenario.fails
              /\ IF how = "image" /\ n \in DOMAIN m
                   THEN Mutate([m EXCEPT ![n].image = None])
                   ELSE Unmutated
              /\ UNCHANGED <<store, panel>>
    /\ UNCHANGED <<scenario, left, clip, naming, saved, used, twice, kept>>
-----------------------------------------------------------------------------
(* The note panel.                                                         *)

OpenNotes ==
    /\ UserDoes("note") /\ OnCanvas
    /\ \E n \in DOMAIN map :
          panel' = [open |-> TRUE, node |-> n, text |-> map[n].note,
                    doc |-> map[n].note, selected |-> n]
    /\ Unmutated
    /\ UNCHANGED <<clip, naming, task, store, saved, used, twice, kept>>

(* CodeMirror reports its whole text with every change.                    *)
TypeNote ==
    /\ UserDoes("note") /\ panel.open
    /\ \E w \in Words :
          LET add == w \notin panel.doc
              doc == IF add THEN panel.doc \cup {w} ELSE panel.doc \ {w}
          IN  /\ add => \A n \in Ids : w \notin kept[n]
              /\ panel' = [panel EXCEPT !.doc = doc, !.text = doc]
              /\ kept' = [kept EXCEPT ![panel.node] =
                            IF add THEN @ \cup {w} ELSE @ \ {w}]
    /\ Unmutated
    /\ UNCHANGED <<clip, naming, task, store, saved, used, twice>>

CommitNotesLater == Unmutated

CommitNotes ==
    IF Holds(panel.node) /\ map[panel.node].note # panel.text
      THEN Mutate([map EXCEPT ![panel.node].note = panel.text])
      ELSE Unmutated

(* 600 ms after the last change, or Ctrl+S.                                *)
SaveNotes ==
    /\ panel.open
    /\ Holds(panel.node) /\ map[panel.node].note # panel.text
    /\ CommitNotes
    /\ UNCHANGED <<scenario, left, clip, naming, panel, task, store, saved,
                   used, twice, kept>>

CloseNotes ==
    /\ panel.open
    /\ CommitNotes
    /\ panel' = ClosedPanel
    /\ UNCHANGED <<scenario, left, clip, naming, task, store, saved, used,
                   twice, kept>>

DeleteNotes ==
    /\ UserDoes("note") /\ panel.open
    /\ IF Holds(panel.node)
         THEN Mutate([map EXCEPT ![panel.node].note = {}])
         ELSE Unmutated
    /\ kept' = [kept EXCEPT ![panel.node] = {}]
    /\ panel' = ClosedPanel
    /\ UNCHANGED <<clip, naming, task, store, saved, used, twice>>

(* A file for a note goes to the selected node.                            *)
StartNoteUpload ==
    /\ UserDoes("note_files") /\ panel.open
    /\ \E t \in Tasks :
          /\ task[t] = Idle
          /\ task' = [task EXCEPT ![t] =
                        [kind |-> "note", node |-> panel.selected,
                         text |-> panel.text, root |-> map]]
    /\ Unmutated
    /\ UNCHANGED <<clip, naming, panel, store, saved, used, twice, kept>>

(* The text that the link is added to: what the panel shows now, or, when  *)
(* it is closed, what it showed when the upload began.                     *)
NoteForLink(t) == IF panel.open THEN panel.doc ELSE task[t].text

FinishNoteUpload(t) ==
    /\ task[t].kind = "note"
    /\ task' = [task EXCEPT ![t] = Idle]
    /\ \/ \E f \in FreshFiles :
             LET n == task[t].node
                 m == Current(t)
                 text == NoteForLink(t) \cup {f}
             IN  /\ store' = Stored(f)
                 /\ panel' = IF panel.open
                               THEN [panel EXCEPT !.doc = text, !.text = text]
                               ELSE panel
                 /\ IF n \in DOMAIN m
                      THEN Mutate([m EXCEPT ![n] =
                                     WithNote(@, @.files \cup {f}, text)])
                      ELSE Unmutated
       \/ scenario.fails /\ Unmutated /\ UNCHANGED <<store, panel>>
    /\ UNCHANGED <<scenario, left, clip, naming, saved, used, twice, kept>>

(* The page's handler is not waited for; the panel falls back to the note  *)
(* as last committed, CodeMirror keeps its text.                           *)
DeleteNotesAttachment ==
    /\ UserDoes("note_files") /\ panel.open
    /\ Holds(panel.node)
    /\ \E f \in map[panel.node].files :
          /\ Mutate([map EXCEPT ![panel.node] =
                       WithNote(@, @.files \ {f}, @.note \ {f})])
          /\ panel' = [panel EXCEPT !.text = map[panel.node].note \ {f}]
          /\ \/ ~scenario.local /\ store' = [store EXCEPT !.has = @ \ {f}]
             \/ (scenario.fails \/ scenario.local) /\ UNCHANGED store
    /\ UNCHANGED <<clip, naming, task, saved, used, twice, kept>>
-----------------------------------------------------------------------------
(* Saving and opening.                                                     *)

(* handleSave of the editor and of the page, up to its first await.        *)
BeginSave ==
    /\ saved.now = None
    /\ saved' = [saved EXCEPT !.now = map, !.failed = FALSE]
    /\ dirty' = FALSE
    /\ UNCHANGED <<map, history, clip, naming, panel, task, store, used,
                   twice, kept>>

(* The button is off when there is nothing to save.                        *)
Save ==
    /\ UserDoes("save") /\ OnCanvas
    /\ dirty \/ saved.failed
    /\ BeginSave

(* The timers of autosave: a second after a change, or at an interval.     *)
Autosave ==
    /\ scenario.autosave /\ dirty
    /\ BeginSave
    /\ UNCHANGED <<scenario, left>>

SaveOkIsClean ==
    /\ saved.now # None
    /\ saved' = [saved EXCEPT !.map = saved.now, !.now = None]
    /\ dirty' = FALSE
    /\ UNCHANGED <<scenario, left, map, history, clip, naming, panel,
                   task, store, used, twice, kept>>

SaveOk ==
    /\ saved.now # None
    /\ saved' = [saved EXCEPT !.map = saved.now, !.now = None]
    /\ UNCHANGED <<scenario, left, map, history, dirty, clip, naming, panel,
                   task, store, used, twice, kept>>

(* Nothing says whether a save that failed was stored.                     *)
SaveFail ==
    /\ saved.now # None /\ scenario.fails
    /\ \E m \in {saved.now, saved.map} :
          saved' = [map |-> m, now |-> None, failed |-> TRUE]
    /\ UNCHANGED <<scenario, left, map, history, dirty, clip, naming, panel,
                   task, store, used, twice, kept>>

(* pruneLocalAttachments: what the saved map does not point at goes.       *)
Pruned == [store EXCEPT !.has = @ \cap UNION {saved.map[n].files :
                                              n \in DOMAIN saved.map}]

(* The vault is opened again: the editor is mounted anew, and no callback  *)
(* of the old one changes the new one.  A save that is under way is left   *)
(* to OfflineSync.                                                         *)
Reopen ==
    /\ UserDoes("open") /\ OnCanvas
    /\ saved.now = None
    /\ map' = saved.map
    /\ history' = InitHistory(saved.map)
    /\ dirty' = FALSE
    /\ clip' = NoClip
    /\ naming' = NotNaming
    /\ task' = [t \in Tasks |-> Idle]
    /\ saved' = [saved EXCEPT !.failed = FALSE]
    /\ store' = IF scenario.local THEN Pruned ELSE store
    /\ kept' = WordsOf(saved.map)
    /\ UNCHANGED <<panel, used, twice>>
-----------------------------------------------------------------------------
Answer(t) == CopyFile(t) \/ FinishCopy(t) \/ FinishUpload(t)
             \/ FinishNoteUpload(t)

Next ==
    \/ InsertNode \/ DeleteNodes \/ Reparent \/ EditFields \/ RemoveNodeImage
    \/ StartEditing \/ OpenInsertion \/ CommitEdit \/ CancelEdit
    \/ Undo \/ Redo
    \/ DuplicateNode \/ CopyNodes \/ CutNodes \/ PasteMoved \/ PasteCopies
    \/ StartUpload
    \/ OpenNotes \/ TypeNote \/ SaveNotes \/ CloseNotes \/ DeleteNotes
    \/ StartNoteUpload \/ DeleteNotesAttachment
    \/ \E t \in Tasks : Answer(t)
    \/ Save \/ Autosave \/ SaveOk \/ SaveFail \/ Reopen

Spec == Init /\ [][Next]_vars

(* Timers fire, and a save that is sent is answered in the end.            *)
Fairness == WF_vars(Autosave) /\ WF_vars(SaveOk)

FairSpec == Spec /\ Fairness
-----------------------------------------------------------------------------
(* treeOps.ts 197-202: no edit, move, paste or late answer cuts a branch   *)
(* off; every node of the map can be reached from the central one.         *)
MapIsATree == Tree(map) /\ \A n \in DOMAIN map : map[n] \in Node

(* MindMapEditor.tsx 988-994, 1155: pasting what was cut puts a node back  *)
(* only into a map that does not have it, and a copy's ids are its own;    *)
(* one attachment belongs to exactly one node, also in every state undo    *)
(* can go back to; a picture's full-size original is a file of its node    *)
(* unless it was deleted from the note panel.                              *)
OnePlaceEach ==
    /\ twice = {}
    /\ \A i \in 1 .. Len(history.entries) : OneOwner(history.entries[i])
    /\ Ops("note_files") \/ Pictured(map)

(* MindMapEditor.tsx 523-529: an edit made while files are on their way    *)
(* survives the answer, which changes the node it is for and adds the      *)
(* copies it made, and nothing else.                                       *)
EditsSurviveAnswers ==
    [][\A t \in Tasks : Answer(t) =>
          \A n \in DOMAIN map :
             /\ n \in DOMAIN map'
             /\ map'[n].parent = map[n].parent /\ map'[n].look = map[n].look
             /\ n # task[t].node => map'[n] = map[n]]_vars

(* MindMapEditor.tsx 1371-1372: closing the panel, and autosave, lose no   *)
(* word of a note, where no file is attached through the panel.            *)
KeepsWork ==
    \A n \in DOMAIN map :
        kept[n] \subseteq map[n].note \cup
                          (IF panel.open /\ panel.node = n THEN panel.text
                                                           ELSE {})
NotesAreKept == Ops("note_files") \/ KeepsWork

(* The save button's "All changes saved": with no save under way or failed *)
(* and nothing dirty, the stored map is the one on the screen.             *)
CleanMeansSaved ==
    ~dirty /\ saved.now = None /\ ~saved.failed => saved.map = map

(* history.ts: the editor's entries and cursor are an undo history.        *)
Remembered == INSTANCE UndoHistory
    WITH Limit <- HISTORY_LIMIT,
         past <- SubSeq(history.entries, 1, history.index - 1),
         present <- map,
         future <- SubSeq(history.entries, history.index + 1,
                          Len(history.entries))

ImplementsUndo == Remembered!Spec

(* With autosave on and no call that fails, the map is stored in the end,  *)
(* whatever came in while it was being saved.                              *)
AutosaveCatchesUp ==
    scenario.autosave /\ ~scenario.fails
        => <>[](~dirty /\ saved.map = map)
=============================================================================
