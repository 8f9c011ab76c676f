------------------------------- MODULE Board -------------------------------
(***************************************************************************)
(* The evidence board: board/BoardEngine.ts (Scene and Interaction),        *)
(* components/BoardEditor.tsx and pages/BoardPage.tsx of frontend_app.  The *)
(* user draws cards and connections, and the page stores the board two      *)
(* seconds after the last change with two calls to the server, the envelope *)
(* of a fresh key first and the ciphertext under that key second.           *)
(*                                                                          *)
(* A handler is one step up to its first await.  Nothing keeps a save from  *)
(* beginning while another is under way, and the timer of a page that the   *)
(* user has left still fires.                                               *)
(***************************************************************************)
EXTENDS Naturals, FiniteSets, Functions

CONSTANTS
    Cards,    \* ids of cards
    Files,    \* ids of attachments
    Saves,    \* saves that may be under way at once
    None,
    Sittings

(* The groups of things a user may do, and "outage": the store may fail    *)
(* when a board is opened.                                                 *)
BoardOps == {"cards", "files", "links", "armed", "keyboard", "leave", "outage"}

Card == [look : BOOLEAN, src : Files \cup {None}]
Link == [from : Cards, to : Cards, look : BOOLEAN]

(* A board whose cards have the ids ns.                                    *)
SceneOf(ns) == [cards : [ns -> Card], links : SUBSET Link,
                background : BOOLEAN]

IsScene(b) == DOMAIN b.cards \subseteq Cards /\ b \in SceneOf(DOMAIN b.cards)

Joins(c, m, n) == {c.from, c.to} = {m, n}

EndsAreThere(b) == \A c \in b.links : {c.from, c.to} \subseteq DOMAIN b.cards

PairsAreJoinedOnce(b) ==
    \A c \in b.links : /\ c.from # c.to
                       /\ \A d \in b.links : Joins(c, d.from, d.to) => c = d

(* start is the board as stored, edits how many things the user does, calm *)
(* whether the board is neither changed nor opened while a save is under   *)
(* way, fails whether writes may fail.                                     *)
ASSUME BoardAssumption ==
    /\ IsFiniteSet(Saves)
    /\ None \notin Cards \cup Files \cup Saves
    /\ \A ns \in SUBSET Cards : None \notin SceneOf(ns)
    /\ \A s \in Sittings :
          /\ s.ops \subseteq BoardOps
          /\ s.edits \in Nat
          /\ s.calm \in BOOLEAN /\ s.fails \in BOOLEAN
          /\ s.rootCard \in Cards
          /\ IsScene(s.start)
          /\ EndsAreThere(s.start) /\ PairsAreJoinedOnce(s.start)

VARIABLES
    sitting,
    toDo,      \* how many more things the user does
    board,     \* the scene: its cards, its connections and its background
    ui,        \* the state of Interaction, and the dialog that is open
    upload,    \* the picture or PDF that is on its way
    page,      \* BoardPage: its visit, and the refs of the pending save
    late,      \* what the timer of a page that was left will store
    save,      \* the calls of flushSave
    stored,    \* what the server has
    last       \* ghost: the board as last handed to the page

boardVars == <<sitting, toDo, board, ui, upload, page, late, save, stored, last>>

NewCard(f) == [look |-> FALSE, src |-> f]

Tools == {"select", "card", "image", "pdf", "connect"}

(* src is _connSrc, which outlives its card; modal the card of editModal.  *)
NoUi == [tool |-> "select", selected |-> {}, drag |-> FALSE, src |-> None,
         modal |-> None]

NoUpload == [now |-> FALSE, replaces |-> None]
NoSave == [stage |-> "idle"]

(* Opened on b; version counts the visits of the page.                     *)
Visit(v) == [open |-> TRUE, visit |-> v, dirty |-> FALSE, pending |-> None,
             timer |-> FALSE]

Holds(n) == n \in DOMAIN board.cards
May(k) == k \in sitting.ops
NoneSaving == \A s \in Saves : save[s] = NoSave

(* emptyBoardData: one card, whose id is the same on every board.          *)
Empty == [cards |-> [n \in {sitting.rootCard} |-> NewCard(None)],
          links |-> {}, background |-> FALSE]

BoardInit ==
    /\ sitting \in Sittings
    /\ toDo = sitting.edits
    /\ board = sitting.start
    /\ ui = NoUi
    /\ upload = NoUpload
    /\ page = Visit(1)
    /\ late = None
    /\ save = [s \in Saves |-> NoSave]
    /\ stored = [title |-> "title", envelope |-> 0, key |-> 0, data |-> board]
    /\ last = board

UserEdits(k) ==
    /\ May(k)
    /\ toDo > 0
    /\ toDo' = toDo - 1
    /\ UNCHANGED sitting

(* What needs the mouse on the canvas: dialogs and the upload cover it.    *)
OnCanvas == page.open /\ ui.modal = None /\ ~upload.now

Quiet == sitting.calm => NoneSaving /\ late = None

(* notifyChanged of the editor and handleBoardChange of the page.          *)
Changed(b) ==
    /\ Quiet
    /\ board' = b
    /\ last' = b
    /\ page' = [page EXCEPT !.dirty = TRUE, !.pending = b, !.timer = TRUE]

Unchanged == UNCHANGED <<board, last, page>>
-----------------------------------------------------------------------------
(* Scene.                                                                  *)

Add(b, n, card) ==
    [b EXCEPT !.cards = [k \in DOMAIN @ \cup {n} |->
                           IF k = n THEN card ELSE @[k]]]

(* The cards ns are elsewhere.                                             *)
Moved(b, ns) ==
    [b EXCEPT !.cards =
        [n \in DOMAIN b.cards |-> IF n \in ns
                                    THEN [b.cards[n] EXCEPT !.look = ~@]
                                    ELSE b.cards[n]]]

RemoveLeavesEnds(b, ns) ==
    [b EXCEPT !.cards = Restrict(@, DOMAIN @ \ ns),
              !.links = {c \in @ : c.from \notin ns}]

(* remove, and deleteSelected, which calls it for each of ns.              *)
Remove(b, ns) ==
    [b EXCEPT !.cards = Restrict(@, DOMAIN @ \ ns),
              !.links = {c \in @ : c.from \notin ns /\ c.to \notin ns}]

Connect(b, m, n) ==
    IF \E c \in b.links : Joins(c, m, n) THEN b
    ELSE [b EXCEPT !.links = @ \cup
             {[from |-> m, to |-> n, look |-> FALSE]}]

FreshCards == Cards \ DOMAIN board.cards
FreshFiles == Files \ {last.cards[n].src : n \in DOMAIN last.cards}

(* setTool: leaving the connector drops it.                                *)
WithTool(u, t) ==
    [u EXCEPT !.tool = t, !.src = IF t = "connect" THEN @ ELSE None]
-----------------------------------------------------------------------------
(* Interaction: the mouse and the keys.                                    *)

SetTool ==
    /\ page.open /\ May("links")
    /\ \E t \in {"select", "connect"} \ {ui.tool} : ui' = WithTool(ui, t)
    /\ Unchanged
    /\ UNCHANGED <<sitting, toDo, upload, late, save, stored>>

Escape ==
    /\ page.open
    /\ ui.tool = "connect" \/ ui.selected # {} \/ ui.drag
    /\ ui' = [WithTool(ui, "select") EXCEPT !.selected = {}, !.drag = FALSE]
    /\ Unchanged
    /\ UNCHANGED <<sitting, toDo, upload, late, save, stored>>

(* A card is pressed, which selects it; with shift the others stay so.     *)
PressCard ==
    /\ UserEdits("cards") /\ OnCanvas /\ ui.tool # "connect" /\ ~ui.drag
    /\ \E n \in DOMAIN board.cards, shift \in BOOLEAN :
          ui' = [ui EXCEPT !.drag = TRUE,
                           !.selected = IF shift \/ n \in @ THEN @ \cup {n}
                                                            ELSE {n}]
    /\ Unchanged
    /\ UNCHANGED <<upload, late, save, stored>>

(* The mouse is released, wherever the selected cards were moved to: a     *)
(* press without a move is a change, too.                                  *)
Release ==
    /\ ui.drag /\ page.open
    /\ \E ns \in {{}, ui.selected} : Changed(Moved(board, ns))
    /\ ui' = [ui EXCEPT !.drag = FALSE]
    /\ UNCHANGED <<sitting, toDo, upload, late, save, stored>>

(* A box is drawn on the empty canvas.                                     *)
BoxSelect ==
    /\ UserEdits("cards") /\ OnCanvas /\ ui.tool = "select" /\ ~ui.drag
    /\ \E ns \in SUBSET DOMAIN board.cards :
          ui' = [ui EXCEPT !.selected = ns]
    /\ Unchanged
    /\ UNCHANGED <<upload, late, save, stored>>

(* With the connector, the first card pressed arms it and another draws.   *)
(* The canvas between the cards drops it.                                  *)
PressWithConnector ==
    /\ UserEdits("links") /\ OnCanvas /\ ui.tool = "connect"
    /\ \/ \E n \in DOMAIN board.cards \ {ui.src} :
             IF ui.src = None
               THEN ui' = [ui EXCEPT !.src = n] /\ Unchanged
               ELSE /\ ui' = [ui EXCEPT !.src = None]
                    /\ Changed(Connect(board, ui.src, n))
       \/ ui' = [ui EXCEPT !.src = None] /\ Unchanged
    /\ UNCHANGED <<upload, late, save, stored>>

(* Deleting, by a key or in the context menu, leaves the connector as it   *)
(* is, and the dialog open.  A user without "armed" drops it first.        *)
Deletes(ns) ==
    /\ ns # {}
    /\ ui.src \in ns => May("armed")
    /\ Changed(Remove(board, ns))
    /\ ui' = [ui EXCEPT !.selected = @ \ ns]

DeleteKey ==
    /\ UserEdits("cards") /\ page.open
    /\ Deletes(ui.selected)
    /\ UNCHANGED <<upload, late, save, stored>>

DeleteCard ==
    /\ UserEdits("cards") /\ OnCanvas
    /\ \E n \in DOMAIN board.cards : Deletes({n})
    /\ UNCHANGED <<upload, late, save, stored>>

(* The card tool on the empty canvas, or the context menu's "Add card".    *)
AddCard ==
    /\ UserEdits("cards") /\ OnCanvas /\ ~ui.drag
    /\ \E n \in FreshCards, menu \in BOOLEAN :
          /\ Changed(Add(board, n, NewCard(None)))
          /\ ui' = [(IF menu THEN ui ELSE WithTool(ui, "select"))
                       EXCEPT !.modal = n]
    /\ UNCHANGED <<upload, late, save, stored>>

(* A copy of a picture names the same attachment.                          *)
DuplicateCard ==
    /\ UserEdits("cards") /\ OnCanvas
    /\ \E n \in DOMAIN board.cards, new \in FreshCards :
          Changed(Add(board, new, board.cards[n]))
    /\ UNCHANGED <<ui, upload, late, save, stored>>

OpenCard ==
    /\ UserEdits("cards") /\ OnCanvas
    /\ \E n \in DOMAIN board.cards : ui' = [ui EXCEPT !.modal = n]
    /\ Unchanged
    /\ UNCHANGED <<upload, late, save, stored>>

(* The dialog of a card that is gone writes to an object no scene holds.   *)
WithLook(b, n) ==
    IF n \in DOMAIN b.cards THEN [b EXCEPT !.cards[n].look = ~@] ELSE b

CloseCard ==
    /\ page.open /\ ui.modal # None
    /\ ui' = [ui EXCEPT !.modal = None]
    /\ Unchanged \/ Changed(WithLook(board, ui.modal))
    /\ UNCHANGED <<sitting, toDo, upload, late, save, stored>>

EditConnection ==
    /\ UserEdits("links") /\ OnCanvas
    /\ \E c \in board.links :
          Changed([board EXCEPT !.links =
                      (@ \ {c}) \cup {[c EXCEPT !.look = ~@]}])
    /\ UNCHANGED <<ui, upload, late, save, stored>>

DeleteConnection ==
    /\ UserEdits("links") /\ OnCanvas
    /\ \E c \in board.links : Changed([board EXCEPT !.links = @ \ {c}])
    /\ UNCHANGED <<ui, upload, late, save, stored>>

SetBackground ==
    /\ UserEdits("cards") /\ page.open
    /\ Changed([board EXCEPT !.background = ~@])
    /\ UNCHANGED <<ui, upload, late, save, stored>>
-----------------------------------------------------------------------------
(* Pictures and PDFs: encrypted, uploaded, and then put on the scene that  *)
(* is there when the answer comes.                                         *)

PickFile ==
    /\ UserEdits("files") /\ page.open /\ ~upload.now
    /\ \E n \in {ui.modal} \cup {None} :
          /\ n # None => Holds(n) /\ board.cards[n].src # None
          /\ n = None => OnCanvas
          /\ upload' = [now |-> TRUE, replaces |-> n]
    /\ ui' = WithTool(ui, "select")
    /\ Unchanged
    /\ UNCHANGED <<late, save, stored>>

WithFile(b, n, f) ==
    IF n \in DOMAIN b.cards THEN [b EXCEPT !.cards[n].src = f] ELSE b

FileComes ==
    /\ upload.now /\ page.open
    /\ upload' = NoUpload
    /\ LET old == upload.replaces
       IN  \/ \E f \in FreshFiles : \/ /\ old # None
                                       /\ Changed(WithFile(board, old, f))
                                       /\ ui' = [ui EXCEPT !.modal = old]
                                    \/ /\ old = None
                                       /\ \E n \in FreshCards :
                                            /\ Changed(Add(board, n, NewCard(f)))
                                            /\ ui' = [ui EXCEPT !.modal = n]
           \/ sitting.fails /\ Unchanged /\ UNCHANGED ui
    /\ UNCHANGED <<sitting, toDo, late, save, stored>>
-----------------------------------------------------------------------------
(* Saving.                                                                 *)

(* flushSave up to its first call, from the page v with its title then.    *)
Flush(d, title, v) ==
    \E s \in Saves :
       /\ save[s] = NoSave
       /\ save' = [save EXCEPT ![s] =
             [stage |-> "envelope", data |-> d, title |-> title, visit |-> v,
              key |-> 1 + stored.envelope + Cardinality(
                            {r \in Saves : save[r] # NoSave})]]

TimerFires ==
    /\ page.timer
    /\ page' = [page EXCEPT !.timer = FALSE]
    /\ IF page.pending # None THEN Flush(page.pending, "title", page.visit)
                              ELSE UNCHANGED save
    /\ UNCHANGED <<sitting, toDo, board, ui, upload, late, stored, last>>

LateTimerFires ==
    /\ late # None
    /\ Flush(late.data, "title", late.visit)
    /\ late' = None
    /\ UNCHANGED <<sitting, toDo, board, ui, upload, page, stored, last>>

(* Ctrl+S: the handler was made when the page was first rendered, before   *)
(* it knew the title.                                                      *)
SaveByKey ==
    /\ UserEdits("keyboard") /\ page.open
    /\ page.pending # None
    /\ Flush(page.pending, "", page.visit)
    /\ page' = [page EXCEPT !.timer = FALSE]
    /\ UNCHANGED <<board, ui, upload, late, stored, last>>

(* The button hands the board to the page once more.                       *)
SaveButton ==
    /\ UserEdits("cards") /\ page.open
    /\ NoneSaving /\ page.dirty
    /\ Changed(board)
    /\ UNCHANGED <<ui, upload, late, save, stored>>

UpdateVault(s) ==
    /\ save[s].stage = "envelope"
    /\ stored' = [stored EXCEPT !.title = save[s].title,
                                !.envelope = save[s].key]
    /\ save' = [save EXCEPT ![s].stage = "blob"]
    /\ UNCHANGED <<sitting, toDo, board, ui, upload, page, late, last>>

(* The save is over: its page forgets what is pending, whatever that is.   *)
Forget(v) ==
    /\ page' = IF page.visit = v THEN [page EXCEPT !.pending = None,
                                                   !.dirty = FALSE]
                                 ELSE page
    /\ late' = IF late # None /\ late.visit = v THEN None ELSE late

UploadBoard(s) ==
    /\ save[s].stage = "blob"
    /\ stored' = [stored EXCEPT !.key = save[s].key, !.data = save[s].data]
    /\ Forget(save[s].visit)
    /\ save' = [save EXCEPT ![s] = NoSave]
    /\ UNCHANGED <<sitting, toDo, board, ui, upload, last>>

(* A call fails, and nothing tries again before the next change.           *)
SaveFails(s) ==
    /\ sitting.fails /\ save[s] # NoSave
    /\ save' = [save EXCEPT ![s] = NoSave]
    /\ UNCHANGED <<sitting, toDo, board, ui, upload, page, late, stored, last>>
-----------------------------------------------------------------------------
(* Leaving and opening.                                                    *)

LeaveClearsTimer ==
    /\ UserEdits("leave") /\ page.open
    /\ page' = [page EXCEPT !.open = FALSE, !.timer = FALSE, !.pending = None,
                            !.dirty = FALSE]
    /\ ui' = NoUi
    /\ upload' = NoUpload
    /\ UNCHANGED <<board, late, save, stored, last>>

(* The page goes, its timer stays.                                         *)
Leave ==
    /\ UserEdits("leave") /\ page.open
    /\ late = None
    /\ late' = IF page.timer /\ page.pending # None
                 THEN [visit |-> page.visit, data |-> page.pending] ELSE None
    /\ page' = [page EXCEPT !.open = FALSE, !.timer = FALSE, !.pending = None,
                            !.dirty = FALSE]
    /\ ui' = NoUi
    /\ upload' = NoUpload
    /\ UNCHANGED <<board, save, stored, last>>

(* load: the board is decrypted with the key of the envelope, and a store  *)
(* that answers with an error counts as one that has no board.             *)
Reopen ==
    /\ UserEdits("leave") /\ ~page.open /\ Quiet
    /\ \/ stored.envelope = stored.key /\ board' = stored.data
       \/ May("outage") /\ board' = Empty
    /\ page' = Visit(page.visit + 1)
    /\ UNCHANGED <<ui, upload, late, save, stored, last>>
-----------------------------------------------------------------------------
BoardNext ==
    \/ SetTool \/ Escape \/ PressCard \/ Release \/ BoxSelect
    \/ PressWithConnector \/ DeleteKey \/ DeleteCard
    \/ AddCard \/ DuplicateCard \/ OpenCard \/ CloseCard
    \/ EditConnection \/ DeleteConnection \/ SetBackground
    \/ PickFile \/ FileComes
    \/ TimerFires \/ LateTimerFires \/ SaveByKey \/ SaveButton
    \/ \E s \in Saves : UpdateVault(s) \/ UploadBoard(s) \/ SaveFails(s)
    \/ Leave \/ Reopen

BoardSpec == BoardInit /\ [][BoardNext]_boardVars

(* Timers fire and calls are answered; users owe nothing.                  *)
Fairness ==
    /\ WF_boardVars(TimerFires) /\ WF_boardVars(LateTimerFires)
    /\ \A s \in Saves : WF_boardVars(UpdateVault(s)) /\ WF_boardVars(UploadBoard(s))

FairSpec == BoardSpec /\ Fairness
-----------------------------------------------------------------------------
Ui == [tool : Tools, selected : SUBSET Cards, drag : BOOLEAN,
       src : Cards \cup {None}, modal : Cards \cup {None}]
IsPage(p) ==
    /\ p = [open |-> p.open, visit |-> p.visit, dirty |-> p.dirty,
            pending |-> p.pending, timer |-> p.timer]
    /\ {p.open, p.dirty, p.timer} \subseteq BOOLEAN /\ p.visit \in Nat
    /\ p.pending # None => IsScene(p.pending)

IsSave(c) ==
    /\ c = [stage |-> c.stage, data |-> c.data, title |-> c.title,
            visit |-> c.visit, key |-> c.key]
    /\ c.stage \in {"envelope", "blob"} /\ IsScene(c.data)
    /\ c.title \in {"title", ""} /\ {c.visit, c.key} \subseteq Nat

IsStored(d) ==
    /\ d = [title |-> d.title, envelope |-> d.envelope, key |-> d.key,
            data |-> d.data]
    /\ d.title \in {"title", ""} /\ {d.envelope, d.key} \subseteq Nat
    /\ IsScene(d.data)

(* Types; what is selected is on the board, and the refs of the page go    *)
(* together: a timer that runs for a dirty page has a board to store, and  *)
(* a page with a board to store is dirty.                                  *)
TypeOK ==
    /\ sitting \in Sittings /\ toDo \in Nat
    /\ IsScene(board) /\ IsScene(last)
    /\ ui \in Ui /\ ui.selected \subseteq DOMAIN board.cards
    /\ upload \in [now : BOOLEAN, replaces : Cards \cup {None}]
    /\ IsPage(page)
    /\ page.timer => page.pending # None \/ ~page.dirty
    /\ page.pending # None => page.dirty
    /\ late # None => /\ late = [visit |-> late.visit, data |-> late.data]
                      /\ late.visit \in Nat /\ IsScene(late.data)
    /\ DOMAIN save = Saves
    /\ \A s \in Saves : save[s] # NoSave => IsSave(save[s])
    /\ IsStored(stored)

(* RELEASE_0.3.30.md:33, "lines drawn between any two cards": a connection *)
(* joins two cards of the board and no two join the same pair, also after  *)
(* a card was deleted behind an open dialog or while files were uploaded.  *)
(* The user drops an armed connector before deleting its card.             *)
ConnectionsJoinCards ==
    /\ May("armed") \/ EndsAreThere(board)
    /\ PairsAreJoinedOnce(board)

(* BoardEditor.tsx:506: the button says "All saved" when the page has      *)
(* nothing to save and is not saving.                                      *)
SaysSaved == page.open /\ ~page.dirty /\ NoneSaving

Opens == stored.envelope = stored.key

AllSavedIsSaved ==
    SaysSaved => Opens /\ stored.data = board /\ stored.title = "title"

(* Where the user leaves the page alone while it saves, uses the button,   *)
(* and the store answers when a board is opened, "All saved" is true, also *)
(* after calls that failed; and where none fails, what the user did last   *)
(* is stored in the end, the page left before its timer fired or not.      *)
Calm == sitting.calm /\ ~May("outage")

CalmWorkIsStored ==
    /\ [](Calm /\ ~May("keyboard") => AllSavedIsSaved)
    /\ Calm /\ ~sitting.fails => <>[](Opens /\ stored.data = last)
=============================================================================
