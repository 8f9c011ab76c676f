---------------------------- MODULE PagesProofs -----------------------------
(***************************************************************************)
(* Theorems about two of the browser's pages: Board, for any number of     *)
(* cards, files and saves at once, and Lobby, which opens boards, for any  *)
(* number of vaults and of calls under way.                                *)
(*                                                                         *)
(* A board goes round: from the scene to the page, from there to a save or *)
(* to the timer of a page that was left, to the server, and back into the  *)
(* scene when it is opened.  So its invariant asks of every copy on that   *)
(* way what ConnectionsJoinCards asks of the scene, and is a type          *)
(* invariant over the set Boards of the boards that are sound.             *)
(*                                                                         *)
(* In the lobby nothing locks a row while a call for it is under way, so   *)
(* what the rows show rests on a user who waits: then each vault has one   *)
(* call at most, and what a call read before it writes is still what the   *)
(* server has (PatientInv).  TellInv follows the server's values through   *)
(* the answers of loads to the rows, KindInv the board label through every *)
(* copy of the labels, CountsInv the list of active shares.  LobbyInv is   *)
(* the type invariant, with what it needs to know of ids and of pages.     *)
(***************************************************************************)
EXTENDS Board, Lobby, FiniteSetTheorems, TLAPS

Scenes == UNION {SceneOf(ns) : ns \in SUBSET Cards}

Boards == {b \in Scenes : /\ May("armed") \/ EndsAreThere(b)
                          /\ PairsAreJoinedOnce(b)}

Upload == [now : BOOLEAN, replaces : Cards \cup {None}]
Page == [open : BOOLEAN, visit : Nat, dirty : BOOLEAN,
         pending : Boards \cup {None}, timer : BOOLEAN]
Late == [visit : Nat, data : Boards]
Saving == [stage : {"envelope", "blob"}, data : Boards,
           title : {"title", ""}, visit : Nat, key : Nat]
StoredBoard == [title : {"title", ""}, envelope : Nat, key : Nat, data : Boards]

(* What the user sees: an armed connector names a card of the board.       *)
UiOK ==
    /\ ui \in Ui /\ upload \in Upload
    /\ ui.selected \subseteq DOMAIN board.cards
    /\ May("armed") \/ ui.src \in DOMAIN board.cards \cup {None}
    /\ ~page.open => ui = NoUi

BoardPageOK ==
    /\ page \in Page
    /\ page.timer => page.pending # None \/ ~page.dirty
    /\ page.pending # None => page.dirty

BoardInv ==
    /\ sitting \in Sittings /\ toDo \in Nat
    /\ board \in Boards /\ last \in Boards
    /\ UiOK /\ BoardPageOK
    /\ late \in Late \cup {None}
    /\ save \in [Saves -> Saving \cup {NoSave}]
    /\ stored \in StoredBoard
-----------------------------------------------------------------------------
(* Scenes are what IsScene says they are. *)
LEMMA ScenesAreScenes == \A b : IsScene(b) <=> b \in Scenes
  BY DEF IsScene, Scenes, SceneOf

(* No board is None. *)
LEMMA NoneIsNoBoard == None \notin Boards
  BY BoardAssumption DEF Boards, Scenes

(* The invariant gives the properties. *)
LEMMA InvariantGivesTypeOK == BoardInv => TypeOK
  <1> SUFFICES ASSUME BoardInv PROVE TypeOK
    OBVIOUS
  <1>1. \A b \in Boards : IsScene(b)
    BY ScenesAreScenes DEF Boards
  <1>2. IsPage(page)
    BY <1>1 DEF BoardInv, BoardPageOK, Page, IsPage
  <1>3. ASSUME NEW s \in Saves, save[s] # NoSave PROVE IsSave(save[s])
    <2>1. save[s] \in Saving
      BY <1>3 DEF BoardInv
    <2> QED
      BY <1>1, <2>1 DEF Saving, IsSave
  <1>4. IsStored(stored)
    BY <1>1 DEF BoardInv, StoredBoard, IsStored
  <1>5. late # None => /\ late = [visit |-> late.visit, data |-> late.data]
                       /\ late.visit \in Nat /\ IsScene(late.data)
    BY <1>1 DEF BoardInv, Late
  <1> QED
    BY <1>1, <1>2, <1>3, <1>4, <1>5 DEF BoardInv, UiOK, BoardPageOK, Upload, TypeOK

(* The scene of the invariant is sound. *)
LEMMA InvariantGivesConnections == BoardInv => ConnectionsJoinCards
  BY DEF BoardInv, Boards, ConnectionsJoinCards
-----------------------------------------------------------------------------
(* What the operators of Scene do to a sound board.                        *)

(* A board is the record of its cards, its connections and its background. *)
LEMMA BoardIsRecord ==
  ASSUME NEW b \in Boards
  PROVE  /\ b = [cards |-> b.cards, links |-> b.links,
                 background |-> b.background]
         /\ b.cards \in [DOMAIN b.cards -> Card] /\ DOMAIN b.cards \subseteq Cards
         /\ b.links \subseteq Link /\ b.background \in BOOLEAN
  <1>1. PICK ns \in SUBSET Cards : b \in SceneOf(ns)
    BY DEF Boards, Scenes
  <1> QED
    BY <1>1 DEF SceneOf

(* Cards and connections may be replaced together. *)
LEMMA ReplaceBoth ==
  ASSUME NEW S, NEW T, NEW U, NEW b \in [cards : S, links : T, background : U],
         NEW P, NEW Q, NEW D \in P, NEW M \in Q
  PROVE  LET new == [b EXCEPT !.cards = D, !.links = M]
         IN  /\ new \in [cards : P, links : Q, background : U]
             /\ new.cards = D /\ new.links = M
  OBVIOUS

(* Cards may be written to, and added. *)
LEMMA CardsKeepSound ==
  ASSUME NEW b \in Boards, NEW ns \in SUBSET Cards, NEW f \in [ns -> Card],
         DOMAIN b.cards \subseteq ns
  PROVE  [b EXCEPT !.cards = f] \in Boards
  <1> DEFINE new == [b EXCEPT !.cards = f]
  <1>1. /\ new = [cards |-> f, links |-> b.links, background |-> b.background]
        /\ b.links \subseteq Link /\ b.background \in BOOLEAN
    BY BoardIsRecord
  <1>2. new \in SceneOf(ns)
    BY <1>1 DEF SceneOf
  <1>3. new \in Scenes
    BY <1>2 DEF Scenes
  <1>4. new.cards = f /\ new.links = b.links /\ DOMAIN f = ns
    BY <1>1
  <1> HIDE DEF new
  <1>5. EndsAreThere(b) => EndsAreThere(new)
    BY <1>4 DEF EndsAreThere
  <1>6. PairsAreJoinedOnce(new)
    BY <1>4 DEF Boards, PairsAreJoinedOnce
  <1> QED
    BY <1>3, <1>5, <1>6 DEF new, Boards

(* Connections may be replaced by sound ones. *)
LEMMA LinksKeepSound ==
  ASSUME NEW b \in Boards, NEW L \in SUBSET Link,
         May("armed") \/ \A c \in L : {c.from, c.to} \subseteq DOMAIN b.cards,
         \A c \in L : /\ c.from # c.to
                      /\ \A d \in L : Joins(c, d.from, d.to) => c = d
  PROVE  [b EXCEPT !.links = L] \in Boards
  <1> DEFINE new == [b EXCEPT !.links = L]
  <1>1. /\ new = [cards |-> b.cards, links |-> L, background |-> b.background]
        /\ b.cards \in [DOMAIN b.cards -> Card] /\ DOMAIN b.cards \subseteq Cards
        /\ b.background \in BOOLEAN
    BY BoardIsRecord
  <1>2. new \in SceneOf(DOMAIN b.cards)
    BY <1>1 DEF SceneOf
  <1>3. new \in Scenes
    BY <1>1, <1>2 DEF Scenes
  <1>4. new.cards = b.cards /\ new.links = L
    BY <1>1
  <1> HIDE DEF new
  <1>5. May("armed") \/ EndsAreThere(new)
    BY <1>4 DEF EndsAreThere
  <1>6. PairsAreJoinedOnce(new)
    BY <1>4 DEF PairsAreJoinedOnce
  <1> QED
    BY <1>3, <1>5, <1>6 DEF new, Boards

(* Add puts one card on the board. *)
LEMMA AddKeepsSound ==
  ASSUME NEW b \in Boards, NEW n \in Cards, NEW card \in Card
  PROVE  /\ Add(b, n, card) \in Boards
         /\ DOMAIN Add(b, n, card).cards = DOMAIN b.cards \cup {n}
  <1> DEFINE ns == DOMAIN b.cards \cup {n}
             f == [k \in ns |-> IF k = n THEN card ELSE b.cards[k]]
  <1>1. ns \in SUBSET Cards /\ f \in [ns -> Card]
    BY BoardIsRecord
  <1>2. Add(b, n, card) = [b EXCEPT !.cards = f]
    BY BoardIsRecord DEF Add
  <1>3. Add(b, n, card).cards = f /\ DOMAIN f = ns
    BY <1>2, BoardIsRecord
  <1> HIDE DEF f
  <1>4. [b EXCEPT !.cards = f] \in Boards
    BY <1>1, CardsKeepSound
  <1> QED
    BY <1>2, <1>3, <1>4

(* Remove takes the connections of the cards with them. *)
LEMMA RemoveKeepsSound ==
  ASSUME NEW b \in Boards, NEW ns
  PROVE  /\ Remove(b, ns) \in Boards
         /\ DOMAIN Remove(b, ns).cards = DOMAIN b.cards \ ns
  <1> DEFINE ks == DOMAIN b.cards \ ns
             f == Restrict(b.cards, ks)
             L == {c \in b.links : c.from \notin ns /\ c.to \notin ns}
             new == Remove(b, ns)
  <1>1. ks \in SUBSET Cards /\ f \in [ks -> Card]
    BY BoardIsRecord DEF Restrict
  <1>3. DOMAIN f = ks
    BY <1>1
  <1>4. new = [b EXCEPT !.cards = f, !.links = L]
    BY Zenon DEF Remove
  <1>5. L \in SUBSET Link
    BY BoardIsRecord
  <1> HIDE DEF f, L, new
  <1>6. new \in SceneOf(ks) /\ new.cards = f /\ new.links = L
    <2>1. b \in [cards : [DOMAIN b.cards -> Card], links : SUBSET Link,
                 background : BOOLEAN]
      BY BoardIsRecord
    <2> QED
      BY <1>1, <1>4, <1>5, <2>1, ReplaceBoth DEF SceneOf
  <1>7. EndsAreThere(b) => EndsAreThere(new)
    BY <1>3, <1>6 DEF EndsAreThere, L
  <1>8. PairsAreJoinedOnce(new)
    BY <1>6 DEF Boards, PairsAreJoinedOnce, L
  <1>9. new \in Boards
    BY <1>1, <1>6, <1>7, <1>8 DEF Boards, Scenes
  <1> QED
    BY <1>3, <1>6, <1>9 DEF new

(* Connect joins two cards that were not joined. *)
LEMMA ConnectKeepsSound ==
  ASSUME NEW b \in Boards, NEW m \in Cards, NEW n \in Cards, m # n,
         May("armed") \/ {m, n} \subseteq DOMAIN b.cards
  PROVE  Connect(b, m, n) \in Boards /\ Connect(b, m, n).cards = b.cards
  <1> DEFINE new == [from |-> m, to |-> n, look |-> FALSE]
             L == b.links \cup {new}
  <1>1. CASE \E c \in b.links : Joins(c, m, n)
    BY <1>1 DEF Connect
  <1>2. CASE ~\E c \in b.links : Joins(c, m, n)
    <2>1. Connect(b, m, n) = [b EXCEPT !.links = L]
      BY <1>2 DEF Connect
    <2>2. Connect(b, m, n).cards = b.cards
      BY <2>1, BoardIsRecord
    <2>4. new \in Link /\ new.from = m /\ new.to = n
      BY DEF Link
    <2> HIDE DEF new
    <2>3. L \in SUBSET Link
      BY <2>4, BoardIsRecord
    <2>5. May("armed") \/ \A c \in L : {c.from, c.to} \subseteq DOMAIN b.cards
      BY <2>4 DEF Boards, EndsAreThere
    <2>6. \A c \in b.links : ~Joins(c, m, n)
      BY <1>2
    <2>7. ASSUME NEW c \in L
          PROVE /\ c.from # c.to
                /\ \A d \in L : Joins(c, d.from, d.to) => c = d
      <3>1. CASE c \in b.links
        BY <2>4, <2>6, <3>1 DEF Boards, PairsAreJoinedOnce
      <3>2. CASE c = new
        <4>1. \A d \in b.links : ~Joins(c, d.from, d.to)
          BY <2>4, <2>6, <3>2 DEF Joins
        <4> QED
          BY <2>4, <3>2, <4>1
      <3> QED
        BY <3>1, <3>2
    <2> HIDE DEF L
    <2>8. [b EXCEPT !.links = L] \in Boards
      BY <2>3, <2>5, <2>7, LinksKeepSound
    <2> QED
      BY <2>1, <2>2, <2>8
  <1> QED
    BY <1>1, <1>2
-----------------------------------------------------------------------------
(* The steps of the scene, the dialogs and the upload.                     *)

(* Which boards are sound depends on the sitting alone. *)
LEMMA BoardsStay == UNCHANGED sitting => Boards' = Boards
  BY DEF Boards, May

(* A change hands a sound board to the page. *)
LEMMA ChangeKeepsInv ==
  ASSUME BoardInv, NEW b \in Boards, Changed(b), page.open,
         UNCHANGED <<sitting, late, save, stored>>, toDo' \in Nat,
         ui' \in Ui, upload' \in Upload,
         ui'.selected \subseteq DOMAIN b.cards,
         May("armed") \/ ui'.src \in DOMAIN b.cards \cup {None}
  PROVE  BoardInv'
  <1>1. Boards' = Boards
    BY BoardsStay
  <1>2. board' = b /\ last' = b
    BY DEF Changed
  <1>3. page' = [page EXCEPT !.dirty = TRUE, !.pending = b, !.timer = TRUE]
    BY DEF Changed
  <1>4. page \in Page /\ b # None
    BY NoneIsNoBoard DEF BoardInv, BoardPageOK
  <1>5. page' \in Page /\ page'.dirty /\ page'.pending # None /\ page'.open
    BY <1>3, <1>4 DEF Page
  <1>6. BoardPageOK'
    BY <1>1, <1>5 DEF BoardPageOK, Page
  <1>7. UiOK'
    BY <1>2, <1>5 DEF UiOK, May, Ui, Upload
  <1> QED
    BY <1>1, <1>2, <1>6, <1>7 DEF BoardInv, Late, Saving, StoredBoard

(* A step that changes only what the user sees. *)
LEMMA LookKeepsInv ==
  ASSUME BoardInv, Unchanged, page.open,
         UNCHANGED <<sitting, late, save, stored>>, toDo' \in Nat,
         ui' \in Ui, upload' \in Upload,
         ui'.selected \subseteq DOMAIN board.cards,
         May("armed") \/ ui'.src \in DOMAIN board.cards \cup {None}
  PROVE  BoardInv'
  <1>1. Boards' = Boards
    BY BoardsStay
  <1>2. BoardPageOK'
    BY <1>1 DEF BoardInv, BoardPageOK, Page, Unchanged
  <1>3. UiOK'
    BY DEF UiOK, May, Ui, Upload, Unchanged
  <1> QED
    BY <1>1, <1>2, <1>3 DEF BoardInv, Late, Saving, StoredBoard, Unchanged

(* A tool is chosen; the connector may only be dropped by that. *)
LEMMA WithToolOK ==
  ASSUME NEW u \in Ui, NEW t \in Tools
  PROVE  /\ WithTool(u, t) \in Ui
         /\ WithTool(u, t).selected = u.selected
         /\ WithTool(u, t).src \in {u.src, None}
  BY DEF WithTool, Ui

(* A card's fields are of the types that the handlers write. *)
LEMMA CardsAreWritten ==
  ASSUME NEW card \in Card, NEW f \in Files \cup {None}
  PROVE  /\ NewCard(f) \in Card
         /\ [card EXCEPT !.look = ~@] \in Card
         /\ [card EXCEPT !.src = f] \in Card
  BY DEF NewCard, Card

(* One card of a sound board may be written to. *)
LEMMA WriteKeepsSound ==
  ASSUME NEW b \in Boards, NEW n, NEW f \in Files \cup {None}
  PROVE  /\ WithLook(b, n) \in Boards
         /\ DOMAIN WithLook(b, n).cards = DOMAIN b.cards
         /\ WithFile(b, n, f) \in Boards
         /\ DOMAIN WithFile(b, n, f).cards = DOMAIN b.cards
  <1>1. CASE n \notin DOMAIN b.cards
    BY <1>1 DEF WithLook, WithFile
  <1>2. CASE n \in DOMAIN b.cards
    <2> DEFINE g == [b.cards EXCEPT ![n].look = ~@]
               h == [b.cards EXCEPT ![n].src = f]
    <2>1. /\ b.cards \in [DOMAIN b.cards -> Card]
          /\ DOMAIN b.cards \in SUBSET Cards
          /\ DOMAIN b = {"cards", "links", "background"}
      BY BoardIsRecord
    <2>2. g \in [DOMAIN b.cards -> Card] /\ h \in [DOMAIN b.cards -> Card]
      BY <1>2, <2>1, CardsAreWritten
    <2>3. WithLook(b, n) = [b EXCEPT !.cards = g]
      BY <1>2, <2>1, Zenon DEF WithLook
    <2>4. WithFile(b, n, f) = [b EXCEPT !.cards = h]
      BY <1>2, <2>1, Zenon DEF WithFile
    <2> HIDE DEF g, h
    <2>5. /\ [b EXCEPT !.cards = g].cards = g
          /\ [b EXCEPT !.cards = h].cards = h
      BY <2>1
    <2>6. [b EXCEPT !.cards = g] \in Boards /\ [b EXCEPT !.cards = h] \in Boards
      BY <2>1, <2>2, CardsKeepSound
    <2> QED
      BY <2>2, <2>3, <2>4, <2>5, <2>6
  <1> QED
    BY <1>1, <1>2

(* The tools, Escape, the selection, and the dialog of a card. *)
LEMMA LookingKeepsInv ==
  ASSUME BoardInv,
         SetTool \/ Escape \/ PressCard \/ BoxSelect \/ OpenCard \/ PickFile
  PROVE  BoardInv'
  <1> USE DEF BoardInv
  <1>1. /\ ui \in Ui /\ upload \in Upload /\ toDo \in Nat
        /\ DOMAIN board.cards \subseteq Cards
        /\ ui.selected \subseteq DOMAIN board.cards
        /\ May("armed") \/ ui.src \in DOMAIN board.cards \cup {None}
        /\ ui.modal \in Cards \cup {None}
    BY BoardIsRecord DEF UiOK, Ui
  <1>2. {"select", "connect"} \subseteq Tools
    BY DEF Tools
  <1>3. CASE SetTool
    <2>1. PICK t \in Tools : ui' = WithTool(ui, t)
      BY <1>2, <1>3 DEF SetTool
    <2>2. /\ ui' \in Ui /\ ui'.selected = ui.selected
          /\ ui'.src \in {ui.src, None}
      BY <1>1, <2>1, WithToolOK
    <2> QED
      BY <1>1, <1>3, <2>2, LookKeepsInv DEF SetTool
  <1>4. CASE Escape
    <2>1. ui' = [WithTool(ui, "select") EXCEPT !.selected = {}, !.drag = FALSE]
      BY <1>4 DEF Escape
    <2>2. WithTool(ui, "select") \in Ui /\ WithTool(ui, "select").src \in {ui.src, None}
      BY <1>1, <1>2, WithToolOK
    <2>3. ui' \in Ui /\ ui'.selected = {} /\ ui'.src \in {ui.src, None}
      BY <2>1, <2>2 DEF Ui
    <2> QED
      BY <1>1, <1>4, <2>3, LookKeepsInv DEF Escape
  <1>5. CASE PressCard
    <2>1. PICK n \in DOMAIN board.cards, shift \in BOOLEAN :
            ui' = [ui EXCEPT !.drag = TRUE,
                             !.selected = IF shift \/ n \in @ THEN @ \cup {n}
                                                              ELSE {n}]
      BY <1>5 DEF PressCard
    <2>2. /\ ui' \in Ui /\ ui'.src = ui.src
          /\ ui'.selected \subseteq DOMAIN board.cards
      BY <1>1, <2>1 DEF Ui
    <2>3. /\ Unchanged /\ page.open /\ toDo' \in Nat
          /\ UNCHANGED <<sitting, upload, late, save, stored>>
      <3>1. /\ Unchanged /\ UserEdits("cards") /\ OnCanvas
            /\ UNCHANGED <<upload, late, save, stored>>
        BY <1>5, Zenon DEF PressCard
      <3> QED
        BY <1>1, <3>1 DEF UserEdits, OnCanvas
    <2> QED
      BY <1>1, <2>2, <2>3, LookKeepsInv
  <1>6. CASE BoxSelect
    <2>1. PICK ns \in SUBSET DOMAIN board.cards : ui' = [ui EXCEPT !.selected = ns]
      BY <1>6 DEF BoxSelect
    <2>2. ui' \in Ui /\ ui'.src = ui.src /\ ui'.selected = ns
      BY <1>1, <2>1 DEF Ui
    <2> QED
      BY <1>1, <1>6, <2>2, LookKeepsInv DEF BoxSelect, UserEdits, OnCanvas
  <1>7. CASE OpenCard
    <2>1. PICK n \in DOMAIN board.cards : ui' = [ui EXCEPT !.modal = n]
      BY <1>7 DEF OpenCard
    <2>2. ui' \in Ui /\ ui'.src = ui.src /\ ui'.selected = ui.selected
      BY <1>1, <2>1 DEF Ui
    <2> QED
      BY <1>1, <1>7, <2>2, LookKeepsInv DEF OpenCard, UserEdits, OnCanvas
  <1>8. CASE PickFile
    <2>1. PICK n \in {ui.modal} \cup {None} :
            upload' = [now |-> TRUE, replaces |-> n]
      BY <1>8 DEF PickFile
    <2>2. upload' \in Upload
      BY <1>1, <2>1 DEF Upload
    <2>3. /\ ui' \in Ui /\ ui'.selected = ui.selected
          /\ ui'.src \in {ui.src, None}
      BY <1>1, <1>2, <1>8, WithToolOK DEF PickFile
    <2> QED
      BY <1>1, <1>8, <2>2, <2>3, LookKeepsInv DEF PickFile, UserEdits
  <1> QED
    BY <1>3, <1>4, <1>5, <1>6, <1>7, <1>8

(* Drawing: cards come, change and go. *)
LEMMA CardStepsKeepInv ==
  ASSUME BoardInv,
         \/ Release \/ DeleteKey \/ DeleteCard \/ AddCard \/ DuplicateCard
         \/ CloseCard \/ SetBackground \/ SaveButton
  PROVE  BoardInv'
  <1> USE DEF BoardInv
  <1>1. /\ ui \in Ui /\ upload \in Upload /\ toDo \in Nat /\ board \in Boards
        /\ DOMAIN board.cards \subseteq Cards
        /\ board.cards \in [DOMAIN board.cards -> Card]
        /\ board.background \in BOOLEAN
        /\ ui.selected \subseteq DOMAIN board.cards
        /\ May("armed") \/ ui.src \in DOMAIN board.cards \cup {None}
    BY BoardIsRecord DEF UiOK
  <1>2. CASE Release
    <2>1. PICK ns \in {{}, ui.selected} : Changed(Moved(board, ns))
      BY <1>2 DEF Release
    <2> DEFINE f == [n \in DOMAIN board.cards |->
                       IF n \in ns THEN [board.cards[n] EXCEPT !.look = ~@]
                                   ELSE board.cards[n]]
               b == Moved(board, ns)
    <2>2. f \in [DOMAIN board.cards -> Card]
      BY <1>1, CardsAreWritten
    <2>3. b = [board EXCEPT !.cards = f]
      BY Zenon DEF Moved
    <2> HIDE DEF f, b
    <2>4. b \in Boards /\ b.cards = f
      BY <1>1, <2>2, <2>3, CardsKeepSound, BoardIsRecord
    <2>5. ui' \in Ui /\ ui'.selected = ui.selected /\ ui'.src = ui.src
      BY <1>1, <1>2 DEF Release, Ui
    <2>6. DOMAIN b.cards = DOMAIN board.cards
      BY <2>2, <2>4
    <2>7. Changed(b)
      BY <2>1 DEF b
    <2> QED
      BY <1>1, <1>2, <2>4, <2>5, <2>6, <2>7, ChangeKeepsInv DEF Release
  <1>3. ASSUME NEW ns, Deletes(ns), page.open, toDo' \in Nat,
               UNCHANGED <<sitting, upload, late, save, stored>>
        PROVE  BoardInv'
    <2>1. /\ Remove(board, ns) \in Boards
          /\ DOMAIN Remove(board, ns).cards = DOMAIN board.cards \ ns
      BY <1>1, RemoveKeepsSound
    <2>2. /\ ui' \in Ui /\ ui'.selected = ui.selected \ ns /\ ui'.src = ui.src
      BY <1>1, <1>3 DEF Deletes, Ui
    <2>3. May("armed") \/ ui.src \notin ns
      BY <1>3 DEF Deletes
    <2> QED
      BY <1>1, <1>3, <2>1, <2>2, <2>3, ChangeKeepsInv DEF Deletes
  <1>4. CASE DeleteKey
    BY <1>1, <1>3, <1>4 DEF DeleteKey, UserEdits
  <1>5. CASE DeleteCard
    BY <1>1, <1>3, <1>5 DEF DeleteCard, UserEdits, OnCanvas
  <1>6. CASE AddCard
    <2>1. PICK n \in FreshCards, menu \in BOOLEAN :
            /\ Changed(Add(board, n, NewCard(None)))
            /\ ui' = [(IF menu THEN ui ELSE WithTool(ui, "select"))
                         EXCEPT !.modal = n]
      BY <1>6 DEF AddCard
    <2>2. /\ Add(board, n, NewCard(None)) \in Boards
          /\ DOMAIN Add(board, n, NewCard(None)).cards = DOMAIN board.cards \cup {n}
      <3>1. n \in Cards /\ NewCard(None) \in Card
        BY DEF FreshCards, NewCard, Card
      <3> QED
        BY <1>1, <3>1, AddKeepsSound
    <2>3. /\ ui' \in Ui /\ ui'.selected = ui.selected
          /\ ui'.src \in {ui.src, None}
      <3> DEFINE u == IF menu THEN ui ELSE WithTool(ui, "select")
      <3>1. u \in Ui /\ u.selected = ui.selected /\ u.src \in {ui.src, None}
        BY <1>1, WithToolOK DEF Tools
      <3>2. ui' = [u EXCEPT !.modal = n] /\ n \in Cards
        BY <2>1 DEF FreshCards
      <3> HIDE DEF u
      <3> QED
        BY <3>1, <3>2 DEF Ui
    <2> QED
      BY <1>1, <1>6, <2>1, <2>2, <2>3, ChangeKeepsInv DEF AddCard, UserEdits, OnCanvas
  <1>7. CASE DuplicateCard
    <2>1. PICK n \in DOMAIN board.cards, new \in FreshCards :
            Changed(Add(board, new, board.cards[n]))
      BY <1>7 DEF DuplicateCard
    <2>2. /\ Add(board, new, board.cards[n]) \in Boards
          /\ DOMAIN Add(board, new, board.cards[n]).cards
               = DOMAIN board.cards \cup {new}
      <3>1. new \in Cards /\ board.cards[n] \in Card
        BY <1>1 DEF FreshCards
      <3> QED
        BY <1>1, <3>1, AddKeepsSound
    <2> QED
      BY <1>1, <1>7, <2>1, <2>2, ChangeKeepsInv DEF DuplicateCard, UserEdits, OnCanvas
  <1>8. CASE CloseCard
    <2>1. ui' \in Ui /\ ui'.selected = ui.selected /\ ui'.src = ui.src
      BY <1>1, <1>8 DEF CloseCard, Ui
    <2>2. CASE Unchanged
      BY <1>1, <1>8, <2>1, <2>2, LookKeepsInv DEF CloseCard
    <2>3. CASE Changed(WithLook(board, ui.modal))
      <3>1. /\ WithLook(board, ui.modal) \in Boards
            /\ DOMAIN WithLook(board, ui.modal).cards = DOMAIN board.cards
        BY <1>1, WriteKeepsSound
      <3> QED
        BY <1>1, <1>8, <2>1, <2>3, <3>1, ChangeKeepsInv DEF CloseCard
    <2> QED
      BY <1>8, <2>2, <2>3 DEF CloseCard
  <1>9. CASE SetBackground
    <2> DEFINE b == [board EXCEPT !.background = ~@]
    <2>1. b = [cards |-> board.cards, links |-> board.links,
               background |-> ~board.background]
      BY <1>1, BoardIsRecord
    <2>2. b \in SceneOf(DOMAIN board.cards)
      BY <1>1, <2>1, BoardIsRecord DEF SceneOf
    <2>3. b \in Scenes /\ b.cards = board.cards /\ b.links = board.links
      BY <1>1, <2>1, <2>2 DEF Scenes
    <2> HIDE DEF b
    <2>4. b \in Boards
      BY <1>1, <2>3 DEF Boards, EndsAreThere, PairsAreJoinedOnce
    <2>5. Changed(b)
      BY <1>9 DEF SetBackground, b
    <2> QED
      BY <1>1, <1>9, <2>3, <2>4, <2>5, ChangeKeepsInv DEF SetBackground, UserEdits
  <1>10. CASE SaveButton
    BY <1>1, <1>10, ChangeKeepsInv DEF SaveButton, UserEdits
  <1> QED
    BY <1>2, <1>4, <1>5, <1>6, <1>7, <1>8, <1>9, <1>10

(* Drawing: connections come, change and go. *)
LEMMA LinkStepsKeepInv ==
  ASSUME BoardInv, PressWithConnector \/ EditConnection \/ DeleteConnection
  PROVE  BoardInv'
  <1> USE DEF BoardInv
  <1>1. /\ ui \in Ui /\ upload \in Upload /\ toDo \in Nat /\ board \in Boards
        /\ DOMAIN board.cards \subseteq Cards
        /\ board.links \subseteq Link
        /\ ui.src \in Cards \cup {None}
        /\ ui.selected \subseteq DOMAIN board.cards
        /\ May("armed") \/ ui.src \in DOMAIN board.cards \cup {None}
    BY BoardIsRecord DEF UiOK, Ui
  <1>2. CASE PressWithConnector
    <2>1. /\ page.open /\ toDo' \in Nat
          /\ UNCHANGED <<sitting, upload, late, save, stored>>
      BY <1>1, <1>2 DEF PressWithConnector, UserEdits, OnCanvas
    <2>2. CASE ui' = [ui EXCEPT !.src = None] /\ Unchanged
      <3>1. ui' \in Ui /\ ui'.selected = ui.selected /\ ui'.src = None
        BY <1>1, <2>2 DEF Ui
      <3> QED
        BY <1>1, <2>1, <2>2, <3>1, LookKeepsInv
    <2>3. ASSUME NEW n \in DOMAIN board.cards \ {ui.src}, ui.src = None,
                 ui' = [ui EXCEPT !.src = n], Unchanged
          PROVE  BoardInv'
      <3>1. ui' \in Ui /\ ui'.selected = ui.selected /\ ui'.src = n
        BY <1>1, <2>3 DEF Ui
      <3> QED
        BY <1>1, <2>1, <2>3, <3>1, LookKeepsInv
    <2>4. ASSUME NEW n \in DOMAIN board.cards \ {ui.src}, ui.src # None,
                 ui' = [ui EXCEPT !.src = None],
                 Changed(Connect(board, ui.src, n))
          PROVE  BoardInv'
      <3>1. ui' \in Ui /\ ui'.selected = ui.selected /\ ui'.src = None
        BY <1>1, <2>4 DEF Ui
      <3>2. /\ Connect(board, ui.src, n) \in Boards
            /\ Connect(board, ui.src, n).cards = board.cards
        <4>1. /\ ui.src \in Cards /\ n \in Cards /\ ui.src # n
              /\ May("armed") \/ {ui.src, n} \subseteq DOMAIN board.cards
          BY <1>1, <2>4
        <4> QED
          BY <1>1, <4>1, ConnectKeepsSound
      <3> QED
        BY <1>1, <2>1, <2>4, <3>1, <3>2, ChangeKeepsInv
    <2> QED
      BY <1>2, <2>2, <2>3, <2>4 DEF PressWithConnector
  <1>3. CASE EditConnection
    <2>1. PICK c \in board.links :
            Changed([board EXCEPT !.links =
                        (@ \ {c}) \cup {[c EXCEPT !.look = ~@]}])
      BY <1>3 DEF EditConnection
    <2> DEFINE new == [c EXCEPT !.look = ~@]
               L == (board.links \ {c}) \cup {new}
               b == [board EXCEPT !.links = L]
    <2>2. Changed(b)
      BY <2>1, Zenon
    <2>3. new \in Link /\ new.from = c.from /\ new.to = c.to
      BY <1>1 DEF Link
    <2> HIDE DEF new
    <2>4. L \in SUBSET Link
      BY <1>1, <2>3
    <2>5. May("armed") \/ \A d \in L : {d.from, d.to} \subseteq DOMAIN board.cards
      BY <1>1, <2>3 DEF Boards, EndsAreThere
    <2>6. ASSUME NEW d \in L
          PROVE /\ d.from # d.to
                /\ \A e \in L : Joins(d, e.from, e.to) => d = e
      <3>1. \A x \in board.links :
              /\ x.from # x.to
              /\ \A y \in board.links : Joins(x, y.from, y.to) => x = y
        BY <1>1 DEF Boards, PairsAreJoinedOnce
      <3>2. CASE d = new
        BY <2>3, <3>1, <3>2 DEF Joins
      <3>3. CASE d # new
        <4>1. d \in board.links /\ d # c
          BY <3>3
        <4> QED
          BY <2>3, <3>1, <4>1 DEF Joins
      <3> QED
        BY <3>2, <3>3
    <2> HIDE DEF L
    <2>7. b \in Boards /\ b.cards = board.cards
      <3>1. b \in Boards
        BY <1>1, <2>4, <2>5, <2>6, LinksKeepSound
      <3>2. b.cards = board.cards
        BY <1>1, BoardIsRecord
      <3> QED
        BY <3>1, <3>2
    <2> HIDE DEF b
    <2>8. /\ page.open /\ toDo' \in Nat
          /\ UNCHANGED <<sitting, ui, upload, late, save, stored>>
      BY <1>1, <1>3 DEF EditConnection, UserEdits, OnCanvas
    <2> QED
      BY <1>1, <2>2, <2>7, <2>8, ChangeKeepsInv
  <1>4. CASE DeleteConnection
    <2>1. PICK c \in board.links : Changed([board EXCEPT !.links = @ \ {c}])
      BY <1>4 DEF DeleteConnection
    <2> DEFINE L == board.links \ {c}
               b == [board EXCEPT !.links = L]
    <2>2. Changed(b)
      BY <2>1, Zenon
    <2>3. /\ L \in SUBSET Link
          /\ May("armed") \/ \A d \in L : {d.from, d.to} \subseteq DOMAIN board.cards
          /\ \A d \in L : /\ d.from # d.to
                           /\ \A e \in L : Joins(d, e.from, e.to) => d = e
      BY <1>1 DEF Boards, EndsAreThere, PairsAreJoinedOnce
    <2> HIDE DEF L
    <2>4. b \in Boards /\ b.cards = board.cards
      <3>1. b \in Boards
        BY <1>1, <2>3, LinksKeepSound
      <3>2. b.cards = board.cards
        BY <1>1, BoardIsRecord
      <3> QED
        BY <3>1, <3>2
    <2> HIDE DEF b
    <2>5. /\ page.open /\ toDo' \in Nat
          /\ UNCHANGED <<sitting, ui, upload, late, save, stored>>
      BY <1>1, <1>4 DEF DeleteConnection, UserEdits, OnCanvas
    <2> QED
      BY <1>1, <2>2, <2>4, <2>5, ChangeKeepsInv
  <1> QED
    BY <1>2, <1>3, <1>4

(* A picture or PDF comes, onto its old card or a new one, or fails. *)
LEMMA FileComesKeepsInv ==
  ASSUME BoardInv, FileComes
  PROVE  BoardInv'
  <1> USE DEF BoardInv
  <1>1. /\ ui \in Ui /\ toDo \in Nat /\ board \in Boards
        /\ upload.replaces \in Cards \cup {None}
        /\ ui.selected \subseteq DOMAIN board.cards
        /\ May("armed") \/ ui.src \in DOMAIN board.cards \cup {None}
    BY DEF UiOK, Upload
  <1>2. /\ page.open /\ toDo' \in Nat /\ upload' \in Upload
        /\ UNCHANGED <<sitting, late, save, stored>>
    BY <1>1 DEF FileComes, NoUpload, Upload
  <1>3. ASSUME NEW f \in FreshFiles, upload.replaces # None,
               Changed(WithFile(board, upload.replaces, f)),
               ui' = [ui EXCEPT !.modal = upload.replaces]
        PROVE  BoardInv'
    <2>1. ui' \in Ui /\ ui'.selected = ui.selected /\ ui'.src = ui.src
      BY <1>1, <1>3 DEF Ui
    <2>2. /\ WithFile(board, upload.replaces, f) \in Boards
          /\ DOMAIN WithFile(board, upload.replaces, f).cards = DOMAIN board.cards
      <3>1. f \in Files \cup {None}
        BY DEF FreshFiles
      <3> QED
        BY <1>1, <3>1, WriteKeepsSound
    <2> QED
      BY <1>1, <1>2, <1>3, <2>1, <2>2, ChangeKeepsInv
  <1>4. ASSUME NEW f \in FreshFiles, NEW n \in FreshCards,
               Changed(Add(board, n, NewCard(f))), ui' = [ui EXCEPT !.modal = n]
        PROVE  BoardInv'
    <2>1. f \in Files \cup {None} /\ n \in Cards
      BY DEF FreshFiles, FreshCards
    <2>2. ui' \in Ui /\ ui'.selected = ui.selected /\ ui'.src = ui.src
      BY <1>1, <1>4, <2>1 DEF Ui
    <2>3. /\ Add(board, n, NewCard(f)) \in Boards
          /\ DOMAIN Add(board, n, NewCard(f)).cards = DOMAIN board.cards \cup {n}
      <3>1. NewCard(f) \in Card
        BY <2>1 DEF NewCard, Card
      <3> QED
        BY <1>1, <2>1, <3>1, AddKeepsSound
    <2> QED
      BY <1>1, <1>2, <1>4, <2>2, <2>3, ChangeKeepsInv
  <1>5. CASE Unchanged /\ UNCHANGED ui
    BY <1>1, <1>2, <1>5, LookKeepsInv
  <1> QED
    BY <1>3, <1>4, <1>5 DEF FileComes
-----------------------------------------------------------------------------
(* The steps of a save, of leaving and of opening.                         *)

(* Versions of the envelope are numbers. *)
LEMMA SumIsNat == \A m, n \in Nat : 1 + m + n \in Nat
  OBVIOUS

(* flushSave takes a sound board. *)
LEMMA FlushOK ==
  ASSUME BoardInv, NEW d \in Boards, NEW title \in {"title", ""}, NEW v \in Nat,
         Flush(d, title, v)
  PROVE  save' \in [Saves -> Saving \cup {NoSave}]
  <1>1. PICK s \in Saves :
          save' = [save EXCEPT ![s] =
             [stage |-> "envelope", data |-> d, title |-> title, visit |-> v,
              key |-> 1 + stored.envelope + Cardinality(
                            {r \in Saves : save[r] # NoSave})]]
    BY DEF Flush
  <1>2. Cardinality({r \in Saves : save[r] # NoSave}) \in Nat
    BY BoardAssumption, FS_Subset, FS_CardinalityType
  <1>3. stored.envelope \in Nat
    BY DEF BoardInv, StoredBoard
  <1> DEFINE c == Cardinality({r \in Saves : save[r] # NoSave})
             k == 1 + stored.envelope + c
  <1>4. k \in Nat
    <2>1. c \in Nat
      BY <1>2
    <2> HIDE DEF c
    <2> QED
      BY <1>3, <2>1, SumIsNat, Zenon
  <1> HIDE DEF k
  <1>5. [stage |-> "envelope", data |-> d, title |-> title, visit |-> v,
         key |-> k] \in Saving
    BY <1>4 DEF Saving
  <1> QED
    BY <1>1, <1>5 DEF BoardInv, k, c

(* What is pending is sound, on the page and with the timer of a page left. *)
LEMMA PendingIsSound ==
  ASSUME BoardInv
  PROVE  /\ page.pending # None => page.pending \in Boards
         /\ page.visit \in Nat
         /\ late # None => late.data \in Boards /\ late.visit \in Nat
         /\ late # None => late \in Late
  BY DEF BoardInv, BoardPageOK, Page, Late

(* A save begins. *)
LEMMA SaveBeginsKeepsInv ==
  ASSUME BoardInv, TimerFires \/ LateTimerFires \/ SaveByKey
  PROVE  BoardInv'
  <1> USE DEF BoardInv
  <1>1. Boards' = Boards
    BY BoardsStay DEF TimerFires, LateTimerFires, SaveByKey, UserEdits
  <1>2. CASE TimerFires \/ SaveByKey
    <2>1. /\ page' = [page EXCEPT !.timer = FALSE] /\ toDo' \in Nat
          /\ UNCHANGED <<sitting, board, ui, upload, late, stored, last>>
      <3>1. CASE TimerFires
        BY <3>1 DEF TimerFires
      <3>2. CASE SaveByKey
        <4>1. UserEdits("keyboard") /\ toDo \in Nat
          BY <3>2 DEF SaveByKey
        <4>2. toDo' \in Nat /\ sitting' = sitting
          BY <4>1 DEF UserEdits
        <4> QED
          BY <3>2, <4>2, Zenon DEF SaveByKey
      <3> QED
        BY <1>2, <3>1, <3>2
    <2>2. BoardPageOK' /\ page'.open = page.open
      BY <1>1, <2>1 DEF BoardPageOK, Page
    <2>3. UiOK'
      BY <2>1, <2>2 DEF UiOK, May, Ui, Upload
    <2>4. save' \in [Saves -> Saving \cup {NoSave}]
      <3>1. CASE page.pending # None
        BY <1>2, <3>1, PendingIsSound, FlushOK DEF TimerFires, SaveByKey
      <3>2. CASE page.pending = None
        BY <1>2, <3>2 DEF TimerFires, SaveByKey
      <3> QED
        BY <3>1, <3>2
    <2> QED
      BY <1>1, <2>1, <2>2, <2>3, <2>4 DEF Late, Saving, StoredBoard
  <1>3. CASE LateTimerFires
    <2>1. /\ late' = None
          /\ UNCHANGED <<sitting, toDo, board, ui, upload, page, stored, last>>
      BY <1>3 DEF LateTimerFires
    <2>2. save' \in [Saves -> Saving \cup {NoSave}]
      BY <1>3, PendingIsSound, FlushOK DEF LateTimerFires
    <2>3. BoardPageOK' /\ UiOK'
      BY <1>1, <2>1 DEF BoardPageOK, Page, UiOK, May, Ui, Upload
    <2> QED
      BY <1>1, <2>1, <2>2, <2>3 DEF Late, Saving, StoredBoard
  <1> QED
    BY <1>2, <1>3

(* A call of a save is answered or fails. *)
LEMMA SaveStepsKeepInv ==
  ASSUME BoardInv, NEW s \in Saves,
         UpdateVault(s) \/ UploadBoard(s) \/ SaveFails(s)
  PROVE  BoardInv'
  <1> USE DEF BoardInv
  <1>1. Boards' = Boards
    BY BoardsStay DEF UpdateVault, UploadBoard, SaveFails
  <1>2. save[s].stage \in {"envelope", "blob"} => save[s] \in Saving
    BY DEF NoSave
  <1>3. [save EXCEPT ![s] = NoSave] \in [Saves -> Saving \cup {NoSave}]
    OBVIOUS
  <1>4. CASE UpdateVault(s)
    <2>1. save[s] \in Saving
      BY <1>2, <1>4 DEF UpdateVault
    <2>2. save' = [save EXCEPT ![s] = [save[s] EXCEPT !.stage = "blob"]]
      BY <1>4 DEF UpdateVault
    <2>3. [save[s] EXCEPT !.stage = "blob"] \in Saving
      BY <2>1 DEF Saving
    <2>4. save' \in [Saves -> Saving \cup {NoSave}]
      BY <2>2, <2>3
    <2>5. stored' \in StoredBoard
      BY <1>4, <2>1 DEF UpdateVault, StoredBoard, Saving
    <2>6. BoardPageOK' /\ UiOK'
      BY <1>1, <1>4 DEF UpdateVault, BoardPageOK, Page, UiOK, May, Ui, Upload
    <2> QED
      BY <1>1, <1>4, <2>4, <2>5, <2>6 DEF UpdateVault, Late, Saving, StoredBoard
  <1>5. CASE UploadBoard(s)
    <2>1. save[s] \in Saving
      BY <1>2, <1>5 DEF UploadBoard
    <2>2. stored' \in StoredBoard
      BY <1>5, <2>1 DEF UploadBoard, StoredBoard, Saving
    <2>3. late' \in Late \cup {None}
      BY <1>5 DEF UploadBoard, Forget
    <2>4. BoardPageOK' /\ page'.open = page.open
      BY <1>1, <1>5 DEF UploadBoard, Forget, BoardPageOK, Page
    <2>5. UiOK'
      BY <1>5, <2>4 DEF UploadBoard, UiOK, May, Ui, Upload
    <2> QED
      BY <1>1, <1>3, <1>5, <2>2, <2>3, <2>4, <2>5
      DEF UploadBoard, Late, Saving, StoredBoard
  <1>6. CASE SaveFails(s)
    <2>1. BoardPageOK' /\ UiOK'
      BY <1>1, <1>6 DEF SaveFails, BoardPageOK, Page, UiOK, May, Ui, Upload
    <2> QED
      BY <1>1, <1>3, <1>6, <2>1 DEF SaveFails, Late, Saving, StoredBoard
  <1> QED
    BY <1>4, <1>5, <1>6

(* The page is left, or the board opened again. *)
LEMMA VisitsKeepInv ==
  ASSUME BoardInv, Leave \/ Reopen
  PROVE  BoardInv'
  <1> USE DEF BoardInv
  <1>1. Boards' = Boards /\ toDo' \in Nat /\ sitting' = sitting
    BY BoardsStay DEF Leave, Reopen, UserEdits
  <1>2. NoUi \in Ui /\ NoUi.selected = {} /\ NoUi.src = None
    BY DEF NoUi, Ui, Tools
  <1>3. CASE Leave
    <2>1. page' \in Page /\ ~page'.timer /\ page'.pending = None /\ ~page'.open
      BY <1>3 DEF Leave, BoardPageOK, Page
    <2>2. late' \in Late \cup {None}
      BY <1>3, PendingIsSound DEF Leave, Late
    <2>3. UiOK'
      BY <1>2, <1>3 DEF Leave, UiOK, NoUpload, Upload, Ui
    <2>4. BoardPageOK'
      BY <1>1, <2>1 DEF BoardPageOK, Page
    <2> QED
      BY <1>1, <1>3, <2>2, <2>3, <2>4 DEF Leave, Late, Saving, StoredBoard
  <1>4. CASE Reopen
    <2>1. ui = NoUi
      BY <1>4 DEF Reopen, UiOK
    <2>2. /\ page' = Visit(page.visit + 1)
          /\ UNCHANGED <<ui, upload, late, save, stored, last>>
      BY <1>4 DEF Reopen
    <2>3. page' \in Page /\ ~page'.timer /\ page'.pending = None
      BY <2>2, PendingIsSound DEF Visit, Page
    <2>4. BoardPageOK'
      BY <1>1, <2>3 DEF BoardPageOK, Page
    <2>5. UiOK'
      BY <1>2, <2>1, <2>2 DEF UiOK, Upload, Ui
    <2>6. Empty \in Boards
      <3> DEFINE f == [n \in {sitting.rootCard} |-> NewCard(None)]
      <3>1. {sitting.rootCard} \in SUBSET Cards /\ NewCard(None) \in Card
        BY BoardAssumption DEF NewCard, Card
      <3>2. f \in [{sitting.rootCard} -> Card]
        BY <3>1
      <3> HIDE DEF f
      <3>3. [cards |-> f, links |-> {}, background |-> FALSE]
              \in SceneOf({sitting.rootCard})
        BY <3>2 DEF SceneOf
      <3> QED
        BY <3>1, <3>3 DEF f, Empty, Boards, Scenes, EndsAreThere, PairsAreJoinedOnce
    <2>7. board' \in Boards
      BY <1>4, <2>6 DEF Reopen, StoredBoard
    <2> QED
      BY <1>1, <2>2, <2>4, <2>5, <2>7 DEF Late, Saving, StoredBoard
  <1> QED
    BY <1>3, <1>4
-----------------------------------------------------------------------------
(* Nothing is pending at first, and the board as stored is sound. *)
LEMMA InitEstablishesInv == BoardInit => BoardInv
  <1> SUFFICES ASSUME BoardInit PROVE BoardInv
    OBVIOUS
  <1>1. board \in Boards /\ last \in Boards /\ toDo \in Nat
    BY BoardAssumption, ScenesAreScenes DEF BoardInit, Boards
  <1>2. NoUi \in Ui /\ NoUi.selected = {} /\ NoUi.src = None
    BY DEF NoUi, Ui, Tools
  <1>3. UiOK
    BY <1>2 DEF BoardInit, UiOK, NoUpload, Upload, Visit
  <1>4. BoardPageOK
    BY DEF BoardInit, BoardPageOK, Page, Visit
  <1>5. stored \in StoredBoard
    BY <1>1 DEF BoardInit, StoredBoard
  <1> QED
    BY <1>1, <1>3, <1>4, <1>5 DEF BoardInit, BoardInv

(* No step breaks the invariant. *)
LEMMA StepsKeepInv == BoardInv /\ [BoardNext]_boardVars => BoardInv'
  <1> SUFFICES ASSUME BoardInv, [BoardNext]_boardVars PROVE BoardInv'
    OBVIOUS
  <1>1. CASE UNCHANGED boardVars
    <2>1. /\ Boards' = Boards
          /\ UNCHANGED <<sitting, toDo, board, ui, upload, page, late, save,
                         stored, last>>
      BY <1>1, BoardsStay DEF boardVars
    <2>2. UiOK' /\ BoardPageOK'
      BY <2>1 DEF BoardInv, UiOK, BoardPageOK, Upload, Page, May, Ui
    <2> QED
      BY <2>1, <2>2 DEF BoardInv, Late, Saving, StoredBoard
  <1>2. CASE BoardNext
    BY <1>2, LookingKeepsInv, CardStepsKeepInv, LinkStepsKeepInv,
       FileComesKeepsInv, SaveBeginsKeepsInv, SaveStepsKeepInv, VisitsKeepInv
       DEF BoardNext
  <1> QED
    BY <1>1, <1>2

(* The invariant holds of every behaviour. *)
LEMMA InvHolds == BoardSpec => []BoardInv
  BY InitEstablishesInv, StepsKeepInv, PTL DEF BoardSpec

(* Types of the scene, the page, the saves and the server's copy; a timer  *)
(* that runs for a dirty page has a board to store.                        *)
THEOREM BoardTypes == BoardSpec => []TypeOK
  BY InvHolds, InvariantGivesTypeOK, PTL

(* Every connection joins two cards of the board, and no two join the same *)
(* pair: after any drawing, deletion behind an open dialog, failed or      *)
(* overlapping save, outage or reopening, for a user who drops an armed    *)
(* connector before deleting its card.                                     *)
THEOREM ConnectionsAlwaysJoinCards == BoardSpec => []ConnectionsJoinCards
  BY InvHolds, InvariantGivesConnections, PTL

-----------------------------------------------------------------------------
(* The list of vaults.                                                     *)

Stores == [kind : Kinds, name : Names \cup {Blank}, note : Notes, labels : Labels]

VaultRow == [name : Names \cup {Blank}, note : Notes, labels : Labels,
             draftNote : Notes, draftLabels : Labels, saving : BOOLEAN]

Lists(S) == UNION {[D -> S] : D \in SUBSET Vaults}

Lobbies == [page : {"lobby", "map", "board"}, keys : BOOLEAN,
            rows : Lists(VaultRow), counts : SUBSET Vaults, loading : BOOLEAN,
            told : BOOLEAN, opened : Vaults \cup {Blank}]

Load == {NotAsked, Asked} \cup [stage : {"answered"}, items : Lists(Stores)]

Asking == {NoList} \cup [stage : {"asked", "answered"}, ids : SUBSET Vaults,
                         shares : SUBSET Vaults]

Naming == [name : Names]
Setting == [note : Notes, labels : Labels, touched : BOOLEAN]

Calls == [kind : {"rename", "save", "delete", "create", "board"}, vault : Vaults,
          stage : {"read", "write", "delete", "create", "upload", "get"},
          live : BOOLEAN, patch : Naming \cup Setting \cup {<<>>}, base : Stores]

CallOK(c) ==
    /\ c.kind \in {"rename", "create", "board"} => c.patch \in Naming
    /\ c.kind = "save" => c.patch \in Setting
    /\ \/ c.kind \in {"rename", "save"} /\ c.stage \in {"read", "write"}
       \/ c.kind = "delete" /\ c.stage = "delete"
       \/ c.kind = "create" /\ c.stage \in {"create", "upload", "get"}
       \/ c.kind = "board" /\ c.stage \in {"create", "upload", "read", "write"}

Making(c) == c.kind \in {"create", "board"}
Made == {c.vault : c \in {d \in calls : Making(d)}}

TypesOK ==
    /\ scenario \in Scenarios /\ left \in Nat
    /\ server \in [Vaults -> Stores]
    /\ lobby \in Lobbies
    /\ loads \in [Closures -> Load]
    /\ asking \in Asking
    /\ calls \subseteq Calls /\ \A c \in calls : CallOK(c)

(* Which vaults there are. *)
BornOK ==
    /\ \A c \in calls : c.stage = "create" <=> server[c.vault].kind = "absent"
    /\ \A c, d \in calls : c.stage = "create" /\ c.vault = d.vault => c = d
    /\ \A v \in DOMAIN lobby.rows : server[v].kind # "absent"
    /\ \A l \in Closures : loads[l].stage = "answered" =>
          \A v \in DOMAIN loads[l].items : server[v].kind # "absent"
    /\ \A v \in scenario.seed : server[v].kind # "absent"

(* Another page shows no rows and has no load under way, and a page        *)
(* without keys has asked for nothing.                                     *)
PageOK ==
    /\ lobby.page # "lobby" =>
          /\ lobby.keys /\ lobby.opened \in Vaults
          /\ DOMAIN lobby.rows = {} /\ Loading = {} /\ asking = NoList
    /\ ~lobby.keys =>
          /\ scenario.unlock /\ calls = {}
          /\ DOMAIN lobby.rows = {} /\ Loading = {} /\ asking = NoList

LobbyInv == TypesOK /\ BornOK /\ PageOK

(* The user waits for answers: a vault has one call at most, no call but   *)
(* one that makes a vault meets a load, and what a call has read before it *)
(* writes is what the server still has.                                    *)
PatientOK ==
    /\ \A c, d \in calls : c.vault = d.vault => c = d
    /\ \A c \in calls : c.live <=> lobby.page = "lobby"
    /\ Loading # {} => \A c \in calls : Making(c)
    /\ \A c \in calls : c.stage = "write" =>
          c.vault \in Listed /\ c.base = server[c.vault]
    /\ \A c \in calls : Making(c) /\ c.stage # "create" => c.vault \in Listed

PatientInv == scenario.patient => PatientOK

(* What the lobby shows of a vault, and what a load's answer says of it, is *)
(* what the server has.                                                     *)
RowTells(v) ==
    /\ v \in DOMAIN lobby.rows <=> v \in Listed
    /\ v \in Listed =>
         LET r == lobby.rows[v] s == server[v]
         IN  r.name = s.name /\ r.note = s.note /\ r.labels = s.labels

ItemTells(l, v) ==
    /\ v \in DOMAIN loads[l].items <=> v \in Listed
    /\ v \in Listed => loads[l].items[v] = server[v]

(* The vaults being made are left out, which no load may know of yet; a    *)
(* load under way will replace the rows, so that nothing is asked of them. *)
TellOK ==
    /\ \A l \in Closures : loads[l].stage = "answered" =>
          \A v \in Vaults \ Made : ItemTells(l, v)
    /\ lobby.page = "lobby" /\ lobby.keys /\ Loading = {} =>
          \A v \in Vaults \ Made : RowTells(v)

(* The load without names is answered before the other one, if at all; an  *)
(* error on screen says that the rows may be wrong.                        *)
InOrderOK ==
    /\ loads["keyless"].stage # "none" => loads["keyed"].stage # "none"
    /\ ~lobby.told => TellOK

TellInv == scenario.patient /\ scenario.inOrder => InOrderOK

(* The label BOARD_LABEL is with boards and not with maps, wherever labels *)
(* are: on the server, in rows and drafts, in the answers of loads and in  *)
(* the settings a call is about to write.                                  *)
Labelled(ls, v) == Board \in ls <=> Board \in server[v].labels

KindOK ==
    /\ \A v \in Vaults \ Made :
          /\ server[v].kind = "board" => Board \in server[v].labels
          /\ server[v].kind = "map" => Board \notin server[v].labels
    /\ \A v \in DOMAIN lobby.rows \ Made :
          /\ Labelled(lobby.rows[v].labels, v)
          /\ Labelled(lobby.rows[v].draftLabels, v)
    /\ \A l \in Closures : loads[l].stage = "answered" =>
          \A v \in DOMAIN loads[l].items \ Made :
             Labelled(loads[l].items[v].labels, v)
    /\ \A c \in calls :
          /\ c.kind = "save" => Labelled(c.patch.labels, c.vault)
          /\ c.kind = "create" /\ c.stage # "create" =>
                /\ server[c.vault].kind # "board"
                /\ Board \notin server[c.vault].labels
          /\ c.kind = "board" /\ c.stage \in {"read", "write"} =>
                server[c.vault].kind = "board"
    /\ lobby.page # "lobby" =>
          /\ lobby.opened \notin Made /\ server[lobby.opened].kind # "absent"
          /\ lobby.page = "map" => server[lobby.opened].kind # "board"
          /\ lobby.page = "board" => server[lobby.opened].kind # "map"

KindInv == scenario.patient /\ ~scenario.fails => KindOK

(* In a lobby opened with its keys the list of shares is that of the rows  *)
(* on screen, or is being fetched for them.                                *)
CountsOK ==
    /\ loads["keyless"].stage = "none"
    /\ loads["keyed"].stage # "none" => DOMAIN lobby.rows = {} /\ asking = NoList
    /\ lobby.counts \subseteq scenario.shared
    /\ asking.shares \subseteq scenario.shared
    /\ asking.stage # "none" => asking.ids = DOMAIN lobby.rows
    /\ asking.stage # "asked" =>
         \A v \in DOMAIN lobby.rows \cap Listed \cap scenario.shared :
            v \in IF asking.stage = "none" THEN lobby.counts ELSE asking.shares

CountsInv == ~scenario.unlock /\ ~scenario.fails => CountsOK
-----------------------------------------------------------------------------
(* Lists of vaults. *)
LEMMA ListFacts ==
    ASSUME NEW S
    PROVE  /\ \A f \in Lists(S) : /\ DOMAIN f \subseteq Vaults
                                  /\ f \in [DOMAIN f -> S]
                                  /\ \A v \in DOMAIN f : f[v] \in S
           /\ \A D \in SUBSET Vaults : \A f \in [D -> S] : f \in Lists(S) /\ DOMAIN f = D
  BY DEF Lists

(* An empty list. *)
LEMMA NoRows == ASSUME NEW S PROVE <<>> \in Lists(S) /\ DOMAIN <<>> = {}
  <1>1. <<>> = [v \in {} |-> v]
    OBVIOUS
  <1>2. <<>> \in [{} -> S]
    BY <1>1
  <1> QED
    BY <1>1, <1>2, ListFacts

(* One row of a list is replaced. *)
LEMMA RowChanged ==
    ASSUME NEW S, NEW f \in Lists(S), NEW v, NEW x \in S
    PROVE  /\ [f EXCEPT ![v] = x] \in Lists(S)
           /\ DOMAIN [f EXCEPT ![v] = x] = DOMAIN f
           /\ \A u \in DOMAIN f : u # v => [f EXCEPT ![v] = x][u] = f[u]
           /\ v \in DOMAIN f => [f EXCEPT ![v] = x][v] = x
  <1>1. DOMAIN f \subseteq Vaults /\ f \in [DOMAIN f -> S]
    BY ListFacts
  <1>2. [f EXCEPT ![v] = x] \in [DOMAIN f -> S]
    BY <1>1
  <1> QED
    BY <1>1, <1>2, ListFacts

(* A call that has read its vault. *)
HasRead(c, b) == [c EXCEPT !.stage = "write", !.base = b]

(* Reading a vault changes nothing else of a call. *)
LEMMA ReadFacts ==
    ASSUME NEW c \in Calls, NEW b \in Stores
    PROVE  LET d == HasRead(c, b)
           IN  /\ d \in Calls /\ d.stage = "write" /\ d.kind = c.kind
               /\ d.vault = c.vault /\ d.live = c.live
               /\ d.patch = c.patch /\ d.base = b
  <1> DEFINE P == Naming \cup Setting \cup {<<>>}
  <1>1. Calls = [kind : {"rename", "save", "delete", "create", "board"}, vault : Vaults,
          stage : {"read", "write", "delete", "create", "upload", "get"},
          live : BOOLEAN, patch : P, base : Stores]
    BY DEF Calls
  <1> HIDE DEF P
  <1> QED
    BY <1>1 DEF HasRead

(* A call with its next stage. *)
LEMMA CallFacts ==
    ASSUME NEW c \in Calls
    PROVE  /\ c.vault \in Vaults /\ c.base \in Stores /\ c.live \in BOOLEAN
           /\ \A s \in {"read", "write", "delete", "create", "upload", "get"} :
                /\ [c EXCEPT !.stage = s] \in Calls
                /\ [c EXCEPT !.stage = s].stage = s
                /\ [c EXCEPT !.stage = s].kind = c.kind
                /\ [c EXCEPT !.stage = s].vault = c.vault
                /\ [c EXCEPT !.stage = s].live = c.live
                /\ [c EXCEPT !.stage = s].patch = c.patch
                /\ [c EXCEPT !.stage = s].base = c.base
           /\ /\ [c EXCEPT !.live = FALSE] \in Calls
              /\ [c EXCEPT !.live = FALSE].stage = c.stage
              /\ [c EXCEPT !.live = FALSE].kind = c.kind
              /\ [c EXCEPT !.live = FALSE].vault = c.vault
              /\ [c EXCEPT !.live = FALSE].live = FALSE
              /\ [c EXCEPT !.live = FALSE].patch = c.patch
              /\ [c EXCEPT !.live = FALSE].base = c.base
  <1> DEFINE P == Naming \cup Setting \cup {<<>>}
  <1>1. Calls = [kind : {"rename", "save", "delete", "create", "board"}, vault : Vaults,
          stage : {"read", "write", "delete", "create", "upload", "get"},
          live : BOOLEAN, patch : P, base : Stores]
    BY DEF Calls
  <1> HIDE DEF P
  <1> QED
    BY <1>1
-----------------------------------------------------------------------------
(* What the page keeps through a change of its rows, and of anything else. *)
LEMMA ToldTypes ==
    ASSUME LobbyInv, NEW c \in calls
    PROVE  /\ Told(c) \in Lobbies
           /\ DOMAIN Told(c).rows = DOMAIN lobby.rows
           /\ Told(c).page = lobby.page /\ Told(c).keys = lobby.keys
           /\ Told(c).counts = lobby.counts /\ Told(c).opened = lobby.opened
           /\ ~c.live => Told(c) = lobby
           /\ c.live => Told(c).told
  <1>1. lobby \in Lobbies /\ lobby.rows \in Lists(VaultRow)
    BY DEF LobbyInv, TypesOK, Lobbies
  <1>2. CASE c.live /\ c.kind = "save" /\ c.vault \in DOMAIN lobby.rows
    <2> DEFINE r == [lobby.rows[c.vault] EXCEPT !.saving = FALSE]
               rs == [lobby.rows EXCEPT ![c.vault] = r]
    <2>1. lobby.rows[c.vault] \in VaultRow
      BY <1>1, <1>2, ListFacts
    <2>2. r \in VaultRow
      BY <2>1 DEF VaultRow
    <2> HIDE DEF r
    <2>3. rs \in Lists(VaultRow) /\ DOMAIN rs = DOMAIN lobby.rows
      BY <1>1, <2>2, RowChanged
    <2>4. Told(c) = [lobby EXCEPT !.told = TRUE, !.rows = rs]
      BY <1>1, <1>2 DEF Told, Lobbies, r
    <2> HIDE DEF rs
    <2> QED
      BY <1>1, <1>2, <2>3, <2>4 DEF Lobbies
  <1>3. CASE ~(c.live /\ c.kind = "save" /\ c.vault \in DOMAIN lobby.rows)
    BY <1>1, <1>3 DEF Told, Lobbies
  <1> QED
    BY <1>2, <1>3

(* New rows, and the effect that lists shares. *)
LEMMA ShowTypes ==
    ASSUME LobbyInv, NEW rows \in Lists(VaultRow), NEW counts \in SUBSET Vaults,
           NEW loading \in BOOLEAN, ShowRows(rows, counts, loading)
    PROVE  /\ lobby' \in Lobbies /\ asking' \in Asking
           /\ lobby'.rows = rows /\ lobby'.page = lobby.page
           /\ lobby'.keys = lobby.keys /\ lobby'.opened = lobby.opened
           /\ lobby'.counts = counts /\ lobby'.told = lobby.told
  <1>1. lobby \in Lobbies /\ asking \in Asking /\ DOMAIN rows \subseteq Vaults
    BY ListFacts DEF LobbyInv, TypesOK
  <1>2. asking' \in Asking
    BY <1>1 DEF ShowRows, Asking
  <1> QED
    BY <1>1, <1>2 DEF ShowRows, Lobbies

(* Which vaults were made does not depend on the page. *)
LEMMA StillThere ==
    ASSUME LobbyInv, UNCHANGED <<scenario, server, calls, loads>>,
           lobby' \in Lobbies, asking' \in Asking, left' \in Nat,
           DOMAIN lobby'.rows \subseteq DOMAIN lobby.rows, 
           lobby'.page = lobby.page, lobby'.keys = lobby.keys,
           lobby'.opened = lobby.opened,
           DOMAIN lobby.rows = {} => asking' = asking
    PROVE  LobbyInv'
  <1>1. TypesOK'
    BY DEF LobbyInv, TypesOK
  <1>2. BornOK'
    BY DEF LobbyInv, BornOK
  <1>3. PageOK'
    BY DEF LobbyInv, PageOK, Loading
  <1> QED
    BY <1>1, <1>2, <1>3 DEF LobbyInv

(* The effect that lists the active shares keeps LobbyInv. *)
LEMMA AskingIsSafe ==
    ASSUME LobbyInv, ListShares \/ SharesListed
    PROVE  LobbyInv'
  <1>0. asking.stage # "none" /\ NoList.stage = "none"
    BY DEF ListShares, SharesListed, NoList
  <1>1. /\ lobby \in Lobbies /\ asking \in Asking /\ left \in Nat
        /\ asking.stage # "none" /\ asking # NoList
    BY <1>0 DEF LobbyInv, TypesOK
  <1>2. asking \in [stage : {"asked", "answered"}, ids : SUBSET Vaults,
                    shares : SUBSET Vaults]
    BY <1>1 DEF Asking
  <1>3. lobby.page = "lobby" /\ lobby.keys
    BY <1>1 DEF LobbyInv, PageOK, Lobbies
  <1>4. CASE ListShares
    <2>1. asking' \in Asking
      BY <1>2, <1>4 DEF ListShares, Asking
    <2>2. TypesOK' /\ BornOK' /\ PageOK'
      BY <1>1, <1>3, <1>4, <2>1 DEF ListShares, LobbyInv, TypesOK, BornOK, PageOK
    <2> QED
      BY <2>2 DEF LobbyInv
  <1>5. CASE SharesListed
    <2>1. lobby' \in Lobbies /\ lobby'.rows = lobby.rows /\ asking' \in Asking
          /\ lobby'.page = lobby.page /\ lobby'.keys = lobby.keys
      BY <1>1, <1>2, <1>5 DEF SharesListed, Lobbies, Asking
    <2>2. TypesOK' /\ BornOK' /\ PageOK'
      BY <1>1, <1>3, <1>5, <2>1 DEF SharesListed, LobbyInv, TypesOK, BornOK, PageOK
    <2> QED
      BY <2>2 DEF LobbyInv
  <1> QED
    BY <1>4, <1>5

(* A draft is changed. *)
LEMMA DraftsAreSafe ==
    ASSUME LobbyInv, NEW v \in Vaults, SetDraftNote(v) \/ SetDraftLabels(v)
    PROVE  LobbyInv'
  <1>1. /\ lobby \in Lobbies /\ asking' = asking /\ asking \in Asking /\ left' \in Nat
        /\ UNCHANGED <<scenario, server, calls, loads>> /\ v \in DOMAIN lobby.rows
    BY DEF LobbyInv, TypesOK, SetDraftNote, SetDraftLabels, UserDoes, OnRow
  <1>2. lobby.rows \in Lists(VaultRow) /\ lobby.rows[v] \in VaultRow
    BY <1>1, ListFacts DEF Lobbies
  <1>3. PICK r \in VaultRow : lobby' = [lobby EXCEPT !.rows = [lobby.rows EXCEPT ![v] = r]]
    <2>1. CASE SetDraftNote(v)
      <3>1. PICK t \in Notes : lobby' = [lobby EXCEPT !.rows[v].draftNote = t]
        BY <2>1 DEF SetDraftNote
      <3>2. [lobby.rows[v] EXCEPT !.draftNote = t] \in VaultRow
        BY <1>2 DEF VaultRow
      <3> QED
        BY <1>1, <3>1, <3>2 DEF Lobbies
    <2>2. CASE SetDraftLabels(v)
      <3>1. PICK x \in Tags :
               lobby' = [lobby EXCEPT !.rows[v].draftLabels =
                  IF x \in Visible(lobby.rows[v].draftLabels)
                  THEN lobby.rows[v].draftLabels \ {x}
                  ELSE lobby.rows[v].draftLabels \cup {x}]
        BY <2>2 DEF SetDraftLabels
      <3> DEFINE ls == IF x \in Visible(lobby.rows[v].draftLabels)
                       THEN lobby.rows[v].draftLabels \ {x}
                       ELSE lobby.rows[v].draftLabels \cup {x}
      <3>2. ls \in Labels
        BY <1>2 DEF VaultRow, Labels
      <3> HIDE DEF ls
      <3>3. [lobby.rows[v] EXCEPT !.draftLabels = ls] \in VaultRow
        BY <1>2, <3>2 DEF VaultRow
      <3>4. lobby' = [lobby EXCEPT !.rows[v].draftLabels = ls]
        BY <3>1 DEF ls
      <3> QED
        BY <1>1, <3>3, <3>4 DEF Lobbies
    <2> QED
      BY <2>1, <2>2
  <1> DEFINE rs == [lobby.rows EXCEPT ![v] = r]
  <1>4. rs \in Lists(VaultRow) /\ DOMAIN rs = DOMAIN lobby.rows
    BY <1>2, RowChanged
  <1>5. lobby' = [lobby EXCEPT !.rows = rs]
    BY <1>3
  <1> HIDE DEF rs
  <1>6. /\ lobby' \in Lobbies /\ lobby'.rows = rs /\ lobby'.page = lobby.page
        /\ lobby'.keys = lobby.keys /\ lobby'.opened = lobby.opened
    BY <1>1, <1>4, <1>5 DEF Lobbies
  <1> QED
    BY <1>1, <1>4, <1>6, StillThere

(* Another call. *)
LEMMA CallAdded ==
    ASSUME LobbyInv, NEW c \in Calls, CallOK(c), calls' = calls \cup {c},
           UNCHANGED <<scenario, server, loads, asking>>, left' \in Nat,
           lobby' \in Lobbies, DOMAIN lobby'.rows = DOMAIN lobby.rows,
           lobby'.page = lobby.page, lobby'.keys, lobby.keys,
           lobby'.opened = lobby.opened,
           c.stage = "create" <=> server[c.vault].kind = "absent",
           c.stage = "create" => \A d \in calls : d.vault # c.vault
    PROVE  LobbyInv'
  <1>1. TypesOK'
    BY DEF LobbyInv, TypesOK
  <1>2. BornOK'
    BY DEF LobbyInv, BornOK
  <1>3. PageOK'
    BY DEF LobbyInv, PageOK, Loading
  <1> QED
    BY <1>1, <1>2, <1>3 DEF LobbyInv

(* A call ends or goes on, and the page stays. *)
LEMMA CallMoved ==
    ASSUME LobbyInv, NEW c \in calls, NEW d \in Calls,
           \/ calls' = calls \ {c}
           \/ /\ calls' = (calls \ {c}) \cup {d}
              /\ CallOK(d) /\ d.stage # "create" /\ d.vault = c.vault,
           UNCHANGED <<scenario, left, loads>>,
           server' \in [Vaults -> Stores],
           \A v \in Vaults : v # c.vault => server'[v] = server[v],
           (server' = server /\ calls' = calls \ {c}) \/ server'[c.vault].kind # "absent",
           lobby' \in Lobbies, asking' \in Asking,
           DOMAIN lobby'.rows \subseteq DOMAIN lobby.rows,
           lobby'.page = lobby.page, lobby'.keys = lobby.keys,
           lobby'.opened = lobby.opened,
           DOMAIN lobby.rows = {} => asking' = asking
    PROVE  LobbyInv'
  <1>1. TypesOK'
    BY DEF LobbyInv, TypesOK
  <1>2. BornOK'
    <2>1. c \in Calls /\ c.vault \in Vaults /\ calls \subseteq Calls
      BY CallFacts DEF LobbyInv, TypesOK
    <2>2. \A e \in calls : e.vault \in Vaults
      BY <2>1, CallFacts
    <2>3. \A v \in Vaults : server'[v].kind = "absent" => server[v].kind = "absent"
      BY <2>1, <2>2 DEF LobbyInv, BornOK
    <2>4. \A e \in calls' : e.stage = "create" <=> server'[e.vault].kind = "absent"
      BY <2>1, <2>2 DEF LobbyInv, BornOK
    <2>5. \A e, f \in calls' : e.stage = "create" /\ e.vault = f.vault => e = f
      BY <2>1, <2>2, <2>4 DEF LobbyInv, BornOK
    <2>6. /\ DOMAIN lobby.rows \subseteq Vaults /\ scenario.seed \subseteq Vaults
          /\ \A l \in Closures : loads[l].stage = "answered" =>
               DOMAIN loads[l].items \subseteq Vaults
      <3>1. \A l \in Closures : loads[l] \in Load
        BY DEF LobbyInv, TypesOK
      <3> QED
        BY <3>1, ListFacts, LobbyAssumption
        DEF LobbyInv, TypesOK, Lobbies, Load, NotAsked, Asked
    <2> QED
      BY <2>3, <2>4, <2>5, <2>6 DEF LobbyInv, BornOK
  <1>3. PageOK'
    BY DEF LobbyInv, PageOK, Loading
  <1> QED
    BY <1>1, <1>2, <1>3 DEF LobbyInv

(* A call ends: CallMoved without a call that goes on. *)
LEMMA CallEnded ==
    ASSUME LobbyInv, NEW c \in calls, calls' = calls \ {c},
           UNCHANGED <<scenario, left, loads>>,
           server' \in [Vaults -> Stores],
           \A v \in Vaults : v # c.vault => server'[v] = server[v],
           server' = server \/ server'[c.vault].kind # "absent",
           lobby' \in Lobbies, asking' \in Asking,
           DOMAIN lobby'.rows \subseteq DOMAIN lobby.rows,
           lobby'.page = lobby.page, lobby'.keys = lobby.keys,
           lobby'.opened = lobby.opened,
           DOMAIN lobby.rows = {} => asking' = asking
    PROVE  LobbyInv'
  <1>1. c \in Calls
    BY DEF LobbyInv, TypesOK
  <1> QED
    BY <1>1, CallMoved

(* A call that was made just now. *)
LEMMA NewCall ==
    ASSUME NEW k \in {"rename", "save", "delete", "create", "board"},
           NEW v \in Vaults, NEW p \in Naming \cup Setting \cup {<<>>},
           NEW s \in {"read", "delete", "create"}
    PROVE  /\ Call(k, v, s, p) \in Calls
           /\ Call(k, v, s, p).kind = k /\ Call(k, v, s, p).vault = v
           /\ Call(k, v, s, p).stage = s /\ Call(k, v, s, p).patch = p
           /\ Call(k, v, s, p).live
  <1>1. Absent \in Stores
    BY LobbyAssumption DEF Absent, Stored, Stores, Kinds, Labels
  <1>2. Call(k, v, s, p) =
          [kind |-> k, vault |-> v, stage |-> s, live |-> TRUE, patch |-> p,
           base |-> Absent]
    BY DEF Call
  <1> DEFINE P == Naming \cup Setting \cup {<<>>}
  <1>3. Calls = [kind : {"rename", "save", "delete", "create", "board"}, vault : Vaults,
          stage : {"read", "write", "delete", "create", "upload", "get"},
          live : BOOLEAN, patch : P, base : Stores]
    BY DEF Calls
  <1>4. p \in P
    OBVIOUS
  <1> HIDE DEF P
  <1> QED
    BY <1>1, <1>2, <1>3, <1>4

(* Renaming, saving settings and deleting begin with a call for a row. *)
LEMMA AskingForARowIsSafe ==
    ASSUME LobbyInv, NEW v \in Vaults,
           HandleRenameConfirm(v) \/ HandleSaveMeta(v) \/ HandleDelete(v)
    PROVE  LobbyInv'
  <1>1. /\ lobby \in Lobbies /\ lobby.rows \in Lists(VaultRow) /\ left' \in Nat
        /\ v \in DOMAIN lobby.rows /\ lobby.keys
        /\ UNCHANGED <<scenario, server, loads, asking>>
    BY DEF LobbyInv, TypesOK, Lobbies, HandleRenameConfirm, HandleSaveMeta,
           HandleDelete, UserDoes, OnRow
  <1>2. server[v].kind # "absent" /\ lobby.rows[v] \in VaultRow
    BY <1>1, ListFacts DEF LobbyInv, BornOK
  <1>3. CASE HandleRenameConfirm(v)
    <2>1. PICK n \in Names :
             calls' = calls \cup {Call("rename", v, "read", [name |-> n])}
      BY <1>3 DEF HandleRenameConfirm
    <2> DEFINE c == Call("rename", v, "read", [name |-> n])
    <2>2. [name |-> n] \in Naming
      BY DEF Naming
    <2>3. /\ c \in Calls /\ c.kind = "rename" /\ c.vault = v /\ c.stage = "read"
          /\ c.patch = [name |-> n]
      BY <2>2, NewCall
    <2> HIDE DEF c
    <2>4. CallOK(c)
      BY <2>2, <2>3 DEF CallOK
    <2>5. lobby' = lobby /\ calls' = calls \cup {c}
      BY <1>3, <2>1 DEF HandleRenameConfirm, c
    <2> QED
      BY <1>1, <1>2, <2>3, <2>4, <2>5, CallAdded
  <1>4. CASE HandleSaveMeta(v)
    <2> DEFINE p == [note |-> lobby.rows[v].draftNote,
                     labels |-> lobby.rows[v].draftLabels,
                     touched |-> lobby.rows[v].draftNote # lobby.rows[v].note]
               c == Call("save", v, "read", p)
               r == [lobby.rows[v] EXCEPT !.saving = TRUE]
               rs == [lobby.rows EXCEPT ![v] = r]
    <2>1. p \in Setting
      BY <1>2 DEF VaultRow, Setting
    <2>2. r \in VaultRow
      BY <1>2 DEF VaultRow
    <2>3. calls' = calls \cup {c} /\ lobby' = [lobby EXCEPT !.rows = rs]
      BY <1>1, <1>4 DEF HandleSaveMeta, Lobbies
    <2> HIDE DEF p, r
    <2>4. rs \in Lists(VaultRow) /\ DOMAIN rs = DOMAIN lobby.rows
      BY <1>1, <2>2, RowChanged
    <2> HIDE DEF rs
    <2>5. /\ c \in Calls /\ c.kind = "save" /\ c.vault = v /\ c.stage = "read"
          /\ c.patch = p
      BY <2>1, NewCall
    <2> HIDE DEF c
    <2>6. CallOK(c)
      BY <2>1, <2>5 DEF CallOK
    <2>7. /\ lobby' \in Lobbies /\ lobby'.rows = rs /\ lobby'.page = lobby.page
          /\ lobby'.keys = lobby.keys /\ lobby'.opened = lobby.opened
      BY <1>1, <2>3, <2>4 DEF Lobbies
    <2> QED
      BY <1>1, <1>2, <2>3, <2>4, <2>5, <2>6, <2>7, CallAdded
  <1>5. CASE HandleDelete(v)
    <2> DEFINE c == Call("delete", v, "delete", <<>>)
    <2>3. c \in Calls /\ c.kind = "delete" /\ c.vault = v /\ c.stage = "delete"
      BY NewCall
    <2>4. calls' = calls \cup {c} /\ lobby' = lobby
      BY <1>5 DEF HandleDelete
    <2> HIDE DEF c
    <2>5. CallOK(c)
      BY <2>3 DEF CallOK
    <2> QED
      BY <1>1, <1>2, <2>3, <2>4, <2>5, CallAdded
  <1> QED
    BY <1>3, <1>4, <1>5

(* Creating begins with a call for a vault that does not exist yet. *)
LEMMA AskingForAVaultIsSafe ==
    ASSUME LobbyInv, NEW kind \in {"create", "board"}, HandleCreate(kind)
    PROVE  LobbyInv'
  <1>1. /\ lobby' \in Lobbies /\ left' \in Nat /\ lobby.keys /\ lobby' = lobby
        /\ UNCHANGED <<scenario, server, loads, asking>>
    BY DEF LobbyInv, TypesOK, HandleCreate, UserDoes
  <1>2. PICK v \in Vaults, n \in Names :
          /\ server[v].kind = "absent" /\ \A c \in calls : c.vault # v
          /\ calls' = calls \cup {Call(kind, v, "create", [name |-> n])}
    BY DEF HandleCreate
  <1> DEFINE c == Call(kind, v, "create", [name |-> n])
  <1>3. [name |-> n] \in Naming
    BY DEF Naming
  <1>4. /\ c \in Calls /\ c.kind = kind /\ c.vault = v /\ c.stage = "create"
        /\ c.patch = [name |-> n]
    BY <1>3, NewCall
  <1>5. calls' = calls \cup {c}
    BY <1>2
  <1> HIDE DEF c
  <1>6. CallOK(c)
    BY <1>3, <1>4 DEF CallOK
  <1> QED
    BY <1>1, <1>2, <1>4, <1>5, <1>6, CallAdded

-----------------------------------------------------------------------------
(* A call under way. *)
LEMMA CallIs ==
    ASSUME LobbyInv, NEW c \in calls
    PROVE  /\ c \in Calls /\ CallOK(c) /\ c.vault \in Vaults
           /\ c.base \in Stores /\ c.live \in BOOLEAN
           /\ c.stage = "write" => c.kind \in {"rename", "save", "board"}
           /\ c.stage = "read" => c.kind \in {"rename", "save", "board"}
           /\ c.stage = "delete" => c.kind = "delete"
           /\ c.stage = "create" => c.kind \in {"create", "board"}
           /\ c.stage = "upload" => c.kind \in {"create", "board"}
           /\ c.stage = "get" => c.kind = "create"
  <1>1. c \in Calls /\ CallOK(c)
    BY DEF LobbyInv, TypesOK
  <1>2. c.vault \in Vaults /\ c.base \in Stores /\ c.live \in BOOLEAN
    BY <1>1, CallFacts
  <1> QED
    BY <1>1, <1>2 DEF CallOK

(* What the server writes. *)
LEMMA WrittenFacts ==
    ASSUME LobbyInv, NEW c \in calls, c.stage = "write", Written(c)
    PROVE  /\ server' \in [Vaults -> Stores]
           /\ \A v \in Vaults : server'[v].kind = server[v].kind
           /\ \A v \in Vaults : v # c.vault => server'[v] = server[v]
           /\ c.vault \notin Listed => server' = server
           /\ c.vault \in Listed =>
                LET s == server'[c.vault]
                IN  /\ s.name = IF c.kind = "rename" THEN c.patch.name ELSE c.base.name
                    /\ s.note = IF c.kind = "save" THEN c.patch.note ELSE c.base.note
                    /\ s.labels = IF c.kind = "rename" THEN c.base.labels
                                  ELSE IF c.kind = "board" THEN {Board}
                                  ELSE c.patch.labels
  <1>1. /\ c \in Calls /\ CallOK(c) /\ server \in [Vaults -> Stores]
        /\ c.vault \in Vaults /\ c.base \in Stores
        /\ c.kind \in {"rename", "save", "board"}
    BY CallIs DEF LobbyInv, TypesOK
  <1>2. /\ c.kind = "rename" => c.patch.name \in Names
        /\ c.kind = "save" => c.patch.note \in Notes /\ c.patch.labels \in Labels
    BY <1>1 DEF CallOK, Naming, Setting
  <1> DEFINE s == [Patched(c) EXCEPT !.kind = server[c.vault].kind]
  <1>3. server[c.vault].kind \in Kinds /\ {Board} \in Labels
    BY <1>1 DEF Stores, Labels
  <1>4. /\ s \in Stores /\ s.kind = server[c.vault].kind
        /\ s.name = IF c.kind = "rename" THEN c.patch.name ELSE c.base.name
        /\ s.note = IF c.kind = "save" THEN c.patch.note ELSE c.base.note
        /\ s.labels = IF c.kind = "rename" THEN c.base.labels
                      ELSE IF c.kind = "board" THEN {Board} ELSE c.patch.labels
    BY <1>1, <1>2, <1>3 DEF Patched, Stores
  <1> HIDE DEF s
  <1>5. CASE c.vault \in Listed
    <2>1. server' = [server EXCEPT ![c.vault] = s]
      BY <1>5 DEF Written, s
    <2> QED
      BY <1>1, <1>4, <1>5, <2>1
  <1>6. CASE c.vault \notin Listed
    BY <1>1, <1>6 DEF Written
  <1> QED
    BY <1>5, <1>6

-----------------------------------------------------------------------------
(* The steps of a call. *)
LEMMA ReadMetaIsSafe ==
    ASSUME LobbyInv, NEW c \in calls, ReadMeta(c)
    PROVE  LobbyInv'
  <1>1. /\ c \in Calls /\ CallOK(c) /\ c.vault \in Vaults
        /\ c.kind \in {"rename", "save", "board"} /\ c.stage = "read"
        /\ UNCHANGED <<scenario, left, server, loads, asking>>
    BY CallIs DEF ReadMeta
  <1>2. /\ server' \in [Vaults -> Stores] /\ asking' \in Asking /\ lobby \in Lobbies
        /\ server[c.vault].kind # "absent" /\ server[c.vault] \in Stores
    BY <1>1 DEF LobbyInv, TypesOK, BornOK
  <1>3. CASE c.vault \in Listed
    <2> DEFINE d == HasRead(c, server[c.vault])
    <2>1. calls' = (calls \ {c}) \cup {d} /\ lobby' = lobby
      BY <1>3 DEF ReadMeta, Becomes, HasRead
    <2>3. /\ d \in Calls /\ d.kind = c.kind /\ d.vault = c.vault
          /\ d.patch = c.patch /\ d.stage = "write"
      BY <1>1, <1>2, ReadFacts
    <2> HIDE DEF d
    <2>4. CallOK(d)
      BY <1>1, <2>3 DEF CallOK
    <2>5. /\ lobby' \in Lobbies /\ server'[c.vault].kind # "absent"
          /\ DOMAIN lobby'.rows = DOMAIN lobby.rows /\ lobby'.page = lobby.page
          /\ lobby'.keys = lobby.keys /\ lobby'.opened = lobby.opened
      BY <1>1, <1>2, <2>1
    <2> QED
      BY <1>1, <1>2, <2>1, <2>3, <2>4, <2>5, CallMoved
  <1>4. CASE c.vault \notin Listed
    <2>1. calls' = calls \ {c} /\ lobby' = Told(c)
      BY <1>4 DEF ReadMeta
    <2> QED
      BY <1>1, <1>2, <2>1, ToldTypes, CallEnded
  <1> QED
    BY <1>3, <1>4

(* A call that fails keeps LobbyInv. *)
LEMMA CallFailsIsSafe ==
    ASSUME LobbyInv, NEW c \in calls, CallFails(c)
    PROVE  LobbyInv'
  <1>1. /\ calls' = calls \ {c} /\ lobby' = Told(c)
        /\ UNCHANGED <<scenario, left, server, loads, asking>>
        /\ server' \in [Vaults -> Stores] /\ asking' \in Asking
    BY DEF CallFails, LobbyInv, TypesOK
  <1> QED
    BY <1>1, ToldTypes, CallEnded

(* The row of an answered call. *)
LEMMA AnsweredTypes ==
    ASSUME LobbyInv, NEW c \in calls, c.stage = "write", c.kind # "board"
    PROVE  /\ Answered(c) \in Lobbies
           /\ DOMAIN Answered(c).rows = DOMAIN lobby.rows
           /\ Answered(c).page = lobby.page /\ Answered(c).keys = lobby.keys
           /\ Answered(c).opened = lobby.opened /\ Answered(c).told = lobby.told
           /\ Answered(c).counts = lobby.counts
           /\ ~c.live => Answered(c) = lobby
           /\ \A v \in DOMAIN lobby.rows :
                v # c.vault => Answered(c).rows[v] = lobby.rows[v]
           /\ c.live /\ c.vault \in DOMAIN lobby.rows =>
                LET r == lobby.rows[c.vault]
                    s == Answered(c).rows[c.vault]
                IN  IF c.kind = "rename"
                    THEN /\ s.name = c.patch.name /\ s.note = r.note
                         /\ s.labels = r.labels /\ s.draftLabels = r.draftLabels
                    ELSE /\ s.name = r.name /\ s.note = c.patch.note
                         /\ s.labels = c.patch.labels
                         /\ s.draftLabels = c.patch.labels
  <1>1. lobby \in Lobbies /\ lobby.rows \in Lists(VaultRow)
    BY DEF LobbyInv, TypesOK, Lobbies
  <1>2. CallOK(c) /\ c.kind \in {"rename", "save"}
    BY CallIs
  <1>3. CASE ~c.live \/ c.vault \notin DOMAIN lobby.rows
    BY <1>1, <1>3 DEF Answered
  <1>4. CASE c.live /\ c.vault \in DOMAIN lobby.rows
    <2> DEFINE r == lobby.rows[c.vault]
               s == IF c.kind = "rename" THEN [r EXCEPT !.name = c.patch.name]
                    ELSE Row(r.name, c.patch.note, c.patch.labels)
               rs == [lobby.rows EXCEPT ![c.vault] = s]
    <2>1. r \in VaultRow
      BY <1>1, <1>4, ListFacts
    <2>2. /\ c.kind = "rename" => c.patch.name \in Names
          /\ c.kind = "save" => c.patch.note \in Notes /\ c.patch.labels \in Labels
      BY <1>2 DEF CallOK, Naming, Setting
    <2>3. Answered(c) = [lobby EXCEPT !.rows = rs]
      BY <1>1, <1>2, <1>4 DEF Answered, Lobbies
    <2> HIDE DEF r
    <2>4. /\ s \in VaultRow
          /\ IF c.kind = "rename"
             THEN /\ s.name = c.patch.name /\ s.note = r.note
                  /\ s.labels = r.labels /\ s.draftLabels = r.draftLabels
             ELSE /\ s.name = r.name /\ s.note = c.patch.note
                  /\ s.labels = c.patch.labels /\ s.draftLabels = c.patch.labels
      BY <1>2, <2>1, <2>2 DEF VaultRow, Row
    <2> HIDE DEF s
    <2>5. /\ rs \in Lists(VaultRow) /\ DOMAIN rs = DOMAIN lobby.rows
          /\ \A u \in DOMAIN lobby.rows : u # c.vault => rs[u] = lobby.rows[u]
          /\ rs[c.vault] = s
      BY <1>1, <1>4, <2>4, RowChanged
    <2> HIDE DEF rs
    <2>6. /\ Answered(c) \in Lobbies /\ Answered(c).rows = rs
          /\ Answered(c).page = lobby.page /\ Answered(c).keys = lobby.keys
          /\ Answered(c).opened = lobby.opened /\ Answered(c).told = lobby.told
          /\ Answered(c).counts = lobby.counts
      BY <1>1, <2>3, <2>5 DEF Lobbies
    <2> QED
      BY <1>4, <2>4, <2>5, <2>6 DEF r
  <1> QED
    BY <1>3, <1>4

(* The write of a rename or of settings keeps LobbyInv. *)
LEMMA WriteMetaIsSafe ==
    ASSUME LobbyInv, NEW c \in calls, WriteMeta(c)
    PROVE  LobbyInv'
  <1>1. /\ calls' = calls \ {c} /\ c.stage = "write" /\ Written(c)
        /\ UNCHANGED <<scenario, left, loads, asking>> /\ asking' \in Asking
        /\ c.kind # "board" /\ lobby' \in {Answered(c), Told(c)}
    BY DEF WriteMeta, LobbyInv, TypesOK
  <1>2. /\ lobby' \in Lobbies /\ DOMAIN lobby'.rows = DOMAIN lobby.rows
        /\ lobby'.page = lobby.page /\ lobby'.keys = lobby.keys
        /\ lobby'.opened = lobby.opened
    BY <1>1, ToldTypes, AnsweredTypes
  <1>3. /\ server' \in [Vaults -> Stores] /\ server'[c.vault].kind # "absent"
        /\ \A v \in Vaults : v # c.vault => server'[v] = server[v]
    BY <1>1, WrittenFacts, CallIs DEF LobbyInv, BornOK
  <1> QED
    BY <1>1, <1>2, <1>3, CallEnded

(* A call that goes on, and one whose page is gone. *)
AtStage(c, s) == [c EXCEPT !.stage = s]
Unheard(c) == [c EXCEPT !.live = FALSE]

(* A new stage changes nothing else of a call. *)
LEMMA StageFacts ==
    ASSUME NEW c \in Calls,
           NEW s \in {"read", "write", "delete", "create", "upload", "get"}
    PROVE  LET d == AtStage(c, s)
           IN  /\ d \in Calls /\ d.stage = s /\ d.kind = c.kind
               /\ d.vault = c.vault /\ d.live = c.live
               /\ d.patch = c.patch /\ d.base = c.base
  <1> DEFINE P == Naming \cup Setting \cup {<<>>}
  <1>1. Calls = [kind : {"rename", "save", "delete", "create", "board"}, vault : Vaults,
          stage : {"read", "write", "delete", "create", "upload", "get"},
          live : BOOLEAN, patch : P, base : Stores]
    BY DEF Calls
  <1> HIDE DEF P
  <1> QED
    BY <1>1 DEF AtStage

(* Leaving the page changes nothing else of a call. *)
LEMMA UnheardFacts ==
    ASSUME NEW c \in Calls
    PROVE  LET d == Unheard(c)
           IN  /\ d \in Calls /\ d.stage = c.stage /\ d.kind = c.kind
               /\ d.vault = c.vault /\ ~d.live
               /\ d.patch = c.patch /\ d.base = c.base
  <1> DEFINE P == Naming \cup Setting \cup {<<>>}
  <1>1. Calls = [kind : {"rename", "save", "delete", "create", "board"}, vault : Vaults,
          stage : {"read", "write", "delete", "create", "upload", "get"},
          live : BOOLEAN, patch : P, base : Stores]
    BY DEF Calls
  <1> HIDE DEF P
  <1> QED
    BY <1>1 DEF Unheard

(* The row of a new vault keeps LobbyInv. *)
LEMMA CreateVaultIsSafe ==
    ASSUME LobbyInv, NEW c \in calls, CreateVault(c)
    PROVE  LobbyInv'
  <1>1. /\ c \in Calls /\ CallOK(c) /\ c.vault \in Vaults
        /\ c.kind \in {"create", "board"} /\ c.stage = "create"
        /\ UNCHANGED <<scenario, left, loads, asking>>
    BY CallIs DEF CreateVault
  <1>2. /\ asking' \in Asking /\ lobby \in Lobbies /\ server \in [Vaults -> Stores]
    BY <1>1 DEF LobbyInv, TypesOK
  <1> DEFINE s == Stored("empty", c.patch.name, Blank, {})
  <1>3. s \in Stores /\ s.kind = "empty"
    BY <1>1, LobbyAssumption DEF CallOK, Naming, Stored, Stores, Kinds, Labels
  <1>4. server' = [server EXCEPT ![c.vault] = s]
    BY DEF CreateVault
  <1> HIDE DEF s
  <1>5. /\ server' \in [Vaults -> Stores] /\ server'[c.vault].kind # "absent"
        /\ \A v \in Vaults : v # c.vault => server'[v] = server[v]
    BY <1>1, <1>2, <1>3, <1>4
  <1>6. CASE Becomes(c, AtStage(c, "upload")) /\ lobby' = lobby
    <2> DEFINE d == AtStage(c, "upload")
    <2>1. /\ d \in Calls /\ d.kind = c.kind /\ d.vault = c.vault
          /\ d.patch = c.patch /\ d.stage = "upload"
      BY <1>1, StageFacts
    <2>2. calls' = (calls \ {c}) \cup {d}
      BY <1>6 DEF Becomes
    <2> HIDE DEF d
    <2>3. CallOK(d)
      BY <1>1, <2>1 DEF CallOK
    <2>4. /\ lobby' \in Lobbies
          /\ DOMAIN lobby'.rows = DOMAIN lobby.rows /\ lobby'.page = lobby.page
          /\ lobby'.keys = lobby.keys /\ lobby'.opened = lobby.opened
      BY <1>2, <1>6
    <2> QED
      BY <1>1, <1>2, <1>5, <2>1, <2>2, <2>3, <2>4, CallMoved
  <1>7. CASE calls' = calls \ {c} /\ lobby' = Told(c)
    BY <1>1, <1>2, <1>5, <1>7, ToldTypes, CallEnded
  <1> QED
    BY <1>6, <1>7 DEF CreateVault, AtStage

(* The first content of a new vault keeps LobbyInv. *)
LEMMA UploadBlobIsSafe ==
    ASSUME LobbyInv, NEW c \in calls, UploadBlob(c)
    PROVE  LobbyInv'
  <1>1. /\ c \in Calls /\ CallOK(c) /\ c.vault \in Vaults
        /\ c.kind \in {"create", "board"} /\ c.stage = "upload"
        /\ UNCHANGED <<scenario, left, loads, asking>>
    BY CallIs DEF UploadBlob
  <1>2. /\ asking' \in Asking /\ lobby \in Lobbies /\ server \in [Vaults -> Stores]
        /\ server[c.vault].kind # "absent"
    BY <1>1 DEF LobbyInv, TypesOK, BornOK
  <1>3. CASE c.vault \in Listed
    <2> DEFINE k == IF c.kind = "board" THEN "board" ELSE "map"
               s == [server[c.vault] EXCEPT !.kind = k]
               d == AtStage(c, IF c.kind = "board" THEN "read" ELSE "get")
    <2>1. s \in Stores /\ s.kind \in {"board", "map"}
      BY <1>1, <1>2 DEF Stores, Kinds
    <2>2. server' = [server EXCEPT ![c.vault] = s]
      BY <1>2, <1>3 DEF UploadBlob
    <2> HIDE DEF s
    <2>3. /\ server' \in [Vaults -> Stores] /\ server'[c.vault].kind # "absent"
          /\ \A v \in Vaults : v # c.vault => server'[v] = server[v]
      BY <1>1, <1>2, <2>1, <2>2
    <2>4. CASE Becomes(c, d) /\ lobby' = lobby
      <3>1. /\ d \in Calls /\ d.kind = c.kind /\ d.vault = c.vault
            /\ d.patch = c.patch
            /\ d.stage = IF c.kind = "board" THEN "read" ELSE "get"
        BY <1>1, StageFacts
      <3>2. calls' = (calls \ {c}) \cup {d}
        BY <2>4 DEF Becomes
      <3> HIDE DEF d
      <3>3. CallOK(d) /\ d.stage # "create"
        BY <1>1, <3>1 DEF CallOK
      <3>4. /\ lobby' \in Lobbies
            /\ DOMAIN lobby'.rows = DOMAIN lobby.rows /\ lobby'.page = lobby.page
            /\ lobby'.keys = lobby.keys /\ lobby'.opened = lobby.opened
        BY <1>2, <2>4
      <3> QED
        BY <1>1, <1>2, <2>3, <3>1, <3>2, <3>3, <3>4, CallMoved
    <2>5. CASE calls' = calls \ {c} /\ lobby' = Told(c)
      BY <1>1, <1>2, <2>3, <2>5, ToldTypes, CallEnded
    <2> QED
      BY <1>3, <2>4, <2>5 DEF UploadBlob, AtStage
  <1>4. CASE c.vault \notin Listed
    <2>1. server' = server /\ calls' = calls \ {c} /\ lobby' = Told(c)
      BY <1>4 DEF UploadBlob
    <2> QED
      BY <1>1, <1>2, <2>1, ToldTypes, CallEnded
  <1> QED
    BY <1>3, <1>4

(* Deleting a vault keeps LobbyInv. *)
LEMMA DeleteVaultIsSafe ==
    ASSUME LobbyInv, NEW c \in calls, DeleteVault(c)
    PROVE  LobbyInv'
  <1>1. /\ c \in Calls /\ CallOK(c) /\ c.vault \in Vaults /\ c.stage = "delete"
        /\ calls' = calls \ {c} /\ UNCHANGED <<scenario, left, loads>>
    BY CallIs DEF DeleteVault
  <1>2. /\ asking \in Asking /\ lobby \in Lobbies /\ server \in [Vaults -> Stores]
        /\ server[c.vault].kind # "absent"
    BY <1>1 DEF LobbyInv, TypesOK, BornOK
  <1>3. /\ server' \in [Vaults -> Stores] /\ server'[c.vault].kind # "absent"
        /\ \A v \in Vaults : v # c.vault => server'[v] = server[v]
    <2> DEFINE s == [server[c.vault] EXCEPT !.kind = "gone"]
    <2>1. s \in Stores /\ s.kind = "gone"
      BY <1>1, <1>2 DEF Stores, Kinds
    <2>2. server' = server \/ server' = [server EXCEPT ![c.vault] = s]
      BY <1>2 DEF DeleteVault
    <2> HIDE DEF s
    <2> QED
      BY <1>1, <1>2, <2>1, <2>2
  <1>4. CASE ShowRows(Restrict(lobby.rows, DOMAIN lobby.rows \ {c.vault}),
                      lobby.counts, lobby.loading)
    <2> DEFINE D == DOMAIN lobby.rows \ {c.vault}
               rs == Restrict(lobby.rows, D)
    <2>1. lobby.rows \in Lists(VaultRow) /\ lobby.counts \in SUBSET Vaults
          /\ lobby.loading \in BOOLEAN
      BY <1>2 DEF Lobbies
    <2>2. /\ rs \in [D -> VaultRow] /\ D \in SUBSET Vaults
      BY <2>1, ListFacts DEF Restrict
    <2>3. /\ rs \in Lists(VaultRow) /\ DOMAIN rs = D
      BY <2>2, ListFacts
    <2>4. /\ ShowRows(rs, lobby.counts, lobby.loading)
          /\ DOMAIN rs \subseteq DOMAIN lobby.rows
      BY <1>4, <2>3
    <2> HIDE DEF D, rs
    <2>5. /\ lobby' \in Lobbies /\ asking' \in Asking
          /\ lobby'.rows = rs /\ lobby'.page = lobby.page
          /\ lobby'.keys = lobby.keys /\ lobby'.opened = lobby.opened
      BY <2>1, <2>3, <2>4, ShowTypes
    <2>6. DOMAIN lobby.rows = {} => asking' = asking
      BY <2>4 DEF ShowRows
    <2> QED
      BY <1>1, <1>3, <2>4, <2>5, <2>6, CallEnded
  <1>5. CASE lobby' = Told(c) /\ UNCHANGED asking
    BY <1>1, <1>2, <1>3, <1>5, ToldTypes, CallEnded
  <1> QED
    BY <1>4, <1>5 DEF DeleteVault

-----------------------------------------------------------------------------
(* Another page. *)
LEMMA NoLoads ==
    /\ [l \in Closures |-> NotAsked] \in [Closures -> Load]
    /\ \A l \in Closures : [k \in Closures |-> NotAsked][l].stage = "none"
    /\ NotAsked.stage = "none" /\ Asked.stage = "asked" /\ NoList.stage = "none"
  BY DEF Load, NotAsked, Asked, NoList

(* A lobby that was just mounted shows no rows. *)
LEMMA MountedFacts ==
    ASSUME NEW keys \in BOOLEAN
    PROVE  /\ Mounted(keys) \in Lobbies
           /\ Mounted(keys).page = "lobby" /\ Mounted(keys).keys = keys
           /\ Mounted(keys).rows = <<>> /\ DOMAIN Mounted(keys).rows = {}
           /\ Mounted(keys).counts = {} /\ ~Mounted(keys).told
  BY NoRows DEF Mounted, Lobbies

(* Another page keeps LobbyInv, whatever happened to the vault it opens. *)
LEMMA NavigateIsSafe ==
    ASSUME LobbyInv, NEW path \in {"map", "board"}, NEW v \in Vaults,
           NEW cs \in SUBSET calls, Navigate(path, v, cs),
           scenario' = scenario, left' \in Nat, lobby.keys,
           server' \in [Vaults -> Stores],
           \A u \in Vaults : server'[u].kind = "absent" <=> server[u].kind = "absent"
    PROVE  LobbyInv'
  <1>1. /\ lobby' \in Lobbies /\ lobby'.page # "lobby" /\ lobby'.keys
        /\ lobby'.opened = v /\ lobby'.rows = <<>>
    BY NoRows, MountedFacts DEF Navigate, Mounted, Lobbies
  <1>2. DOMAIN lobby'.rows = {}
    BY <1>1, NoRows
  <1>3. /\ loads' \in [Closures -> Load] /\ asking' = NoList
        /\ \A l \in Closures : loads'[l].stage = "none"
    BY NoLoads DEF Navigate
  <1>4. calls' = {Unheard(c) : c \in cs}
    BY DEF Navigate, Unheard
  <1>5. /\ cs \subseteq calls
        /\ \A c \in cs : /\ c \in Calls /\ CallOK(c) /\ Unheard(c) \in Calls
                         /\ Unheard(c).stage = c.stage
                         /\ Unheard(c).vault = c.vault
                         /\ Unheard(c).kind = c.kind
                         /\ Unheard(c).patch = c.patch /\ c.vault \in Vaults
    BY UnheardFacts, CallIs
  <1>6. \A c \in cs : CallOK(Unheard(c))
    BY <1>5 DEF CallOK
  <1>7. TypesOK'
    BY <1>1, <1>3, <1>4, <1>5, <1>6 DEF LobbyInv, TypesOK, Asking
  <1>8. BornOK'
    <2>1. \A c \in calls' : c.stage = "create" <=> server'[c.vault].kind = "absent"
      BY <1>4, <1>5 DEF LobbyInv, BornOK
    <2>2. \A c, d \in calls' : c.stage = "create" /\ c.vault = d.vault => c = d
      BY <1>4, <1>5 DEF LobbyInv, BornOK
    <2>3. \A u \in scenario.seed : u \in Vaults
      BY LobbyAssumption DEF LobbyInv, TypesOK
    <2> QED
      BY <1>2, <1>3, <2>1, <2>2, <2>3 DEF LobbyInv, BornOK
  <1>9. PageOK'
    BY <1>1, <1>2, <1>3 DEF PageOK, Loading
  <1> QED
    BY <1>7, <1>8, <1>9 DEF LobbyInv

(* A call was made by a page with keys. *)
LEMMA CallsNeedKeys == ASSUME LobbyInv, NEW c \in calls PROVE lobby.keys
  BY DEF LobbyInv, PageOK

(* A new map is opened, or is gone already. *)
LEMMA MapCreatedIsSafe ==
    ASSUME LobbyInv, NEW c \in calls, MapCreated(c)
    PROVE  LobbyInv'
  <1>1. c.vault \in Vaults /\ lobby.keys /\ calls \ {c} \in SUBSET calls
    BY CallIs, CallsNeedKeys
  <1>2. /\ server' \in [Vaults -> Stores] /\ left' \in Nat /\ asking \in Asking
        /\ UNCHANGED <<scenario, left, server>>
    BY DEF MapCreated, LobbyInv, TypesOK
  <1>3. CASE Navigate("map", c.vault, calls \ {c})
    <2>1. \A u \in Vaults : server'[u].kind = "absent" <=> server[u].kind = "absent"
      BY <1>2
    <2> QED
      BY <1>1, <1>2, <1>3, <2>1, NavigateIsSafe
  <1>4. CASE /\ calls' = calls \ {c} /\ lobby' = Told(c)
             /\ UNCHANGED <<loads, asking>>
    BY <1>2, <1>4, ToldTypes, CallEnded
  <1> QED
    BY <1>3, <1>4 DEF MapCreated

(* A new board gets its label and is opened. *)
LEMMA BoardCreatedIsSafe ==
    ASSUME LobbyInv, NEW c \in calls, BoardCreated(c)
    PROVE  LobbyInv'
  <1>1. c.vault \in Vaults /\ lobby.keys /\ calls \ {c} \in SUBSET calls
    BY CallIs, CallsNeedKeys
  <1>2. /\ left' \in Nat /\ asking \in Asking /\ UNCHANGED <<scenario, left>>
        /\ c.stage = "write" /\ Written(c)
    BY DEF BoardCreated, LobbyInv, TypesOK
  <1>3. /\ server' \in [Vaults -> Stores]
        /\ \A u \in Vaults : server'[u].kind = server[u].kind
        /\ \A v \in Vaults : v # c.vault => server'[v] = server[v]
    BY <1>2, WrittenFacts
  <1>4. server'[c.vault].kind # "absent"
    BY <1>1, <1>2, <1>3 DEF LobbyInv, BornOK
  <1>5. CASE Navigate("board", c.vault, calls \ {c})
    <2>1. \A u \in Vaults : server'[u].kind = "absent" <=> server[u].kind = "absent"
      BY <1>3
    <2> QED
      BY <1>1, <1>2, <1>3, <1>5, <2>1, NavigateIsSafe
  <1>6. CASE /\ calls' = calls \ {c} /\ lobby' = Told(c)
             /\ UNCHANGED <<loads, asking>>
    BY <1>2, <1>3, <1>4, <1>6, ToldTypes, CallEnded
  <1> QED
    BY <1>5, <1>6 DEF BoardCreated

(* Opening a row keeps LobbyInv. *)
LEMMA OpenIsSafe ==
    ASSUME LobbyInv, NEW v \in Vaults, Open(v)
    PROVE  LobbyInv'
  <1>1. /\ left' \in Nat /\ lobby.keys /\ server' = server /\ scenario' = scenario
        /\ server' \in [Vaults -> Stores]
        /\ Navigate(PathOf(lobby.rows[v]), v, calls)
    BY DEF Open, UserDoes, OnRow, LobbyInv, TypesOK
  <1>2. PathOf(lobby.rows[v]) \in {"map", "board"} /\ calls \in SUBSET calls
    BY DEF PathOf
  <1>3. \A u \in Vaults : server'[u].kind = "absent" <=> server[u].kind = "absent"
    BY <1>1
  <1> QED
    BY <1>1, <1>2, <1>3, NavigateIsSafe

-----------------------------------------------------------------------------
(* Loading. *)
LEMMA LoadSet ==
    ASSUME NEW l \in Closures, NEW x \in Load, loads \in [Closures -> Load]
    PROVE  /\ [loads EXCEPT ![l] = x] \in [Closures -> Load]
           /\ [loads EXCEPT ![l] = x][l] = x
           /\ \A k \in Closures : k # l => [loads EXCEPT ![l] = x][k] = loads[k]
  OBVIOUS

(* Returning to the lobby keeps LobbyInv. *)
LEMMA BackIsSafe ==
    ASSUME LobbyInv, Back
    PROVE  LobbyInv'
  <1>0. /\ lobby' = Mounted(TRUE) /\ left' \in Nat
        /\ UNCHANGED <<scenario, server, asking, calls>>
        /\ loads' = [loads EXCEPT !["keyed"] = Asked] /\ loads \in [Closures -> Load]
    BY DEF Back, LobbyInv, TypesOK
  <1>1. /\ lobby' \in Lobbies /\ lobby'.page = "lobby"
        /\ lobby'.keys /\ DOMAIN lobby'.rows = {}
    BY <1>0, MountedFacts
  <1>2. "keyed" \in Closures /\ Asked.stage = "asked" /\ Asked \in Load
    BY NoLoads DEF Closures, Load
  <1>3. /\ loads' \in [Closures -> Load] /\ loads'["keyed"].stage = "asked"
        /\ \A k \in Closures : k # "keyed" => loads'[k] = loads[k]
    BY <1>0, <1>2, LoadSet
  <1>4. TypesOK'
    BY <1>0, <1>1, <1>3 DEF LobbyInv, TypesOK
  <1>5. BornOK'
    BY <1>0, <1>1, <1>3 DEF LobbyInv, BornOK
  <1>6. PageOK'
    BY <1>1 DEF PageOK
  <1> QED
    BY <1>4, <1>5, <1>6 DEF LobbyInv

(* Unlocking starts the two loads and keeps LobbyInv. *)
LEMMA UnlockIsSafe ==
    ASSUME LobbyInv, Unlock
    PROVE  LobbyInv'
  <1>1. lobby \in Lobbies
    BY DEF LobbyInv, TypesOK
  <1>2. /\ lobby' \in Lobbies /\ lobby'.page = "lobby" /\ lobby'.rows = lobby.rows
        /\ lobby'.keys /\ UNCHANGED <<scenario, left, server, asking, calls>>
    BY <1>1 DEF Unlock, Lobbies
  <1>3. /\ loads' \in [Closures -> Load]
        /\ \A l \in Closures : loads'[l].stage = "asked"
    BY NoLoads DEF Unlock, Load
  <1>4. TypesOK'
    BY <1>2, <1>3 DEF LobbyInv, TypesOK
  <1>5. BornOK'
    BY <1>2, <1>3 DEF LobbyInv, BornOK
  <1>6. PageOK'
    BY <1>2 DEF PageOK
  <1> QED
    BY <1>4, <1>5, <1>6 DEF LobbyInv

(* A load under way belongs to a lobby with keys. *)
LEMMA LoadsNeedKeys ==
    ASSUME LobbyInv, NEW l \in Closures, loads[l].stage # "none"
    PROVE  lobby.page = "lobby" /\ lobby.keys
  BY DEF LobbyInv, PageOK, Loading

(* What a load answers. *)
LEMMA Snapshot ==
    ASSUME server \in [Vaults -> Stores]
    PROVE  LET x == [stage |-> "answered", items |-> [v \in Listed |-> server[v]]]
           IN  /\ x \in Load /\ x.stage = "answered" /\ DOMAIN x.items = Listed
               /\ \A v \in Listed : x.items[v] = server[v]
  <1>1. Listed \in SUBSET Vaults /\ [v \in Listed |-> server[v]] \in [Listed -> Stores]
    BY DEF Listed
  <1>2. [v \in Listed |-> server[v]] \in Lists(Stores)
    BY <1>1, ListFacts
  <1> QED
    BY <1>2 DEF Load

(* The server's answer to a load keeps LobbyInv. *)
LEMMA ListVaultsIsSafe ==
    ASSUME LobbyInv, NEW l \in Closures, ListVaults(l)
    PROVE  LobbyInv'
  <1> DEFINE x == [stage |-> "answered", items |-> [v \in Listed |-> server[v]]]
  <1>1. /\ UNCHANGED <<scenario, left, server, lobby, asking, calls>>
        /\ loads' = [loads EXCEPT ![l] = x] /\ loads[l].stage # "none"
    BY DEF ListVaults
  <1>2. loads \in [Closures -> Load] /\ server \in [Vaults -> Stores]
    BY DEF LobbyInv, TypesOK
  <1>3. x \in Load /\ DOMAIN x.items = Listed
    BY <1>2, Snapshot
  <1> HIDE DEF x
  <1>4. /\ loads' \in [Closures -> Load] /\ loads'[l] = x
        /\ \A k \in Closures : k # l => loads'[k] = loads[k]
    BY <1>1, <1>2, <1>3, LoadSet
  <1>5. TypesOK'
    BY <1>1, <1>4 DEF LobbyInv, TypesOK
  <1>6. BornOK'
    BY <1>1, <1>3, <1>4 DEF LobbyInv, BornOK, Listed
  <1>7. PageOK'
    BY <1>1, LoadsNeedKeys DEF PageOK
  <1> QED
    BY <1>5, <1>6, <1>7 DEF LobbyInv

(* The rows a load makes. *)
LEMMA RowsFacts ==
    ASSUME NEW items \in Lists(Stores), NEW keyed \in BOOLEAN
    PROVE  LET rs == Rows(items, keyed)
           IN  /\ rs \in Lists(VaultRow) /\ DOMAIN rs = DOMAIN items
               /\ \A v \in DOMAIN items :
                    /\ rs[v].labels = items[v].labels
                    /\ rs[v].draftLabels = items[v].labels
                    /\ keyed => /\ rs[v].name = items[v].name
                                /\ rs[v].note = items[v].note
  <1>1. DOMAIN items \in SUBSET Vaults /\ \A v \in DOMAIN items : items[v] \in Stores
    BY ListFacts
  <1>2. \A v \in DOMAIN items :
          /\ Row(items[v].name, items[v].note, items[v].labels) \in VaultRow
          /\ Row(Blank, Blank, items[v].labels) \in VaultRow
    BY <1>1, LobbyAssumption DEF Row, VaultRow, Stores
  <1>3. Rows(items, keyed) \in [DOMAIN items -> VaultRow]
    BY <1>2 DEF Rows
  <1>4. Rows(items, keyed) \in Lists(VaultRow) /\ DOMAIN Rows(items, keyed) = DOMAIN items
    BY <1>1, <1>3, ListFacts
  <1> QED
    BY <1>4 DEF Rows, Row

(* The rows of a load keep LobbyInv. *)
LEMMA LoadedIsSafe ==
    ASSUME LobbyInv, NEW l \in Closures, Loaded(l)
    PROVE  LobbyInv'
  <1>1. /\ UNCHANGED <<scenario, left, server, calls>>
        /\ loads' = [loads EXCEPT ![l] = NotAsked] /\ loads[l].stage = "answered"
        /\ ShowRows(Rows(loads[l].items, l = "keyed"), {}, FALSE)
    BY DEF Loaded
  <1>2. /\ loads \in [Closures -> Load] /\ loads[l] \in Load /\ NotAsked \in Load
        /\ NotAsked.stage = "none"
    BY NoLoads DEF LobbyInv, TypesOK, Load
  <1>3. loads[l].items \in Lists(Stores)
    BY <1>1, <1>2, NoLoads DEF Load
  <1> DEFINE rs == Rows(loads[l].items, l = "keyed")
  <1>4. rs \in Lists(VaultRow) /\ DOMAIN rs = DOMAIN loads[l].items
    BY <1>3, RowsFacts
  <1>5. ShowRows(rs, {}, FALSE)
    BY <1>1
  <1> HIDE DEF rs
  <1>6. /\ lobby' \in Lobbies /\ asking' \in Asking /\ lobby'.rows = rs
        /\ lobby'.page = lobby.page /\ lobby'.keys = lobby.keys
    BY <1>4, <1>5, ShowTypes
  <1>7. /\ loads' \in [Closures -> Load] /\ loads'[l].stage = "none"
        /\ \A k \in Closures : k # l => loads'[k] = loads[k]
    BY <1>1, <1>2, LoadSet
  <1>8. TypesOK'
    BY <1>1, <1>6, <1>7 DEF LobbyInv, TypesOK
  <1>9. BornOK'
    BY <1>1, <1>4, <1>6, <1>7 DEF LobbyInv, BornOK
  <1>10. PageOK'
    BY <1>1, <1>6, LoadsNeedKeys DEF PageOK
  <1> QED
    BY <1>8, <1>9, <1>10 DEF LobbyInv

(* A load that fails keeps LobbyInv. *)
LEMMA LoadFailsIsSafe ==
    ASSUME LobbyInv, NEW l \in Closures, LoadFails(l)
    PROVE  LobbyInv'
  <1>1. /\ UNCHANGED <<scenario, left, server, asking, calls>>
        /\ loads' = [loads EXCEPT ![l] = NotAsked] /\ loads[l].stage # "none"
        /\ lobby' = [lobby EXCEPT !.loading = FALSE, !.told = TRUE]
    BY DEF LoadFails
  <1>2. /\ loads \in [Closures -> Load] /\ NotAsked \in Load /\ lobby \in Lobbies
        /\ NotAsked.stage = "none"
    BY NoLoads DEF LobbyInv, TypesOK, Load
  <1>6. /\ lobby' \in Lobbies /\ lobby'.rows = lobby.rows
        /\ lobby'.page = lobby.page /\ lobby'.keys = lobby.keys
    BY <1>1, <1>2 DEF Lobbies
  <1>7. /\ loads' \in [Closures -> Load] /\ loads'[l].stage = "none"
        /\ \A k \in Closures : k # l => loads'[k] = loads[k]
    BY <1>1, <1>2, LoadSet
  <1>8. TypesOK'
    BY <1>1, <1>6, <1>7 DEF LobbyInv, TypesOK
  <1>9. BornOK'
    BY <1>1, <1>6, <1>7 DEF LobbyInv, BornOK
  <1>10. PageOK'
    BY <1>1, <1>6, LoadsNeedKeys DEF PageOK
  <1> QED
    BY <1>8, <1>9, <1>10 DEF LobbyInv

-----------------------------------------------------------------------------
(* LobbyInv holds at the start. *)
LEMMA LobbyStarts == ASSUME LobbyAssumption, Init PROVE LobbyInv
  <1>1. PICK n \in Names, t \in Notes \ {Blank} :
          server = [v \in Vaults |->
              IF v \notin scenario.seed THEN Absent
              ELSE IF v \in scenario.boards THEN Stored("board", n, t, {Board})
              ELSE Stored("map", n, t, {})]
    BY DEF Init
  <1>2. /\ Absent \in Stores /\ Absent.kind = "absent"
        /\ Stored("board", n, t, {Board}) \in Stores
        /\ Stored("board", n, t, {Board}).kind = "board"
        /\ Stored("map", n, t, {}) \in Stores /\ Stored("map", n, t, {}).kind = "map"
    BY LobbyAssumption DEF Absent, Stored, Stores, Kinds, Labels
  <1>3. /\ server \in [Vaults -> Stores]
        /\ \A v \in scenario.seed \cap Vaults : server[v].kind # "absent"
    BY <1>1, <1>2
  <1>4. /\ scenario \in Scenarios /\ scenario.seed \subseteq Vaults
        /\ scenario.unlock \in BOOLEAN /\ left \in Nat /\ calls = {}
        /\ asking = NoList
    BY DEF Init, LobbyAssumption
  <1>5. /\ lobby \in Lobbies /\ lobby.page = "lobby" /\ lobby.keys = ~scenario.unlock
        /\ DOMAIN lobby.rows = {}
    BY <1>4, MountedFacts DEF Init
  <1>6. /\ loads \in [Closures -> Load]
        /\ \A l \in Closures : loads[l].stage # "answered"
        /\ scenario.unlock => \A l \in Closures : loads[l].stage = "none"
    BY <1>4, NoLoads DEF Init, Load
  <1>7. TypesOK
    BY <1>3, <1>4, <1>5, <1>6 DEF TypesOK, Asking
  <1>8. BornOK
    BY <1>3, <1>4, <1>5, <1>6 DEF BornOK
  <1>9. PageOK
    BY <1>4, <1>5, <1>6 DEF PageOK, Loading
  <1> QED
    BY <1>7, <1>8, <1>9 DEF LobbyInv

(* Every step keeps LobbyInv. *)
LEMMA LobbyStays == ASSUME LobbyInv, [Next]_vars PROVE LobbyInv'
  <1>1. CASE UNCHANGED vars
    BY <1>1 DEF vars, LobbyInv, TypesOK, BornOK, PageOK, Loading
  <1>2. CASE Unlock \/ Back \/ ListShares \/ SharesListed
    BY <1>2, UnlockIsSafe, BackIsSafe, AskingIsSafe
  <1>3. CASE \E l \in Closures : ListVaults(l) \/ Loaded(l) \/ LoadFails(l)
    BY <1>3, ListVaultsIsSafe, LoadedIsSafe, LoadFailsIsSafe
  <1>4. CASE \E v \in Vaults : SetDraftNote(v) \/ SetDraftLabels(v)
    BY <1>4, DraftsAreSafe
  <1>5. CASE \E v \in Vaults :
                HandleRenameConfirm(v) \/ HandleSaveMeta(v) \/ HandleDelete(v)
    BY <1>5, AskingForARowIsSafe
  <1>6. CASE \E v \in Vaults : Open(v)
    BY <1>6, OpenIsSafe
  <1>7. CASE \E kind \in {"create", "board"} : HandleCreate(kind)
    BY <1>7, AskingForAVaultIsSafe
  <1>8. CASE \E c \in calls :
          \/ ReadMeta(c) \/ WriteMeta(c) \/ DeleteVault(c) \/ CallFails(c)
          \/ CreateVault(c) \/ UploadBlob(c) \/ MapCreated(c) \/ BoardCreated(c)
    BY <1>8, ReadMetaIsSafe, WriteMetaIsSafe, DeleteVaultIsSafe, CallFailsIsSafe,
       CreateVaultIsSafe, UploadBlobIsSafe, MapCreatedIsSafe, BoardCreatedIsSafe
  <1> QED
    BY <1>1, <1>2, <1>3, <1>4, <1>5, <1>6, <1>7, <1>8 DEF Next

-----------------------------------------------------------------------------
(* What the steps of a call do, for the invariants that follow. *)
OnlyAt(v) == \A u \in Vaults : u # v => server'[u] = server[u]

Ends(c) == calls' = calls \ {c}

GoesOn(c, d) ==
    /\ calls' = (calls \ {c}) \cup {d}
    /\ d \in Calls /\ d.kind = c.kind /\ d.vault = c.vault
    /\ d.live = c.live /\ d.patch = c.patch

(* What the read before a write does. *)
LEMMA ReadMetaFacts ==
    ASSUME LobbyInv, NEW c \in calls, ReadMeta(c)
    PROVE  /\ c.stage = "read" /\ c.kind \in {"rename", "save", "board"}
           /\ UNCHANGED <<scenario, left, server, loads, asking>>
           /\ \/ /\ c.vault \in Listed /\ lobby' = lobby
                 /\ \E d \in Calls : /\ GoesOn(c, d) /\ d.stage = "write"
                                     /\ d.base = server[c.vault]
              \/ c.vault \notin Listed /\ Ends(c) /\ lobby' = Told(c)
  <1>1. /\ c \in Calls /\ c.kind \in {"rename", "save", "board"}
        /\ c.stage = "read" /\ c.vault \in Vaults
        /\ UNCHANGED <<scenario, left, server, loads, asking>>
    BY CallIs DEF ReadMeta
  <1>2. server[c.vault] \in Stores
    BY <1>1 DEF LobbyInv, TypesOK
  <1>3. CASE c.vault \in Listed
    <2> DEFINE d == HasRead(c, server[c.vault])
    <2>1. calls' = (calls \ {c}) \cup {d} /\ lobby' = lobby
      BY <1>3 DEF ReadMeta, Becomes, HasRead
    <2>2. /\ d \in Calls /\ d.kind = c.kind /\ d.vault = c.vault /\ d.live = c.live
          /\ d.patch = c.patch /\ d.stage = "write" /\ d.base = server[c.vault]
      BY <1>1, <1>2, ReadFacts
    <2> HIDE DEF d
    <2> QED
      BY <1>1, <1>3, <2>1, <2>2 DEF GoesOn
  <1>4. CASE c.vault \notin Listed
    BY <1>1, <1>4 DEF ReadMeta, Ends
  <1> QED
    BY <1>3, <1>4

(* What the write of a rename or of settings does. *)
LEMMA WriteMetaFacts ==
    ASSUME LobbyInv, NEW c \in calls, WriteMeta(c)
    PROVE  /\ c.stage = "write" /\ c.kind \in {"rename", "save"}
           /\ Written(c) /\ OnlyAt(c.vault) /\ Ends(c)
           /\ UNCHANGED <<scenario, left, loads, asking>>
           /\ \/ lobby' = Answered(c)
              \/ scenario.fails /\ lobby' = Told(c)
  <1>1. /\ c.stage = "write" /\ c.kind # "board" /\ Written(c) /\ Ends(c)
        /\ UNCHANGED <<scenario, left, loads, asking>>
        /\ \/ lobby' = Answered(c)
           \/ scenario.fails /\ lobby' = Told(c)
    BY DEF WriteMeta, Ends
  <1>2. c.kind \in {"rename", "save"} /\ OnlyAt(c.vault)
    BY <1>1, CallIs, WrittenFacts DEF OnlyAt
  <1> QED
    BY <1>1, <1>2

(* What making the row of a new vault does. *)
LEMMA CreateVaultFacts ==
    ASSUME LobbyInv, NEW c \in calls, CreateVault(c)
    PROVE  /\ c.stage = "create" /\ Making(c)
           /\ server'[c.vault].kind = "empty" /\ server'[c.vault].labels = {}
           /\ OnlyAt(c.vault) /\ server[c.vault].kind = "absent"
           /\ UNCHANGED <<scenario, left, loads, asking>>
           /\ \/ /\ lobby' = lobby
                 /\ \E d \in Calls : GoesOn(c, d) /\ d.stage = "upload"
              \/ scenario.fails /\ Ends(c) /\ lobby' = Told(c)
  <1>1. /\ c \in Calls /\ c.vault \in Vaults /\ server \in [Vaults -> Stores]
        /\ Making(c) /\ c.stage = "create" /\ server[c.vault].kind = "absent"
        /\ UNCHANGED <<scenario, left, loads, asking>>
    <2>1. c.stage = "create" /\ UNCHANGED <<scenario, left, loads, asking>>
      BY DEF CreateVault
    <2>2. c \in Calls /\ c.vault \in Vaults /\ c.kind \in {"create", "board"}
      BY <2>1, CallIs
    <2> QED
      BY <2>1, <2>2 DEF Making, LobbyInv, TypesOK, BornOK
  <1> DEFINE s == Stored("empty", c.patch.name, Blank, {})
  <1>2. s.kind = "empty" /\ s.labels = {}
    BY DEF Stored
  <1>3. server' = [server EXCEPT ![c.vault] = s]
    BY DEF CreateVault
  <1> HIDE DEF s
  <1>4. server'[c.vault] = s /\ OnlyAt(c.vault)
    BY <1>1, <1>3 DEF OnlyAt
  <1>5. CASE Becomes(c, AtStage(c, "upload")) /\ lobby' = lobby
    <2> DEFINE d == AtStage(c, "upload")
    <2>1. /\ d \in Calls /\ d.kind = c.kind /\ d.vault = c.vault /\ d.live = c.live
          /\ d.patch = c.patch /\ d.stage = "upload"
      BY <1>1, StageFacts
    <2>2. calls' = (calls \ {c}) \cup {d}
      BY <1>5 DEF Becomes
    <2> HIDE DEF d
    <2> QED
      BY <1>1, <1>2, <1>4, <1>5, <2>1, <2>2 DEF GoesOn
  <1>6. CASE scenario.fails /\ calls' = calls \ {c} /\ lobby' = Told(c)
    BY <1>1, <1>2, <1>4, <1>6 DEF Ends
  <1> QED
    BY <1>5, <1>6 DEF CreateVault, AtStage

(* What uploading the first content does. *)
LEMMA UploadBlobFacts ==
    ASSUME LobbyInv, NEW c \in calls, UploadBlob(c)
    PROVE  /\ c.stage = "upload" /\ Making(c) /\ OnlyAt(c.vault)
           /\ server'[c.vault].labels = server[c.vault].labels
           /\ UNCHANGED <<scenario, left, loads, asking>>
           /\ c.vault \in Listed =>
                server'[c.vault].kind = IF c.kind = "board" THEN "board" ELSE "map"
           /\ c.vault \notin Listed => UNCHANGED server
           /\ \/ /\ c.vault \in Listed /\ lobby' = lobby
                 /\ \E d \in Calls :
                      /\ GoesOn(c, d)
                      /\ d.stage = IF c.kind = "board" THEN "read" ELSE "get"
              \/ /\ scenario.fails \/ c.vault \notin Listed
                 /\ Ends(c) /\ lobby' = Told(c)
  <1>1. /\ c \in Calls /\ c.vault \in Vaults /\ server \in [Vaults -> Stores]
        /\ server[c.vault] \in Stores
        /\ Making(c) /\ c.stage = "upload" /\ c.kind \in {"create", "board"}
        /\ UNCHANGED <<scenario, left, loads, asking>>
    BY CallIs DEF UploadBlob, Making, LobbyInv, TypesOK
  <1>2. CASE c.vault \in Listed
    <2> DEFINE k == IF c.kind = "board" THEN "board" ELSE "map"
               s == [server[c.vault] EXCEPT !.kind = k]
               d == AtStage(c, IF c.kind = "board" THEN "read" ELSE "get")
    <2>1. s.kind = k /\ s.labels = server[c.vault].labels
      BY <1>1 DEF Stores
    <2>2. server' = [server EXCEPT ![c.vault] = s]
      BY <1>1, <1>2 DEF UploadBlob
    <2> HIDE DEF s
    <2>3. server'[c.vault] = s /\ OnlyAt(c.vault)
      BY <1>1, <2>2 DEF OnlyAt
    <2>4. CASE Becomes(c, d) /\ lobby' = lobby
      <3>1. /\ d \in Calls /\ d.kind = c.kind /\ d.vault = c.vault
            /\ d.patch = c.patch /\ d.live = c.live
            /\ d.stage = IF c.kind = "board" THEN "read" ELSE "get"
        BY <1>1, StageFacts
      <3>2. calls' = (calls \ {c}) \cup {d}
        BY <2>4 DEF Becomes
      <3> HIDE DEF d
      <3> QED
        BY <1>1, <1>2, <2>1, <2>3, <2>4, <3>1, <3>2 DEF GoesOn
    <2>5. CASE scenario.fails /\ calls' = calls \ {c} /\ lobby' = Told(c)
      BY <1>1, <1>2, <2>1, <2>3, <2>5 DEF Ends
    <2> QED
      BY <1>2, <2>4, <2>5 DEF UploadBlob, AtStage
  <1>3. CASE c.vault \notin Listed
    <2>1. server' = server /\ calls' = calls \ {c} /\ lobby' = Told(c)
      BY <1>3 DEF UploadBlob
    <2> QED
      BY <1>1, <1>3, <2>1 DEF Ends, OnlyAt
  <1> QED
    BY <1>2, <1>3

(* What deleting does. *)
LEMMA DeleteVaultFacts ==
    ASSUME LobbyInv, NEW c \in calls, DeleteVault(c)
    PROVE  /\ c.stage = "delete" /\ c.kind = "delete" /\ OnlyAt(c.vault) /\ Ends(c)
           /\ UNCHANGED <<scenario, left, loads>>
           /\ c.vault \in Listed => server'[c.vault].kind = "gone"
           /\ server'[c.vault].labels = server[c.vault].labels
           /\ c.vault \notin Listed => UNCHANGED server
           /\ \/ /\ c.vault \in Listed /\ c.live
                 /\ DOMAIN lobby'.rows = DOMAIN lobby.rows \ {c.vault}
                 /\ \A v \in DOMAIN lobby'.rows : lobby'.rows[v] = lobby.rows[v]
                 /\ lobby'.page = lobby.page /\ lobby'.keys = lobby.keys
                 /\ lobby'.opened = lobby.opened /\ lobby'.told = lobby.told
                 /\ lobby'.counts = lobby.counts
                 /\ asking' = IF DOMAIN lobby'.rows = DOMAIN lobby.rows THEN asking
                              ELSE IF DOMAIN lobby'.rows = {} THEN NoList
                              ELSE [stage |-> "asked", ids |-> DOMAIN lobby'.rows,
                                    shares |-> {}]
              \/ /\ c.live => c.vault \notin Listed \/ scenario.fails
                 /\ lobby' = Told(c) /\ UNCHANGED asking
  <1>1. c.stage = "delete" /\ Ends(c) /\ UNCHANGED <<scenario, left, loads>>
    BY DEF DeleteVault, Ends
  <1>2. c.kind = "delete" /\ c.vault \in Vaults
    BY <1>1, CallIs
  <1>3. /\ server \in [Vaults -> Stores] /\ server[c.vault] \in Stores
        /\ lobby \in Lobbies
    BY <1>2 DEF LobbyInv, TypesOK
  <1>4. /\ OnlyAt(c.vault) /\ server'[c.vault].labels = server[c.vault].labels
        /\ c.vault \in Listed => server'[c.vault].kind = "gone"
        /\ c.vault \notin Listed => UNCHANGED server
    <2> DEFINE s == [server[c.vault] EXCEPT !.kind = "gone"]
    <2>1. s.kind = "gone" /\ s.labels = server[c.vault].labels
      BY <1>3 DEF Stores
    <2>2. server' = IF c.vault \in Listed THEN [server EXCEPT ![c.vault] = s] ELSE server
      BY <1>3 DEF DeleteVault
    <2> HIDE DEF s
    <2> QED
      BY <1>2, <1>3, <2>1, <2>2 DEF OnlyAt
  <1>5. CASE /\ c.vault \in Listed /\ c.live
             /\ ShowRows(Restrict(lobby.rows, DOMAIN lobby.rows \ {c.vault}),
                         lobby.counts, lobby.loading)
    <2> DEFINE D == DOMAIN lobby.rows \ {c.vault}
               rs == Restrict(lobby.rows, D)
    <2>1. lobby.rows \in Lists(VaultRow) /\ lobby.counts \in SUBSET Vaults
          /\ lobby.loading \in BOOLEAN
      BY <1>3 DEF Lobbies
    <2>2. /\ rs \in [D -> VaultRow] /\ D \in SUBSET Vaults
          /\ \A v \in D : rs[v] = lobby.rows[v]
      <3>1. D \in SUBSET Vaults /\ \A v \in D : lobby.rows[v] \in VaultRow
        BY <2>1, ListFacts
      <3>2. rs = [v \in D |-> lobby.rows[v]]
        BY DEF Restrict
      <3> HIDE DEF D, rs
      <3> QED
        BY <3>1, <3>2
    <2>4. ShowRows(rs, lobby.counts, lobby.loading)
      BY <1>5
    <2> HIDE DEF D, rs
    <2>3. rs \in Lists(VaultRow) /\ DOMAIN rs = D
      BY <2>2, ListFacts
    <2>5. /\ lobby'.rows = rs /\ lobby'.page = lobby.page
          /\ lobby'.keys = lobby.keys /\ lobby'.opened = lobby.opened
          /\ lobby'.counts = lobby.counts /\ lobby'.told = lobby.told
      BY <2>1, <2>3, <2>4, ShowTypes
    <2>6. asking' = IF DOMAIN rs = DOMAIN lobby.rows THEN asking
                    ELSE IF DOMAIN rs = {} THEN NoList
                    ELSE [stage |-> "asked", ids |-> DOMAIN rs, shares |-> {}]
      BY <2>4 DEF ShowRows
    <2> QED
      BY <1>1, <1>2, <1>4, <1>5, <2>2, <2>3, <2>5, <2>6 DEF D
  <1>6. CASE /\ c.live => c.vault \notin Listed \/ scenario.fails
             /\ lobby' = Told(c) /\ UNCHANGED asking
    BY <1>1, <1>2, <1>4, <1>6
  <1> QED
    BY <1>5, <1>6 DEF DeleteVault

(* Another page has none of the lobby's state, and hears of no call. *)
Left(path, v, cs) ==
    /\ lobby'.page = path /\ lobby'.opened = v /\ lobby'.keys
    /\ DOMAIN lobby'.rows = {} /\ asking' = NoList /\ lobby'.counts = {}
    /\ \A l \in Closures : loads'[l].stage = "none"
    /\ \A d \in calls' : \E c \in cs :
          /\ d.kind = c.kind /\ d.vault = c.vault /\ d.stage = c.stage
          /\ ~d.live /\ d.patch = c.patch /\ d.base = c.base
          /\ d = Unheard(c)
    /\ \A c \in cs : \E d \in calls' : d.kind = c.kind /\ d.vault = c.vault

(* What going to another page does. *)
LEMMA NavigateFacts ==
    ASSUME LobbyInv, NEW path, NEW v, NEW cs \in SUBSET calls,
           Navigate(path, v, cs)
    PROVE  Left(path, v, cs)
  <1>1. /\ lobby'.page = path /\ lobby'.opened = v /\ lobby'.keys
        /\ lobby'.rows = <<>> /\ lobby'.counts = {}
    BY DEF Navigate, Mounted
  <1>2. DOMAIN lobby'.rows = {}
    BY <1>1, NoRows
  <1>3. asking' = NoList /\ \A l \in Closures : loads'[l].stage = "none"
    BY NoLoads DEF Navigate
  <1>4. calls' = {Unheard(c) : c \in cs}
    BY DEF Navigate, Unheard
  <1>5. \A c \in cs : /\ Unheard(c).stage = c.stage /\ Unheard(c).vault = c.vault
                      /\ Unheard(c).kind = c.kind /\ Unheard(c).patch = c.patch
                      /\ Unheard(c).base = c.base /\ ~Unheard(c).live
    BY UnheardFacts, CallIs
  <1> QED
    BY <1>1, <1>2, <1>3, <1>4, <1>5 DEF Left

(* What the end of creating a map does. *)
LEMMA MapCreatedFacts ==
    ASSUME LobbyInv, NEW c \in calls, MapCreated(c)
    PROVE  /\ c.stage = "get" /\ c.kind = "create"
           /\ UNCHANGED <<scenario, left, server>>
           /\ \/ c.vault \in Listed /\ Left("map", c.vault, calls \ {c})
              \/ /\ c.vault \notin Listed /\ Ends(c) /\ lobby' = Told(c)
                 /\ UNCHANGED <<loads, asking>>
  <1>1. c.stage = "get" /\ UNCHANGED <<scenario, left, server>>
    BY DEF MapCreated
  <1>2. c.kind = "create" /\ calls \ {c} \in SUBSET calls
    BY <1>1, CallIs
  <1>3. CASE c.vault \in Listed
    <2>1. Navigate("map", c.vault, calls \ {c})
      BY <1>3 DEF MapCreated
    <2> QED
      BY <1>1, <1>2, <1>3, <2>1, NavigateFacts
  <1>4. CASE c.vault \notin Listed
    BY <1>1, <1>2, <1>4 DEF MapCreated, Ends
  <1> QED
    BY <1>3, <1>4

(* What the end of creating a board does. *)
LEMMA BoardCreatedFacts ==
    ASSUME LobbyInv, NEW c \in calls, BoardCreated(c)
    PROVE  /\ c.stage = "write" /\ c.kind = "board" /\ Written(c) /\ OnlyAt(c.vault)
           /\ UNCHANGED <<scenario, left>>
           /\ \/ Left("board", c.vault, calls \ {c})
              \/ /\ scenario.fails /\ Ends(c) /\ lobby' = Told(c)
                 /\ UNCHANGED <<loads, asking>>
  <1>1. /\ c.stage = "write" /\ c.kind = "board" /\ Written(c)
        /\ UNCHANGED <<scenario, left>>
    BY DEF BoardCreated
  <1>2. OnlyAt(c.vault) /\ calls \ {c} \in SUBSET calls
    BY <1>1, WrittenFacts DEF OnlyAt
  <1>3. CASE Navigate("board", c.vault, calls \ {c})
    BY <1>1, <1>2, <1>3, NavigateFacts
  <1>4. CASE /\ scenario.fails /\ calls' = calls \ {c} /\ lobby' = Told(c)
             /\ UNCHANGED <<loads, asking>>
    BY <1>1, <1>2, <1>4 DEF Ends
  <1> QED
    BY <1>3, <1>4 DEF BoardCreated

(* What opening a row does. *)
LEMMA OpenFacts ==
    ASSUME LobbyInv, NEW v \in Vaults, Open(v)
    PROVE  /\ Left(PathOf(lobby.rows[v]), v, calls)
           /\ UNCHANGED <<scenario, server>>
           /\ lobby.page = "lobby" /\ OnRow(v) /\ Idle(v)
  BY NavigateFacts DEF Open, UserDoes

-----------------------------------------------------------------------------
(* A patient user's calls. *)
LEMMA PatientKept ==
    ASSUME LobbyInv, PatientOK, UNCHANGED <<server, calls>>,
           lobby'.page = lobby.page, Loading' \subseteq Loading
    PROVE  PatientOK'
  BY DEF PatientOK, Listed, Making

(* Another call of a patient user, for a vault no other call is for. *)
LEMMA PatientAdded ==
    ASSUME LobbyInv, PatientOK, UNCHANGED <<server, loads>>,
           lobby'.page = "lobby", lobby.page = "lobby",
           NEW c \in Calls, calls' = calls \cup {c}, c.live,
           c.stage \in {"read", "delete", "create"},
           Making(c) <=> c.stage = "create",
           \A d \in calls : d.vault # c.vault,
           Loading = {} \/ Making(c)
    PROVE  PatientOK'
  <1>1. Loading' = Loading /\ Listed' = Listed
    BY DEF Loading, Listed
  <1>2. c.live \in BOOLEAN
    BY CallFacts
  <1>3. /\ \A d, e \in calls' : d.vault = e.vault => d = e
        /\ \A d \in calls' : d.live <=> lobby'.page = "lobby"
        /\ Loading # {} => \A d \in calls' : Making(d)
    BY DEF PatientOK
  <1>4. /\ \A d \in calls' : d.stage = "write" =>
             d.vault \in Listed /\ d.base = server[d.vault]
        /\ \A d \in calls' : Making(d) /\ d.stage # "create" => d.vault \in Listed
    BY DEF PatientOK
  <1> QED
    BY <1>1, <1>3, <1>4 DEF PatientOK, Making

(* A call of a patient user ends or goes on. *)
LEMMA PatientMoved ==
    ASSUME LobbyInv, PatientOK, NEW c \in calls, UNCHANGED loads,
           lobby'.page = lobby.page, OnlyAt(c.vault),
           \/ Ends(c)
           \/ \E d \in Calls :
                /\ GoesOn(c, d)
                /\ d.stage = "write" =>
                     d.vault \in Listed' /\ d.base = server'[d.vault]
                /\ Making(d) => d.vault \in Listed'
    PROVE  PatientOK'
  <1>1. Loading' = Loading
    BY DEF Loading
  <1>2. \A d \in calls : d.vault \in Vaults
    BY CallIs
  <1>3. \A d \in calls \ {c} :
          /\ d.vault # c.vault /\ server'[d.vault] = server[d.vault]
          /\ d.vault \in Listed' <=> d.vault \in Listed
    BY <1>2 DEF PatientOK, OnlyAt, Listed
  <1>4. CASE Ends(c)
    BY <1>1, <1>3, <1>4 DEF PatientOK, Ends, Making
  <1>5. CASE ~Ends(c)
    <2>1. PICK d \in Calls :
            /\ GoesOn(c, d)
            /\ d.stage = "write" => d.vault \in Listed' /\ d.base = server'[d.vault]
            /\ Making(d) => d.vault \in Listed'
      BY <1>5
    <2>2. /\ calls' = (calls \ {c}) \cup {d} /\ d.kind = c.kind
          /\ d.vault = c.vault /\ d.live = c.live
      BY <2>1 DEF GoesOn
    <2>3. \A e, f \in calls' : e.vault = f.vault => e = f
      BY <1>3, <2>2 DEF PatientOK
    <2>4. \A e \in calls' : e.live <=> lobby'.page = "lobby"
      <3>1. \A e \in calls \cup {c} : e.live <=> lobby.page = "lobby"
        BY DEF PatientOK
      <3> QED
        BY <2>2, <3>1
    <2>5. Loading' # {} => \A e \in calls' : Making(e)
      BY <1>1, <2>2 DEF PatientOK, Making
    <2>6. /\ \A e \in calls' : e.stage = "write" =>
               e.vault \in Listed' /\ e.base = server'[e.vault]
          /\ \A e \in calls' : Making(e) /\ e.stage # "create" => e.vault \in Listed'
      BY <1>3, <2>1, <2>2 DEF PatientOK
    <2> QED
      BY <2>3, <2>4, <2>5, <2>6 DEF PatientOK, Making
  <1> QED
    BY <1>4, <1>5

(* A patient user goes to another page. *)
LEMMA PatientLeft ==
    ASSUME LobbyInv, PatientOK, NEW path \in {"map", "board"}, NEW v,
           NEW cs \in SUBSET calls, Left(path, v, cs),
           \A c \in cs : server'[c.vault] = server[c.vault]
    PROVE  PatientOK'
  <1>1. /\ lobby'.page # "lobby" /\ Loading' = {} /\ cs \subseteq calls
        /\ \A d \in calls' : \E c \in cs :
             /\ d.kind = c.kind /\ d.vault = c.vault /\ d.stage = c.stage
             /\ ~d.live /\ d.patch = c.patch /\ d.base = c.base
             /\ d = Unheard(c)
    BY DEF Left, Loading
  <1>2. \A c \in cs : c.vault \in Listed' <=> c.vault \in Listed
    BY CallIs DEF Listed
  <1>3. \A d, e \in calls' : d.vault = e.vault => d = e
    BY <1>1 DEF PatientOK
  <1>4. /\ \A d \in calls' : d.stage = "write" =>
             d.vault \in Listed' /\ d.base = server'[d.vault]
        /\ \A d \in calls' : Making(d) /\ d.stage # "create" => d.vault \in Listed'
    BY <1>1, <1>2 DEF PatientOK, Making
  <1> QED
    BY <1>1, <1>3, <1>4 DEF PatientOK, Making

(* What a call of the user's is. *)
LEMMA AskedFacts ==
    ASSUME LobbyInv, NEW v \in Vaults,
           HandleRenameConfirm(v) \/ HandleSaveMeta(v) \/ HandleDelete(v)
    PROVE  /\ UNCHANGED <<scenario, server, loads, asking>>
           /\ lobby.page = "lobby" /\ OnRow(v) /\ Idle(v)
           /\ \E c \in Calls :
                /\ calls' = calls \cup {c} /\ c.vault = v /\ c.live
                /\ c.stage \in {"read", "delete"}
                /\ \/ /\ c.kind = "save" /\ c.stage = "read"
                      /\ c.patch.labels = lobby.rows[v].draftLabels
                      /\ lobby' = [lobby EXCEPT !.rows[v].saving = TRUE]
                   \/ c.kind \in {"rename", "delete"} /\ lobby' = lobby
  <1>1. /\ UNCHANGED <<scenario, server, loads, asking>>
        /\ lobby.page = "lobby" /\ OnRow(v) /\ Idle(v)
    BY DEF HandleRenameConfirm, HandleSaveMeta, HandleDelete, UserDoes
  <1>2. CASE HandleRenameConfirm(v)
    <2>1. PICK n \in Names :
             calls' = calls \cup {Call("rename", v, "read", [name |-> n])}
      BY <1>2 DEF HandleRenameConfirm
    <2> DEFINE c == Call("rename", v, "read", [name |-> n])
    <2>2. [name |-> n] \in Naming
      BY DEF Naming
    <2>3. /\ c \in Calls /\ c.kind = "rename" /\ c.vault = v /\ c.stage = "read"
          /\ c.live
      BY <2>2, NewCall
    <2>4. calls' = calls \cup {c} /\ lobby' = lobby
      BY <1>2, <2>1 DEF HandleRenameConfirm
    <2> HIDE DEF c
    <2> QED
      BY <1>1, <2>3, <2>4
  <1>3. CASE HandleSaveMeta(v)
    <2> DEFINE p == [note |-> lobby.rows[v].draftNote,
                     labels |-> lobby.rows[v].draftLabels,
                     touched |-> lobby.rows[v].draftNote # lobby.rows[v].note]
               c == Call("save", v, "read", p)
    <2>1. lobby.rows \in Lists(VaultRow) /\ v \in DOMAIN lobby.rows
      BY <1>1 DEF LobbyInv, TypesOK, Lobbies, OnRow
    <2>2. lobby.rows[v] \in VaultRow
      BY <2>1, ListFacts
    <2>3. p \in Setting /\ p.labels = lobby.rows[v].draftLabels
      BY <2>2 DEF VaultRow, Setting
    <2>4. calls' = calls \cup {c} /\ lobby' = [lobby EXCEPT !.rows[v].saving = TRUE]
      BY <1>3 DEF HandleSaveMeta
    <2> HIDE DEF p
    <2>5. /\ c \in Calls /\ c.kind = "save" /\ c.vault = v /\ c.stage = "read"
          /\ c.patch = p /\ c.live
      BY <2>3, NewCall
    <2> HIDE DEF c
    <2> QED
      BY <1>1, <2>3, <2>4, <2>5
  <1>4. CASE HandleDelete(v)
    <2> DEFINE c == Call("delete", v, "delete", <<>>)
    <2>1. /\ c \in Calls /\ c.kind = "delete" /\ c.vault = v /\ c.stage = "delete"
          /\ c.live
      BY NewCall
    <2>2. calls' = calls \cup {c} /\ lobby' = lobby
      BY <1>4 DEF HandleDelete
    <2> HIDE DEF c
    <2> QED
      BY <1>1, <2>1, <2>2
  <1> QED
    BY <1>2, <1>3, <1>4

(* What asking for a new vault does. *)
LEMMA NewVaultFacts ==
    ASSUME LobbyInv, NEW kind \in {"create", "board"}, HandleCreate(kind)
    PROVE  /\ UNCHANGED <<scenario, server, lobby, loads, asking>>
           /\ lobby.page = "lobby" /\ lobby.keys
           /\ \E c \in Calls :
                /\ calls' = calls \cup {c} /\ c.kind = kind /\ c.stage = "create"
                /\ c.live /\ server[c.vault].kind = "absent"
                /\ \A d \in calls : d.vault # c.vault
  <1>1. /\ UNCHANGED <<scenario, server, lobby, loads, asking>>
        /\ lobby.page = "lobby" /\ lobby.keys
    BY DEF HandleCreate, UserDoes
  <1>2. PICK v \in Vaults, n \in Names :
          /\ server[v].kind = "absent" /\ \A c \in calls : c.vault # v
          /\ calls' = calls \cup {Call(kind, v, "create", [name |-> n])}
    BY DEF HandleCreate
  <1> DEFINE c == Call(kind, v, "create", [name |-> n])
  <1>3. [name |-> n] \in Naming
    BY DEF Naming
  <1>4. /\ c \in Calls /\ c.kind = kind /\ c.vault = v /\ c.stage = "create"
        /\ c.live
    BY <1>3, NewCall
  <1>5. calls' = calls \cup {c}
    BY <1>2
  <1> HIDE DEF c
  <1> QED
    BY <1>1, <1>2, <1>4, <1>5

(* While the user waits for answers, every step keeps PatientOK. *)
LEMMA PatientStays ==
    ASSUME LobbyInv, PatientOK, scenario.patient, [Next]_vars
    PROVE  PatientOK'
  <1>0. lobby \in Lobbies /\ loads \in [Closures -> Load]
    BY DEF LobbyInv, TypesOK
  <1>1. CASE UNCHANGED vars
    BY <1>1 DEF vars, PatientOK, Listed, Loading, Making
  <1>2. CASE Unlock
    <2>1. calls' = {}
      BY <1>2 DEF Unlock, LobbyInv, PageOK
    <2> QED
      BY <2>1 DEF PatientOK
  <1>3. CASE Back
    <2>1. calls' = {}
      BY <1>3 DEF Back
    <2> QED
      BY <2>1 DEF PatientOK
  <1>4. CASE ListShares \/ SharesListed
    <2>1. UNCHANGED <<server, calls, loads>> /\ lobby'.page = lobby.page
      BY <1>0, <1>4 DEF ListShares, SharesListed, Lobbies
    <2> QED
      BY <2>1, PatientKept DEF Loading
  <1>5. CASE \E l \in Closures : ListVaults(l) \/ Loaded(l) \/ LoadFails(l)
    <2>1. PICK l \in Closures : ListVaults(l) \/ Loaded(l) \/ LoadFails(l)
      BY <1>5
    <2>2. UNCHANGED <<server, calls>> /\ lobby'.page = lobby.page
      BY <1>0, <2>1 DEF ListVaults, Loaded, LoadFails, ShowRows, Lobbies
    <2>3. /\ loads[l].stage # "none"
          /\ \A k \in Closures : k # l => loads'[k] = loads[k]
      BY <1>0, <2>1, NoLoads DEF ListVaults, Loaded, LoadFails
    <2>4. Loading' \subseteq Loading
      BY <2>3 DEF Loading
    <2> QED
      BY <2>2, <2>4, PatientKept
  <1>6. CASE \E v \in Vaults : SetDraftNote(v) \/ SetDraftLabels(v)
    <2>1. UNCHANGED <<server, calls, loads>> /\ lobby'.page = lobby.page
      BY <1>0, <1>6 DEF SetDraftNote, SetDraftLabels, Lobbies
    <2> QED
      BY <2>1, PatientKept DEF Loading
  <1>7. CASE \E v \in Vaults :
                HandleRenameConfirm(v) \/ HandleSaveMeta(v) \/ HandleDelete(v)
    <2>1. PICK v \in Vaults :
                HandleRenameConfirm(v) \/ HandleSaveMeta(v) \/ HandleDelete(v)
      BY <1>7
    <2>2. /\ UNCHANGED <<scenario, server, loads, asking>>
          /\ lobby.page = "lobby" /\ OnRow(v) /\ Idle(v)
      BY <2>1, AskedFacts
    <2>3. PICK c \in Calls :
             /\ calls' = calls \cup {c} /\ c.vault = v /\ c.live
             /\ c.stage \in {"read", "delete"}
             /\ \/ /\ c.kind = "save"
                   /\ lobby' = [lobby EXCEPT !.rows[v].saving = TRUE]
                \/ c.kind \in {"rename", "delete"} /\ lobby' = lobby
      BY <2>1, AskedFacts
    <2>4. lobby'.page = "lobby" /\ ~Making(c)
      BY <1>0, <2>2, <2>3 DEF Lobbies, Making
    <2>5. Loading = {} /\ \A d \in calls : d.vault # v
      BY <2>2 DEF Idle
    <2> QED
      BY <2>2, <2>3, <2>4, <2>5, PatientAdded
  <1>8. CASE \E v \in Vaults : Open(v)
    <2>1. PICK v \in Vaults : Open(v)
      BY <1>8
    <2>2. /\ Left(PathOf(lobby.rows[v]), v, calls) /\ server' = server
          /\ PathOf(lobby.rows[v]) \in {"map", "board"}
      BY <2>1, OpenFacts DEF PathOf
    <2>3. calls \in SUBSET calls /\ \A c \in calls : server'[c.vault] = server[c.vault]
      BY <2>2
    <2> QED
      BY <2>2, <2>3, PatientLeft
  <1>9. CASE \E kind \in {"create", "board"} : HandleCreate(kind)
    <2>1. PICK kind \in {"create", "board"} : HandleCreate(kind)
      BY <1>9
    <2>2. UNCHANGED <<server, lobby, loads>> /\ lobby.page = "lobby"
      BY <2>1, NewVaultFacts
    <2>3. PICK c \in Calls :
             /\ calls' = calls \cup {c} /\ c.kind = kind /\ c.stage = "create"
             /\ c.live /\ \A d \in calls : d.vault # c.vault
      BY <2>1, NewVaultFacts
    <2>4. Making(c)
      BY <2>3 DEF Making
    <2> QED
      BY <2>2, <2>3, <2>4, PatientAdded
  <1>10. ASSUME NEW c \in calls,
          \/ ReadMeta(c) \/ WriteMeta(c) \/ DeleteVault(c) \/ CallFails(c)
          \/ CreateVault(c) \/ UploadBlob(c) \/ MapCreated(c) \/ BoardCreated(c)
         PROVE PatientOK'
    <2>0. /\ Told(c).page = lobby.page /\ c.vault \in Vaults
          /\ calls \ {c} \in SUBSET calls
          /\ \A d \in calls \ {c} : d.vault # c.vault /\ d.vault \in Vaults
      BY ToldTypes, CallIs DEF PatientOK
    <2>1. CASE ReadMeta(c)
      <3>1. UNCHANGED <<server, loads>> /\ lobby'.page = lobby.page
        BY <2>0, <2>1, ReadMetaFacts
      <3>2. \/ Ends(c)
            \/ \E d \in Calls : /\ GoesOn(c, d) /\ d.stage = "write"
                                /\ d.base = server[c.vault] /\ c.vault \in Listed
        BY <2>1, ReadMetaFacts
      <3>3. OnlyAt(c.vault) /\ Listed' = Listed
        BY <3>1 DEF OnlyAt, Listed
      <3> QED
        BY <3>1, <3>2, <3>3, PatientMoved DEF GoesOn
    <2>2. CASE WriteMeta(c)
      <3>1. /\ c.stage = "write" /\ c.kind # "board" /\ Ends(c) /\ OnlyAt(c.vault)
            /\ loads' = loads /\ lobby' \in {Answered(c), Told(c)}
        BY <2>2, WriteMetaFacts
      <3>2. Answered(c).page = lobby.page
        BY <3>1, AnsweredTypes
      <3> QED
        BY <2>0, <3>1, <3>2, PatientMoved
    <2>3. CASE DeleteVault(c)
      <3>1. Ends(c) /\ OnlyAt(c.vault) /\ loads' = loads /\ lobby'.page = lobby.page
        BY <2>0, <2>3, DeleteVaultFacts
      <3> QED
        BY <3>1, PatientMoved
    <2>4. CASE CallFails(c)
      <3>1. Ends(c) /\ OnlyAt(c.vault) /\ loads' = loads /\ lobby'.page = lobby.page
        BY <2>0, <2>4 DEF CallFails, Ends, OnlyAt
      <3> QED
        BY <3>1, PatientMoved
    <2>5. CASE CreateVault(c)
      <3>1. /\ OnlyAt(c.vault) /\ loads' = loads /\ lobby'.page = lobby.page
            /\ server'[c.vault].kind = "empty"
        BY <2>0, <2>5, CreateVaultFacts
      <3>2. Ends(c) \/ \E d \in Calls : GoesOn(c, d) /\ d.stage = "upload"
        BY <2>5, CreateVaultFacts
      <3>3. c.vault \in Listed'
        BY <2>0, <3>1 DEF Listed
      <3> QED
        BY <3>1, <3>2, <3>3, PatientMoved DEF GoesOn
    <2>6. CASE UploadBlob(c)
      <3>1. OnlyAt(c.vault) /\ loads' = loads /\ lobby'.page = lobby.page
        BY <2>0, <2>6, UploadBlobFacts
      <3>2. \/ Ends(c)
            \/ \E d \in Calls : /\ GoesOn(c, d) /\ c.vault \in Listed
                                /\ d.stage \in {"read", "get"}
        BY <2>6, UploadBlobFacts
      <3>3. c.vault \in Listed => c.vault \in Listed'
        BY <2>0, <2>6, UploadBlobFacts DEF Listed
      <3> QED
        BY <3>1, <3>2, <3>3, PatientMoved DEF GoesOn
    <2>7. CASE MapCreated(c)
      <3>1. server' = server
        BY <2>7, MapCreatedFacts
      <3>2. CASE Left("map", c.vault, calls \ {c})
        BY <2>0, <3>1, <3>2, PatientLeft
      <3>3. CASE Ends(c) /\ lobby' = Told(c) /\ UNCHANGED loads
        BY <2>0, <3>1, <3>3, PatientMoved DEF OnlyAt
      <3> QED
        BY <2>7, <3>2, <3>3, MapCreatedFacts
    <2>8. CASE BoardCreated(c)
      <3>1. OnlyAt(c.vault)
        BY <2>8, BoardCreatedFacts
      <3>2. CASE Left("board", c.vault, calls \ {c})
        <4>1. \A d \in calls \ {c} : server'[d.vault] = server[d.vault]
          BY <2>0, <3>1 DEF OnlyAt
        <4> QED
          BY <2>0, <3>2, <4>1, PatientLeft
      <3>3. CASE Ends(c) /\ lobby' = Told(c) /\ UNCHANGED loads
        BY <2>0, <3>1, <3>3, PatientMoved
      <3> QED
        BY <2>8, <3>2, <3>3, BoardCreatedFacts
    <2> QED
      BY <1>10, <2>1, <2>2, <2>3, <2>4, <2>5, <2>6, <2>7, <2>8
  <1> QED
    BY <1>1, <1>2, <1>3, <1>4, <1>5, <1>6, <1>7, <1>8, <1>9, <1>10 DEF Next

-----------------------------------------------------------------------------
(* Steps that leave what the rows show. *)
SameRows ==
    /\ DOMAIN lobby'.rows = DOMAIN lobby.rows
    /\ \A v \in DOMAIN lobby.rows :
          /\ lobby'.rows[v].name = lobby.rows[v].name
          /\ lobby'.rows[v].note = lobby.rows[v].note
          /\ lobby'.rows[v].labels = lobby.rows[v].labels
          /\ Board \in lobby'.rows[v].draftLabels
                <=> Board \in lobby.rows[v].draftLabels

SamePage ==
    /\ lobby'.page = lobby.page /\ lobby'.keys = lobby.keys
    /\ lobby'.opened = lobby.opened /\ lobby'.counts = lobby.counts

(* A row is replaced by one that shows the same. *)
LEMMA RowRewritten ==
    ASSUME lobby \in Lobbies, NEW v \in DOMAIN lobby.rows, NEW r \in VaultRow,
           lobby' = [lobby EXCEPT !.rows = [lobby.rows EXCEPT ![v] = r]],
           LET o == lobby.rows[v]
           IN  /\ r.name = o.name /\ r.note = o.note /\ r.labels = o.labels
               /\ Board \in r.draftLabels <=> Board \in o.draftLabels
    PROVE  SameRows /\ SamePage /\ lobby'.told = lobby.told
  <1> DEFINE rs == [lobby.rows EXCEPT ![v] = r]
  <1>1. lobby.rows \in Lists(VaultRow)
    BY DEF Lobbies
  <1>2. /\ DOMAIN rs = DOMAIN lobby.rows /\ rs[v] = r
        /\ \A u \in DOMAIN lobby.rows : u # v => rs[u] = lobby.rows[u]
    BY <1>1, RowChanged
  <1>3. lobby' = [lobby EXCEPT !.rows = rs]
    OBVIOUS
  <1> HIDE DEF rs
  <1>4. lobby'.rows = rs /\ SamePage /\ lobby'.told = lobby.told
    BY <1>3 DEF Lobbies, SamePage
  <1> QED
    BY <1>2, <1>4 DEF SameRows

(* A draft changes no row that is shown, and no board label. *)
LEMMA DraftFacts ==
    ASSUME LobbyInv, NEW v \in Vaults, SetDraftNote(v) \/ SetDraftLabels(v)
    PROVE  /\ UNCHANGED <<scenario, server, calls, loads, asking>>
           /\ SameRows /\ SamePage /\ lobby'.told = lobby.told
  <1>1. /\ lobby \in Lobbies /\ v \in DOMAIN lobby.rows
        /\ UNCHANGED <<scenario, server, calls, loads, asking>>
    BY DEF LobbyInv, TypesOK, SetDraftNote, SetDraftLabels, OnRow
  <1>2. lobby.rows \in Lists(VaultRow) /\ lobby.rows[v] \in VaultRow
    BY <1>1, ListFacts DEF Lobbies
  <1>3. CASE SetDraftNote(v)
    <2>1. PICK t \in Notes : lobby' = [lobby EXCEPT !.rows[v].draftNote = t]
      BY <1>3 DEF SetDraftNote
    <2> DEFINE r == [lobby.rows[v] EXCEPT !.draftNote = t]
    <2>2. LET o == lobby.rows[v]
          IN  /\ r \in VaultRow
              /\ r.name = o.name /\ r.note = o.note /\ r.labels = o.labels
              /\ r.draftLabels = o.draftLabels
      BY <1>2 DEF VaultRow
    <2>3. lobby' = [lobby EXCEPT !.rows = [lobby.rows EXCEPT ![v] = r]]
      BY <1>1, <2>1 DEF Lobbies
    <2> HIDE DEF r
    <2> QED
      BY <1>1, <2>2, <2>3, RowRewritten
  <1>4. CASE SetDraftLabels(v)
    <2>1. PICK x \in Tags :
             lobby' = [lobby EXCEPT !.rows[v].draftLabels =
                IF x \in Visible(lobby.rows[v].draftLabels)
                THEN lobby.rows[v].draftLabels \ {x}
                ELSE lobby.rows[v].draftLabels \cup {x}]
      BY <1>4 DEF SetDraftLabels
    <2> DEFINE ls == IF x \in Visible(lobby.rows[v].draftLabels)
                     THEN lobby.rows[v].draftLabels \ {x}
                     ELSE lobby.rows[v].draftLabels \cup {x}
               r == [lobby.rows[v] EXCEPT !.draftLabels = ls]
    <2>2. ls \in Labels /\ (Board \in ls <=> Board \in lobby.rows[v].draftLabels)
      BY <1>2, LobbyAssumption DEF VaultRow, Labels
    <2>3. lobby' = [lobby EXCEPT !.rows = [lobby.rows EXCEPT ![v] = r]]
      BY <1>1, <2>1 DEF Lobbies
    <2> HIDE DEF ls
    <2>4. LET o == lobby.rows[v]
          IN  /\ r \in VaultRow
              /\ r.name = o.name /\ r.note = o.note /\ r.labels = o.labels
              /\ r.draftLabels = ls
      BY <1>2, <2>2 DEF VaultRow
    <2> HIDE DEF r
    <2> QED
      BY <1>1, <2>2, <2>3, <2>4, RowRewritten
  <1> QED
    BY <1>3, <1>4

(* A row that is being saved shows what it did. *)
LEMMA SavingFacts ==
    ASSUME LobbyInv, NEW v \in DOMAIN lobby.rows,
           lobby' = [lobby EXCEPT !.rows[v].saving = TRUE]
    PROVE  SameRows /\ SamePage /\ lobby'.told = lobby.told
  <1>1. lobby \in Lobbies
    BY DEF LobbyInv, TypesOK
  <1>2. lobby.rows[v] \in VaultRow
    BY <1>1, ListFacts DEF Lobbies
  <1> DEFINE r == [lobby.rows[v] EXCEPT !.saving = TRUE]
  <1>3. LET o == lobby.rows[v]
        IN  /\ r \in VaultRow
            /\ r.name = o.name /\ r.note = o.note /\ r.labels = o.labels
            /\ r.draftLabels = o.draftLabels
    BY <1>2 DEF VaultRow
  <1>4. lobby' = [lobby EXCEPT !.rows = [lobby.rows EXCEPT ![v] = r]]
    BY <1>1 DEF Lobbies
  <1> HIDE DEF r
  <1> QED
    BY <1>1, <1>3, <1>4, RowRewritten

(* An error is shown above the rows. *)
LEMMA ToldRows ==
    ASSUME LobbyInv, NEW c \in calls, lobby' = Told(c)
    PROVE  SameRows /\ SamePage
  <1>1. lobby \in Lobbies /\ lobby.rows \in Lists(VaultRow)
    BY DEF LobbyInv, TypesOK, Lobbies
  <1>2. CASE c.live /\ c.kind = "save" /\ c.vault \in DOMAIN lobby.rows
    <2> DEFINE r == [lobby.rows[c.vault] EXCEPT !.saving = FALSE]
               rs == [lobby.rows EXCEPT ![c.vault] = r]
               o == lobby.rows[c.vault]
    <2>1. o \in VaultRow
      BY <1>1, <1>2, ListFacts
    <2>2. /\ r \in VaultRow
          /\ r.name = o.name /\ r.note = o.note /\ r.labels = o.labels
          /\ r.draftLabels = o.draftLabels
      BY <2>1 DEF VaultRow
    <2>3. lobby' = [lobby EXCEPT !.told = TRUE, !.rows = rs]
      BY <1>1, <1>2 DEF Told, Lobbies
    <2> HIDE DEF r, o
    <2>4. /\ DOMAIN rs = DOMAIN lobby.rows /\ rs[c.vault] = r
          /\ \A u \in DOMAIN lobby.rows : u # c.vault => rs[u] = lobby.rows[u]
      BY <1>1, <1>2, <2>2, RowChanged
    <2> HIDE DEF rs
    <2>5. lobby'.rows = rs /\ SamePage
      BY <1>1, <2>3 DEF Lobbies, SamePage
    <2> QED
      BY <1>2, <2>2, <2>4, <2>5 DEF SameRows, o
  <1>3. CASE ~(c.live /\ c.kind = "save" /\ c.vault \in DOMAIN lobby.rows)
    <2>1. lobby'.rows = lobby.rows /\ SamePage
      BY <1>1, <1>3 DEF Told, Lobbies, SamePage
    <2> QED
      BY <2>1 DEF SameRows
  <1> QED
    BY <1>2, <1>3

(* The vaults being made. *)
LEMMA MadeFacts ==
    ASSUME LobbyInv, NEW c \in calls
    PROVE  /\ \A d : GoesOn(c, d) => Made' = Made
           /\ Ends(c) /\ ~Making(c) => Made' = Made
           /\ Making(c) => c.vault \in Made
           /\ Made \subseteq Vaults
  <1>1. \A d : GoesOn(c, d) => Made' = Made
    BY DEF GoesOn, Made, Making
  <1>2. Ends(c) /\ ~Making(c) => Made' = Made
    BY DEF Ends, Made, Making
  <1> QED
    BY <1>1, <1>2, CallIs DEF Made

-----------------------------------------------------------------------------
(* What a patient user's lobby tells of the server. *)
LEMMA TellKept ==
    ASSUME LobbyInv, TellOK, UNCHANGED <<server, loads>>, Made \subseteq Made',
           SameRows, SamePage
    PROVE  TellOK'
  <1>1. Listed' = Listed /\ Loading' = Loading
    BY DEF Listed, Loading
  <1>2. \A l \in Closures, v \in Vaults : ItemTells(l, v) => ItemTells(l, v)'
    BY <1>1 DEF ItemTells
  <1>3. \A v \in Vaults : RowTells(v) => RowTells(v)'
    BY <1>1 DEF RowTells, SameRows
  <1> QED
    BY <1>1, <1>2, <1>3 DEF TellOK, SamePage

(* A vault other than the one a step is about. *)
LEMMA TellsElsewhere ==
    ASSUME LobbyInv, NEW v \in Vaults, server'[v] = server[v],
           v \in DOMAIN lobby'.rows <=> v \in DOMAIN lobby.rows,
           v \in DOMAIN lobby.rows =>
              /\ lobby'.rows[v].name = lobby.rows[v].name
              /\ lobby'.rows[v].note = lobby.rows[v].note
              /\ lobby'.rows[v].labels = lobby.rows[v].labels
    PROVE  /\ RowTells(v) => RowTells(v)'
           /\ \A l \in Closures : loads'[l] = loads[l] /\ ItemTells(l, v) => ItemTells(l, v)'
  <1>1. v \in Listed' <=> v \in Listed
    BY DEF Listed
  <1> QED
    BY <1>1 DEF RowTells, ItemTells

(* Nothing is told on another page. *)
LEMMA NothingTold ==
    ASSUME PageOK', lobby'.page # "lobby"
    PROVE  TellOK' /\ \A l \in Closures : loads'[l].stage = "none"
  BY DEF TellOK, PageOK, Loading

(* A step that is about a vault being made. *)
LEMMA TellWhileMaking ==
    ASSUME LobbyInv, TellOK, NEW c \in calls, Making(c), OnlyAt(c.vault),
           UNCHANGED <<loads, lobby>>, NEW d, GoesOn(c, d)
    PROVE  TellOK'
  <1>1. Made' = Made /\ c.vault \in Made /\ Loading' = Loading
    BY MadeFacts DEF Loading
  <1>2. \A v \in Vaults \ Made :
          /\ RowTells(v) => RowTells(v)'
          /\ \A l \in Closures : ItemTells(l, v) => ItemTells(l, v)'
    BY <1>1, TellsElsewhere DEF OnlyAt
  <1> QED
    BY <1>1, <1>2 DEF TellOK

(* After a rename or a save the row shows what the server was given: the   *)
(* values written over what the call had read, which nobody changed since. *)
LEMMA TellAfterWrite ==
    ASSUME LobbyInv, PatientOK, TellOK, NEW c \in calls, WriteMeta(c),
           lobby.page = "lobby", lobby' = Answered(c)
    PROVE  TellOK'
  <1>1. /\ c.stage = "write" /\ c.kind \in {"rename", "save"} /\ Written(c)
        /\ OnlyAt(c.vault) /\ Ends(c) /\ UNCHANGED loads
    BY WriteMetaFacts
  <1>2. /\ c.live /\ c.vault \in Listed /\ c.base = server[c.vault]
        /\ ~Making(c) /\ Loading = {} /\ c.vault \notin Made
        /\ c.vault \in Vaults /\ lobby.keys
    BY <1>1, CallIs, CallsNeedKeys DEF PatientOK, Making, Made
  <1>3. RowTells(c.vault) /\ c.vault \in DOMAIN lobby.rows
    BY <1>2 DEF TellOK, RowTells
  <1>4. /\ DOMAIN lobby'.rows = DOMAIN lobby.rows
        /\ lobby'.page = lobby.page /\ lobby'.keys = lobby.keys
        /\ \A v \in DOMAIN lobby.rows :
             v # c.vault => lobby'.rows[v] = lobby.rows[v]
        /\ LET r == lobby.rows[c.vault]
               s == lobby'.rows[c.vault]
           IN  IF c.kind = "rename"
               THEN s.name = c.patch.name /\ s.note = r.note /\ s.labels = r.labels
               ELSE /\ s.name = r.name /\ s.note = c.patch.note
                    /\ s.labels = c.patch.labels
    BY <1>1, <1>2, <1>3, AnsweredTypes
  <1>5. /\ server'[c.vault].kind = server[c.vault].kind
        /\ LET s == server'[c.vault]
           IN  /\ s.name = IF c.kind = "rename" THEN c.patch.name ELSE c.base.name
               /\ s.note = IF c.kind = "save" THEN c.patch.note ELSE c.base.note
               /\ s.labels = IF c.kind = "rename" THEN c.base.labels
                             ELSE IF c.kind = "board" THEN {Board}
                             ELSE c.patch.labels
    BY <1>1, <1>2, WrittenFacts
  <1>6. RowTells(c.vault)'
    <2>1. c.vault \in Listed'
      BY <1>2, <1>5 DEF Listed
    <2> QED
      BY <1>1, <1>2, <1>3, <1>4, <1>5, <2>1 DEF RowTells
  <1>7. \A v \in Vaults \ {c.vault} : RowTells(v) => RowTells(v)'
    BY <1>1, <1>4, TellsElsewhere DEF OnlyAt
  <1>8. Made' = Made /\ Loading' = {}
    BY <1>1, <1>2, MadeFacts DEF Loading
  <1> QED
    BY <1>2, <1>4, <1>6, <1>7, <1>8 DEF TellOK, Loading

(* After a deletion neither the lobby nor the server has the vault. *)
LEMMA TellAfterDelete ==
    ASSUME LobbyInv, PatientOK, TellOK, NEW c \in calls, DeleteVault(c),
           lobby.page = "lobby", ~lobby'.told
    PROVE  TellOK'
  <1>1. /\ c.kind = "delete" /\ OnlyAt(c.vault) /\ Ends(c) /\ UNCHANGED loads
        /\ c.vault \in Vaults
    BY DeleteVaultFacts, CallIs
  <1>2. c.live /\ ~Making(c) /\ Loading = {} /\ lobby.keys
    BY <1>1, CallsNeedKeys DEF PatientOK, Making
  <1>3. ~(lobby' = Told(c))
    BY <1>2, ToldTypes
  <1>4. /\ c.vault \in Listed /\ server'[c.vault].kind = "gone"
        /\ DOMAIN lobby'.rows = DOMAIN lobby.rows \ {c.vault}
        /\ \A v \in DOMAIN lobby'.rows : lobby'.rows[v] = lobby.rows[v]
    BY <1>3, DeleteVaultFacts
  <1>5. RowTells(c.vault)'
    BY <1>4 DEF RowTells, Listed
  <1>6. \A v \in Vaults \ {c.vault} : RowTells(v) => RowTells(v)'
    BY <1>1, <1>4, TellsElsewhere DEF OnlyAt
  <1>7. Made' = Made /\ Loading' = {}
    BY <1>1, <1>2, MadeFacts DEF Loading
  <1> QED
    BY <1>2, <1>5, <1>6, <1>7 DEF TellOK, Loading

(* The answers of loads in the order they were asked: the keyed one, which *)
(* has the names and the notes, comes last.                                *)
LEMMA TellAfterLoad ==
    ASSUME LobbyInv, InOrderOK, scenario.inOrder, NEW l \in Closures,
           ListVaults(l) \/ Loaded(l) \/ LoadFails(l)
    PROVE  InOrderOK'
  <1>0. /\ loads \in [Closures -> Load] /\ lobby \in Lobbies /\ server \in [Vaults -> Stores]
        /\ loads[l].stage # "none"
        /\ "keyed" \in Closures /\ "keyless" \in Closures
        /\ \A k \in Closures : k \in {"keyed", "keyless"}
    BY NoLoads DEF LobbyInv, TypesOK, ListVaults, Loaded, LoadFails, Closures
  <1>1. CASE ListVaults(l)
    <2> DEFINE x == [stage |-> "answered", items |-> [v \in Listed |-> server[v]]]
    <2>1. /\ UNCHANGED <<server, lobby, calls>> /\ loads' = [loads EXCEPT ![l] = x]
      BY <1>1 DEF ListVaults
    <2>2. /\ x \in Load /\ DOMAIN x.items = Listed /\ x.stage = "answered"
          /\ \A v \in Listed : x.items[v] = server[v]
      BY <1>0, Snapshot
    <2> HIDE DEF x
    <2>3. /\ loads'[l] = x
          /\ \A k \in Closures : k # l => loads'[k] = loads[k]
      BY <1>0, <2>1, <2>2, LoadSet
    <2>4. Loading' # {} /\ Listed' = Listed /\ Made' = Made
      BY <2>1, <2>2, <2>3 DEF Loading, Listed, Made
    <2>5. loads'["keyless"].stage # "none" => loads'["keyed"].stage # "none"
      BY <1>0, <2>2, <2>3 DEF InOrderOK
    <2>6. \A v \in Vaults : ItemTells(l, v)'
      BY <2>1, <2>2, <2>3, <2>4 DEF ItemTells
    <2>7. \A k \in Closures \ {l} : \A v \in Vaults : ItemTells(k, v) => ItemTells(k, v)'
      BY <2>1, <2>3, <2>4 DEF ItemTells
    <2>8. ~lobby.told => TellOK'
      BY <2>3, <2>4, <2>6, <2>7 DEF InOrderOK, TellOK
    <2> QED
      BY <2>1, <2>5, <2>8 DEF InOrderOK
  <1>2. CASE Loaded(l)
    <2> DEFINE rs == Rows(loads[l].items, l = "keyed")
    <2>1. /\ UNCHANGED <<server, calls>> /\ loads' = [loads EXCEPT ![l] = NotAsked]
          /\ loads[l].stage = "answered" /\ InTurn(l) /\ ShowRows(rs, {}, FALSE)
      BY <1>2 DEF Loaded
    <2>2. loads[l].items \in Lists(Stores)
      BY <1>0, <2>1, NoLoads DEF Load
    <2>3. /\ rs \in Lists(VaultRow) /\ DOMAIN rs = DOMAIN loads[l].items
          /\ \A v \in DOMAIN rs :
               /\ rs[v].labels = loads[l].items[v].labels
               /\ l = "keyed" => /\ rs[v].name = loads[l].items[v].name
                                 /\ rs[v].note = loads[l].items[v].note
      BY <2>2, RowsFacts
    <2> HIDE DEF rs
    <2>4. lobby'.rows = rs /\ lobby'.told = lobby.told
      BY <2>1, <2>3, ShowTypes
    <2>5. NotAsked \in Load /\ NotAsked.stage = "none"
      BY NoLoads DEF Load
    <2>6. /\ loads'[l].stage = "none"
          /\ \A k \in Closures : k # l => loads'[k] = loads[k]
      BY <1>0, <2>1, <2>5, LoadSet
    <2>7. l = "keyed" => loads["keyless"].stage = "none"
      BY <2>1 DEF InTurn
    <2>8. loads'["keyless"].stage # "none" => loads'["keyed"].stage # "none"
      BY <1>0, <2>6, <2>7 DEF InOrderOK
    <2>9. l = "keyless" => Loading' # {}
      BY <1>0, <2>6 DEF InOrderOK, Loading
    <2>10. Listed' = Listed /\ Made' = Made
      BY <2>1 DEF Listed, Made
    <2>11. \A k \in Closures \ {l} : \A v \in Vaults : ItemTells(k, v) => ItemTells(k, v)'
      BY <2>1, <2>6, <2>10 DEF ItemTells
    <2>12. l = "keyed" => \A v \in Vaults : ItemTells(l, v) => RowTells(v)'
      BY <2>1, <2>3, <2>4, <2>10 DEF ItemTells, RowTells
    <2>13. ~lobby.told => TellOK'
      BY <1>0, <2>1, <2>6, <2>9, <2>10, <2>11, <2>12 DEF InOrderOK, TellOK
    <2> QED
      BY <2>4, <2>8, <2>13 DEF InOrderOK
  <1>3. CASE LoadFails(l)
    <2>1. /\ loads' = [loads EXCEPT ![l] = NotAsked] /\ InTurn(l)
          /\ lobby' = [lobby EXCEPT !.loading = FALSE, !.told = TRUE]
      BY <1>3 DEF LoadFails
    <2>2. NotAsked \in Load /\ NotAsked.stage = "none" /\ lobby'.told
      BY <1>0, <2>1, NoLoads DEF Load, Lobbies
    <2>3. /\ loads'[l].stage = "none"
          /\ \A k \in Closures : k # l => loads'[k] = loads[k]
      BY <1>0, <2>1, <2>2, LoadSet
    <2>4. l = "keyed" => loads["keyless"].stage = "none"
      BY <2>1 DEF InTurn
    <2>5. loads'["keyless"].stage # "none" => loads'["keyed"].stage # "none"
      BY <1>0, <2>3, <2>4 DEF InOrderOK
    <2> QED
      BY <2>2, <2>5 DEF InOrderOK
  <1> QED
    BY <1>1, <1>2, <1>3

(* With answers in order, every step keeps InOrderOK. *)
LEMMA TellStays ==
    ASSUME LobbyInv, LobbyInv', PatientOK, InOrderOK, scenario.patient,
           scenario.inOrder, [Next]_vars
    PROVE  InOrderOK'
  <1>0. /\ lobby \in Lobbies /\ PageOK' /\ "keyed" \in Closures /\ "keyless" \in Closures
    BY DEF LobbyInv, TypesOK, Closures
  <1>a. ASSUME lobby'.page # "lobby" PROVE InOrderOK'
    BY <1>0, <1>a, NothingTold DEF InOrderOK
  <1>b. ASSUME loads' = loads, lobby'.told = lobby.told, TellOK => TellOK'
        PROVE InOrderOK'
    BY <1>b DEF InOrderOK
  <1>c. ASSUME loads' = loads, lobby'.told PROVE InOrderOK'
    BY <1>c DEF InOrderOK
  <1>1. CASE UNCHANGED vars
    BY <1>1 DEF vars, InOrderOK, TellOK, ItemTells, RowTells, Listed, Loading,
                Made, Making
  <1>2. CASE Unlock
    <2>1. \A l \in Closures : loads'[l].stage = "asked"
      BY <1>2, NoLoads DEF Unlock
    <2> QED
      BY <1>0, <2>1 DEF InOrderOK, TellOK, Loading
  <1>3. CASE Back
    <2>1. loads' = [loads EXCEPT !["keyed"] = Asked] /\ lobby.page # "lobby"
      BY <1>3 DEF Back
    <2>2. \A l \in Closures : loads[l].stage = "none"
      BY <2>1 DEF LobbyInv, PageOK, Loading
    <2>3. loads \in [Closures -> Load] /\ Asked \in Load /\ Asked.stage = "asked"
      BY NoLoads DEF Load, LobbyInv, TypesOK
    <2>4. /\ loads'["keyed"].stage = "asked"
          /\ \A l \in Closures : l # "keyed" => loads'[l].stage = "none"
      BY <1>0, <2>1, <2>2, <2>3, LoadSet
    <2> QED
      BY <1>0, <2>4 DEF InOrderOK, TellOK, Loading
  <1>4. CASE ListShares \/ SharesListed
    <2>1. /\ UNCHANGED <<server, calls, loads>> /\ lobby'.page = lobby.page
          /\ lobby'.keys = lobby.keys /\ lobby'.rows = lobby.rows
          /\ lobby'.told = lobby.told
      BY <1>0, <1>4 DEF ListShares, SharesListed, Lobbies
    <2>2. TellOK => TellOK'
      BY <2>1 DEF TellOK, ItemTells, RowTells, Listed, Loading, Made, Making
    <2> QED
      BY <1>b, <2>1, <2>2
  <1>5. CASE \E l \in Closures : ListVaults(l) \/ Loaded(l) \/ LoadFails(l)
    BY <1>5, TellAfterLoad
  <1>6. CASE \E v \in Vaults : SetDraftNote(v) \/ SetDraftLabels(v)
    <2>1. /\ UNCHANGED <<scenario, server, calls, loads, asking>>
          /\ SameRows /\ SamePage /\ lobby'.told = lobby.told
      BY <1>6, DraftFacts
    <2>2. Made' = Made
      BY <2>1 DEF Made
    <2> QED
      BY <1>b, <2>1, <2>2, TellKept
  <1>7. CASE \E v \in Vaults :
                HandleRenameConfirm(v) \/ HandleSaveMeta(v) \/ HandleDelete(v)
    <2>1. PICK v \in Vaults :
                HandleRenameConfirm(v) \/ HandleSaveMeta(v) \/ HandleDelete(v)
      BY <1>7
    <2>2. UNCHANGED <<server, loads>> /\ OnRow(v)
      BY <2>1, AskedFacts
    <2>3. PICK c \in Calls :
             /\ calls' = calls \cup {c}
             /\ \/ lobby' = [lobby EXCEPT !.rows[v].saving = TRUE]
                \/ lobby' = lobby
      BY <2>1, AskedFacts
    <2>4. SameRows /\ SamePage /\ lobby'.told = lobby.told
      BY <2>2, <2>3, SavingFacts DEF OnRow, SameRows, SamePage
    <2>5. Made \subseteq Made'
      BY <2>3 DEF Made
    <2> QED
      BY <1>b, <2>2, <2>4, <2>5, TellKept
  <1>8. CASE \E v \in Vaults : Open(v)
    <2>1. lobby'.page # "lobby"
      BY <1>8, OpenFacts DEF Left, PathOf
    <2> QED
      BY <1>a, <2>1
  <1>9. CASE \E kind \in {"create", "board"} : HandleCreate(kind)
    <2>1. UNCHANGED <<server, lobby, loads>> /\ \E c \in Calls : calls' = calls \cup {c}
      BY <1>9, NewVaultFacts
    <2>2. Made \subseteq Made' /\ SameRows /\ SamePage
      BY <2>1 DEF Made, SameRows, SamePage
    <2> QED
      BY <1>b, <2>1, <2>2, TellKept
  <1>10. ASSUME NEW c \in calls,
          \/ ReadMeta(c) \/ WriteMeta(c) \/ DeleteVault(c) \/ CallFails(c)
          \/ CreateVault(c) \/ UploadBlob(c) \/ MapCreated(c) \/ BoardCreated(c)
         PROVE InOrderOK'
    <2>0. /\ c.live <=> lobby.page = "lobby"
          /\ c.live => Told(c).told
          /\ Told(c).page = lobby.page
      BY ToldTypes DEF PatientOK
    <2>a. ASSUME loads' = loads, lobby' = Told(c) PROVE InOrderOK'
      <3>1. CASE lobby.page = "lobby"
        BY <1>c, <2>0, <2>a, <3>1
      <3>2. CASE lobby.page # "lobby"
        BY <1>a, <2>0, <2>a, <3>2
      <3> QED
        BY <3>1, <3>2
    <2>1. CASE ReadMeta(c)
      <3>1. UNCHANGED <<server, loads>>
        BY <2>1, ReadMetaFacts
      <3>2. CASE lobby' = lobby /\ \E d \in Calls : GoesOn(c, d)
        <4>1. Made' = Made /\ SameRows /\ SamePage
          BY <3>2, MadeFacts DEF SameRows, SamePage
        <4> QED
          BY <1>b, <3>1, <3>2, <4>1, TellKept
      <3> QED
        BY <2>1, <2>a, <3>1, <3>2, ReadMetaFacts
    <2>2. CASE WriteMeta(c)
      <3>1. loads' = loads /\ lobby' \in {Answered(c), Told(c)}
            /\ c.stage = "write" /\ c.kind # "board"
        BY <2>2, WriteMetaFacts
      <3>2. CASE lobby' = Answered(c)
        <4>1. lobby'.told = lobby.told /\ lobby'.page = lobby.page
          BY <3>1, <3>2, AnsweredTypes
        <4>2. CASE lobby.page = "lobby"
          BY <1>b, <2>2, <3>1, <3>2, <4>1, <4>2, TellAfterWrite
        <4>3. CASE lobby.page # "lobby"
          BY <1>a, <4>1, <4>3
        <4> QED
          BY <4>2, <4>3
      <3> QED
        BY <2>a, <3>1, <3>2
    <2>3. CASE DeleteVault(c)
      <3>1. loads' = loads /\ lobby'.page = lobby.page
        BY <2>0, <2>3, DeleteVaultFacts
      <3>2. CASE lobby' = Told(c)
        BY <2>a, <3>1, <3>2
      <3>3. CASE lobby' # Told(c)
        <4>1. lobby'.told = lobby.told
          BY <2>3, <3>3, DeleteVaultFacts
        <4>2. CASE lobby.page = "lobby" /\ ~lobby.told
          BY <1>b, <2>3, <3>1, <4>1, <4>2, TellAfterDelete
        <4>3. CASE lobby.page # "lobby"
          BY <1>a, <3>1, <4>3
        <4>4. CASE lobby.told
          BY <1>c, <3>1, <4>1, <4>4
        <4> QED
          BY <4>2, <4>3, <4>4
      <3> QED
        BY <3>2, <3>3
    <2>4. CASE CallFails(c)
      BY <2>a, <2>4 DEF CallFails
    <2>5. CASE CreateVault(c)
      <3>1. loads' = loads /\ Making(c) /\ OnlyAt(c.vault)
        BY <2>5, CreateVaultFacts
      <3>2. CASE lobby' = lobby /\ \E d : GoesOn(c, d)
        BY <1>b, <3>1, <3>2, TellWhileMaking
      <3> QED
        BY <2>5, <2>a, <3>1, <3>2, CreateVaultFacts
    <2>6. CASE UploadBlob(c)
      <3>1. loads' = loads /\ Making(c) /\ OnlyAt(c.vault)
        BY <2>6, UploadBlobFacts
      <3>2. CASE lobby' = lobby /\ \E d : GoesOn(c, d)
        BY <1>b, <3>1, <3>2, TellWhileMaking
      <3> QED
        BY <2>6, <2>a, <3>1, <3>2, UploadBlobFacts
    <2>7. CASE MapCreated(c)
      <3>1. lobby'.page # "lobby" \/ (loads' = loads /\ lobby' = Told(c))
        BY <2>7, MapCreatedFacts DEF Left
      <3> QED
        BY <1>a, <2>a, <3>1
    <2>8. CASE BoardCreated(c)
      <3>1. lobby'.page # "lobby" \/ (loads' = loads /\ lobby' = Told(c))
        BY <2>8, BoardCreatedFacts DEF Left
      <3> QED
        BY <1>a, <2>a, <3>1
    <2> QED
      BY <1>10, <2>1, <2>2, <2>3, <2>4, <2>5, <2>6, <2>7, <2>8
  <1> QED
    BY <1>1, <1>2, <1>3, <1>4, <1>5, <1>6, <1>7, <1>8, <1>9, <1>10 DEF Next

-----------------------------------------------------------------------------
(* Labels and kinds. *)
CallKindOK(c) ==
    /\ c.kind = "save" => Labelled(c.patch.labels, c.vault)
    /\ c.kind = "create" /\ c.stage # "create" =>
          /\ server[c.vault].kind # "board"
          /\ Board \notin server[c.vault].labels
    /\ c.kind = "board" /\ c.stage \in {"read", "write"} =>
          server[c.vault].kind = "board"

OpenedOK ==
    lobby.page # "lobby" =>
       /\ lobby.opened \notin Made /\ server[lobby.opened].kind # "absent"
       /\ lobby.page = "map" => server[lobby.opened].kind # "board"
       /\ lobby.page = "board" => server[lobby.opened].kind # "map"

StoredOK ==
    \A v \in Vaults \ Made :
       /\ server[v].kind = "board" => Board \in server[v].labels
       /\ server[v].kind = "map" => Board \notin server[v].labels

RowsOK ==
    \A v \in DOMAIN lobby.rows \ Made :
       /\ Labelled(lobby.rows[v].labels, v)
       /\ Labelled(lobby.rows[v].draftLabels, v)

LoadsOK ==
    \A l \in Closures : loads[l].stage = "answered" =>
       \A v \in DOMAIN loads[l].items \ Made :
          Labelled(loads[l].items[v].labels, v)

(* KindOK by its parts. *)
LEMMA KindParts ==
    /\ KindOK <=> /\ StoredOK /\ RowsOK /\ LoadsOK /\ OpenedOK
                  /\ \A c \in calls : CallKindOK(c)
    /\ KindOK' <=> /\ StoredOK' /\ RowsOK' /\ LoadsOK' /\ OpenedOK'
                   /\ \A c \in calls' : CallKindOK(c)'
  BY DEF KindOK, StoredOK, RowsOK, LoadsOK, OpenedOK, CallKindOK

(* The vaults whose kind and whose label a step leaves. *)
SameKind(v) ==
    /\ server'[v].kind = server[v].kind
    /\ Board \in server'[v].labels <=> Board \in server[v].labels

(* A step that changes kinds and labels of vaults being made only. *)
LEMMA KindKept ==
    ASSUME LobbyInv, KindOK, SameRows, SamePage,
           \A v \in Vaults : v \in Made' \/ SameKind(v),
           Made \subseteq Made', lobby.page = "lobby" \/ Made' = Made,
           \A l \in Closures : loads'[l] = loads[l] \/ loads'[l].stage # "answered",
           \A c \in calls' : CallKindOK(c)'
    PROVE  KindOK'
  <1>1. StoredOK /\ RowsOK /\ LoadsOK /\ OpenedOK
    BY KindParts
  <1>2. /\ DOMAIN lobby.rows \subseteq Vaults
        /\ \A l \in Closures : loads[l].stage = "answered" =>
             DOMAIN loads[l].items \subseteq Vaults
        /\ lobby.page # "lobby" => lobby.opened \in Vaults
    <2>1. lobby.rows \in Lists(VaultRow) /\ \A l \in Closures : loads[l] \in Load
      BY DEF LobbyInv, TypesOK, Lobbies
    <2> QED
      BY <2>1, ListFacts, NoLoads DEF Load, LobbyInv, PageOK
  <1>3. StoredOK'
    BY <1>1 DEF StoredOK, SameKind
  <1>4. RowsOK'
    BY <1>1, <1>2 DEF RowsOK, Labelled, SameKind, SameRows
  <1>5. LoadsOK'
    BY <1>1, <1>2 DEF LoadsOK, Labelled, SameKind
  <1>6. OpenedOK'
    BY <1>1, <1>2 DEF OpenedOK, SameKind, SamePage
  <1> QED
    BY <1>3, <1>4, <1>5, <1>6, KindParts

(* A step of a call, for the calls of other vaults. *)
LEMMA OthersKeepKind ==
    ASSUME LobbyInv, PatientOK, KindOK, NEW c \in calls, OnlyAt(c.vault)
    PROVE  /\ \A d \in calls \ {c} : d.vault # c.vault /\ CallKindOK(d)'
           /\ \A v \in Vaults \ {c.vault} : SameKind(v)
           /\ CallKindOK(c)
  <1>1. \A d \in calls \ {c} : d.vault # c.vault /\ server'[d.vault] = server[d.vault]
    BY CallIs DEF PatientOK, OnlyAt
  <1>2. \A d \in calls \ {c} : CallKindOK(d)'
    BY <1>1, KindParts DEF CallKindOK, Labelled
  <1>3. \A v \in Vaults \ {c.vault} : SameKind(v)
    BY DEF OnlyAt, SameKind
  <1> QED
    BY <1>1, <1>2, <1>3, KindParts

(* Another page opens in the editor its vault is for. *)
LEMMA KindLeft ==
    ASSUME LobbyInv, KindOK, NEW path \in {"map", "board"}, NEW v \in Vaults,
           NEW cs \in SUBSET calls, Left(path, v, cs),
           \A c \in cs : c.vault # v /\ CallKindOK(c)',
           \A u \in Vaults : u = v \/ SameKind(u),
           \A c \in calls \ cs : c.vault = v,
           server'[v].kind # "absent",
           server'[v].kind = "board" => path = "board" /\ Board \in server'[v].labels,
           server'[v].kind = "map" => path = "map" /\ Board \notin server'[v].labels
    PROVE  KindOK'
  <1>1. /\ lobby'.page = path /\ lobby'.opened = v /\ DOMAIN lobby'.rows = {}
        /\ \A l \in Closures : loads'[l].stage = "none"
        /\ \A d \in calls' : \E c \in cs :
             /\ d.kind = c.kind /\ d.vault = c.vault /\ d.stage = c.stage
             /\ d.patch = c.patch
        /\ \A c \in cs : \E d \in calls' : d.kind = c.kind /\ d.vault = c.vault
    BY DEF Left
  <1>2. \A d \in calls' : CallKindOK(d)'
    BY <1>1 DEF CallKindOK, Labelled
  <1>3. v \notin Made'
    BY <1>1 DEF Made, Making
  <1>4. \A u \in Made : u = v \/ u \in Made'
    BY <1>1 DEF Made, Making
  <1>5. StoredOK'
    BY <1>4, KindParts DEF StoredOK, SameKind
  <1>6. RowsOK' /\ LoadsOK'
    BY <1>1 DEF RowsOK, LoadsOK
  <1>7. OpenedOK'
    BY <1>1, <1>3 DEF OpenedOK
  <1> QED
    BY <1>2, <1>5, <1>6, <1>7, KindParts

(* A load brings the labels the server has. *)
LEMMA KindAfterLoad ==
    ASSUME LobbyInv, KindOK, ~scenario.fails, NEW l \in Closures,
           ListVaults(l) \/ Loaded(l) \/ LoadFails(l)
    PROVE  KindOK'
  <1>0. /\ loads \in [Closures -> Load] /\ server \in [Vaults -> Stores]
        /\ lobby.page = "lobby"
    BY LoadsNeedKeys, NoLoads DEF LobbyInv, TypesOK, ListVaults, Loaded, LoadFails
  <1>1. CASE ListVaults(l)
    <2> DEFINE x == [stage |-> "answered", items |-> [v \in Listed |-> server[v]]]
    <2>1. /\ UNCHANGED <<server, lobby, calls>> /\ loads' = [loads EXCEPT ![l] = x]
      BY <1>1 DEF ListVaults
    <2>2. /\ x \in Load /\ DOMAIN x.items = Listed
          /\ \A v \in Listed : x.items[v] = server[v]
      BY <1>0, Snapshot
    <2> HIDE DEF x
    <2>3. /\ loads'[l] = x
          /\ \A k \in Closures : k # l => loads'[k] = loads[k]
      BY <1>0, <2>1, <2>2, LoadSet
    <2>4. Made' = Made
      BY <2>1 DEF Made
    <2>5. LoadsOK'
      BY <2>1, <2>2, <2>3, <2>4, KindParts DEF LoadsOK, Labelled
    <2>6. StoredOK' /\ RowsOK' /\ OpenedOK'
      BY <2>1, <2>4, KindParts DEF StoredOK, RowsOK, OpenedOK, Labelled
    <2>7. \A c \in calls' : CallKindOK(c)'
      BY <2>1, KindParts DEF CallKindOK, Labelled
    <2> QED
      BY <2>5, <2>6, <2>7, KindParts
  <1>2. CASE Loaded(l)
    <2> DEFINE rs == Rows(loads[l].items, l = "keyed")
    <2>1. /\ UNCHANGED <<server, calls>> /\ loads' = [loads EXCEPT ![l] = NotAsked]
          /\ loads[l].stage = "answered" /\ ShowRows(rs, {}, FALSE)
      BY <1>2 DEF Loaded
    <2>2. loads[l].items \in Lists(Stores)
      BY <1>0, <2>1, NoLoads DEF Load
    <2>3. /\ rs \in Lists(VaultRow) /\ DOMAIN rs = DOMAIN loads[l].items
          /\ \A v \in DOMAIN rs :
               /\ rs[v].labels = loads[l].items[v].labels
               /\ rs[v].draftLabels = loads[l].items[v].labels
      BY <2>2, RowsFacts
    <2> HIDE DEF rs
    <2>4. lobby'.rows = rs /\ lobby'.page = lobby.page
      BY <2>1, <2>3, ShowTypes
    <2>5. NotAsked \in Load /\ NotAsked.stage = "none"
      BY NoLoads DEF Load
    <2>6. /\ loads'[l].stage = "none"
          /\ \A k \in Closures : k # l => loads'[k] = loads[k]
      BY <1>0, <2>1, <2>5, LoadSet
    <2>7. Made' = Made
      BY <2>1 DEF Made
    <2>8. RowsOK'
      BY <2>1, <2>3, <2>4, <2>7, KindParts DEF RowsOK, LoadsOK, Labelled
    <2>9. LoadsOK'
      BY <2>1, <2>6, <2>7, KindParts DEF LoadsOK, Labelled
    <2>10. StoredOK' /\ OpenedOK'
      BY <1>0, <2>1, <2>4, <2>7, KindParts DEF StoredOK, OpenedOK
    <2>11. \A c \in calls' : CallKindOK(c)'
      BY <2>1, KindParts DEF CallKindOK, Labelled
    <2> QED
      BY <2>8, <2>9, <2>10, <2>11, KindParts
  <1>3. CASE LoadFails(l)
    BY <1>3 DEF LoadFails
  <1> QED
    BY <1>1, <1>2, <1>3

(* A write never gives or takes the board label, except at the end of      *)
(* creating a board.                                                       *)
LEMMA KindAfterWrite ==
    ASSUME LobbyInv, PatientOK, KindOK, ~scenario.fails, NEW c \in calls, WriteMeta(c)
    PROVE  KindOK'
  <1>1. /\ c.stage = "write" /\ c.kind \in {"rename", "save"} /\ Written(c)
        /\ OnlyAt(c.vault) /\ Ends(c) /\ UNCHANGED loads /\ lobby' = Answered(c)
    BY WriteMetaFacts
  <1>2. /\ c.vault \in Listed /\ c.base = server[c.vault] /\ ~Making(c)
        /\ c.vault \in Vaults
    BY <1>1, CallIs DEF PatientOK, Making
  <1>3. /\ server'[c.vault].kind = server[c.vault].kind
        /\ server'[c.vault].labels = IF c.kind = "rename" THEN c.base.labels
                                     ELSE c.patch.labels
    BY <1>1, <1>2, WrittenFacts
  <1>4. /\ \A d \in calls \ {c} : CallKindOK(d)'
        /\ \A v \in Vaults \ {c.vault} : SameKind(v)
        /\ CallKindOK(c)
    BY <1>1, OthersKeepKind
  <1>5. \A v \in Vaults : SameKind(v)
    BY <1>1, <1>2, <1>3, <1>4 DEF SameKind, CallKindOK, Labelled
  <1>6. /\ DOMAIN lobby'.rows = DOMAIN lobby.rows
        /\ lobby'.page = lobby.page /\ lobby'.opened = lobby.opened
        /\ \A v \in DOMAIN lobby.rows :
             v # c.vault => lobby'.rows[v] = lobby.rows[v]
        /\ lobby' # lobby /\ c.vault \in DOMAIN lobby.rows =>
             LET r == lobby.rows[c.vault]
                 s == lobby'.rows[c.vault]
             IN  IF c.kind = "rename"
                 THEN s.labels = r.labels /\ s.draftLabels = r.draftLabels
                 ELSE s.labels = c.patch.labels /\ s.draftLabels = c.patch.labels
    BY <1>1, <1>2, AnsweredTypes
  <1>7. /\ Made' = Made /\ c.vault \notin Made
        /\ DOMAIN lobby.rows \subseteq Vaults
        /\ \A l \in Closures : loads[l].stage = "answered" =>
             DOMAIN loads[l].items \subseteq Vaults
        /\ lobby.page # "lobby" => lobby.opened \in Vaults
    <2>1. lobby.rows \in Lists(VaultRow) /\ \A l \in Closures : loads[l] \in Load
      BY DEF LobbyInv, TypesOK, Lobbies
    <2>2. c.vault \notin Made
      BY <1>2 DEF Made, PatientOK
    <2> QED
      BY <1>1, <1>2, <2>1, <2>2, MadeFacts, ListFacts, NoLoads
      DEF Load, LobbyInv, PageOK
  <1>8. StoredOK'
    BY <1>5, <1>7, KindParts DEF StoredOK, SameKind
  <1>9. RowsOK'
    <2>1. \A v \in DOMAIN lobby.rows \ Made :
             v # c.vault => /\ Labelled(lobby.rows[v].labels, v)'
                            /\ Labelled(lobby.rows[v].draftLabels, v)'
      BY <1>5, <1>6, <1>7, KindParts DEF RowsOK, Labelled, SameKind
    <2>2. c.vault \in DOMAIN lobby.rows => /\ Labelled(lobby.rows[c.vault].labels, c.vault)'
                                           /\ Labelled(lobby.rows[c.vault].draftLabels, c.vault)'
      <3>1. c.vault \in DOMAIN lobby.rows =>
               /\ Labelled(lobby.rows[c.vault].labels, c.vault)
               /\ Labelled(lobby.rows[c.vault].draftLabels, c.vault)
        BY <1>7, KindParts DEF RowsOK
      <3>2. c.kind = "save" => Labelled(c.patch.labels, c.vault)
        BY <1>4 DEF CallKindOK
      <3>3. SameKind(c.vault)
        BY <1>2, <1>5
      <3>4. CASE lobby' = lobby
        BY <3>1, <3>3, <3>4 DEF Labelled, SameKind
      <3>5. CASE lobby' # lobby
        BY <1>1, <1>6, <3>1, <3>2, <3>3, <3>5 DEF Labelled, SameKind
      <3> QED
        BY <3>4, <3>5
    <2> QED
      BY <1>6, <1>7, <2>1, <2>2 DEF RowsOK, Labelled
  <1>10. LoadsOK'
    BY <1>1, <1>5, <1>7, KindParts DEF LoadsOK, Labelled, SameKind
  <1>11. OpenedOK'
    BY <1>5, <1>6, <1>7, KindParts DEF OpenedOK, SameKind
  <1>12. \A d \in calls' : CallKindOK(d)'
    BY <1>1, <1>4 DEF Ends
  <1> QED
    BY <1>8, <1>9, <1>10, <1>11, <1>12, KindParts

(* A deletion leaves the kinds and labels of the other vaults. *)
LEMMA KindAfterDelete ==
    ASSUME LobbyInv, PatientOK, KindOK, NEW c \in calls, DeleteVault(c)
    PROVE  KindOK'
  <1>1. /\ c.kind = "delete" /\ OnlyAt(c.vault) /\ Ends(c) /\ UNCHANGED loads
        /\ c.vault \in Vaults /\ ~Making(c)
        /\ server'[c.vault].labels = server[c.vault].labels
        /\ server' = server \/ server'[c.vault].kind = "gone"
    BY DeleteVaultFacts, CallIs DEF Making
  <1>2. /\ \A d \in calls \ {c} : CallKindOK(d)'
        /\ \A v \in Vaults \ {c.vault} : SameKind(v)
    BY <1>1, OthersKeepKind
  <1>3. \A v \in Vaults : \/ SameKind(v)
                          \/ /\ server'[v].kind = "gone"
                             /\ server'[v].labels = server[v].labels
    BY <1>1, <1>2 DEF SameKind
  <1>4. /\ Made' = Made
        /\ DOMAIN lobby.rows \subseteq Vaults
        /\ \A l \in Closures : loads[l].stage = "answered" =>
             DOMAIN loads[l].items \subseteq Vaults
        /\ lobby.page # "lobby" => lobby.opened \in Vaults
    <2>1. lobby.rows \in Lists(VaultRow) /\ \A l \in Closures : loads[l] \in Load
      BY DEF LobbyInv, TypesOK, Lobbies
    <2> QED
      BY <1>1, <2>1, MadeFacts, ListFacts, NoLoads DEF Load, LobbyInv, PageOK
  <1>5. /\ lobby'.page = lobby.page /\ lobby'.opened = lobby.opened
        /\ DOMAIN lobby'.rows \subseteq DOMAIN lobby.rows
        /\ \A v \in DOMAIN lobby'.rows :
              /\ lobby'.rows[v].labels = lobby.rows[v].labels
              /\ Board \in lobby'.rows[v].draftLabels
                    <=> Board \in lobby.rows[v].draftLabels
    <2>1. CASE lobby' = Told(c)
      BY <2>1, ToldRows DEF SameRows, SamePage
    <2>2. CASE lobby' # Told(c)
      BY <2>2, DeleteVaultFacts
    <2> QED
      BY <2>1, <2>2
  <1>6. StoredOK'
    BY <1>3, <1>4, KindParts DEF StoredOK, SameKind
  <1>7. RowsOK'
    BY <1>3, <1>4, <1>5, KindParts DEF RowsOK, Labelled, SameKind
  <1>8. LoadsOK'
    BY <1>1, <1>3, <1>4, KindParts DEF LoadsOK, Labelled, SameKind
  <1>9. OpenedOK'
    BY <1>3, <1>4, <1>5, KindParts DEF OpenedOK, SameKind
  <1>10. \A d \in calls' : CallKindOK(d)'
    BY <1>1, <1>2 DEF Ends
  <1> QED
    BY <1>6, <1>7, <1>8, <1>9, <1>10, KindParts

(* While the user waits and nothing fails, every step keeps KindOK. *)
LEMMA KindStays ==
    ASSUME LobbyInv, PatientOK, KindOK, scenario.patient, ~scenario.fails,
           [Next]_vars
    PROVE  KindOK'
  <1>0. lobby \in Lobbies
    BY DEF LobbyInv, TypesOK
  <1>a. ASSUME UNCHANGED <<server, calls>>, SameRows, SamePage,
               \A l \in Closures : loads'[l] = loads[l] \/ loads'[l].stage # "answered"
        PROVE  KindOK'
    <2>1. /\ Made' = Made /\ \A v \in Vaults : SameKind(v)
          /\ \A c \in calls' : CallKindOK(c)'
      BY <1>a, KindParts DEF Made, SameKind, CallKindOK, Labelled
    <2> QED
      BY <1>a, <2>1, KindKept
  <1>1. CASE UNCHANGED vars
    <2>1. SameRows /\ SamePage /\ UNCHANGED <<server, calls, loads>>
      BY <1>1 DEF vars, SameRows, SamePage
    <2> QED
      BY <1>a, <2>1
  <1>2. CASE Unlock
    <2>1. SameRows /\ lobby'.page = "lobby" /\ lobby.page = "lobby"
      BY <1>0, <1>2 DEF Unlock, SameRows, Lobbies
    <2>2. UNCHANGED <<server, calls>> /\ \A l \in Closures : loads'[l].stage # "answered"
      BY <1>2, NoLoads DEF Unlock
    <2>3. Made' = Made
      BY <2>2 DEF Made
    <2>4. StoredOK' /\ RowsOK' /\ LoadsOK' /\ OpenedOK' /\ \A c \in calls' : CallKindOK(c)'
      BY <2>1, <2>2, <2>3, KindParts
      DEF StoredOK, RowsOK, LoadsOK, OpenedOK, SameRows, CallKindOK, Labelled
    <2> QED
      BY <2>4, KindParts
  <1>3. CASE Back
    <2>1. /\ UNCHANGED <<server, calls>> /\ lobby' = Mounted(TRUE)
          /\ loads' = [loads EXCEPT !["keyed"] = Asked] /\ lobby.page # "lobby"
      BY <1>3 DEF Back
    <2>2. DOMAIN lobby'.rows = {} /\ lobby'.page = "lobby"
      BY <2>1, MountedFacts
    <2>3. /\ loads \in [Closures -> Load] /\ Asked \in Load /\ Asked.stage = "asked"
          /\ "keyed" \in Closures /\ \A l \in Closures : loads[l].stage = "none"
      BY <2>1, NoLoads DEF Load, LobbyInv, TypesOK, Closures, PageOK, Loading
    <2>4. \A l \in Closures : loads'[l].stage # "answered"
      BY <2>1, <2>3, LoadSet
    <2>5. Made' = Made
      BY <2>1 DEF Made
    <2>6. StoredOK' /\ RowsOK' /\ LoadsOK' /\ OpenedOK' /\ \A c \in calls' : CallKindOK(c)'
      BY <2>1, <2>2, <2>4, <2>5, KindParts
      DEF StoredOK, RowsOK, LoadsOK, OpenedOK, CallKindOK, Labelled
    <2> QED
      BY <2>6, KindParts
  <1>4. CASE ListShares \/ SharesListed
    <2>1. /\ UNCHANGED <<server, calls, loads>> /\ lobby'.page = lobby.page
          /\ lobby'.opened = lobby.opened /\ lobby'.rows = lobby.rows
      BY <1>0, <1>4 DEF ListShares, SharesListed, Lobbies
    <2>2. Made' = Made
      BY <2>1 DEF Made
    <2>3. StoredOK' /\ RowsOK' /\ LoadsOK' /\ OpenedOK' /\ \A c \in calls' : CallKindOK(c)'
      BY <2>1, <2>2, KindParts
      DEF StoredOK, RowsOK, LoadsOK, OpenedOK, CallKindOK, Labelled
    <2> QED
      BY <2>3, KindParts
  <1>5. CASE \E l \in Closures : ListVaults(l) \/ Loaded(l) \/ LoadFails(l)
    BY <1>5, KindAfterLoad
  <1>6. CASE \E v \in Vaults : SetDraftNote(v) \/ SetDraftLabels(v)
    <2>1. /\ UNCHANGED <<scenario, server, calls, loads, asking>>
          /\ SameRows /\ SamePage
      BY <1>6, DraftFacts
    <2> QED
      BY <1>a, <2>1
  <1>7. CASE \E v \in Vaults :
                HandleRenameConfirm(v) \/ HandleSaveMeta(v) \/ HandleDelete(v)
    <2>1. PICK v \in Vaults :
                HandleRenameConfirm(v) \/ HandleSaveMeta(v) \/ HandleDelete(v)
      BY <1>7
    <2>2. UNCHANGED <<server, loads>> /\ OnRow(v) /\ Idle(v) /\ lobby.page = "lobby"
      BY <2>1, AskedFacts
    <2>3. PICK c \in Calls :
             /\ calls' = calls \cup {c} /\ c.vault = v
             /\ \/ /\ c.kind = "save" /\ c.patch.labels = lobby.rows[v].draftLabels
                   /\ lobby' = [lobby EXCEPT !.rows[v].saving = TRUE]
                \/ c.kind \in {"rename", "delete"} /\ lobby' = lobby
      BY <2>1, AskedFacts
    <2>4. SameRows /\ SamePage
      BY <2>2, <2>3, SavingFacts DEF OnRow, SameRows, SamePage
    <2>5. v \in DOMAIN lobby.rows /\ v \notin Made
      BY <2>2 DEF OnRow, Idle, Made
    <2>6. CallKindOK(c)'
      <3>1. Labelled(lobby.rows[v].draftLabels, v)
        BY <2>5, KindParts DEF RowsOK
      <3>2. server' = server
        BY <2>2
      <3> QED
        BY <2>3, <3>1, <3>2 DEF CallKindOK, Labelled
    <2>7. \A d \in calls : CallKindOK(d)'
      BY <2>2, KindParts DEF CallKindOK, Labelled
    <2>8. Made \subseteq Made' /\ \A u \in Vaults : SameKind(u)
      BY <2>2, <2>3 DEF Made, SameKind
    <2>9. \A d \in calls' : CallKindOK(d)'
      BY <2>3, <2>6, <2>7
    <2> QED
      BY <2>2, <2>4, <2>8, <2>9, KindKept
  <1>8. CASE \E v \in Vaults : Open(v)
    <2>1. PICK v \in Vaults : Open(v)
      BY <1>8
    <2> DEFINE path == PathOf(lobby.rows[v])
    <2>2. /\ Left(path, v, calls) /\ server' = server /\ OnRow(v) /\ Idle(v)
      BY <2>1, OpenFacts
    <2>3. /\ \A c \in calls : c.vault # v
          /\ v \in DOMAIN lobby.rows /\ v \notin Made
      BY <2>2 DEF OnRow, Idle, Made
    <2>4. Labelled(lobby.rows[v].labels, v) /\ server[v].kind # "absent"
      BY <2>3, KindParts DEF RowsOK, LobbyInv, BornOK
    <2>5. /\ path \in {"map", "board"}
          /\ path = "board" <=> Board \in server[v].labels
      BY <2>4 DEF PathOf, Labelled
    <2>6. /\ server[v].kind = "board" => Board \in server[v].labels
          /\ server[v].kind = "map" => Board \notin server[v].labels
      BY <2>3, KindParts DEF StoredOK
    <2> HIDE DEF path
    <2>7. \A c \in calls : CallKindOK(c)'
      BY <2>2, KindParts DEF CallKindOK, Labelled
    <2>8. (\A u \in Vaults : SameKind(u)) /\ calls \in SUBSET calls
      BY <2>2 DEF SameKind
    <2>9. /\ server'[v].kind # "absent"
          /\ server'[v].kind = "board" => path = "board" /\ Board \in server'[v].labels
          /\ server'[v].kind = "map" => path = "map" /\ Board \notin server'[v].labels
      BY <2>2, <2>4, <2>5, <2>6
    <2> QED
      BY <2>2, <2>3, <2>5, <2>7, <2>8, <2>9, KindLeft
  <1>9. CASE \E kind \in {"create", "board"} : HandleCreate(kind)
    <2>1. PICK kind \in {"create", "board"} : HandleCreate(kind)
      BY <1>9
    <2>2. UNCHANGED <<server, lobby, loads>> /\ lobby.page = "lobby"
      BY <2>1, NewVaultFacts
    <2>3. PICK c \in Calls :
             calls' = calls \cup {c} /\ c.kind = kind /\ c.stage = "create"
      BY <2>1, NewVaultFacts
    <2>4. /\ Made \subseteq Made' /\ SameRows /\ SamePage
          /\ \A v \in Vaults : SameKind(v)
      BY <2>2, <2>3 DEF Made, SameRows, SamePage, SameKind
    <2>5. CallKindOK(c)'
      BY <2>3 DEF CallKindOK
    <2>6. \A d \in calls : CallKindOK(d)'
      BY <2>2, KindParts DEF CallKindOK, Labelled
    <2>7. \A d \in calls' : CallKindOK(d)'
      BY <2>3, <2>5, <2>6
    <2> QED
      BY <2>2, <2>4, <2>7, KindKept
  <1>10. ASSUME NEW c \in calls,
          \/ ReadMeta(c) \/ WriteMeta(c) \/ DeleteVault(c) \/ CallFails(c)
          \/ CreateVault(c) \/ UploadBlob(c) \/ MapCreated(c) \/ BoardCreated(c)
         PROVE KindOK'
    <2>0. /\ c.vault \in Vaults /\ CallKindOK(c)
          /\ c.stage \in {"read", "write"} =>
               c.kind \in {"rename", "save", "board"}
          /\ Making(c) /\ c.stage # "create" => c.vault \in Listed
          /\ calls \ {c} \in SUBSET calls
          /\ \A d \in calls \ {c} : d.vault # c.vault
      BY CallIs, KindParts DEF PatientOK
    <2>1. CASE ReadMeta(c)
      <3>1. UNCHANGED <<server, loads>> /\ c.stage = "read"
        BY <2>1, ReadMetaFacts
      <3>2. OnlyAt(c.vault) /\ \A v \in Vaults : SameKind(v)
        BY <3>1 DEF OnlyAt, SameKind
      <3>3. \A d \in calls : CallKindOK(d)'
        BY <3>1, KindParts DEF CallKindOK, Labelled
      <3>4. CASE lobby' = lobby /\ \E d \in Calls : GoesOn(c, d)  /\ d.stage = "write"
        <4>1. PICK d \in Calls : GoesOn(c, d) /\ d.stage = "write"
          BY <3>4
        <4>2. /\ calls' = (calls \ {c}) \cup {d} /\ d.kind = c.kind
              /\ d.vault = c.vault /\ d.patch = c.patch
          BY <4>1 DEF GoesOn
        <4>3. CallKindOK(d)'
          BY <2>0, <3>1, <4>1, <4>2 DEF CallKindOK, Labelled
        <4>4. Made' = Made /\ SameRows /\ SamePage
          BY <3>4, <4>1, MadeFacts DEF SameRows, SamePage
        <4>5. \A e \in calls' : CallKindOK(e)'
          BY <3>3, <4>2, <4>3
        <4> QED
          BY <3>1, <3>2, <4>4, <4>5, KindKept
      <3>5. CASE c.vault \notin Listed /\ Ends(c) /\ lobby' = Told(c)
        <4>1. ~Making(c)
          BY <2>0, <3>1, <3>5
        <4>2. Made' = Made /\ SameRows /\ SamePage
          BY <3>5, <4>1, MadeFacts, ToldRows
        <4>3. \A e \in calls' : CallKindOK(e)'
          BY <3>3, <3>5 DEF Ends
        <4> QED
          BY <3>1, <3>2, <4>2, <4>3, KindKept
      <3> QED
        BY <2>1, <3>4, <3>5, ReadMetaFacts
    <2>2. CASE WriteMeta(c)
      BY <2>2, KindAfterWrite
    <2>3. CASE DeleteVault(c)
      BY <2>3, KindAfterDelete
    <2>4. CASE CallFails(c)
      BY <2>4 DEF CallFails
    <2>5. CASE CreateVault(c)
      <3>1. /\ c.stage = "create" /\ Making(c) /\ OnlyAt(c.vault)
            /\ server'[c.vault].kind = "empty" /\ server'[c.vault].labels = {}
            /\ loads' = loads /\ lobby' = lobby
            /\ \E d \in Calls : GoesOn(c, d) /\ d.stage = "upload"
        BY <2>5, CreateVaultFacts
      <3>2. PICK d \in Calls : GoesOn(c, d) /\ d.stage = "upload"
        BY <3>1
      <3>3. /\ calls' = (calls \ {c}) \cup {d} /\ d.kind = c.kind
            /\ d.vault = c.vault
        BY <3>2 DEF GoesOn
      <3>4. CallKindOK(d)'
        BY <3>1, <3>2, <3>3 DEF CallKindOK, Making
      <3>5. /\ \A e \in calls \ {c} : CallKindOK(e)'
            /\ \A v \in Vaults \ {c.vault} : SameKind(v)
        BY <3>1, OthersKeepKind
      <3>6. Made' = Made /\ c.vault \in Made /\ SameRows /\ SamePage
        BY <3>1, <3>2, MadeFacts DEF SameRows, SamePage
      <3>7. /\ \A e \in calls' : CallKindOK(e)'
            /\ \A v \in Vaults : v \in Made' \/ SameKind(v)
        BY <3>3, <3>4, <3>5, <3>6
      <3> QED
        BY <3>1, <3>6, <3>7, KindKept
    <2>6. CASE UploadBlob(c)
      <3>1. /\ c.stage = "upload" /\ Making(c) /\ OnlyAt(c.vault)
            /\ server'[c.vault].labels = server[c.vault].labels
            /\ loads' = loads
        BY <2>6, UploadBlobFacts
      <3>2. c.vault \in Listed
        BY <2>0, <3>1
      <3>3. /\ server'[c.vault].kind = IF c.kind = "board" THEN "board" ELSE "map"
            /\ lobby' = lobby
            /\ \E d \in Calls : GoesOn(c, d)
        BY <2>6, <3>2, UploadBlobFacts
      <3>4. PICK d \in Calls : GoesOn(c, d)
        BY <3>3
      <3>5. /\ calls' = (calls \ {c}) \cup {d} /\ d.kind = c.kind
            /\ d.vault = c.vault
        BY <3>4 DEF GoesOn
      <3>6. CallKindOK(d)'
        BY <2>0, <3>1, <3>3, <3>5 DEF CallKindOK, Making
      <3>7. /\ \A e \in calls \ {c} : CallKindOK(e)'
            /\ \A v \in Vaults \ {c.vault} : SameKind(v)
        BY <3>1, OthersKeepKind
      <3>8. Made' = Made /\ c.vault \in Made /\ SameRows /\ SamePage
        BY <3>1, <3>3, <3>4, MadeFacts DEF SameRows, SamePage
      <3>9. /\ \A e \in calls' : CallKindOK(e)'
            /\ \A v \in Vaults : v \in Made' \/ SameKind(v)
        BY <3>5, <3>6, <3>7, <3>8
      <3> QED
        BY <3>1, <3>8, <3>9, KindKept
    <2>7. CASE MapCreated(c)
      <3>1. /\ c.stage = "get" /\ c.kind = "create" /\ server' = server
        BY <2>7, MapCreatedFacts
      <3>2. c.vault \in Listed /\ Making(c)
        BY <2>0, <3>1 DEF Making
      <3>3. Left("map", c.vault, calls \ {c}) /\ OnlyAt(c.vault)
        BY <2>7, <3>1, <3>2, MapCreatedFacts DEF OnlyAt
      <3>4. /\ \A e \in calls \ {c} : CallKindOK(e)'
            /\ \A v \in Vaults \ {c.vault} : SameKind(v)
        BY <3>3, OthersKeepKind
      <3>5. /\ server'[c.vault].kind \notin {"absent", "board"}
            /\ Board \notin server'[c.vault].labels
        BY <2>0, <3>1, <3>2 DEF CallKindOK, Listed
      <3>6. /\ \A e \in calls \ {c} : e.vault # c.vault /\ CallKindOK(e)'
            /\ \A u \in Vaults : u = c.vault \/ SameKind(u)
            /\ \A e \in calls \ (calls \ {c}) : e.vault = c.vault
        BY <2>0, <3>4
      <3> QED
        BY <2>0, <3>3, <3>5, <3>6, KindLeft
    <2>8. CASE BoardCreated(c)
      <3>1. /\ c.stage = "write" /\ c.kind = "board" /\ Written(c)
            /\ OnlyAt(c.vault) /\ Left("board", c.vault, calls \ {c})
        BY <2>8, BoardCreatedFacts
      <3>2. c.vault \in Listed /\ server[c.vault].kind = "board"
        BY <2>0, <3>1 DEF Making, CallKindOK
      <3>3. server'[c.vault].kind = "board" /\ server'[c.vault].labels = {Board}
        BY <2>0, <3>1, <3>2, WrittenFacts
      <3>4. /\ \A e \in calls \ {c} : CallKindOK(e)'
            /\ \A v \in Vaults \ {c.vault} : SameKind(v)
        BY <3>1, OthersKeepKind
      <3>5. /\ \A e \in calls \ {c} : e.vault # c.vault /\ CallKindOK(e)'
            /\ \A u \in Vaults : u = c.vault \/ SameKind(u)
            /\ \A e \in calls \ (calls \ {c}) : e.vault = c.vault
        BY <2>0, <3>4
      <3> QED
        BY <2>0, <3>1, <3>3, <3>5, KindLeft
    <2> QED
      BY <1>10, <2>1, <2>2, <2>3, <2>4, <2>5, <2>6, <2>7, <2>8
  <1> QED
    BY <1>1, <1>2, <1>3, <1>4, <1>5, <1>6, <1>7, <1>8, <1>9, <1>10 DEF Next

-----------------------------------------------------------------------------
(* The counts of active shares. *)
LEMMA SharesKept ==
    ASSUME LobbyInv, CountsOK, UNCHANGED <<scenario, asking>>,
           DOMAIN lobby'.rows = DOMAIN lobby.rows, lobby'.counts = lobby.counts,
           \A l \in Closures : loads'[l].stage = "none" <=> loads[l].stage = "none",
           \A v \in DOMAIN lobby.rows : v \in Listed' => v \in Listed
    PROVE  CountsOK'
  <1>1. "keyed" \in Closures /\ "keyless" \in Closures
    BY DEF Closures
  <1> QED
    BY <1>1 DEF CountsOK

(* Another page counts no shares. *)
LEMMA SharesLeft ==
    ASSUME scenario' = scenario, NEW path, NEW v, NEW cs, Left(path, v, cs)
    PROVE  CountsOK'
  BY DEF CountsOK, Left, NoList, Closures

(* No vault that was deleted comes back. *)
LEMMA NoneBack ==
    ASSUME LobbyInv, NEW c \in calls,
           \/ ReadMeta(c) \/ WriteMeta(c) \/ DeleteVault(c) \/ CallFails(c)
           \/ CreateVault(c) \/ UploadBlob(c) \/ MapCreated(c) \/ BoardCreated(c)
    PROVE  \A v \in DOMAIN lobby.rows : v \in Listed' => v \in Listed
  <1>1. /\ c.vault \in Vaults
        /\ \A v \in DOMAIN lobby.rows : server[v].kind # "absent"
    BY CallIs DEF LobbyInv, BornOK
  <1>2. \/ server' = server
        \/ /\ OnlyAt(c.vault)
           /\ \/ server'[c.vault].kind = server[c.vault].kind
              \/ c.vault \in Listed
              \/ server[c.vault].kind = "absent"
    <2>1. CASE ReadMeta(c) \/ CallFails(c) \/ MapCreated(c)
      BY <2>1, ReadMetaFacts, MapCreatedFacts DEF CallFails
    <2>2. CASE WriteMeta(c)
      BY <1>1, <2>2, WriteMetaFacts, WrittenFacts
    <2>3. CASE DeleteVault(c)
      BY <2>3, DeleteVaultFacts
    <2>4. CASE CreateVault(c)
      BY <2>4, CreateVaultFacts
    <2>5. CASE UploadBlob(c)
      BY <2>5, UploadBlobFacts
    <2>6. CASE BoardCreated(c)
      BY <1>1, <2>6, BoardCreatedFacts, WrittenFacts
    <2> QED
      BY <2>1, <2>2, <2>3, <2>4, <2>5, <2>6
  <1> QED
    BY <1>1, <1>2 DEF Listed, OnlyAt

(* In a lobby that was opened with its keys every step keeps CountsOK. *)
LEMMA SharesStay ==
    ASSUME LobbyInv, CountsOK, ~scenario.unlock, ~scenario.fails, [Next]_vars
    PROVE  CountsOK'
  <1>0. /\ lobby \in Lobbies /\ loads \in [Closures -> Load] /\ asking \in Asking
        /\ "keyed" \in Closures /\ "keyless" \in Closures
        /\ DOMAIN lobby.rows \subseteq Vaults
    BY ListFacts DEF LobbyInv, TypesOK, Closures, Lobbies
  <1>a. ASSUME UNCHANGED <<scenario, server, loads, asking>>, SameRows, SamePage
        PROVE  CountsOK'
    BY <1>a, SharesKept DEF SameRows, SamePage, Listed
  <1>1. CASE UNCHANGED vars
    <2>1. UNCHANGED <<scenario, server, loads, asking, lobby>>
      BY <1>1 DEF vars
    <2> QED
      BY <2>1, SharesKept DEF Listed
  <1>2. CASE Unlock
    BY <1>2 DEF Unlock, LobbyInv, PageOK
  <1>3. CASE Back
    <2>1. /\ UNCHANGED <<scenario, asking>> /\ lobby' = Mounted(TRUE)
          /\ loads' = [loads EXCEPT !["keyed"] = Asked] /\ lobby.page # "lobby"
      BY <1>3 DEF Back
    <2>2. DOMAIN lobby'.rows = {} /\ lobby'.counts = {}
      BY <2>1, MountedFacts
    <2>3. asking = NoList /\ Asked \in Load
      BY <2>1 DEF LobbyInv, PageOK, Load
    <2>4. loads'["keyless"] = loads["keyless"]
      BY <1>0, <2>1, <2>3, LoadSet
    <2> QED
      BY <2>1, <2>2, <2>3, <2>4 DEF CountsOK, NoList
  <1>4. CASE ListShares
    <2>1. /\ asking.stage = "asked" /\ UNCHANGED <<scenario, server, lobby, loads>>
          /\ asking' = [asking EXCEPT !.stage = "answered",
                          !.shares = asking.ids \cap scenario.shared \cap Listed]
      BY <1>4 DEF ListShares
    <2>2. asking \in [stage : {"asked", "answered"}, ids : SUBSET Vaults,
                      shares : SUBSET Vaults]
      BY <1>0, <2>1, NoLoads DEF Asking
    <2>3. /\ asking'.stage = "answered" /\ asking'.ids = asking.ids
          /\ asking'.shares = asking.ids \cap scenario.shared \cap Listed
      BY <2>1, <2>2
    <2>4. Listed' = Listed /\ loads["keyed"].stage = "none"
      BY <2>1, NoLoads DEF Listed, CountsOK
    <2> QED
      BY <2>1, <2>3, <2>4 DEF CountsOK
  <1>5. CASE SharesListed
    <2>1. /\ asking.stage = "answered" /\ UNCHANGED <<scenario, server, loads>>
          /\ lobby' = [lobby EXCEPT !.counts = asking.shares] /\ asking' = NoList
      BY <1>5 DEF SharesListed
    <2>2. lobby'.counts = asking.shares /\ lobby'.rows = lobby.rows
      BY <1>0, <2>1 DEF Lobbies
    <2>3. Listed' = Listed /\ NoList.stage = "none" /\ NoList.shares = {}
      BY <2>1 DEF Listed, NoList
    <2> QED
      BY <2>1, <2>2, <2>3 DEF CountsOK
  <1>6. CASE \E l \in Closures : ListVaults(l) \/ Loaded(l) \/ LoadFails(l)
    <2>1. PICK l \in Closures : ListVaults(l) \/ Loaded(l) \/ LoadFails(l)
      BY <1>6
    <2>2. CASE ListVaults(l)
      <3> DEFINE x == [stage |-> "answered", items |-> [v \in Listed |-> server[v]]]
      <3>1. /\ UNCHANGED <<scenario, server, lobby, asking>>
            /\ loads' = [loads EXCEPT ![l] = x] /\ loads[l].stage = "asked"
        BY <2>2 DEF ListVaults
      <3>2. x \in Load /\ x.stage = "answered"
        BY Snapshot DEF LobbyInv, TypesOK
      <3> HIDE DEF x
      <3>3. \A k \in Closures : loads'[k].stage = "none" <=> loads[k].stage = "none"
        BY <1>0, <3>1, <3>2, LoadSet
      <3> QED
        BY <3>1, <3>3, SharesKept DEF Listed
    <2>3. CASE Loaded(l)
      <3> DEFINE rs == Rows(loads[l].items, l = "keyed")
      <3>1. /\ UNCHANGED <<scenario, server>> /\ loads' = [loads EXCEPT ![l] = NotAsked]
            /\ loads[l].stage = "answered" /\ ShowRows(rs, {}, FALSE)
        BY <2>3 DEF Loaded
      <3>2. loads[l].items \in Lists(Stores)
        BY <1>0, <3>1, NoLoads DEF Load
      <3>3. rs \in Lists(VaultRow)
        BY <3>2, RowsFacts
      <3> HIDE DEF rs
      <3>4. lobby'.rows = rs /\ lobby'.counts = {}
        BY <3>1, <3>3, ShowTypes
      <3>5. asking' = IF DOMAIN rs = DOMAIN lobby.rows THEN asking
                      ELSE IF DOMAIN rs = {} THEN NoList
                      ELSE [stage |-> "asked", ids |-> DOMAIN rs, shares |-> {}]
        BY <3>1 DEF ShowRows
      <3>6. NotAsked \in Load /\ NotAsked.stage = "none"
        BY NoLoads DEF Load
      <3>7. /\ loads'[l].stage = "none"
            /\ \A k \in Closures : k # l => loads'[k] = loads[k]
        BY <1>0, <3>1, <3>6, LoadSet
      <3>8. l = "keyed" /\ loads["keyless"].stage = "none"
        BY <1>0, <3>1 DEF CountsOK, Closures
      <3>9. loads'["keyless"].stage = "none" /\ loads'["keyed"].stage = "none"
        BY <1>0, <3>7, <3>8
      <3>10. DOMAIN lobby.rows = {} /\ asking = NoList
        BY <3>1, <3>8 DEF CountsOK
      <3> QED
        BY <3>4, <3>5, <3>9, <3>10 DEF CountsOK, NoList
    <2>4. CASE LoadFails(l)
      BY <2>4 DEF LoadFails
    <2> QED
      BY <2>1, <2>2, <2>3, <2>4
  <1>7. CASE \E v \in Vaults : SetDraftNote(v) \/ SetDraftLabels(v)
    <2>1. /\ UNCHANGED <<scenario, server, loads, asking>> /\ SameRows /\ SamePage
      BY <1>7, DraftFacts
    <2> QED
      BY <1>a, <2>1
  <1>8. CASE \E v \in Vaults :
                HandleRenameConfirm(v) \/ HandleSaveMeta(v) \/ HandleDelete(v)
    <2>1. PICK v \in Vaults :
                HandleRenameConfirm(v) \/ HandleSaveMeta(v) \/ HandleDelete(v)
      BY <1>8
    <2>2. UNCHANGED <<scenario, server, loads, asking>> /\ OnRow(v)
      BY <2>1, AskedFacts
    <2>3. lobby' = [lobby EXCEPT !.rows[v].saving = TRUE] \/ lobby' = lobby
      BY <2>1, AskedFacts
    <2>4. SameRows /\ SamePage
      BY <2>2, <2>3, SavingFacts DEF OnRow, SameRows, SamePage
    <2> QED
      BY <1>a, <2>2, <2>4
  <1>9. CASE \E v \in Vaults : Open(v)
    <2>1. PICK v \in Vaults : Open(v)
      BY <1>9
    <2> QED
      BY <2>1, OpenFacts, SharesLeft
  <1>10. CASE \E kind \in {"create", "board"} : HandleCreate(kind)
    <2>1. UNCHANGED <<scenario, server, lobby, loads, asking>>
      BY <1>10, NewVaultFacts
    <2> QED
      BY <1>a, <2>1 DEF SameRows, SamePage
  <1>11. ASSUME NEW c \in calls,
          \/ ReadMeta(c) \/ WriteMeta(c) \/ DeleteVault(c) \/ CallFails(c)
          \/ CreateVault(c) \/ UploadBlob(c) \/ MapCreated(c) \/ BoardCreated(c)
         PROVE CountsOK'
    <2>0. \A v \in DOMAIN lobby.rows : v \in Listed' => v \in Listed
      BY <1>11, NoneBack
    <2>a. ASSUME UNCHANGED <<scenario, loads, asking>>,
                 lobby' \in {lobby, Told(c)}
          PROVE CountsOK'
      <3>1. DOMAIN lobby'.rows = DOMAIN lobby.rows /\ lobby'.counts = lobby.counts
        BY <2>a, ToldTypes
      <3> QED
        BY <2>0, <2>a, <3>1, SharesKept
    <2>1. CASE ReadMeta(c)
      BY <2>1, <2>a, ReadMetaFacts
    <2>2. CASE WriteMeta(c)
      <3>1. /\ UNCHANGED <<scenario, loads, asking>> /\ lobby' = Answered(c)
            /\ c.stage = "write" /\ c.kind # "board"
        BY <2>2, WriteMetaFacts
      <3>2. DOMAIN lobby'.rows = DOMAIN lobby.rows /\ lobby'.counts = lobby.counts
        BY <3>1, AnsweredTypes
      <3> QED
        BY <2>0, <3>1, <3>2, SharesKept
    <2>3. CASE DeleteVault(c)
      <3>1. UNCHANGED <<scenario, loads>>
        BY <2>3, DeleteVaultFacts
      <3>2. CASE lobby' = Told(c) /\ UNCHANGED asking
        BY <2>a, <3>1, <3>2
      <3>3. CASE ~(lobby' = Told(c) /\ UNCHANGED asking)
        <4>1. /\ DOMAIN lobby'.rows \subseteq DOMAIN lobby.rows
              /\ lobby'.counts = lobby.counts
              /\ asking' = IF DOMAIN lobby'.rows = DOMAIN lobby.rows THEN asking
                           ELSE IF DOMAIN lobby'.rows = {} THEN NoList
                           ELSE [stage |-> "asked", ids |-> DOMAIN lobby'.rows,
                                 shares |-> {}]
          BY <2>3, <3>3, DeleteVaultFacts
        <4>2. CASE DOMAIN lobby'.rows = DOMAIN lobby.rows
          BY <2>0, <3>1, <4>1, <4>2, SharesKept
        <4>3. CASE DOMAIN lobby'.rows # DOMAIN lobby.rows
          <5>1. loads["keyed"].stage = "none" /\ loads["keyless"].stage = "none"
            BY <4>1, <4>3 DEF CountsOK
          <5> QED
            BY <3>1, <4>1, <4>3, <5>1 DEF CountsOK, NoList
        <4> QED
          BY <4>2, <4>3
      <3> QED
        BY <3>2, <3>3
    <2>4. CASE CallFails(c)
      BY <2>4 DEF CallFails
    <2>5. CASE CreateVault(c)
      BY <2>5, <2>a, CreateVaultFacts
    <2>6. CASE UploadBlob(c)
      BY <2>6, <2>a, UploadBlobFacts
    <2>7. CASE MapCreated(c)
      <3>1. CASE Left("map", c.vault, calls \ {c})
        BY <2>7, <3>1, MapCreatedFacts, SharesLeft
      <3>2. CASE ~Left("map", c.vault, calls \ {c})
        BY <2>7, <2>a, <3>2, MapCreatedFacts
      <3> QED
        BY <3>1, <3>2
    <2>8. CASE BoardCreated(c)
      BY <2>8, BoardCreatedFacts, SharesLeft
    <2> QED
      BY <1>11, <2>1, <2>2, <2>3, <2>4, <2>5, <2>6, <2>7, <2>8
  <1> QED
    BY <1>1, <1>2, <1>3, <1>4, <1>5, <1>6, <1>7, <1>8, <1>9, <1>10, <1>11 DEF Next

-----------------------------------------------------------------------------
(* A behaviour stays in its scenario. *)
LEMMA ScenarioStays == ASSUME [Next]_vars PROVE scenario' = scenario
  <1>1. CASE UNCHANGED vars
    BY <1>1 DEF vars
  <1>2. CASE Unlock \/ Back \/ ListShares \/ SharesListed
    BY <1>2 DEF Unlock, Back, ListShares, SharesListed
  <1>3. CASE \E l \in Closures : ListVaults(l) \/ Loaded(l) \/ LoadFails(l)
    BY <1>3 DEF ListVaults, Loaded, LoadFails
  <1>4. CASE \E v \in Vaults :
               \/ SetDraftNote(v) \/ SetDraftLabels(v)
               \/ HandleRenameConfirm(v) \/ HandleSaveMeta(v) \/ HandleDelete(v)
               \/ Open(v)
    BY <1>4 DEF SetDraftNote, SetDraftLabels, HandleRenameConfirm,
                HandleSaveMeta, HandleDelete, Open
  <1>5. CASE \E kind \in {"create", "board"} : HandleCreate(kind)
    BY <1>5 DEF HandleCreate
  <1>6. CASE \E c \in calls :
          \/ ReadMeta(c) \/ WriteMeta(c) \/ DeleteVault(c) \/ CallFails(c)
          \/ CreateVault(c) \/ UploadBlob(c) \/ MapCreated(c) \/ BoardCreated(c)
    BY <1>6 DEF ReadMeta, WriteMeta, DeleteVault, CallFails, CreateVault,
                UploadBlob, MapCreated, BoardCreated
  <1> QED
    BY <1>1, <1>2, <1>3, <1>4, <1>5, <1>6 DEF Next

(* The four invariants hold at the start. *)
LEMMA StartsSettled ==
    ASSUME Init
    PROVE  PatientInv /\ TellInv /\ KindInv /\ CountsInv
  <1>1. LobbyInv /\ calls = {} /\ asking = NoList /\ lobby = Mounted(~scenario.unlock)
        /\ scenario \in Scenarios
    BY LobbyStarts, LobbyAssumption DEF Init
  <1>2. scenario.unlock \in BOOLEAN /\ Board \notin {}
    BY <1>1, LobbyAssumption
  <1>3. /\ lobby.page = "lobby" /\ lobby.keys = ~scenario.unlock
        /\ DOMAIN lobby.rows = {} /\ lobby.counts = {}
    BY <1>1, <1>2, MountedFacts
  <1>4. /\ loads["keyless"].stage = "none"
        /\ \A l \in Closures : loads[l].stage # "answered"
        /\ ~scenario.unlock => loads["keyed"].stage = "asked"
    BY NoLoads DEF Init, Closures
  <1>5. "keyed" \in Closures
    BY DEF Closures
  <1>6. PatientInv
    BY <1>1 DEF PatientInv, PatientOK
  <1>7. TellInv
    BY <1>3, <1>4, <1>5 DEF TellInv, InOrderOK, TellOK, Loading
  <1>8. KindInv
    <2>1. PICK n \in Names, t \in Notes \ {Blank} :
            server = [v \in Vaults |->
                IF v \notin scenario.seed THEN Absent
                ELSE IF v \in scenario.boards THEN Stored("board", n, t, {Board})
                ELSE Stored("map", n, t, {})]
      BY DEF Init
    <2>2. StoredOK
      BY <2>1 DEF StoredOK, Stored, Absent
    <2>3. RowsOK /\ LoadsOK /\ OpenedOK /\ \A c \in calls : CallKindOK(c)
      BY <1>1, <1>3, <1>4 DEF RowsOK, LoadsOK, OpenedOK
    <2> QED
      BY <2>2, <2>3, KindParts DEF KindInv
  <1>9. CountsInv
    BY <1>1, <1>3, <1>4 DEF CountsInv, CountsOK, NoList
  <1> QED
    BY <1>6, <1>7, <1>8, <1>9

(* Every step keeps all five invariants. *)
LEMMA StaysSettled ==
    ASSUME LobbyInv, PatientInv, TellInv, KindInv, CountsInv, [Next]_vars
    PROVE  LobbyInv' /\ PatientInv' /\ TellInv' /\ KindInv' /\ CountsInv'
  <1>1. LobbyInv' /\ scenario' = scenario
    BY LobbyStays, ScenarioStays
  <1>2. PatientInv'
    BY <1>1, PatientStays DEF PatientInv
  <1>3. TellInv'
    BY <1>1, TellStays DEF TellInv, PatientInv
  <1>4. KindInv'
    BY <1>1, KindStays DEF KindInv, PatientInv
  <1>5. CountsInv'
    BY <1>1, SharesStay DEF CountsInv
  <1> QED
    BY <1>1, <1>2, <1>3, <1>4, <1>5

(* All five hold in every reachable state. *)
LEMMA LobbyIsSound ==
    Spec => [](LobbyInv /\ PatientInv /\ TellInv /\ KindInv /\ CountsInv)
  <1> DEFINE I == LobbyInv /\ PatientInv /\ TellInv /\ KindInv /\ CountsInv
  <1>1. Init => I
    BY LobbyStarts, LobbyAssumption, StartsSettled
  <1>2. I /\ [Next]_vars => I'
    BY StaysSettled
  <1> HIDE DEF I
  <1>3. Spec => []I
    BY <1>1, <1>2, PTL DEF Spec
  <1> QED
    BY <1>3 DEF I

(* Rows, calls, loads and the list of shares keep their shapes.            *)
THEOREM LobbyTypes == Spec => []TypesOK
  <1>1. LobbyInv => TypesOK
    BY DEF LobbyInv
  <1> QED
    BY <1>1, LobbyIsSound, PTL

(* VaultsPage.tsx: once nothing is under way and no error is shown, the rows *)
(* of a user who waited for answers are the server's vaults with the names, *)
(* notes and labels it has, and in a lobby opened with its keys the vaults *)
(* with active shares are the ones counted, for any number of vaults and of *)
(* calls at once.                                                          *)
THEOREM RowsAreTheServers == Spec => []RowsTellServer
  <1>1. LobbyInv /\ TellInv /\ CountsInv => RowsTellServer
    <2> SUFFICES ASSUME LobbyInv, TellInv, CountsInv, Settled, ~lobby.told
                 PROVE  /\ scenario.patient /\ scenario.inOrder =>
                             /\ DOMAIN lobby.rows = Listed
                             /\ \A v \in Listed :
                                   LET r == lobby.rows[v] s == server[v]
                                   IN  /\ r.name = s.name /\ r.note = s.note
                                       /\ r.labels = s.labels
                        /\ ~scenario.unlock => SharesTold
      BY DEF RowsTellServer
    <2>1. /\ lobby.page = "lobby" /\ lobby.keys /\ Loading = {} /\ Made = {}
          /\ DOMAIN lobby.rows \subseteq Vaults /\ Listed \subseteq Vaults
      BY ListFacts DEF Settled, Made, LobbyInv, TypesOK, Lobbies, Listed
    <2>2. ASSUME scenario.patient, scenario.inOrder
          PROVE  \A v \in Vaults : RowTells(v)
      BY <2>1, <2>2 DEF TellInv, InOrderOK, TellOK
    <2>3. ~scenario.unlock => SharesTold
      BY DEF CountsInv, CountsOK, SharesTold, NoList
    <2> QED
      BY <2>1, <2>2, <2>3 DEF RowTells
  <1> QED
    BY <1>1, LobbyIsSound, PTL

(* vaultState.ts, RELEASE_0.3.30.md:38: a row never leads to the editor that *)
(* cannot read what the vault holds, after any number of edits of labels,  *)
(* of vaults made and deleted, and of loads.                               *)
THEOREM RowsOpenTheirEditor == Spec => []BoardsOpenAsBoards
  <1>1. KindInv => BoardsOpenAsBoards
    BY DEF KindInv, KindOK, BoardsOpenAsBoards
  <1> QED
    BY <1>1, LobbyIsSound, PTL
=============================================================================
