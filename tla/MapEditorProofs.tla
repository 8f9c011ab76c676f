-------------------------- MODULE MapEditorProofs --------------------------
(***************************************************************************)
(* Theorems about MapEditor: the map stays a tree (MapIsATree), every id   *)
(* and file has one place (OnePlaceEach), a late answer takes no edit back *)
(* (EditsSurviveAnswers), no word of a note is lost (NotesAreKept), a      *)
(* clean editor shows what is stored (CleanMeansSaved), and undo and redo  *)
(* implement UndoHistory (ImplementsUndo).  The invariants are EditorInv,  *)
(* the types and the shape of every map, PlaceInv, where an id is, OwnInv  *)
(* and PictureInv, whose a file and a picture is, KeptInv, where a typed   *)
(* word still is, and CleanInv.                                            *)
(***************************************************************************)
EXTENDS MapEditor, FiniteSetTheorems, SequenceTheorems, TLAPS
-----------------------------------------------------------------------------
(* Branches of a map, and whole maps.                                      *)

Branch == UNION {[D -> Node] : D \in SUBSET Ids}

Map == {m \in Branch : Tree(m)}

(* Every node of b hangs below one of its tops.                            *)
Forest(b, tops) ==
    /\ tops \subseteq DOMAIN b
    /\ \A k \in DOMAIN b \ tops : b[k].parent \in DOMAIN b
    /\ \A T \in SUBSET DOMAIN b :
          tops \subseteq T /\ Closed(b, T) => T = DOMAIN b

(* x is m with nodes taken out, moved or changed in what has no file.      *)
Trims(x, m) ==
    /\ DOMAIN x \subseteq DOMAIN m
    /\ \A k \in DOMAIN x :
          /\ x[k].note = m[k].note /\ x[k].files = m[k].files
          /\ x[k].image \in {m[k].image, None}
-----------------------------------------------------------------------------
(* The invariants.                                                         *)

Text == SUBSET (Words \cup Files)

Copying ==
    [kind : {"copy"}, branch : Branch, tops : SUBSET Ids,
     todo : SUBSET (Ids \X Files), at : {"after", "under"}, node : Ids,
     root : Map]
Uploading ==
    [kind : {"upload"}, how : {"attach", "drop", "image"}, node : Ids,
     root : Map]
NoteUploading ==
    [kind : {"note"}, node : Ids \cup {None}, text : Text, root : Map]

Is(t, k) == task[t].kind = k

(* There is always an entry for what is on the screen.                     *)
HistoryInv ==
    /\ history \in [entries : Seq(Map), index : Nat]
    /\ Len(history.entries) <= HISTORY_LIMIT
    /\ history.index \in 1 .. Len(history.entries)
    /\ map = history.entries[history.index]

(* What the panel, the text field and the saves hold.                      *)
PartsTypeOK ==
    /\ scenario \in Scenarios
    /\ dirty \in BOOLEAN
    /\ naming \in [id : Ids \cup {None}, soon : Ids \cup {None}]
    /\ panel \in [open : BOOLEAN, node : Ids \cup {None}, text : Text,
                  doc : Text, selected : Ids \cup {None}]
    /\ panel.open => panel.node \in Ids
    /\ store \in [has : SUBSET Files, given : SUBSET Files]
    /\ saved \in [map : Map, now : Map \cup {None}, failed : BOOLEAN]
    /\ used \subseteq Ids
    /\ kept \in [Ids -> SUBSET Words]

(* What was copied, and what is being copied, are branches with their tops.*)
CopiesInv ==
    /\ clip \in [branch : Branch, tops : SUBSET Ids, cut : BOOLEAN]
    /\ Forest(clip.branch, clip.tops)
    /\ task \in [Tasks -> {Idle} \cup Copying \cup Uploading \cup NoteUploading]
    /\ \A t \in Tasks :
          Is(t, "copy") => Forest(task[t].branch, task[t].tops)

EditorInv == HistoryInv /\ PartsTypeOK /\ CopiesInv

(* The maps and the clipboard that the user can bring back.                *)
Entry(i) == history.entries[i]
Known ==
    {Entry(i) : i \in 1 .. Len(history.entries)}
    \cup {saved.map, clip.branch} \cup ({saved.now} \ {None})

Seen ==
    (UNION {DOMAIN m : m \in Known})
    \cup (IF panel.open THEN {panel.node} ELSE {})

Cloned(t) == IF Is(t, "copy") THEN DOMAIN task[t].branch ELSE {}

(* The ids a copy got are nobody else's until it joins the map.            *)
PlaceInv ==
    /\ twice = {}
    /\ Seen \subseteq used
    /\ \A t \in Tasks :
          /\ Cloned(t) \subseteq used \ Seen
          /\ \A u \in Tasks \ {t} : Cloned(t) \cap Cloned(u) = {}

(* The pairs of a node and a file: a copy's, once the file was copied.     *)
FilesIn(m) == {p \in Ids \X Files : p[1] \in DOMAIN m /\ p[2] \in m[p[1]].files}
Copied(t) ==
    IF Is(t, "copy") THEN FilesIn(task[t].branch) \ task[t].todo ELSE {}
Owned ==
    (UNION {FilesIn(m) : m \in Known}) \cup UNION {Copied(t) : t \in Tasks}

OwnInv ==
    /\ \A p \in Owned : p[2] \in store.given
    /\ \A p, q \in Owned : p[2] = q[2] => p[1] = q[1]

Held == Known \cup {task[t].branch : t \in {u \in Tasks : Is(u, "copy")}}

(* Without the note panel's files, a picture is a file of its node.        *)
PictureInv == Ops("note_files") \/ \A m \in Held : Pictured(m)

KeptInv ==
    \/ Ops("note_files")
    \/ /\ KeepsWork
       /\ \A t \in Tasks : ~Is(t, "note")
       /\ panel.open => /\ kept[panel.node] \subseteq panel.text
                        /\ panel.text = panel.doc
       /\ \A n \in Ids : n \notin used => kept[n] = {}
       /\ \A t \in Tasks : \A n \in Cloned(t) : kept[n] = {}

(* What is on its way to the store is on the screen, while it is clean.    *)
CleanInv ==
    ~dirty => IF saved.now = None THEN ~saved.failed => saved.map = map
                                  ELSE saved.now = map

-----------------------------------------------------------------------------
(* Subtrees.                                                               *)

(* A subtree has its node, and what hangs below its nodes.                 *)
LEMMA SubtreeIsClosed ==
    ASSUME NEW m, NEW n \in DOMAIN m
    PROVE  /\ n \in Subtree(m, n)
           /\ Subtree(m, n) \subseteq DOMAIN m
           /\ Closed(m, Subtree(m, n))
  <1>1. n \in Subtree(m, n) /\ Subtree(m, n) \subseteq DOMAIN m
    BY DEF Subtree
  <1>2. ASSUME NEW k \in DOMAIN m, m[k].parent \in Subtree(m, n)
        PROVE  k \in Subtree(m, n)
    <2>1. ASSUME NEW T \in SUBSET DOMAIN m, n \in T, Closed(m, T)
          PROVE  k \in T
      <3>1. m[k].parent \in T
        BY <1>2, <2>1 DEF Subtree
      <3>2. QED
        BY <3>1, <2>1 DEF Closed
    <2>2. QED
      BY <2>1 DEF Subtree
  <1>3. QED
    BY <1>1, <1>2 DEF Closed

(* It is the least such set.                                               *)
LEMMA SubtreeIsLeast ==
    ASSUME NEW m, NEW n, NEW T, T \subseteq DOMAIN m, n \in T, Closed(m, T)
    PROVE  Subtree(m, n) \subseteq T
  BY DEF Subtree

(* A node of a subtree that is not its top hangs below one.                *)
LEMMA ParentsAreBelow ==
    ASSUME NEW m, NEW n \in DOMAIN m, NEW k \in Subtree(m, n), k # n
    PROVE  m[k].parent \in Subtree(m, n)
  <1> DEFINE T == Subtree(m, n) \ {k}
  <1> SUFFICES ASSUME m[k].parent \notin Subtree(m, n) PROVE FALSE
    OBVIOUS
  <1>1. T \subseteq DOMAIN m /\ n \in T
    BY SubtreeIsClosed
  <1>2. Closed(m, T)
    <2> SUFFICES ASSUME NEW j \in DOMAIN m, m[j].parent \in T
                 PROVE  j \in T
      BY DEF Closed
    <2>1. j \in Subtree(m, n)
      BY SubtreeIsClosed DEF Closed
    <2>2. QED
      BY <2>1
  <1>3. k \in T
    BY <1>1, <1>2, SubtreeIsLeast
  <1> QED
    BY <1>3

(* The branches below some nodes are closed, and so are their parents.     *)
LEMMA BranchesAreClosed ==
    ASSUME NEW m, NEW ids
    PROVE  /\ ids \cap DOMAIN m \subseteq Branches(m, ids)
           /\ Branches(m, ids) \subseteq DOMAIN m
           /\ Closed(m, Branches(m, ids))
           /\ \A k \in Branches(m, ids) \ ids :
                 m[k].parent \in Branches(m, ids)
  <1>1. \A n \in ids \cap DOMAIN m :
           /\ n \in Subtree(m, n)
           /\ Subtree(m, n) \subseteq DOMAIN m
           /\ \A k \in DOMAIN m :
                 m[k].parent \in Subtree(m, n) => k \in Subtree(m, n)
    BY SubtreeIsClosed DEF Closed
  <1>2. ids \cap DOMAIN m \subseteq Branches(m, ids)
    BY <1>1 DEF Branches
  <1>3. Branches(m, ids) \subseteq DOMAIN m
    BY <1>1 DEF Branches
  <1>4. Closed(m, Branches(m, ids))
    BY <1>1 DEF Branches, Closed
  <1>5. ASSUME NEW k \in Branches(m, ids) \ ids
        PROVE  m[k].parent \in Branches(m, ids)
    <2>1. PICK n \in ids \cap DOMAIN m : k \in Subtree(m, n)
      BY DEF Branches
    <2>2. m[k].parent \in Subtree(m, n)
      BY <2>1, ParentsAreBelow
    <2>3. QED
      BY <2>1, <2>2 DEF Branches
  <1>6. QED
    BY <1>2, <1>3, <1>4, <1>5
-----------------------------------------------------------------------------
(* Trees.                                                                  *)

(* A tree has no closed set of nodes with its root but the whole.          *)
LEMMA TreeIsReached ==
    ASSUME NEW m, Tree(m), NEW T, T \subseteq DOMAIN m, Root \in T,
           Closed(m, T)
    PROVE  T = DOMAIN m
  BY SubtreeIsLeast DEF Tree

LEMMA ReachedIsTree ==
    ASSUME NEW m, Root \in DOMAIN m, m[Root].parent = None,
           \A k \in DOMAIN m \ {Root} : m[k].parent \in DOMAIN m,
           \A T \in SUBSET DOMAIN m :
              Root \in T /\ Closed(m, T) => DOMAIN m \subseteq T
    PROVE  Tree(m)
  BY DEF Tree, Subtree

(* What changes no parent keeps a tree.                                    *)
LEMMA SameParentsTree ==
    ASSUME NEW m, NEW x, Tree(m), DOMAIN x = DOMAIN m,
           \A k \in DOMAIN m : x[k].parent = m[k].parent
    PROVE  Tree(x)
  <1>1. /\ Root \in DOMAIN m /\ m[Root].parent = None
        /\ \A k \in DOMAIN m \ {Root} : m[k].parent \in DOMAIN m
    BY DEF Tree
  <1>2. ASSUME NEW T \in SUBSET DOMAIN x, Root \in T, Closed(x, T)
        PROVE  DOMAIN x \subseteq T
    <2>1. Closed(m, T)
      BY <1>2 DEF Closed
    <2>2. QED
      BY <1>2, <2>1, TreeIsReached
  <1>3. QED
    BY <1>1, <1>2, ReachedIsTree


(* removeNodes leaves a tree: it takes out whole branches, never the root. *)
LEMMA RemovingKeepsTree ==
    ASSUME NEW m, Tree(m), DOMAIN m \subseteq Ids, NEW ids
    PROVE  /\ DOMAIN RemoveNodes(m, ids) \subseteq DOMAIN m
           /\ \A k \in DOMAIN RemoveNodes(m, ids) :
                 RemoveNodes(m, ids)[k] = m[k]
           /\ Tree(RemoveNodes(m, ids))
  <1> DEFINE B == Branches(m, ids \ {Root})
             x == RemoveNodes(m, ids)
  <1>1. /\ B \subseteq DOMAIN m /\ Closed(m, B)
        /\ \A k \in B \ (ids \ {Root}) : m[k].parent \in B
    BY BranchesAreClosed
  <1>2. x = [k \in DOMAIN m \ B |-> m[k]]
    BY DEF RemoveNodes, Restrict
  <1>3. DOMAIN x = DOMAIN m \ B /\ \A k \in DOMAIN x : x[k] = m[k]
    BY <1>2
  <1>4. Root \notin B
    BY <1>1, TreeAssumption DEF Tree
  <1>5. Root \in DOMAIN x /\ x[Root].parent = None
    BY <1>3, <1>4 DEF Tree
  <1>6. \A k \in DOMAIN x \ {Root} : x[k].parent \in DOMAIN x
    <2> SUFFICES ASSUME NEW k \in DOMAIN x, k # Root
                 PROVE  m[k].parent \in DOMAIN m \ B
      BY <1>3
    <2>1. m[k].parent \in DOMAIN m
      BY <1>3 DEF Tree
    <2>2. m[k].parent \notin B
      BY <1>1, <1>3 DEF Closed
    <2>3. QED
      BY <2>1, <2>2
  <1>7. ASSUME NEW T \in SUBSET DOMAIN x, Root \in T, Closed(x, T)
        PROVE  DOMAIN x \subseteq T
    <2>1. Closed(m, T \cup B)
      <3> SUFFICES ASSUME NEW k \in DOMAIN m, m[k].parent \in T \cup B
                   PROVE  k \in T \cup B
        BY DEF Closed
      <3>1. CASE k \in B
        BY <3>1
      <3>2. CASE k \notin B
        <4>1. m[k].parent \in T
          BY <1>1, <3>2 DEF Closed
        <4>2. x[k].parent \in T /\ k \in DOMAIN x
          BY <1>3, <3>2, <4>1
        <4>3. QED
          BY <4>2, <1>7 DEF Closed
      <3>3. QED
        BY <3>1, <3>2
    <2>2. T \cup B = DOMAIN m
      BY <2>1, <1>1, <1>3, <1>7, TreeIsReached
    <2>3. QED
      BY <2>2, <1>3
  <1> HIDE DEF x
  <1>8. Tree(x)
    BY <1>5, <1>6, <1>7, ReachedIsTree
  <1> QED
    BY <1>3, <1>8 DEF x

(* reparentNode does: the new parent is not below the node.                *)
LEMMA ReparentingKeepsTree ==
    ASSUME NEW m, Tree(m), DOMAIN m \subseteq Ids, NEW n, NEW p,
           CanReparent(m, n, p), \A k \in DOMAIN m : m[k] \in Node
    PROVE  Tree(ReparentNode(m, n, p))
  <1> DEFINE x == ReparentNode(m, n, p)
             S == Subtree(m, n)
  <1>1. n \in DOMAIN m /\ p \in DOMAIN m /\ n # Root /\ p \notin S
    BY DEF CanReparent, IsDescendant
  <1>2. n \in S /\ S \subseteq DOMAIN m /\ Closed(m, S)
    BY <1>1, SubtreeIsClosed
  <1>3. /\ DOMAIN x = DOMAIN m
        /\ x[n].parent = p
        /\ \A k \in DOMAIN m \ {n} : x[k] = m[k]
    BY <1>1 DEF ReparentNode, Node
  <1> HIDE DEF x, S
  <1>4. /\ Root \in DOMAIN x /\ x[Root].parent = None
        /\ \A k \in DOMAIN x \ {Root} : x[k].parent \in DOMAIN x
    BY <1>1, <1>3 DEF Tree
  <1>5. ASSUME NEW T \in SUBSET DOMAIN x, Root \in T, Closed(x, T)
        PROVE  DOMAIN x \subseteq T
    <2>1. Closed(m, T \cup S)
      <3> SUFFICES ASSUME NEW k \in DOMAIN m, m[k].parent \in T \cup S
                   PROVE  k \in T \cup S
        BY DEF Closed
      <3>1. CASE m[k].parent \in S
        BY <3>1, <1>2 DEF Closed
      <3>2. CASE m[k].parent \in T /\ k # n
        BY <3>2, <1>3, <1>5 DEF Closed
      <3>3. QED
        BY <3>1, <3>2, <1>2
    <2>2. T \cup S = DOMAIN m
      BY <2>1, <1>2, <1>3, <1>5, TreeIsReached
    <2>3. n \in T
      BY <2>2, <1>1, <1>3, <1>5 DEF Closed
    <2>4. Closed(m, T)
      BY <2>3, <1>3, <1>5 DEF Closed
    <2>5. QED
      BY <2>4, <1>3, <1>5, TreeIsReached
  <1>6. Tree(x)
    BY <1>4, <1>5, ReachedIsTree
  <1> QED
    BY <1>6 DEF x
-----------------------------------------------------------------------------
(* Branches that are copied, and put somewhere.                            *)

(* cloneTree gives a branch with the nodes asked for on top.               *)
LEMMA ClonesAreForests ==
    ASSUME NEW m, NEW ids, ids \subseteq DOMAIN m
    PROVE  /\ DOMAIN Clone(m, ids) \subseteq DOMAIN m
           /\ \A k \in DOMAIN Clone(m, ids) : Clone(m, ids)[k] = m[k]
           /\ Forest(Clone(m, ids), ids)
  <1> DEFINE B == Branches(m, ids)
             b == Clone(m, ids)
  <1>1. /\ B \subseteq DOMAIN m /\ Closed(m, B) /\ ids \subseteq B
        /\ \A k \in B \ ids : m[k].parent \in B
    BY BranchesAreClosed
  <1>2. DOMAIN b = B /\ \A k \in B : b[k] = m[k]
    BY DEF Clone, Restrict
  <1>3. ASSUME NEW T \in SUBSET B, ids \subseteq T, Closed(b, T)
        PROVE  B \subseteq T
    <2> SUFFICES ASSUME NEW n \in ids PROVE Subtree(m, n) \subseteq T
      BY DEF Branches
    <2> DEFINE S == T \cap Subtree(m, n)
    <2>1. /\ n \in Subtree(m, n) /\ Subtree(m, n) \subseteq DOMAIN m
          /\ Closed(m, Subtree(m, n))
      BY SubtreeIsClosed
    <2>2. Subtree(m, n) \subseteq B
      BY DEF Branches
    <2>3. Closed(m, S)
      BY <1>2, <1>3, <2>1, <2>2 DEF Closed
    <2>4. S \subseteq DOMAIN m /\ n \in S
      BY <1>3, <2>1
    <2>5. Subtree(m, n) \subseteq S
      <3> HIDE DEF S
      <3> QED
        BY <2>3, <2>4, SubtreeIsLeast
    <2>6. QED
      BY <2>5
  <1>4. Forest(b, ids)
    BY <1>1, <1>2, <1>3 DEF Forest
  <1> QED
    BY <1>1, <1>2, <1>4

NewIds(id, S) == {id[n] : n \in S}

(* New ids keep the shape of a branch.                                     *)
LEMMA RenamedForests ==
    ASSUME NEW b, NEW tops, Forest(b, tops), NEW D,
           NEW id \in [DOMAIN b -> D], IsInjective(id),
           \A k \in DOMAIN b : b[k] \in Node
    PROVE  /\ DOMAIN WithNewIds(b, id) = NewIds(id, DOMAIN b)
           /\ \A n \in DOMAIN b :
                 WithNewIds(b, id)[id[n]] =
                     [b[n] EXCEPT !.parent =
                        IF b[n].parent \in DOMAIN b THEN id[b[n].parent]
                                                    ELSE None]
           /\ Forest(WithNewIds(b, id), NewIds(id, tops))
  <1> DEFINE c == WithNewIds(b, id)
  <1>1. DOMAIN c = NewIds(id, DOMAIN b)
    BY DEF WithNewIds, Range, NewIds
  <1>2. ASSUME NEW n \in DOMAIN b
        PROVE  c[id[n]] = [b[n] EXCEPT !.parent =
                             IF b[n].parent \in DOMAIN b
                               THEN id[b[n].parent] ELSE None]
    <2>1. (CHOOSE o \in DOMAIN b : id[o] = id[n]) = n
      BY DEF IsInjective
    <2>2. id[n] \in Range(id)
      BY DEF Range
    <2>3. QED
      BY <2>1, <2>2 DEF WithNewIds
  <1> HIDE DEF c
  <1>3. ASSUME NEW n \in DOMAIN b, b[n].parent \in DOMAIN b
        PROVE  c[id[n]].parent = id[b[n].parent]
    BY <1>2, <1>3 DEF Node
  <1>4. ASSUME NEW T \in SUBSET DOMAIN c, NewIds(id, tops) \subseteq T,
               Closed(c, T)
        PROVE  T = DOMAIN c
    <2> DEFINE S == {n \in DOMAIN b : id[n] \in T}
    <2>1. tops \subseteq S
      BY <1>4 DEF Forest, NewIds
    <2>2. Closed(b, S)
      <3> SUFFICES ASSUME NEW k \in DOMAIN b, b[k].parent \in S
                   PROVE  id[k] \in T
        BY DEF Closed
      <3>1. c[id[k]].parent \in T
        BY <1>3
      <3>2. QED
        BY <3>1, <1>1, <1>4 DEF Closed, NewIds
    <2>3. S = DOMAIN b
      BY <2>1, <2>2 DEF Forest
    <2>4. QED
      BY <2>3, <1>1 DEF NewIds
  <1>5. \A k \in DOMAIN c \ NewIds(id, tops) : c[k].parent \in DOMAIN c
    <2> SUFFICES ASSUME NEW n \in DOMAIN b \ tops
                 PROVE  c[id[n]].parent \in DOMAIN c
      BY <1>1 DEF NewIds
    <2>1. b[n].parent \in DOMAIN b
      BY DEF Forest
    <2>2. QED
      BY <2>1, <1>1, <1>3 DEF NewIds
  <1>6. Forest(c, NewIds(id, tops))
    BY <1>1, <1>4, <1>5 DEF Forest, NewIds
  <1> QED
    BY <1>1, <1>2, <1>6 DEF c

(* A branch put below a node of a tree is part of the tree.                *)
LEMMA AttachingKeepsTree ==
    ASSUME NEW m, Tree(m), NEW b, NEW tops, Forest(b, tops),
           NEW p \in DOMAIN m, DOMAIN b \cap DOMAIN m = {},
           \A k \in DOMAIN b : b[k] \in Node
    PROVE  /\ DOMAIN Attach(m, b, tops, p) = DOMAIN m \cup DOMAIN b
           /\ \A k \in DOMAIN m : Attach(m, b, tops, p)[k] = m[k]
           /\ \A k \in DOMAIN b :
                 Attach(m, b, tops, p)[k] =
                    IF k \in tops THEN [b[k] EXCEPT !.parent = p] ELSE b[k]
           /\ Tree(Attach(m, b, tops, p))
  <1> DEFINE x == Attach(m, b, tops, p)
  <1>1. /\ tops \subseteq DOMAIN b
        /\ \A k \in DOMAIN b \ tops : b[k].parent \in DOMAIN b
        /\ \A T \in SUBSET DOMAIN b :
              tops \subseteq T /\ Closed(b, T) => T = DOMAIN b
    BY DEF Forest
  <1>2. /\ DOMAIN x = DOMAIN m \cup DOMAIN b
        /\ \A k \in DOMAIN m : x[k] = m[k]
        /\ \A k \in DOMAIN b \ tops : x[k] = b[k]
        /\ \A k \in tops : x[k] = [b[k] EXCEPT !.parent = p]
    BY <1>1 DEF Attach
  <1>3. \A k \in tops : x[k].parent = p
    BY <1>1, <1>2 DEF Node
  <1> HIDE DEF x
  <1>4. /\ Root \in DOMAIN x /\ x[Root].parent = None
        /\ \A k \in DOMAIN x \ {Root} : x[k].parent \in DOMAIN x
    BY <1>1, <1>2, <1>3 DEF Tree
  <1>5. ASSUME NEW T \in SUBSET DOMAIN x, Root \in T, Closed(x, T)
        PROVE  DOMAIN x \subseteq T
    <2> DEFINE U == T \cap DOMAIN m
               V == T \cap DOMAIN b
    <2>1. Closed(m, U)
      BY <1>2, <1>5 DEF Closed
    <2>2. U = DOMAIN m
      BY <2>1, <1>5, TreeIsReached DEF Tree
    <2>3. tops \subseteq T
      BY <2>2, <1>1, <1>2, <1>3, <1>5 DEF Closed
    <2>4. Closed(b, V)
      BY <2>3, <1>1, <1>2, <1>5 DEF Closed
    <2>5. V = DOMAIN b
      BY <2>3, <2>4, <1>1
    <2>6. QED
      BY <2>2, <2>5, <1>2
  <1>6. Tree(x)
    BY <1>4, <1>5, ReachedIsTree
  <1> QED
    BY <1>1, <1>2, <1>6 DEF x

-----------------------------------------------------------------------------
(* The operations give maps and branches.                                  *)

LEMMA BranchFacts ==
    ASSUME NEW b \in Branch
    PROVE  /\ DOMAIN b \subseteq Ids
           /\ b \in [DOMAIN b -> Node]
           /\ \A k \in DOMAIN b : b[k] \in Node
  BY DEF Branch

LEMMA BranchIntro ==
    ASSUME NEW D \in SUBSET Ids, NEW b \in [D -> Node]
    PROVE  b \in Branch
  BY DEF Branch

LEMMA MapFacts ==
    ASSUME NEW m \in Map
    PROVE  /\ m \in Branch /\ DOMAIN m \subseteq Ids
           /\ m \in [DOMAIN m -> Node]
           /\ \A k \in DOMAIN m : m[k] \in Node
           /\ Tree(m)
           /\ Root \in DOMAIN m
           /\ \A k \in DOMAIN m : m[k].parent \in DOMAIN m \/ k = Root
           /\ m[Root].parent = None
  BY BranchFacts DEF Map, Tree

LEMMA NoneIsNoMap == None \notin Branch /\ None \notin Map
  BY StartAssumption DEF IsBranch, Branch, Map

LEMMA RemovedMaps ==
    ASSUME NEW m \in Map, NEW ids
    PROVE  RemoveNodes(m, ids) \in Map /\ Trims(RemoveNodes(m, ids), m)
  <1> DEFINE x == RemoveNodes(m, ids)
  <1>1. /\ DOMAIN x \subseteq DOMAIN m
        /\ \A k \in DOMAIN x : x[k] = m[k]
        /\ Tree(x)
    BY MapFacts, RemovingKeepsTree
  <1>2. x = [k \in DOMAIN x |-> x[k]]
    BY DEF RemoveNodes, Restrict
  <1> HIDE DEF x
  <1>3. x \in [DOMAIN x -> Node]
    BY <1>1, <1>2, MapFacts
  <1>4. x \in Map
    BY <1>1, <1>3, MapFacts, BranchIntro DEF Map
  <1>5. Trims(x, m)
    BY <1>1 DEF Trims
  <1> QED
    BY <1>4, <1>5 DEF x

(* An edit of one node that leaves its parent.                             *)
LEMMA EditedMaps ==
    ASSUME NEW m \in Map, NEW n \in DOMAIN m, NEW r \in Node,
           r.parent = m[n].parent
    PROVE  /\ [m EXCEPT ![n] = r] \in Map
           /\ DOMAIN [m EXCEPT ![n] = r] = DOMAIN m
           /\ [m EXCEPT ![n] = r][n] = r
           /\ \A k \in DOMAIN m \ {n} : [m EXCEPT ![n] = r][k] = m[k]
  <1> DEFINE x == [m EXCEPT ![n] = r]
  <1>1. /\ DOMAIN x = DOMAIN m
        /\ x[n] = r
        /\ \A k \in DOMAIN m \ {n} : x[k] = m[k]
    BY MapFacts
  <1>2. x \in [DOMAIN m -> Node]
    BY MapFacts
  <1> HIDE DEF x
  <1>3. Tree(x)
    BY <1>1, MapFacts, SameParentsTree
  <1>4. x \in Map
    BY <1>1, <1>2, <1>3, MapFacts, BranchIntro DEF Map
  <1> QED
    BY <1>1, <1>4 DEF x

LEMMA ReparentedMaps ==
    ASSUME NEW m \in Map, NEW n \in DOMAIN m, NEW p \in DOMAIN m,
           CanReparent(m, n, p)
    PROVE  ReparentNode(m, n, p) \in Map /\ Trims(ReparentNode(m, n, p), m)
  <1> DEFINE x == ReparentNode(m, n, p)
  <1>1. Tree(x)
    BY MapFacts, ReparentingKeepsTree
  <1>2. p \in Ids
    BY MapFacts
  <1>3. x \in [DOMAIN m -> Node]
    BY <1>2, MapFacts DEF ReparentNode, Node
  <1>4. Trims(x, m)
    BY MapFacts DEF Trims, ReparentNode, Node
  <1> HIDE DEF x
  <1>5. x \in Map
    BY <1>1, <1>3, MapFacts, BranchIntro DEF Map
  <1> QED
    BY <1>4, <1>5 DEF x

LEMMA ClonedBranches ==
    ASSUME NEW m \in Map, NEW ids, ids \subseteq DOMAIN m
    PROVE  /\ Clone(m, ids) \in Branch
           /\ DOMAIN Clone(m, ids) \subseteq DOMAIN m
           /\ \A k \in DOMAIN Clone(m, ids) : Clone(m, ids)[k] = m[k]
           /\ Forest(Clone(m, ids), ids)
  <1> DEFINE b == Clone(m, ids)
  <1>1. /\ DOMAIN b \subseteq DOMAIN m
        /\ \A k \in DOMAIN b : b[k] = m[k]
        /\ Forest(b, ids)
    BY ClonesAreForests
  <1>2. b = [k \in DOMAIN b |-> b[k]]
    BY DEF Clone, Restrict
  <1> HIDE DEF b
  <1>3. b \in [DOMAIN b -> Node]
    BY <1>1, <1>2, MapFacts
  <1>4. b \in Branch
    BY <1>1, <1>3, MapFacts, BranchIntro
  <1> QED
    BY <1>1, <1>4 DEF b

LEMMA RenamedBranches ==
    ASSUME NEW b \in Branch, NEW tops, Forest(b, tops), NEW D \in SUBSET Ids,
           NEW id \in [DOMAIN b -> D], IsInjective(id)
    PROVE  /\ WithNewIds(b, id) \in Branch
           /\ DOMAIN WithNewIds(b, id) \subseteq D
           /\ \A k \in DOMAIN WithNewIds(b, id) : \E n \in DOMAIN b :
                 /\ k = id[n]
                 /\ WithNewIds(b, id)[k].image = b[n].image
                 /\ WithNewIds(b, id)[k].files = b[n].files
           /\ NewIds(id, tops) \subseteq Ids
           /\ Forest(WithNewIds(b, id), NewIds(id, tops))
  <1> DEFINE c == WithNewIds(b, id)
  <1>1. \A k \in DOMAIN b : b[k] \in Node
    BY BranchFacts
  <1>2. /\ DOMAIN c = NewIds(id, DOMAIN b)
        /\ Forest(c, NewIds(id, tops))
    BY <1>1, RenamedForests
  <1>3. c = [k \in DOMAIN c |-> c[k]]
    BY DEF WithNewIds
  <1>4. ASSUME NEW n \in DOMAIN b
        PROVE  /\ c[id[n]] \in Node
               /\ c[id[n]].image = b[n].image
               /\ c[id[n]].files = b[n].files
    <2> DEFINE up == IF b[n].parent \in DOMAIN b THEN id[b[n].parent]
                                                 ELSE None
    <2>1. c[id[n]] = [b[n] EXCEPT !.parent = up]
      BY <1>1, RenamedForests
    <2>2. up \in Ids \cup {None}
      OBVIOUS
    <2> HIDE DEF c, up
    <2>3. QED
      BY <1>1, <2>1, <2>2 DEF Node
  <1> HIDE DEF c
  <1>5. DOMAIN c \subseteq D
    BY <1>2 DEF NewIds
  <1>6. \A k \in DOMAIN c : c[k] \in Node
    BY <1>2, <1>4 DEF NewIds
  <1>7. c \in [DOMAIN c -> Node]
    BY <1>3, <1>6
  <1>8. c \in Branch
    <2>1. DOMAIN c \in SUBSET Ids
      BY <1>5
    <2>2. QED
      BY <2>1, <1>7, BranchIntro
  <1>9. NewIds(id, tops) \subseteq Ids
    BY <1>2, <1>5 DEF Forest
  <1>10. \A k \in DOMAIN c : \E n \in DOMAIN b :
           k = id[n] /\ c[k].image = b[n].image /\ c[k].files = b[n].files
    BY <1>2, <1>4 DEF NewIds
  <1> QED
    BY <1>2, <1>5, <1>8, <1>9, <1>10 DEF c

(* x is m and, somewhere below it, b.                                      *)
Attached(x, m, b) ==
    /\ x \in Map
    /\ DOMAIN x = DOMAIN m \cup DOMAIN b
    /\ DOMAIN m \cap DOMAIN b = {}
    /\ \A k \in DOMAIN m : x[k] = m[k]
    /\ \A k \in DOMAIN b : /\ x[k].files = b[k].files
                            /\ x[k].image = b[k].image
                            /\ x[k].note = b[k].note

LEMMA AttachedMaps ==
    ASSUME NEW m \in Map, NEW b \in Branch, NEW tops, Forest(b, tops),
           NEW p \in DOMAIN m, DOMAIN b \cap DOMAIN m = {}
    PROVE  Attached(Attach(m, b, tops, p), m, b)
  <1> DEFINE x == Attach(m, b, tops, p)
  <1>1. /\ DOMAIN x = DOMAIN m \cup DOMAIN b
        /\ \A k \in DOMAIN m : x[k] = m[k]
        /\ \A k \in DOMAIN b :
              x[k] = IF k \in tops THEN [b[k] EXCEPT !.parent = p] ELSE b[k]
        /\ Tree(x)
    BY AttachingKeepsTree, MapFacts, BranchFacts
  <1>2. x = [k \in DOMAIN x |-> x[k]]
    BY DEF Attach
  <1>3. p \in Ids
    BY MapFacts
  <1> HIDE DEF x
  <1>4. \A k \in DOMAIN b :
           /\ x[k] \in Node
           /\ x[k].files = b[k].files
           /\ x[k].image = b[k].image
           /\ x[k].note = b[k].note
    BY <1>1, <1>3, BranchFacts DEF Node
  <1>5. x \in [DOMAIN x -> Node]
    BY <1>1, <1>2, <1>4, MapFacts
  <1>6. x \in Map
    BY <1>1, <1>5, MapFacts, BranchFacts, BranchIntro DEF Map
  <1> QED
    BY <1>1, <1>4, <1>6 DEF x, Attached

-----------------------------------------------------------------------------
(* History.                                                                *)

LEMMA LastOfFacts ==
    ASSUME NEW S, NEW s \in Seq(S), NEW n \in Nat
    PROVE  /\ LastOf(s, n) \in Seq(S)
           /\ Len(LastOf(s, n)) = IF Len(s) > n THEN n ELSE Len(s)
           /\ \A i \in 1 .. Len(LastOf(s, n)) :
                 LastOf(s, n)[i] = s[i + (Len(s) - Len(LastOf(s, n)))]
  <1>1. CASE Len(s) > n
    <2>1. LastOf(s, n) = SubSeq(s, Len(s) - n + 1, Len(s))
      BY <1>1 DEF LastOf
    <2>2. Len(s) \in Nat /\ Len(s) - n + 1 \in 1 .. Len(s) + 1
      BY <1>1
    <2>3. /\ SubSeq(s, Len(s) - n + 1, Len(s)) \in Seq(S)
          /\ Len(SubSeq(s, Len(s) - n + 1, Len(s))) = n
          /\ \A i \in 1 .. n :
                SubSeq(s, Len(s) - n + 1, Len(s))[i] = s[i + (Len(s) - n)]
      BY <1>1, <2>2
    <2>4. QED
      BY <1>1, <2>1, <2>3
  <1>2. CASE ~(Len(s) > n)
    BY <1>2 DEF LastOf
  <1>3. QED
    BY <1>1, <1>2

(* pushHistory: the new map is last, and what else there is was there.     *)
LEMMA PushFacts ==
    ASSUME NEW S, NEW e \in Seq(S), NEW i \in 1 .. Len(e), NEW m \in S,
           NEW h, h = [entries |-> e, index |-> i]
    PROVE  LET g == PushHistory(h, m)
               n == IF i + 1 > HISTORY_LIMIT THEN HISTORY_LIMIT ELSE i + 1
           IN  /\ g = [entries |-> g.entries, index |-> n]
               /\ g.entries \in Seq(S)
               /\ Len(g.entries) = n
               /\ g.entries[n] = m
               /\ \A k \in 1 .. n - 1 : g.entries[k] = e[k + (i + 1 - n)]
  <1> DEFINE u == Append(SubSeq(e, 1, i), m)
             g == PushHistory(h, m)
             n == IF i + 1 > HISTORY_LIMIT THEN HISTORY_LIMIT ELSE i + 1
  <1>1. /\ u \in Seq(S) /\ Len(u) = i + 1 /\ u[i + 1] = m
        /\ \A k \in 1 .. i : u[k] = e[k]
    <2>1. /\ SubSeq(e, 1, i) \in Seq(S) /\ Len(SubSeq(e, 1, i)) = i
          /\ \A k \in 1 .. i : SubSeq(e, 1, i)[k] = e[k]
      OBVIOUS
    <2> HIDE DEF u
    <2>2. u = Append(SubSeq(e, 1, i), m)
      BY DEF u
    <2>3. QED
      BY <2>1, <2>2
  <1>2. g = [entries |-> LastOf(u, HISTORY_LIMIT),
             index |-> Len(LastOf(u, HISTORY_LIMIT))]
    BY DEF PushHistory
  <1> HIDE DEF u, g
  <1>3. HISTORY_LIMIT \in Nat /\ HISTORY_LIMIT > 0 /\ i \in Nat /\ i > 0
    BY EditorAssumption
  <1>4. /\ LastOf(u, HISTORY_LIMIT) \in Seq(S)
        /\ Len(LastOf(u, HISTORY_LIMIT)) = n
        /\ \A k \in 1 .. n :
              LastOf(u, HISTORY_LIMIT)[k] = u[k + (i + 1 - n)]
    <2> DEFINE v == LastOf(u, HISTORY_LIMIT)
    <2>1. /\ v \in Seq(S)
          /\ Len(v) = IF Len(u) > HISTORY_LIMIT THEN HISTORY_LIMIT ELSE Len(u)
          /\ \A k \in 1 .. Len(v) : v[k] = u[k + (Len(u) - Len(v))]
      BY <1>1, <1>3, LastOfFacts
    <2> HIDE DEF v
    <2>2. Len(v) = n
      BY <1>1, <2>1
    <2>3. n \in Nat
      BY <1>3
    <2>4. \A k \in 1 .. n : v[k] = u[k + (i + 1 - n)]
      <3> HIDE DEF n
      <3>1. \A k \in 1 .. n : v[k] = u[k + (Len(u) - n)]
        BY <2>1, <2>2
      <3>2. Len(u) - n = i + 1 - n
        BY <1>1, <1>3, <2>3
      <3>3. QED
        BY <3>1, <3>2
    <2>5. QED
      BY <2>1, <2>2, <2>4 DEF v
  <1>5. g.entries[n] = m
    <2>1. n \in 1 .. n /\ n + (i + 1 - n) = i + 1
      BY <1>3
    <2> HIDE DEF n
    <2>2. g.entries[n] = u[n + (i + 1 - n)]
      BY <1>2, <1>4, <2>1
    <2>3. QED
      BY <2>1, <2>2, <1>1
  <1>6. \A k \in 1 .. n - 1 : g.entries[k] = e[k + (i + 1 - n)]
    <2> SUFFICES ASSUME NEW k \in 1 .. n - 1
                 PROVE  g.entries[k] = e[k + (i + 1 - n)]
      OBVIOUS
    <2>1. k \in 1 .. n /\ k + (i + 1 - n) \in 1 .. i
      BY <1>3
    <2>2. QED
      BY <2>1, <1>1, <1>2, <1>4
  <1>7. g = [entries |-> g.entries, index |-> n] /\ g.entries \in Seq(S)
        /\ Len(g.entries) = n
    BY <1>2, <1>4
  <1> QED
    BY <1>5, <1>6, <1>7 DEF g

(* What happens to the map: nothing, an edit, a step back or forth, or     *)
(* another map.                                                            *)
Still == UNCHANGED <<map, history>>
Edited == \E m \in Map : Mutate(m)
Stepped ==
    \/ Restore(history.index - 1)
    \/ Restore(history.index + 1)
Opened ==
    map' = saved.map /\ history' = InitHistory(saved.map) /\ dirty' = FALSE

(* The entries that edits leave were there before, but for the last.       *)
LEMMA HistoryStep ==
    ASSUME EditorInv, Still \/ Edited \/ Stepped \/ Opened
    PROVE  /\ HistoryInv'
           /\ \A k \in 1 .. Len(history'.entries) :
                 \/ history'.entries[k] = map'
                 \/ \E j \in 1 .. Len(history.entries) :
                       history'.entries[k] = history.entries[j]
           /\ map' \in Map
  <1>1. /\ history \in [entries : Seq(Map), index : Nat]
        /\ Len(history.entries) <= HISTORY_LIMIT
        /\ history.index \in 1 .. Len(history.entries)
        /\ map = history.entries[history.index]
        /\ Len(history.entries) \in Nat
    BY DEF EditorInv, HistoryInv
  <1>2. map \in Map /\ saved.map \in Map
    BY <1>1 DEF EditorInv, PartsTypeOK
  <1>3. HISTORY_LIMIT \in Nat /\ HISTORY_LIMIT > 0
    BY EditorAssumption
  <1>4. CASE Still
    BY <1>1, <1>2, <1>4 DEF Still, HistoryInv
  <1>5. CASE Edited
    <2>1. PICK m \in Map : map' = m /\ history' = PushHistory(history, m)
      BY <1>5 DEF Edited, Mutate
    <2> DEFINE e == history.entries
               i == history.index
               n == IF i + 1 > HISTORY_LIMIT THEN HISTORY_LIMIT ELSE i + 1
    <2>2. history = [entries |-> e, index |-> i]
      BY <1>1
    <2>3. e \in Seq(Map) /\ i \in 1 .. Len(e)
      BY <1>1
    <2> HIDE DEF e, i
    <2>4. /\ history' = [entries |-> history'.entries, index |-> n]
          /\ history'.entries \in Seq(Map)
          /\ Len(history'.entries) = n
          /\ history'.entries[n] = m
          /\ \A k \in 1 .. n - 1 : history'.entries[k] = e[k + (i + 1 - n)]
      BY <2>1, <2>2, <2>3, PushFacts
    <2>5. n \in Nat /\ 1 <= n /\ n <= HISTORY_LIMIT /\ n <= i + 1
      BY <1>3, <2>3
    <2>6. history'.index = n
      BY <2>4
    <2>7. HistoryInv'
      BY <2>1, <2>4, <2>5, <2>6 DEF HistoryInv
    <2>8. ASSUME NEW k \in 1 .. n - 1
          PROVE  \E j \in 1 .. Len(e) : history'.entries[k] = e[j]
      <3>1. k + (i + 1 - n) \in 1 .. Len(e)
        BY <2>3, <2>5
      <3>2. QED
        BY <2>4, <3>1
    <2>9. \A k \in 1 .. n : k = n \/ k \in 1 .. n - 1
      BY <2>5
    <2>10. QED
      BY <2>1, <2>4, <2>7, <2>8, <2>9 DEF e
  <1>6. CASE Stepped
    <2>1. PICK i \in 1 .. Len(history.entries) :
             /\ history' = [history EXCEPT !.index = i]
             /\ map' = history.entries[i]
      BY <1>6 DEF Stepped, Restore
    <2>2. history'.entries = history.entries /\ history'.index = i
      BY <1>1, <2>1
    <2>3. QED
      BY <1>1, <2>1, <2>2 DEF HistoryInv
  <1>7. CASE Opened
    <2>1. history' = [entries |-> <<saved.map>>, index |-> 1]
      BY <1>7 DEF Opened, InitHistory
    <2>2. HistoryInv'
      BY <1>2, <1>3, <1>7, <2>1 DEF HistoryInv, Opened
    <2>3. QED
      BY <1>2, <1>7, <2>1, <2>2 DEF Opened
  <1> QED
    BY <1>4, <1>5, <1>6, <1>7

-----------------------------------------------------------------------------
(* Undo and redo.                                                          *)

(* What the mapping to UndoHistory sees of a history.                      *)
Before(h) == SubSeq(h.entries, 1, h.index - 1)
After(h) == SubSeq(h.entries, h.index + 1, Len(h.entries))

LEMMA BeforeAfter ==
    ASSUME NEW h \in [entries : Seq(Map), index : Nat],
           h.index \in 1 .. Len(h.entries)
    PROVE  /\ Before(h) \in Seq(Map) /\ Len(Before(h)) = h.index - 1
           /\ \A k \in 1 .. h.index - 1 : Before(h)[k] = h.entries[k]
           /\ After(h) \in Seq(Map)
           /\ Len(After(h)) = Len(h.entries) - h.index
           /\ \A k \in 1 .. Len(h.entries) - h.index :
                 After(h)[k] = h.entries[k + h.index]
  <1> DEFINE e == h.entries
             i == h.index
  <1>1. e \in Seq(Map) /\ i \in 1 .. Len(e) /\ Len(e) \in Nat
    OBVIOUS
  <1> HIDE DEF e, i
  <1>2. /\ SubSeq(e, 1, i - 1) \in Seq(Map) /\ Len(SubSeq(e, 1, i - 1)) = i - 1
        /\ \A k \in 1 .. i - 1 : SubSeq(e, 1, i - 1)[k] = e[k]
    BY <1>1
  <1>3. /\ SubSeq(e, i + 1, Len(e)) \in Seq(Map)
        /\ Len(SubSeq(e, i + 1, Len(e))) = Len(e) - i
        /\ \A k \in 1 .. Len(e) - i : SubSeq(e, i + 1, Len(e))[k] = e[k + i]
    BY <1>1
  <1> QED
    BY <1>2, <1>3 DEF Before, After, e, i

(* An edit adds what was on the screen to the past.                        *)
LEMMA EditIsRemembered ==
    ASSUME EditorInv, EditorInv', Edited
    PROVE  Remembered!Edit
  <1> DEFINE e == history.entries
             i == history.index
             n == IF i + 1 > HISTORY_LIMIT THEN HISTORY_LIMIT ELSE i + 1
             past == Before(history)
             new == Append(past, map)
  <1>1. PICK m \in Map : map' = m /\ history' = PushHistory(history, m)
    BY DEF Edited, Mutate
  <1>2. /\ history \in [entries : Seq(Map), index : Nat]
        /\ history = [entries |-> e, index |-> i]
        /\ e \in Seq(Map) /\ i \in 1 .. Len(e) /\ map = e[i]
        /\ Len(e) \in Nat /\ i \in Nat /\ i > 0
    BY DEF EditorInv, HistoryInv
  <1>3. HISTORY_LIMIT \in Nat /\ HISTORY_LIMIT > 0
    BY EditorAssumption
  <1>4. map \in Map
    BY <1>2
  <1> HIDE DEF e, i
  <1>5. /\ history' = [entries |-> history'.entries, index |-> n]
        /\ history'.entries \in Seq(Map)
        /\ Len(history'.entries) = n
        /\ \A k \in 1 .. n - 1 : history'.entries[k] = e[k + (i + 1 - n)]
    BY <1>1, <1>2, PushFacts
  <1>6. n \in Nat /\ n > 0 /\ history'.index = n /\ n <= i + 1
    BY <1>2, <1>3, <1>5
  <1>7. /\ past \in Seq(Map) /\ Len(past) = i - 1
        /\ \A k \in 1 .. i - 1 : past[k] = e[k]
    BY <1>2, BeforeAfter DEF e, i
  <1> HIDE DEF past
  <1>8. new \in Seq(Map) /\ Len(new) = i /\ \A k \in 1 .. i : new[k] = e[k]
    BY <1>2, <1>4, <1>7
  <1> HIDE DEF new
  <1>9. /\ LastOf(new, HISTORY_LIMIT - 1) \in Seq(Map)
        /\ Len(LastOf(new, HISTORY_LIMIT - 1)) = n - 1
        /\ \A k \in 1 .. n - 1 :
              LastOf(new, HISTORY_LIMIT - 1)[k] = e[k + (i + 1 - n)]
    <2> DEFINE l == LastOf(new, HISTORY_LIMIT - 1)
    <2>1. HISTORY_LIMIT - 1 \in Nat
      BY <1>3
    <2>2. /\ l \in Seq(Map)
          /\ Len(l) = IF Len(new) > HISTORY_LIMIT - 1 THEN HISTORY_LIMIT - 1
                                                      ELSE Len(new)
          /\ \A k \in 1 .. Len(l) : l[k] = new[k + (Len(new) - Len(l))]
      BY <1>8, <2>1, LastOfFacts
    <2> HIDE DEF l
    <2>3. Len(l) = n - 1
      BY <1>2, <1>3, <1>8, <2>2
    <2> HIDE DEF n
    <2>4. Len(new) - Len(l) = i + 1 - n
      BY <1>2, <1>6, <1>8, <2>3
    <2>5. ASSUME NEW k \in 1 .. n - 1
          PROVE  l[k] = e[k + (i + 1 - n)]
      <3>1. k + (i + 1 - n) \in 1 .. i
        BY <1>2, <1>6
      <3>2. l[k] = new[k + (i + 1 - n)]
        BY <2>2, <2>3, <2>4
      <3>3. QED
        BY <3>1, <3>2, <1>8
    <2>6. QED
      BY <2>2, <2>3, <2>5 DEF l
  <1> HIDE DEF n
  <1>10. /\ Before(history') \in Seq(Map) /\ Len(Before(history')) = n - 1
         /\ \A k \in 1 .. n - 1 : Before(history')[k] = history'.entries[k]
         /\ After(history') \in Seq(Map) /\ Len(After(history')) = 0
    <2>1. /\ history' \in [entries : Seq(Map), index : Nat]
          /\ history'.index \in 1 .. Len(history'.entries)
      BY DEF EditorInv, HistoryInv
    <2>2. Len(history'.entries) - history'.index = 0
      BY <1>5, <1>6
    <2>3. /\ Before(history') \in Seq(Map)
          /\ Len(Before(history')) = history'.index - 1
          /\ \A k \in 1 .. history'.index - 1 :
                Before(history')[k] = history'.entries[k]
          /\ After(history') \in Seq(Map)
          /\ Len(After(history')) = Len(history'.entries) - history'.index
      BY <2>1, BeforeAfter
    <2>4. QED
      BY <2>2, <2>3, <1>6
  <1>11. Before(history') = LastOf(new, HISTORY_LIMIT - 1)
    <2>1. \A k \in 1 .. n - 1 :
             Before(history')[k] = LastOf(new, HISTORY_LIMIT - 1)[k]
      BY <1>5, <1>9, <1>10
    <2>2. QED
      BY <2>1, <1>9, <1>10, SeqEqual
  <1>12. After(history') = <<>>
    BY <1>10, EmptySeq
  <1> QED
    BY <1>11, <1>12 DEF Remembered!Edit, Remembered!Newest, LastOf, Before,
                        After, new, past

LEMMA StepsAreRemembered ==
    ASSUME EditorInv, EditorInv', Stepped
    PROVE  Remembered!Undo \/ Remembered!Redo
  <1> DEFINE e == history.entries
             i == history.index
             p == Before(history)
             f == After(history)
  <1>1. /\ history \in [entries : Seq(Map), index : Nat]
        /\ e \in Seq(Map) /\ i \in 1 .. Len(e) /\ map = e[i]
        /\ Len(e) \in Nat /\ i \in Nat /\ i > 0 /\ map \in Map
    BY DEF EditorInv, HistoryInv
  <1>2. /\ p \in Seq(Map) /\ Len(p) = i - 1
        /\ \A k \in 1 .. i - 1 : p[k] = e[k]
        /\ f \in Seq(Map) /\ Len(f) = Len(e) - i
        /\ \A k \in 1 .. Len(e) - i : f[k] = e[k + i]
    BY <1>1, BeforeAfter
  <1>3. /\ Before(history') \in Seq(Map) /\ Len(Before(history')) = history'.index - 1
        /\ \A k \in 1 .. history'.index - 1 : Before(history')[k] = history'.entries[k]
        /\ After(history') \in Seq(Map)
        /\ Len(After(history')) = Len(history'.entries) - history'.index
        /\ \A k \in 1 .. Len(history'.entries) - history'.index :
              After(history')[k] = history'.entries[k + history'.index]
    <2>1. /\ history' \in [entries : Seq(Map), index : Nat]
          /\ history'.index \in 1 .. Len(history'.entries)
      BY DEF EditorInv, HistoryInv
    <2>2. QED
      BY <2>1, BeforeAfter
  <1>4. CASE Restore(i - 1)
    <2>1. /\ i - 1 \in 1 .. Len(e)
          /\ history'.entries = e /\ history'.index = i - 1
          /\ map' = e[i - 1]
      BY <1>1, <1>4 DEF Restore
    <2> HIDE DEF e, i, p, f
    <2>2. p # <<>> /\ map' = p[Len(p)]
      BY <1>1, <1>2, <2>1
    <2>3. Before(history') = SubSeq(p, 1, Len(p) - 1)
      <3> DEFINE s == SubSeq(p, 1, i - 2)
      <3>1. s \in Seq(Map) /\ Len(s) = i - 2 /\ \A k \in 1 .. i - 2 : s[k] = e[k]
        BY <1>1, <1>2, <2>1
      <3> HIDE DEF s
      <3>2. /\ Before(history') \in Seq(Map) /\ Len(Before(history')) = i - 2
            /\ \A k \in 1 .. i - 2 : Before(history')[k] = e[k]
        BY <1>1, <1>3, <2>1
      <3>3. Before(history') = s
        BY <3>1, <3>2, SeqEqual
      <3>4. Len(p) - 1 = i - 2
        BY <1>1, <1>2
      <3>5. QED
        BY <3>3, <3>4 DEF s
    <2>4. After(history') = <<map>> \o f
      <3> DEFINE s == <<map>> \o f
      <3>1. /\ s \in Seq(Map) /\ Len(s) = (Len(e) - i) + 1
            /\ s[1] = map
            /\ \A k \in 2 .. (Len(e) - i) + 1 : s[k] = f[k - 1]
        <4>1. f \in Seq(Map) /\ Len(f) = Len(e) - i /\ Len(f) \in Nat
              /\ <<map>> \in Seq(Map) /\ Len(<<map>>) = 1 /\ <<map>>[1] = map
          BY <1>1, <1>2
        <4>2. /\ s \in Seq(Map) /\ Len(s) = 1 + Len(f)
              /\ \A k \in 1 .. 1 + Len(f) :
                    s[k] = IF k <= 1 THEN <<map>>[k] ELSE f[k - 1]
          BY <4>1, ConcatProperties
        <4> HIDE DEF s
        <4>3. QED
          BY <4>1, <4>2, <1>1
      <3> HIDE DEF s
      <3>2. /\ After(history') \in Seq(Map) /\ Len(After(history')) = (Len(e) - i) + 1
            /\ \A k \in 1 .. (Len(e) - i) + 1 : After(history')[k] = e[k + (i - 1)]
        <4>1. Len(e) - (i - 1) = (Len(e) - i) + 1
          BY <1>1
        <4>2. /\ After(history') \in Seq(Map)
              /\ Len(After(history')) = Len(e) - (i - 1)
              /\ \A k \in 1 .. Len(e) - (i - 1) :
                    After(history')[k] = e[k + (i - 1)]
          BY <1>3, <2>1
        <4>3. QED
          BY <4>1, <4>2
      <3>3. \A k \in 1 .. (Len(e) - i) + 1 : After(history')[k] = s[k]
        <4> SUFFICES ASSUME NEW k \in 1 .. (Len(e) - i) + 1
                     PROVE  s[k] = e[k + (i - 1)]
          BY <3>2
        <4>1. CASE k = 1
          BY <4>1, <3>1, <1>1
        <4>2. CASE k # 1
          <5>1. k \in 2 .. (Len(e) - i) + 1 /\ k - 1 \in 1 .. Len(e) - i
            BY <4>2, <1>1
          <5>2. s[k] = e[(k - 1) + i]
            BY <5>1, <3>1, <1>2
          <5>3. (k - 1) + i = k + (i - 1)
            BY <1>1
          <5>4. QED
            BY <5>2, <5>3
        <4>3. QED
          BY <4>1, <4>2
      <3>4. After(history') = s
        BY <3>1, <3>2, <3>3, SeqEqual
      <3>5. QED
        BY <3>4 DEF s
    <2>5. Remembered!Undo
      BY <2>2, <2>3, <2>4 DEF Remembered!Undo, Before, After, p, f
    <2>6. QED
      BY <2>5
  <1>5. CASE Restore(i + 1)
    <2>1. /\ i + 1 \in 1 .. Len(e)
          /\ history'.entries = e /\ history'.index = i + 1
          /\ map' = e[i + 1]
      BY <1>1, <1>5 DEF Restore
    <2> HIDE DEF e, i, p, f
    <2>2. f # <<>> /\ map' = f[1]
      BY <1>1, <1>2, <2>1
    <2>3. After(history') = Tail(f)
      <3> DEFINE s == Tail(f)
      <3>1. /\ s \in Seq(Map) /\ Len(s) = Len(e) - (i + 1)
            /\ \A k \in 1 .. Len(e) - (i + 1) : s[k] = f[k + 1]
        BY <1>1, <1>2, <2>1, <2>2
      <3> HIDE DEF s
      <3>2. /\ After(history') \in Seq(Map) /\ Len(After(history')) = Len(e) - (i + 1)
            /\ \A k \in 1 .. Len(e) - (i + 1) :
                  After(history')[k] = e[k + (i + 1)]
        BY <1>1, <1>3, <2>1
      <3>3. \A k \in 1 .. Len(e) - (i + 1) : After(history')[k] = s[k]
        <4> SUFFICES ASSUME NEW k \in 1 .. Len(e) - (i + 1)
                     PROVE  s[k] = e[k + (i + 1)]
          BY <3>2
        <4>1. k + 1 \in 1 .. Len(e) - i
          BY <1>1
        <4>2. s[k] = e[(k + 1) + i]
          BY <4>1, <3>1, <1>2
        <4>3. (k + 1) + i = k + (i + 1)
          BY <1>1
        <4>4. QED
          BY <4>2, <4>3
      <3>4. After(history') = s
        BY <3>1, <3>2, <3>3, SeqEqual
      <3>5. QED
        BY <3>4 DEF s
    <2>4. Before(history') = Append(p, map)
      <3> DEFINE s == Append(p, map)
      <3>1. s \in Seq(Map) /\ Len(s) = i /\ \A k \in 1 .. i : s[k] = e[k]
        BY <1>1, <1>2
      <3> HIDE DEF s
      <3>2. /\ Before(history') \in Seq(Map) /\ Len(Before(history')) = i
            /\ \A k \in 1 .. i : Before(history')[k] = e[k]
        BY <1>1, <1>3, <2>1
      <3>3. Before(history') = s
        BY <3>1, <3>2, SeqEqual
      <3>4. QED
        BY <3>3 DEF s
    <2>5. Remembered!Redo
      BY <2>2, <2>3, <2>4 DEF Remembered!Redo, Before, After, p, f
    <2>6. QED
      BY <2>5
  <1> QED
    BY <1>4, <1>5 DEF Stepped

LEMMA OpeningIsRemembered ==
    ASSUME EditorInv, Opened
    PROVE  Remembered!Open
  <1>1. history'.entries = <<saved.map>> /\ history'.index = 1
    BY DEF Opened, InitHistory
  <1>2. /\ SubSeq(history'.entries, 1, history'.index - 1) = <<>>
        /\ SubSeq(history'.entries, history'.index + 1, Len(history'.entries)) = <<>>
    BY <1>1
  <1> QED
    BY <1>2 DEF Remembered!Open

LEMMA UndoStep ==
    ASSUME EditorInv, EditorInv', Still \/ Edited \/ Stepped \/ Opened
    PROVE  \/ Remembered!Next
           \/ UNCHANGED <<SubSeq(history.entries, 1, history.index - 1), map,
                          SubSeq(history.entries, history.index + 1,
                                 Len(history.entries))>>
  <1>1. CASE Still
    BY <1>1 DEF Still
  <1> QED
    BY <1>1, EditIsRemembered, StepsAreRemembered, OpeningIsRemembered
       DEF Remembered!Next

-----------------------------------------------------------------------------
(* The types, and what each step does to the map.                          *)

Moved == Still \/ Edited \/ Stepped \/ Opened

(* An edit that leaves every file with its node.                           *)
Trimmed ==
    Unmutated \/ \E m \in Map : Trims(m, map) /\ Mutate(m)

LEMMA EditorFacts ==
    ASSUME EditorInv
    PROVE  /\ map \in Map /\ DOMAIN map \subseteq Ids /\ Root \in DOMAIN map
           /\ \A k \in DOMAIN map : map[k] \in Node
           /\ \A k \in DOMAIN map : map[k].parent \in DOMAIN map \/ k = Root
           /\ map[Root].parent = None /\ None \notin Ids
           /\ saved.map \in Map
           /\ used \subseteq Ids
  <1>1. map \in Map
    BY DEF EditorInv, HistoryInv
  <1>2. saved.map \in Map /\ used \subseteq Ids
    BY DEF EditorInv, PartsTypeOK
  <1> QED
    BY <1>1, <1>2, MapFacts, TreeAssumption

LEMMA DeleteTrims == ASSUME EditorInv, DeleteNodes PROVE Trimmed
  BY EditorFacts, RemovedMaps DEF DeleteNodes, Trimmed

LEMMA ReparentTrims == ASSUME EditorInv, Reparent PROVE Trimmed
  BY EditorFacts, ReparentedMaps DEF Reparent, Trimmed

LEMMA EditFieldsTrims == ASSUME EditorInv, EditFields PROVE Trimmed
  <1>1. PICK n \in DOMAIN map : Mutate([map EXCEPT ![n].look = ~@])
    BY DEF EditFields
  <1> DEFINE r == [map[n] EXCEPT !.look = ~@]
  <1>2. map[n] \in Node
    BY EditorFacts
  <1>3. /\ r \in Node /\ r.parent = map[n].parent /\ r.note = map[n].note
        /\ r.files = map[n].files /\ r.image = map[n].image
    BY <1>2 DEF Node
  <1> HIDE DEF r
  <1>4. /\ [map EXCEPT ![n] = r] \in Map
        /\ Trims([map EXCEPT ![n] = r], map)
    BY <1>3, EditorFacts, EditedMaps DEF Trims
  <1>5. Mutate([map EXCEPT ![n] = r])
    BY <1>1 DEF r
  <1> QED
    BY <1>4, <1>5 DEF Trimmed

LEMMA RemoveImageTrims ==
    ASSUME EditorInv, NEW n \in DOMAIN map,
           Mutate([map EXCEPT ![n].image = None])
    PROVE  Trimmed
  <1> DEFINE r == [map[n] EXCEPT !.image = None]
  <1>2. map[n] \in Node
    BY EditorFacts
  <1>3. /\ r \in Node /\ r.parent = map[n].parent /\ r.note = map[n].note
        /\ r.files = map[n].files /\ r.image = None
    BY <1>2 DEF Node
  <1> HIDE DEF r
  <1>4. /\ [map EXCEPT ![n] = r] \in Map
        /\ Trims([map EXCEPT ![n] = r], map)
    BY <1>3, EditorFacts, EditedMaps DEF Trims
  <1>5. Mutate([map EXCEPT ![n] = r])
    BY DEF r
  <1> QED
    BY <1>4, <1>5 DEF Trimmed

LEMMA CommitEditTrims == ASSUME EditorInv, CommitEdit PROVE Trimmed
  <1>1. CASE ~Holds(naming.id)
    BY <1>1 DEF CommitEdit, Trimmed
  <1>2. CASE Holds(naming.id)
    <2> DEFINE n == naming.id
    <2>1. PICK blank \in BOOLEAN :
             IF blank /\ n # Root
               THEN Mutate(RemoveNodes(map, {n}))
               ELSE Mutate([map EXCEPT ![n].named = @ \/ ~blank])
      BY <1>2 DEF CommitEdit
    <2> DEFINE r == [map[n] EXCEPT !.named = @ \/ ~blank]
    <2>2. map[n] \in Node /\ n \in DOMAIN map
      BY <1>2, EditorFacts DEF Holds
    <2>3. /\ r \in Node /\ r.parent = map[n].parent /\ r.note = map[n].note
          /\ r.files = map[n].files /\ r.image = map[n].image
      BY <2>2 DEF Node
    <2>4. CASE blank /\ n # Root
      BY <2>1, <2>4, EditorFacts, RemovedMaps DEF Trimmed
    <2>5. CASE ~(blank /\ n # Root)
      <3>1. Mutate([map EXCEPT ![n] = r])
        BY <2>1, <2>5
      <3> HIDE DEF r, n
      <3>2. /\ [map EXCEPT ![n] = r] \in Map
            /\ Trims([map EXCEPT ![n] = r], map)
        BY <2>2, <2>3, EditorFacts, EditedMaps DEF Trims
      <3>3. QED
        BY <3>1, <3>2 DEF Trimmed
    <2>6. QED
      BY <2>4, <2>5
  <1> QED
    BY <1>1, <1>2

LEMMA CancelEditTrims == ASSUME EditorInv, CancelEdit PROVE Trimmed
  BY EditorFacts, RemovedMaps DEF CancelEdit, Trimmed

LEMMA CutTrims ==
    ASSUME EditorInv, CutNodes
    PROVE  /\ Trimmed
           /\ \E tops \in SUBSET DOMAIN map :
                 clip' = [branch |-> Clone(map, tops), tops |-> tops,
                          cut |-> TRUE]
  <1>1. PICK ids \in SUBSET (DOMAIN map \ {Root}) :
           /\ clip' = [branch |-> Clone(map, TopLevel(map, ids)),
                       tops |-> TopLevel(map, ids), cut |-> TRUE]
           /\ Mutate(RemoveNodes(map, TopLevel(map, ids)))
    BY DEF CutNodes
  <1>2. TopLevel(map, ids) \in SUBSET DOMAIN map
    BY DEF TopLevel
  <1> QED
    BY <1>1, <1>2, EditorFacts, RemovedMaps DEF Trimmed

LEMMA TrimmedIsMoved == ASSUME Trimmed PROVE Still \/ Edited
  BY DEF Trimmed, Unmutated, Still, Edited

-----------------------------------------------------------------------------
(* Where ids are.                                                          *)

LEMMA PlacedFacts ==
    ASSUME EditorInv, PlaceInv
    PROVE  /\ map \in Known
           /\ DOMAIN map \subseteq Seen /\ DOMAIN saved.map \subseteq Seen
           /\ DOMAIN clip.branch \subseteq Seen
           /\ Seen \subseteq used
           /\ \A t \in Tasks :
                 Cloned(t) \subseteq used /\ Cloned(t) \cap DOMAIN map = {}
  <1>1. map \in Known
    BY DEF EditorInv, HistoryInv, Known, Entry
  <1>2. saved.map \in Known /\ clip.branch \in Known
    BY DEF Known
  <1>3. \A m \in Known : DOMAIN m \subseteq Seen
    BY DEF Seen
  <1> QED
    BY <1>1, <1>2, <1>3 DEF PlaceInv

(* A new node is put below one of the map.                                 *)
LEMMA InsertFacts ==
    ASSUME EditorInv, PlaceInv, InsertNode
    PROVE  \E new \in Ids \ used, m \in Map :
              /\ Mutate(m)
              /\ DOMAIN m = DOMAIN map \cup {new}
              /\ \A k \in DOMAIN map : m[k] = map[k]
              /\ m[new].files = {} /\ m[new].image = None /\ m[new].note = {}
              /\ used' = used \cup {new}
              /\ naming' = [naming EXCEPT !.soon = new]
              /\ UNCHANGED <<scenario, clip, panel, task, store, saved, twice,
                             kept>>
  <1>1. PICK p \in DOMAIN map, new \in FreshIds :
           /\ Mutate(Attach(map, [k \in {new} |-> NewNode(p)], {new}, p))
           /\ used' = used \cup {new}
           /\ naming' = [naming EXCEPT !.soon = new]
           /\ UNCHANGED <<scenario, clip, panel, task, store, saved, twice,
                          kept>>
    BY DEF InsertNode, UserDoes
  <1> DEFINE b == [k \in {new} |-> NewNode(p)]
             m == Attach(map, b, {new}, p)
  <1>2. new \in Ids \ used /\ p \in Ids
    BY EditorFacts DEF FreshIds
  <1>3. /\ NewNode(p) \in Node /\ NewNode(p).files = {}
        /\ NewNode(p).image = None /\ NewNode(p).note = {}
    BY <1>2 DEF NewNode, Node
  <1>4. /\ b \in [{new} -> Node] /\ DOMAIN b = {new} /\ b[new] = NewNode(p)
    BY <1>3
  <1>5. b \in Branch
    BY <1>2, <1>4, BranchIntro
  <1>6. Forest(b, {new})
    BY <1>4 DEF Forest
  <1>7. DOMAIN b \cap DOMAIN map = {}
    BY <1>2, <1>4, PlacedFacts
  <1> HIDE DEF b
  <1>8. Attached(m, map, b)
    BY <1>5, <1>6, <1>7, EditorFacts, AttachedMaps
  <1>9. Mutate(m)
    BY <1>1 DEF b
  <1> HIDE DEF m
  <1> QED
    BY <1>1, <1>2, <1>3, <1>4, <1>8, <1>9 DEF Attached

(* A copy gets ids that were never given.                                  *)
LEMMA CopyTaskFacts ==
    ASSUME EditorInv, NEW t \in Tasks, NEW b \in Branch, NEW tops,
           Forest(b, tops), NEW at \in {"after", "under"}, NEW n \in Ids,
           CopyTask(t, b, tops, at, n)
    PROVE  \E c \in Branch : \E U \in SUBSET Ids :
              /\ task' = [task EXCEPT ![t] =
                    [kind |-> "copy", branch |-> c, tops |-> U,
                     todo |-> FilesOf(c), at |-> at, node |-> n,
                     root |-> map]]
              /\ Forest(c, U)
              /\ DOMAIN c \subseteq Ids \ used
              /\ used' = used \cup DOMAIN c
              /\ Pictured(b) => Pictured(c)
  <1> DEFINE id == CHOOSE i \in Renamings(b) : TRUE
             c == WithNewIds(b, id)
             U == NewIds(id, tops)
  <1>1. id \in [DOMAIN b -> FreshIds] /\ IsInjective(id)
    BY DEF CopyTask, Renamings
  <1>2. /\ task' = [task EXCEPT ![t] =
                 [kind |-> "copy", branch |-> c, tops |-> U,
                  todo |-> FilesOf(c), at |-> at, node |-> n, root |-> map]]
        /\ used' = used \cup Range(id)
    BY DEF CopyTask, NewIds
  <1>3. FreshIds \in SUBSET Ids
    BY DEF FreshIds
  <1> HIDE DEF id
  <1>4. /\ c \in Branch /\ DOMAIN c \subseteq FreshIds
        /\ \A k \in DOMAIN c : \E o \in DOMAIN b :
              k = id[o] /\ c[k].image = b[o].image /\ c[k].files = b[o].files
        /\ U \subseteq Ids /\ Forest(c, U)
    BY <1>1, <1>3, RenamedBranches
  <1>5. DOMAIN c = Range(id)
    BY DEF WithNewIds
  <1>6. Pictured(b) => Pictured(c)
    BY <1>4 DEF Pictured
  <1> HIDE DEF c, U
  <1> QED
    BY <1>2, <1>4, <1>5, <1>6 DEF FreshIds

(* The first paste after a cut, below the node or the root.                *)
LEMMA PasteFacts ==
    ASSUME EditorInv, PlaceInv, PasteMoved
    PROVE  \E m \in Map :
              /\ Mutate(m)
              /\ Attached(m, map, clip.branch)
              /\ clip' = [clip EXCEPT !.cut = FALSE]
              /\ twice' = twice
              /\ kept' = [k \in Ids |-> IF k \in DOMAIN clip.branch
                                          THEN WordsOf(map')[k] ELSE kept[k]]
              /\ UNCHANGED <<scenario, naming, panel, task, store, saved, used>>
  <1>1. PICK n \in used :
           Mutate(Attach(map, clip.branch, clip.tops, PasteTarget(n)))
    BY DEF PasteMoved
  <1>2. PasteTarget(n) \in DOMAIN map
    BY EditorFacts DEF PasteTarget, Holds
  <1>3. clip.branch \in Branch /\ Forest(clip.branch, clip.tops)
    BY DEF EditorInv, CopiesInv
  <1>4. DOMAIN clip.branch \cap DOMAIN map = {}
    BY DEF PasteMoved, Moves
  <1> DEFINE m == Attach(map, clip.branch, clip.tops, PasteTarget(n))
  <1>5. Attached(m, map, clip.branch)
    BY <1>2, <1>3, <1>4, EditorFacts, AttachedMaps
  <1>6. Mutate(m)
    BY <1>1
  <1> HIDE DEF m
  <1>7. /\ clip' = [clip EXCEPT !.cut = FALSE]
        /\ twice' = twice
        /\ kept' = [k \in Ids |-> IF k \in DOMAIN clip.branch
                                    THEN WordsOf(map')[k] ELSE kept[k]]
        /\ UNCHANGED <<scenario, naming, panel, task, store, saved, used>>
    BY <1>4 DEF PasteMoved, UserDoes
  <1> QED
    BY <1>5, <1>6, <1>7 DEF Attached

(* A copy joins the map as it is, if its place is still there.             *)
LEMMA FinishCopyFacts ==
    ASSUME EditorInv, PlaceInv, NEW t \in Tasks, FinishCopy(t)
    PROVE  /\ task[t] \in Copying /\ task[t].todo = {}
           /\ task' = [task EXCEPT ![t] = Idle]
           /\ twice' = twice
           /\ UNCHANGED <<scenario, clip, naming, store, saved, used, kept>>
           /\ \/ Unmutated /\ UNCHANGED panel
              \/ /\ \E n \in task[t].tops : panel' = Selects(n)
                 /\ \E m \in Map :
                       Mutate(m) /\ Attached(m, map, task[t].branch)
  <1> DEFINE x == task[t]
             there == x.node \in DOMAIN map
             p == IF x.at = "under" THEN PasteTarget(x.node)
                  ELSE IF there THEN map[x.node].parent ELSE None
             m == Attach(map, x.branch, x.tops, p)
  <1>1. x \in Copying /\ x.todo = {} /\ Forest(x.branch, x.tops)
    <2>1. x.kind = "copy" /\ x.todo = {}
      BY DEF FinishCopy
    <2>2. x \in {Idle} \cup Copying \cup Uploading \cup NoteUploading
      BY DEF EditorInv, CopiesInv
    <2> HIDE DEF x
    <2>3. x \in Copying
      BY <2>1, <2>2 DEF Idle, Uploading, NoteUploading
    <2>4. QED
      BY <2>1, <2>3 DEF EditorInv, CopiesInv, Is, x
  <1>2. /\ task' = [task EXCEPT ![t] = Idle]
        /\ UNCHANGED <<scenario, clip, naming, store, saved, used, kept>>
    BY DEF FinishCopy
  <1>3. IF p = None
          THEN Unmutated /\ UNCHANGED <<panel, twice>>
          ELSE /\ Mutate(m)
               /\ twice' = twice \cup (DOMAIN x.branch \cap DOMAIN map)
               /\ \E n \in x.tops : panel' = Selects(n)
    BY DEF FinishCopy, Current
  <1>4. DOMAIN x.branch \cap DOMAIN map = {}
    <2>1. Cloned(t) = DOMAIN x.branch
      BY <1>1 DEF Cloned, Is, Copying
    <2>2. QED
      BY <2>1, PlacedFacts
  <1>5. CASE p = None
    BY <1>1, <1>2, <1>3, <1>5
  <1>6. CASE p # None
    <2>1. p \in DOMAIN map
      <3>1. PasteTarget(x.node) \in DOMAIN map
        BY EditorFacts DEF PasteTarget, Holds
      <3>2. there => map[x.node].parent \in DOMAIN map \cup {None}
        BY EditorFacts
      <3> HIDE DEF x
      <3>3. QED
        BY <1>6, <3>1, <3>2
    <2>2. x.branch \in Branch
      BY <1>1 DEF Copying
    <2> HIDE DEF p, x
    <2>3. Attached(m, map, x.branch)
      BY <1>1, <1>4, <2>1, <2>2, EditorFacts, AttachedMaps
    <2> HIDE DEF m
    <2>4. QED
      BY <1>1, <1>2, <1>3, <1>4, <1>6, <2>3 DEF x, Attached
  <1> QED
    BY <1>5, <1>6

-----------------------------------------------------------------------------
(* Files that come.                                                        *)

LEMMA SameParentsForest ==
    ASSUME NEW b, NEW c, NEW tops, Forest(b, tops), DOMAIN c = DOMAIN b,
           \A k \in DOMAIN b : c[k].parent = b[k].parent
    PROVE  Forest(c, tops)
  <1>1. ASSUME NEW T \in SUBSET DOMAIN c, tops \subseteq T, Closed(c, T)
        PROVE  T = DOMAIN c
    <2>1. Closed(b, T)
      BY <1>1 DEF Closed
    <2>2. QED
      BY <1>1, <2>1 DEF Forest
  <1> QED
    BY <1>1 DEF Forest

(* The node k of the branch has the copies gs for its file f.              *)
Swapped(y, x, k, f, gs) ==
    /\ y \in Copying
    /\ y.todo = x.todo \ {<<k, f>>}
    /\ y.at = x.at /\ y.node = x.node /\ y.tops = x.tops
    /\ DOMAIN y.branch = DOMAIN x.branch
    /\ \A j \in DOMAIN x.branch \ {k} : y.branch[j] = x.branch[j]
    /\ k \in DOMAIN x.branch =>
          y.branch[k].files = (x.branch[k].files \ {f}) \cup gs
    /\ Forest(x.branch, x.tops) => Forest(y.branch, y.tops)
    /\ Pictured(x.branch) => Pictured(y.branch)

LEMMA SwapFacts ==
    ASSUME NEW x \in Copying, NEW k \in Ids, NEW f \in Files,
           NEW gs \in SUBSET Files, gs = {} \/ \E g \in Files : gs = {g}
    PROVE  Swapped(Swap(x, k, f, gs), x, k, f, gs)
  <1> DEFINE b == x.branch
             r == WithCopies(b[k], f, gs)
             c == [b EXCEPT ![k] = r]
             y == Swap(x, k, f, gs)
  <1>1. /\ b \in Branch /\ DOMAIN b \subseteq Ids /\ b \in [DOMAIN b -> Node]
        /\ \A j \in DOMAIN b : b[j] \in Node
    <2>1. b \in Branch
      BY DEF Copying
    <2>2. QED
      BY <2>1, BranchFacts
  <1>2. y = [x EXCEPT !.todo = x.todo \ {<<k, f>>}, !.branch = c]
    BY DEF Swap, Copying
  <1>3. /\ y.todo = x.todo \ {<<k, f>>} /\ y.branch = c
        /\ y.at = x.at /\ y.node = x.node /\ y.tops = x.tops
        /\ c \in Branch => y \in Copying
    <2> HIDE DEF y, c
    <2>1. QED
      BY <1>2 DEF Copying
  <1> HIDE DEF y
  <1>4. CASE k \in DOMAIN b
    <2>1. b[k] \in Node
      BY <1>1, <1>4
    <2> DEFINE pic == IF b[k].image # f THEN b[k].image
                      ELSE IF gs = {} THEN None ELSE CHOOSE g \in gs : TRUE
    <2>2. /\ pic \in Files \cup {None}
          /\ pic # None /\ b[k].image \in b[k].files
                => pic \in (b[k].files \ {f}) \cup gs
          /\ b[k].image = None => pic = None
      <3>1. gs = {} \/ (CHOOSE g \in gs : TRUE) \in gs
        OBVIOUS
      <3>2. b[k].image \in Files \cup {None} /\ None \notin Files
        BY <2>1, EditorAssumption DEF Node
      <3>3. QED
        BY <3>1, <3>2
    <2>3. r = [b[k] EXCEPT !.files = (b[k].files \ {f}) \cup gs, !.image = pic]
      BY DEF WithCopies
    <2> HIDE DEF pic, r
    <2>4. /\ r \in Node /\ r.parent = b[k].parent
          /\ r.files = (b[k].files \ {f}) \cup gs /\ r.image = pic
      BY <2>1, <2>2, <2>3 DEF Node
    <2>5. /\ c \in [DOMAIN b -> Node] /\ DOMAIN c = DOMAIN b /\ c[k] = r
          /\ \A j \in DOMAIN b \ {k} : c[j] = b[j]
      BY <1>1, <1>4, <2>4
    <2> HIDE DEF c
    <2>6. c \in Branch
      BY <1>1, <2>5, BranchIntro
    <2>7. Forest(b, x.tops) => Forest(c, x.tops)
      BY <2>4, <2>5, SameParentsForest
    <2>8. Pictured(b) => Pictured(c)
      BY <1>4, <2>2, <2>4, <2>5 DEF Pictured
    <2>9. QED
      BY <1>3, <2>4, <2>5, <2>6, <2>7, <2>8 DEF Swapped, y
  <1>5. CASE k \notin DOMAIN b
    <2>1. c = b
      BY <1>1, <1>5
    <2> HIDE DEF c
    <2>2. QED
      BY <1>1, <1>3, <1>5, <2>1 DEF Swapped, y
  <1> QED
    BY <1>4, <1>5

(* One file of a copy is answered.                                         *)
LEMMA CopyFileFacts ==
    ASSUME EditorInv, NEW t \in Tasks, CopyFile(t)
    PROVE  /\ task[t] \in Copying
           /\ \E k \in Ids, f \in Files, gs \in SUBSET FreshFiles :
                 /\ <<k, f>> \in task[t].todo
                 /\ gs = {} \/ \E g \in FreshFiles : gs = {g}
                 /\ task' = [task EXCEPT ![t] = Swap(task[t], k, f, gs)]
                 /\ Swapped(task'[t], task[t], k, f, gs)
                 /\ store.given \cup gs \subseteq store'.given
           /\ store' \in [has : SUBSET Files, given : SUBSET Files]
           /\ Unmutated
           /\ UNCHANGED <<scenario, clip, naming, panel, saved, used, twice,
                          kept>>
  <1>1. task[t] \in Copying
    <2>1. task[t].kind = "copy"
      BY DEF CopyFile
    <2>2. task[t] \in {Idle} \cup Copying \cup Uploading \cup NoteUploading
      BY DEF EditorInv, CopiesInv
    <2>3. QED
      BY <2>1, <2>2 DEF Idle, Uploading, NoteUploading
  <1>2. store \in [has : SUBSET Files, given : SUBSET Files]
    BY DEF EditorInv, PartsTypeOK
  <1>3. task \in [Tasks -> {Idle} \cup Copying \cup Uploading \cup NoteUploading]
    BY DEF EditorInv, CopiesInv
  <1>4. PICK p \in task[t].todo :
          \/ \E g \in FreshFiles :
                /\ store' = CopyOf(p[2], g)
                /\ task' = [task EXCEPT ![t] = Swap(task[t], p[1], p[2], {g})]
          \/ /\ task' = [task EXCEPT ![t] = Swap(task[t], p[1], p[2], {})]
             /\ UNCHANGED store
    BY DEF CopyFile
  <1>5. p \in Ids \X Files
    BY <1>1 DEF Copying
  <1>6. p[1] \in Ids /\ p[2] \in Files /\ p = <<p[1], p[2]>>
    BY <1>5
  <1>7. PICK gs \in SUBSET FreshFiles :
          /\ gs = {} \/ \E g \in FreshFiles : gs = {g}
          /\ task' = [task EXCEPT ![t] = Swap(task[t], p[1], p[2], gs)]
          /\ store.given \cup gs \subseteq store'.given
          /\ store' \in [has : SUBSET Files, given : SUBSET Files]
    <2>1. CASE \E g \in FreshFiles :
                /\ store' = CopyOf(p[2], g)
                /\ task' = [task EXCEPT ![t] = Swap(task[t], p[1], p[2], {g})]
      <3>1. PICK g \in FreshFiles :
                /\ store' = CopyOf(p[2], g)
                /\ task' = [task EXCEPT ![t] = Swap(task[t], p[1], p[2], {g})]
        BY <2>1
      <3>2. /\ store.given \cup {g} \subseteq store'.given
            /\ store' \in [has : SUBSET Files, given : SUBSET Files]
        BY <1>2, <3>1 DEF CopyOf, FreshFiles
      <3>3. {g} \in SUBSET FreshFiles
        OBVIOUS
      <3>4. QED
        BY <3>1, <3>2, <3>3
    <2>2. CASE /\ task' = [task EXCEPT ![t] = Swap(task[t], p[1], p[2], {})]
               /\ UNCHANGED store
      <3>1. {} \in SUBSET FreshFiles
        OBVIOUS
      <3>2. /\ store.given \cup {} \subseteq store'.given
            /\ store' \in [has : SUBSET Files, given : SUBSET Files]
        BY <1>2, <2>2
      <3>3. QED
        BY <2>2, <3>1, <3>2
    <2>3. QED
      BY <1>4, <2>1, <2>2
  <1>8. task'[t] = Swap(task[t], p[1], p[2], gs)
    BY <1>3, <1>7
  <1>9. Swapped(task'[t], task[t], p[1], p[2], gs)
    <2>1. gs \in SUBSET Files /\ (gs = {} \/ \E g \in Files : gs = {g})
      BY <1>7 DEF FreshFiles
    <2>2. QED
      BY <1>1, <1>6, <1>8, <2>1, SwapFacts
  <1>10. /\ Unmutated
         /\ UNCHANGED <<scenario, clip, naming, panel, saved, used, twice, kept>>
    BY DEF CopyFile
  <1> QED
    BY <1>1, <1>6, <1>7, <1>9, <1>10

-----------------------------------------------------------------------------
(* Edits of one node: its files, its picture, its note.                    *)

OneEdit(m, n, files, image, note) ==
    /\ m \in Map /\ DOMAIN m = DOMAIN map
    /\ \A k \in DOMAIN map \ {n} : m[k] = map[k]
    /\ m[n].parent = map[n].parent /\ m[n].look = map[n].look
    /\ m[n].files = files /\ m[n].image = image /\ m[n].note = note

LEMMA OneEditIntro ==
    ASSUME EditorInv, NEW n \in DOMAIN map, NEW r \in Node,
           r.parent = map[n].parent, r.look = map[n].look
    PROVE  OneEdit([map EXCEPT ![n] = r], n, r.files, r.image, r.note)
  <1>1. map \in Map
    BY EditorFacts
  <1>2. /\ [map EXCEPT ![n] = r] \in Map
        /\ DOMAIN [map EXCEPT ![n] = r] = DOMAIN map
        /\ [map EXCEPT ![n] = r][n] = r
        /\ \A k \in DOMAIN map \ {n} : [map EXCEPT ![n] = r][k] = map[k]
    BY <1>1, EditedMaps
  <1> QED
    BY <1>2 DEF OneEdit

(* A note is put into its node, if that is still in the map.               *)
LEMMA NoteEdit ==
    ASSUME EditorInv, NEW n \in DOMAIN map, NEW text \in Text,
           Mutate([map EXCEPT ![n].note = text])
    PROVE  \E m \in Map :
              /\ Mutate(m)
              /\ OneEdit(m, n, map[n].files, map[n].image, text)
  <1> DEFINE r == [map[n] EXCEPT !.note = text]
  <1>1. map[n] \in Node
    BY EditorFacts
  <1>2. /\ r \in Node /\ r.parent = map[n].parent /\ r.look = map[n].look
        /\ r.files = map[n].files /\ r.image = map[n].image /\ r.note = text
    BY <1>1 DEF Node, Text
  <1>3. Mutate([map EXCEPT ![n] = r])
    OBVIOUS
  <1> HIDE DEF r
  <1>4. OneEdit([map EXCEPT ![n] = r], n, r.files, r.image, r.note)
    BY <1>2, OneEditIntro
  <1> QED
    BY <1>2, <1>3, <1>4 DEF OneEdit

LEMMA CommitFacts ==
    ASSUME EditorInv, panel.open, CommitNotes
    PROVE  \/ Unmutated /\ (Holds(panel.node) =>
                              map[panel.node].note = panel.text)
           \/ \E m \in Map :
                 /\ Holds(panel.node) /\ Mutate(m)
                 /\ OneEdit(m, panel.node, map[panel.node].files,
                            map[panel.node].image, panel.text)
  <1>1. panel.text \in Text
    BY DEF EditorInv, PartsTypeOK
  <1> QED
    BY <1>1, NoteEdit DEF CommitNotes, Holds

LEMMA DeleteNotesFacts ==
    ASSUME EditorInv, DeleteNotes
    PROVE  \/ Unmutated /\ ~Holds(panel.node)
           \/ \E m \in Map :
                 /\ Holds(panel.node) /\ Mutate(m)
                 /\ OneEdit(m, panel.node, map[panel.node].files,
                            map[panel.node].image, {})
  <1>1. {} \in Text
    BY DEF Text
  <1> QED
    BY <1>1, NoteEdit DEF DeleteNotes, Holds

LEMMA WithNoteEdit ==
    ASSUME EditorInv, NEW n \in DOMAIN map, NEW files \in SUBSET Files,
           NEW text \in Text,
           Mutate([map EXCEPT ![n] = WithNote(@, files, text)])
    PROVE  \E m \in Map :
              Mutate(m) /\ OneEdit(m, n, files, map[n].image, text)
  <1> DEFINE r == WithNote(map[n], files, text)
  <1>1. map[n] \in Node
    BY EditorFacts
  <1>2. /\ r \in Node /\ r.parent = map[n].parent /\ r.look = map[n].look
        /\ r.files = files /\ r.image = map[n].image /\ r.note = text
    BY <1>1 DEF WithNote, Node, Text
  <1>3. Mutate([map EXCEPT ![n] = r])
    OBVIOUS
  <1> HIDE DEF r
  <1>4. OneEdit([map EXCEPT ![n] = r], n, r.files, r.image, r.note)
    BY <1>2, OneEditIntro
  <1> QED
    BY <1>2, <1>3, <1>4 DEF OneEdit

LEMMA DeleteAttachmentFacts ==
    ASSUME EditorInv, DeleteNotesAttachment
    PROVE  /\ \E m \in Map, f \in Files :
                 /\ Holds(panel.node) /\ Mutate(m)
                 /\ OneEdit(m, panel.node, map[panel.node].files \ {f},
                            map[panel.node].image, map[panel.node].note \ {f})
                 /\ panel' = [panel EXCEPT !.text = map[panel.node].note \ {f}]
           /\ store' \in [has : SUBSET Files, given : SUBSET Files]
           /\ store'.given = store.given
           /\ panel.open /\ Ops("note_files")
           /\ UNCHANGED <<scenario, clip, naming, task, saved, used, twice, kept>>
  <1> DEFINE n == panel.node
  <1>1. n \in DOMAIN map /\ map[n] \in Node
    BY EditorFacts DEF DeleteNotesAttachment, Holds
  <1>2. PICK f \in map[n].files :
           /\ Mutate([map EXCEPT ![n] =
                        WithNote(@, @.files \ {f}, @.note \ {f})])
           /\ panel' = [panel EXCEPT !.text = map[n].note \ {f}]
           /\ \/ store' = [store EXCEPT !.has = @ \ {f}]
              \/ UNCHANGED store
    BY DEF DeleteNotesAttachment
  <1>3. /\ f \in Files /\ map[n].files \ {f} \in SUBSET Files
        /\ map[n].note \ {f} \in Text
    BY <1>1 DEF Node, Text
  <1>4. \E m \in Map : Mutate(m) /\ OneEdit(m, n, map[n].files \ {f},
                                            map[n].image, map[n].note \ {f})
    BY <1>1, <1>2, <1>3, WithNoteEdit
  <1>5. store \in [has : SUBSET Files, given : SUBSET Files]
    BY DEF EditorInv, PartsTypeOK
  <1>6. store' \in [has : SUBSET Files, given : SUBSET Files]
        /\ store'.given = store.given
    BY <1>2, <1>5
  <1>7. /\ panel.open /\ Ops("note_files")
        /\ UNCHANGED <<scenario, clip, naming, task, saved, used, twice, kept>>
    BY DEF DeleteNotesAttachment, UserDoes
  <1> QED
    BY <1>1, <1>2, <1>3, <1>4, <1>6, <1>7 DEF Holds

(* An upload for a node is answered.                                       *)
LEMMA FinishUploadFacts ==
    ASSUME EditorInv, NEW t \in Tasks, FinishUpload(t)
    PROVE  /\ Is(t, "upload")
           /\ task' = [task EXCEPT ![t] = Idle]
           /\ panel' = panel \/ \E n \in Ids : panel' = Selects(n)
           /\ UNCHANGED <<scenario, clip, naming, saved, used, twice, kept>>
           /\ \/ Unmutated /\ UNCHANGED store
              \/ \E f \in FreshFiles : Unmutated /\ store' = Stored(f)
              \/ \E m \in Map, f \in FreshFiles :
                    LET n == task[t].node
                    IN  /\ n \in DOMAIN map /\ store' = Stored(f) /\ Mutate(m)
                        /\ \/ OneEdit(m, n, map[n].files \cup {f}, f, map[n].note)
                           \/ OneEdit(m, n, map[n].files \cup {f}, map[n].image,
                                      map[n].note)
              \/ \E m \in Map :
                    LET n == task[t].node
                    IN  /\ n \in DOMAIN map /\ UNCHANGED store /\ Mutate(m)
                        /\ OneEdit(m, n, map[n].files, None, map[n].note)
  <1> DEFINE n == task[t].node
             how == task[t].how
  <1>1. /\ task[t].kind = "upload"
        /\ task' = [task EXCEPT ![t] = Idle]
        /\ UNCHANGED <<scenario, clip, naming, saved, used, twice, kept>>
        /\ \/ \E f \in FreshFiles :
                 /\ store' = Stored(f)
                 /\ IF n \in DOMAIN map
                      THEN /\ Mutate([map EXCEPT ![n] = WithFile(@, f, how)])
                           /\ panel' = IF how = "drop" THEN Selects(n)
                                                       ELSE panel
                      ELSE Unmutated /\ UNCHANGED panel
           \/ /\ IF how = "image" /\ n \in DOMAIN map
                   THEN Mutate([map EXCEPT ![n].image = None])
                   ELSE Unmutated
              /\ UNCHANGED <<store, panel>>
    BY DEF FinishUpload, Current
  <1>2. n \in Ids
    <2>1. task[t] \in {Idle} \cup Copying \cup Uploading \cup NoteUploading
      BY DEF EditorInv, CopiesInv
    <2>2. QED
      BY <1>1, <2>1 DEF Idle, Copying, Uploading, NoteUploading
  <1> HIDE DEF n, how
  <1>3. ASSUME NEW f \in FreshFiles, n \in DOMAIN map,
               Mutate([map EXCEPT ![n] = WithFile(@, f, how)])
        PROVE  \E m \in Map :
                  /\ Mutate(m)
                  /\ \/ OneEdit(m, n, map[n].files \cup {f}, f, map[n].note)
                     \/ OneEdit(m, n, map[n].files \cup {f}, map[n].image,
                                map[n].note)
    <2> DEFINE r == WithFile(map[n], f, how)
    <2>1. map[n] \in Node /\ f \in Files
      BY <1>3, EditorFacts DEF FreshFiles
    <2>2. /\ r \in Node /\ r.parent = map[n].parent /\ r.look = map[n].look
          /\ r.files = map[n].files \cup {f}
          /\ r.image \in {f, map[n].image} /\ r.note = map[n].note
      BY <2>1 DEF WithFile, Node
    <2>3. Mutate([map EXCEPT ![n] = r])
      BY <1>3
    <2> HIDE DEF r
    <2>4. OneEdit([map EXCEPT ![n] = r], n, r.files, r.image, r.note)
      BY <1>3, <2>2, OneEditIntro
    <2>5. [map EXCEPT ![n] = r] \in Map
      BY <2>4 DEF OneEdit
    <2>6. \/ OneEdit([map EXCEPT ![n] = r], n, map[n].files \cup {f}, f, map[n].note)
          \/ OneEdit([map EXCEPT ![n] = r], n, map[n].files \cup {f},
                     map[n].image, map[n].note)
      BY <2>2, <2>4
    <2>7. QED
      BY <2>3, <2>5, <2>6
  <1>4. ASSUME n \in DOMAIN map, Mutate([map EXCEPT ![n].image = None])
        PROVE  \E m \in Map :
                  Mutate(m) /\ OneEdit(m, n, map[n].files, None, map[n].note)
    <2> DEFINE r == [map[n] EXCEPT !.image = None]
    <2>1. map[n] \in Node
      BY <1>4, EditorFacts
    <2>2. /\ r \in Node /\ r.parent = map[n].parent /\ r.look = map[n].look
          /\ r.files = map[n].files /\ r.image = None /\ r.note = map[n].note
      BY <2>1 DEF Node
    <2>3. Mutate([map EXCEPT ![n] = r])
      BY <1>4
    <2> HIDE DEF r
    <2>4. OneEdit([map EXCEPT ![n] = r], n, r.files, r.image, r.note)
      BY <1>4, <2>2, OneEditIntro
    <2>5. QED
      BY <2>2, <2>3, <2>4 DEF OneEdit
  <1>5. panel' = panel \/ panel' = Selects(n)
    BY <1>1
  <1>6. \/ Unmutated /\ UNCHANGED store
        \/ \E f \in FreshFiles : Unmutated /\ store' = Stored(f)
        \/ \E m \in Map, f \in FreshFiles :
              /\ n \in DOMAIN map /\ store' = Stored(f) /\ Mutate(m)
              /\ \/ OneEdit(m, n, map[n].files \cup {f}, f, map[n].note)
                 \/ OneEdit(m, n, map[n].files \cup {f}, map[n].image,
                            map[n].note)
        \/ \E m \in Map :
              /\ n \in DOMAIN map /\ UNCHANGED store /\ Mutate(m)
              /\ OneEdit(m, n, map[n].files, None, map[n].note)
    BY <1>1, <1>3, <1>4
  <1>7. Is(t, "upload")
    BY <1>1 DEF Is
  <1>8. /\ task' = [task EXCEPT ![t] = Idle]
        /\ UNCHANGED <<scenario, clip, naming, saved, used, twice, kept>>
    BY <1>1
  <1> QED
    BY <1>2, <1>5, <1>6, <1>7, <1>8 DEF n

LEMMA FinishNoteUploadFacts ==
    ASSUME EditorInv, NEW t \in Tasks, FinishNoteUpload(t)
    PROVE  /\ Is(t, "note")
           /\ task' = [task EXCEPT ![t] = Idle]
           /\ UNCHANGED <<scenario, clip, naming, saved, used, twice, kept>>
           /\ panel' \in {panel} \cup
                 {[panel EXCEPT !.doc = x, !.text = x] : x \in Text}
           /\ \/ Unmutated /\ UNCHANGED store
              \/ \E f \in FreshFiles : Unmutated /\ store' = Stored(f)
              \/ \E m \in Map, f \in FreshFiles, text \in Text :
                    LET n == task[t].node
                    IN  /\ n \in DOMAIN map /\ store' = Stored(f) /\ Mutate(m)
                        /\ OneEdit(m, n, map[n].files \cup {f}, map[n].image,
                                   text)
  <1> DEFINE n == task[t].node
             text(f) == NoteForLink(t) \cup {f}
  <1>1. /\ task[t].kind = "note"
        /\ task' = [task EXCEPT ![t] = Idle]
        /\ UNCHANGED <<scenario, clip, naming, saved, used, twice, kept>>
        /\ \/ \E f \in FreshFiles :
                 /\ store' = Stored(f)
                 /\ panel' = IF panel.open
                               THEN [panel EXCEPT !.doc = text(f),
                                                  !.text = text(f)]
                               ELSE panel
                 /\ IF n \in DOMAIN map
                      THEN Mutate([map EXCEPT ![n] =
                                     WithNote(@, @.files \cup {f}, text(f))])
                      ELSE Unmutated
           \/ Unmutated /\ UNCHANGED <<store, panel>>
    BY DEF FinishNoteUpload, Current
  <1>2. NoteForLink(t) \in Text
    <2>1. task[t] \in {Idle} \cup Copying \cup Uploading \cup NoteUploading
      BY DEF EditorInv, CopiesInv
    <2>2. task[t] \in NoteUploading
      <3>1. task[t].kind = "note"
        BY <1>1
      <3>2. QED
        BY <2>1, <3>1 DEF Idle, Copying, Uploading
    <2>3. panel.doc \in Text
      BY DEF EditorInv, PartsTypeOK
    <2>4. QED
      BY <2>2, <2>3 DEF NoteForLink, NoteUploading
  <1>3. \A f \in FreshFiles : text(f) \in Text /\ f \in Files
    BY <1>2 DEF Text, FreshFiles
  <1> HIDE DEF n, text
  <1>4. CASE Unmutated /\ UNCHANGED <<store, panel>>
    BY <1>1, <1>4 DEF Is
  <1>5. ASSUME NEW f \in FreshFiles,
               store' = Stored(f),
               panel' = IF panel.open
                          THEN [panel EXCEPT !.doc = text(f), !.text = text(f)]
                          ELSE panel,
               IF n \in DOMAIN map
                 THEN Mutate([map EXCEPT ![n] =
                                WithNote(@, @.files \cup {f}, text(f))])
                 ELSE Unmutated
        PROVE  /\ panel' \in {panel} \cup
                     {[panel EXCEPT !.doc = x, !.text = x] : x \in Text}
               /\ \/ Unmutated /\ store' = Stored(f)
                  \/ \E m \in Map, x \in Text :
                        /\ n \in DOMAIN map /\ store' = Stored(f) /\ Mutate(m)
                        /\ OneEdit(m, n, map[n].files \cup {f}, map[n].image, x)
    <2>1. text(f) \in Text /\ f \in Files
      BY <1>3
    <2>2. panel' \in {panel} \cup
                     {[panel EXCEPT !.doc = x, !.text = x] : x \in Text}
      BY <1>5, <2>1
    <2>3. ASSUME n \in DOMAIN map
          PROVE  \E m \in Map : Mutate(m) /\ OneEdit(m, n, map[n].files \cup {f},
                                                    map[n].image, text(f))
      <3>1. map[n].files \cup {f} \in SUBSET Files
        BY <2>1, <2>3, EditorFacts DEF Node
      <3>2. Mutate([map EXCEPT ![n] =
                      WithNote(@, map[n].files \cup {f}, text(f))])
        BY <1>5, <2>3
      <3>3. QED
        BY <2>1, <2>3, <3>1, <3>2, WithNoteEdit
    <2>4. QED
      BY <1>5, <2>1, <2>2, <2>3
  <1>6. QED
    BY <1>1, <1>4, <1>5 DEF Is, n

-----------------------------------------------------------------------------
(* The shape of everything is kept.                                        *)

LEMMA TaskPut ==
    ASSUME EditorInv, NEW t \in Tasks,
           NEW x \in {Idle} \cup Copying \cup Uploading \cup NoteUploading,
           task' = [task EXCEPT ![t] = x], clip' = clip,
           x.kind = "copy" => Forest(x.branch, x.tops)
    PROVE  CopiesInv'
  <1>1. task \in [Tasks -> {Idle} \cup Copying \cup Uploading \cup NoteUploading]
    BY DEF EditorInv, CopiesInv
  <1>2. /\ task' \in [Tasks -> {Idle} \cup Copying \cup Uploading \cup NoteUploading]
        /\ task'[t] = x /\ \A u \in Tasks \ {t} : task'[u] = task[u]
    BY <1>1
  <1>3. \A u \in Tasks : (task[u].kind = "copy" =>
                             Forest(task[u].branch, task[u].tops))
    BY DEF EditorInv, CopiesInv, Is
  <1> QED
    BY <1>2, <1>3 DEF EditorInv, CopiesInv, Is

LEMMA TaskStops ==
    ASSUME EditorInv, NEW t \in Tasks, task' = [task EXCEPT ![t] = Idle],
           clip' = clip
    PROVE  CopiesInv'
  BY TaskPut DEF Idle

LEMMA ClipPut ==
    ASSUME EditorInv, task' = task, NEW tops \in SUBSET DOMAIN map,
           NEW cut \in BOOLEAN,
           clip' = [branch |-> Clone(map, tops), tops |-> tops, cut |-> cut]
    PROVE  CopiesInv'
  <1>1. Clone(map, tops) \in Branch /\ Forest(Clone(map, tops), tops)
    BY EditorFacts, ClonedBranches
  <1>2. tops \in SUBSET Ids
    BY EditorFacts
  <1>3. /\ clip' \in [branch : Branch, tops : SUBSET Ids, cut : BOOLEAN]
        /\ clip'.branch = Clone(map, tops) /\ clip'.tops = tops
    BY <1>1, <1>2
  <1> QED
    BY <1>1, <1>3 DEF EditorInv, CopiesInv, Is

LEMMA CopyStarts ==
    ASSUME EditorInv, NEW t \in Tasks, NEW b \in Branch, NEW tops,
           Forest(b, tops), NEW at \in {"after", "under"}, NEW n \in Ids,
           CopyTask(t, b, tops, at, n), clip' = clip
    PROVE  CopiesInv' /\ used' \subseteq Ids
  <1>1. PICK c \in Branch, U \in SUBSET Ids :
           /\ task' = [task EXCEPT ![t] =
                 [kind |-> "copy", branch |-> c, tops |-> U,
                  todo |-> FilesOf(c), at |-> at, node |-> n, root |-> map]]
           /\ Forest(c, U)
           /\ DOMAIN c \subseteq Ids \ used
           /\ used' = used \cup DOMAIN c
    BY CopyTaskFacts
  <1> DEFINE x == [kind |-> "copy", branch |-> c, tops |-> U,
                   todo |-> FilesOf(c), at |-> at, node |-> n, root |-> map]
  <1>2. FilesOf(c) \in SUBSET (Ids \X Files)
    <2>1. DOMAIN c \subseteq Ids
      BY <1>1
    <2>2. QED
      BY <2>1 DEF FilesOf
  <1>3. x \in Copying /\ x.branch = c /\ x.tops = U
    BY <1>2, EditorFacts DEF Copying
  <1> HIDE DEF x
  <1>4. CopiesInv'
    BY <1>1, <1>3, TaskPut DEF x
  <1> QED
    BY <1>1, <1>4, EditorFacts

LEMMA PartsStep ==
    ASSUME EditorInv, UNCHANGED <<scenario, naming, store, saved, used, kept>>,
           dirty' \in BOOLEAN,
           panel' \in [open : BOOLEAN, node : Ids \cup {None}, text : Text,
                       doc : Text, selected : Ids \cup {None}],
           panel'.open => panel'.node \in Ids
    PROVE  PartsTypeOK'
  BY DEF EditorInv, PartsTypeOK

LEMMA PanelType ==
    ASSUME EditorInv
    PROVE  /\ panel \in [open : BOOLEAN, node : Ids \cup {None}, text : Text,
                         doc : Text, selected : Ids \cup {None}]
           /\ panel.open => panel.node \in Ids
           /\ dirty \in BOOLEAN
           /\ \A n \in Ids :
                 /\ Selects(n) \in
                       [open : BOOLEAN, node : Ids \cup {None}, text : Text,
                        doc : Text, selected : Ids \cup {None}]
                 /\ Selects(n).open = panel.open
                 /\ Selects(n).node = panel.node
                 /\ Selects(n).text = panel.text
                 /\ Selects(n).doc = panel.doc
           /\ ClosedPanel \in
                 [open : BOOLEAN, node : Ids \cup {None}, text : Text,
                  doc : Text, selected : Ids \cup {None}]
           /\ ~ClosedPanel.open
  BY DEF EditorInv, PartsTypeOK, Selects, ClosedPanel, Text

LEMMA MovedKeepsHistory ==
    ASSUME EditorInv, Moved, PartsTypeOK', CopiesInv'
    PROVE  EditorInv'
  BY HistoryStep DEF Moved, EditorInv

(* Edits that leave the files where they are.                              *)
LEMMA TrimStep ==
    ASSUME EditorInv, Trimmed,
           UNCHANGED <<scenario, clip, panel, task, store, saved, used, kept>>,
           naming' \in [id : Ids \cup {None}, soon : Ids \cup {None}]
    PROVE  EditorInv' /\ Moved
  <1>1. Moved
    BY TrimmedIsMoved DEF Moved
  <1>2. dirty' \in BOOLEAN
    BY PanelType DEF Trimmed, Unmutated, Mutate
  <1>3. PartsTypeOK'
    BY <1>2 DEF EditorInv, PartsTypeOK
  <1>4. CopiesInv'
    BY DEF EditorInv, CopiesInv, Is
  <1> QED
    BY <1>1, <1>3, <1>4, MovedKeepsHistory

TrimsOnly ==
    \/ DeleteNodes \/ Reparent \/ EditFields \/ RemoveNodeImage \/ StartEditing
    \/ CommitEdit \/ CancelEdit

LEMMA TrimsOnlyFacts ==
    ASSUME EditorInv, TrimsOnly
    PROVE  /\ Trimmed
           /\ naming' \in [id : Ids \cup {None}, soon : Ids \cup {None}]
           /\ UNCHANGED <<scenario, clip, panel, task, store, saved, used,
                          twice, kept>>
  <1>1. naming \in [id : Ids \cup {None}, soon : Ids \cup {None}]
    BY DEF EditorInv, PartsTypeOK
  <1>2. CASE DeleteNodes
    BY <1>1, <1>2, DeleteTrims DEF DeleteNodes, UserDoes
  <1>3. CASE Reparent
    BY <1>1, <1>3, ReparentTrims DEF Reparent, UserDoes
  <1>4. CASE EditFields
    BY <1>1, <1>4, EditFieldsTrims DEF EditFields, UserDoes
  <1>5. CASE RemoveNodeImage
    <2>1. Trimmed
      BY <1>5, RemoveImageTrims DEF RemoveNodeImage
    <2>2. QED
      BY <1>1, <1>5, <2>1 DEF RemoveNodeImage, UserDoes
  <1>6. CASE StartEditing
    <2>1. PICK n \in DOMAIN map : naming' = [naming EXCEPT !.id = n]
      BY <1>6 DEF StartEditing
    <2>2. n \in Ids
      BY EditorFacts
    <2>3. naming' \in [id : Ids \cup {None}, soon : Ids \cup {None}]
      BY <1>1, <2>1, <2>2
    <2>4. QED
      BY <1>6, <2>3 DEF StartEditing, UserDoes, Trimmed
  <1>7. CASE CommitEdit
    <2>1. Trimmed
      BY <1>7, CommitEditTrims
    <2>2. naming' \in [id : Ids \cup {None}, soon : Ids \cup {None}]
      BY <1>1, <1>7 DEF CommitEdit
    <2>3. QED
      BY <1>7, <2>1, <2>2 DEF CommitEdit
  <1>8. CASE CancelEdit
    <2>1. Trimmed
      BY <1>8, CancelEditTrims
    <2>2. naming' \in [id : Ids \cup {None}, soon : Ids \cup {None}]
      BY <1>1, <1>8 DEF CancelEdit
    <2>3. QED
      BY <1>8, <2>1, <2>2 DEF CancelEdit
  <1> QED
    BY <1>2, <1>3, <1>4, <1>5, <1>6, <1>7, <1>8 DEF TrimsOnly


LEMMA DuplicateFacts ==
    ASSUME EditorInv, DuplicateNode
    PROVE  \E n \in Ids, t \in Tasks :
              /\ n \in DOMAIN map
              /\ Clone(map, {n}) \in Branch /\ Forest(Clone(map, {n}), {n})
              /\ CopyTask(t, Clone(map, {n}), {n}, "after", n)
  <1>1. PICK n \in DOMAIN map \ {Root}, t \in Tasks :
           CopyTask(t, Clone(map, {n}), {n}, "after", n)
    BY DEF DuplicateNode
  <1>2. {n} \subseteq DOMAIN map /\ n \in Ids
    BY EditorFacts
  <1>3. Clone(map, {n}) \in Branch /\ Forest(Clone(map, {n}), {n})
    BY <1>2, EditorFacts, ClonedBranches
  <1> QED
    BY <1>1, <1>2, <1>3

LEMMA PasteCopiesFacts ==
    ASSUME EditorInv, PasteCopies
    PROVE  /\ \E n \in Ids, t \in Tasks :
                 CopyTask(t, clip.branch, clip.tops, "under", n)
           /\ clip.branch \in Branch /\ Forest(clip.branch, clip.tops)
  BY EditorFacts DEF PasteCopies, EditorInv, CopiesInv

LEMMA BeginSaveFacts ==
    ASSUME Save \/ Autosave
    PROVE  /\ saved' = [saved EXCEPT !.now = map, !.failed = FALSE]
           /\ dirty' = FALSE
           /\ UNCHANGED <<scenario, map, history, clip, naming, panel, task,
                          store, used, twice, kept>>
  BY DEF Save, Autosave, BeginSave, UserDoes

(* The words of a map's notes.                                             *)
LEMMA WordsOfFacts ==
    ASSUME NEW m \in Map
    PROVE  /\ WordsOf(m) \in [Ids -> SUBSET Words]
           /\ \A n \in Ids \ DOMAIN m : WordsOf(m)[n] = {}
           /\ \A n \in DOMAIN m : WordsOf(m)[n] = m[n].note \cap Words
  BY MapFacts DEF WordsOf

LEMMA EditorStepStructure ==
    ASSUME EditorInv, PlaceInv,
           InsertNode \/ OpenInsertion \/ Undo \/ Redo
    PROVE  EditorInv' /\ Moved
  <1>1. CASE InsertNode
    <2>1. PICK new \in Ids \ used, m \in Map :
              /\ Mutate(m)
              /\ used' = used \cup {new}
              /\ naming' = [naming EXCEPT !.soon = new]
              /\ UNCHANGED <<scenario, clip, panel, task, store, saved, twice,
                             kept>>
      BY <1>1, InsertFacts
    <2>2. PartsTypeOK'
      BY <2>1, EditorFacts DEF EditorInv, PartsTypeOK, Mutate
    <2>3. CopiesInv'
      BY <2>1 DEF EditorInv, CopiesInv, Is
    <2>4. Moved
      BY <2>1 DEF Moved, Edited
    <2>5. QED
      BY <2>2, <2>3, <2>4, MovedKeepsHistory
  <1>2. CASE OpenInsertion
    <2>1. naming.soon \in Ids
      BY <1>2 DEF OpenInsertion, EditorInv, PartsTypeOK
    <2>2. /\ panel' = Selects(naming.soon)
          /\ naming' = [id |-> naming.soon, soon |-> None]
          /\ UNCHANGED <<map, history, dirty, scenario, clip, task, store,
                         saved, used, kept>>
      BY <1>2 DEF OpenInsertion, Unmutated, Selects
    <2>3. PartsTypeOK'
      BY <2>1, <2>2, PanelType DEF EditorInv, PartsTypeOK
    <2>4. CopiesInv'
      BY <2>2 DEF EditorInv, CopiesInv, Is
    <2>5. Moved
      BY <2>2 DEF Moved, Still
    <2>6. QED
      BY <2>3, <2>4, <2>5, MovedKeepsHistory
  <1>3. CASE Undo \/ Redo
    <2>1. PICK i \in 1 .. Len(history.entries) : Restore(i)
      BY <1>3 DEF Undo, Redo, Restore
    <2>2. Moved
      BY <1>3 DEF Moved, Stepped, Undo, Redo
    <2>3. map' \in Map
      BY <2>2, HistoryStep DEF Moved
    <2>4. kept' \in [Ids -> SUBSET Words] /\ dirty' \in BOOLEAN
      BY <2>1, <2>3, WordsOfFacts DEF Restore
    <2>5. UNCHANGED <<scenario, clip, naming, panel, task, store, saved, used>>
      BY <1>3 DEF Undo, Redo, UserDoes
    <2>6. PartsTypeOK'
      BY <2>4, <2>5 DEF EditorInv, PartsTypeOK
    <2>7. CopiesInv'
      BY <2>5 DEF EditorInv, CopiesInv, Is
    <2>8. QED
      BY <2>2, <2>6, <2>7, MovedKeepsHistory
  <1> QED
    BY <1>1, <1>2, <1>3

LEMMA EditorStepCopies ==
    ASSUME EditorInv, PlaceInv,
           \/ DuplicateNode \/ CopyNodes \/ CutNodes \/ PasteMoved
           \/ PasteCopies
    PROVE  EditorInv' /\ Moved
  <1>1. CASE DuplicateNode \/ PasteCopies
    <2>1. CopiesInv' /\ used' \subseteq Ids
      <3>1. CASE DuplicateNode
        BY <3>1, DuplicateFacts, CopyStarts DEF DuplicateNode
      <3>2. CASE PasteCopies
        BY <3>2, PasteCopiesFacts, CopyStarts DEF PasteCopies
      <3>3. QED
        BY <1>1, <3>1, <3>2
    <2>2. UNCHANGED <<map, history, dirty, scenario, naming, panel, store,
                      saved, kept>>
      BY <1>1 DEF DuplicateNode, PasteCopies, UserDoes, Unmutated
    <2>3. PartsTypeOK'
      BY <2>1, <2>2 DEF EditorInv, PartsTypeOK
    <2>4. Moved
      BY <2>2 DEF Moved, Still
    <2>5. QED
      BY <2>1, <2>3, <2>4, MovedKeepsHistory
  <1>2. CASE CopyNodes
    <2>1. PICK ids \in SUBSET DOMAIN map :
             clip' = [branch |-> Clone(map, TopLevel(map, ids)),
                      tops |-> TopLevel(map, ids), cut |-> FALSE]
      BY <1>2 DEF CopyNodes
    <2>2. TopLevel(map, ids) \in SUBSET DOMAIN map
      BY DEF TopLevel
    <2>3. UNCHANGED <<map, history, dirty, scenario, naming, panel, task,
                      store, saved, used, kept>>
      BY <1>2 DEF CopyNodes, UserDoes, Unmutated
    <2>4. CopiesInv'
      BY <2>1, <2>2, <2>3, ClipPut
    <2>5. PartsTypeOK'
      BY <2>3 DEF EditorInv, PartsTypeOK
    <2>6. Moved
      BY <2>3 DEF Moved, Still
    <2>7. QED
      BY <2>4, <2>5, <2>6, MovedKeepsHistory
  <1>3. CASE CutNodes
    <2>1. PICK tops \in SUBSET DOMAIN map :
             clip' = [branch |-> Clone(map, tops), tops |-> tops, cut |-> TRUE]
      BY <1>3, CutTrims
    <2>2. UNCHANGED <<scenario, naming, panel, task, store, saved, used, kept>>
      BY <1>3 DEF CutNodes, UserDoes
    <2>3. CopiesInv'
      BY <2>1, <2>2, ClipPut
    <2>4. Moved /\ dirty' \in BOOLEAN
      BY <1>3, CutTrims, TrimmedIsMoved, PanelType
         DEF Moved, Trimmed, Unmutated, Mutate
    <2>5. PartsTypeOK'
      BY <2>2, <2>4 DEF EditorInv, PartsTypeOK
    <2>6. QED
      BY <2>3, <2>4, <2>5, MovedKeepsHistory
  <1>4. CASE PasteMoved
    <2>1. PICK m \in Map :
             /\ Mutate(m)
             /\ clip' = [clip EXCEPT !.cut = FALSE]
             /\ kept' = [k \in Ids |-> IF k \in DOMAIN clip.branch
                                         THEN WordsOf(map')[k] ELSE kept[k]]
             /\ UNCHANGED <<scenario, naming, panel, task, store, saved, used>>
      BY <1>4, PasteFacts
    <2>2. map' \in Map /\ dirty' \in BOOLEAN
      BY <2>1 DEF Mutate
    <2>3. kept' \in [Ids -> SUBSET Words]
      BY <2>1, <2>2, WordsOfFacts DEF EditorInv, PartsTypeOK
    <2>4. PartsTypeOK'
      BY <2>1, <2>2, <2>3 DEF EditorInv, PartsTypeOK
    <2>5. CopiesInv'
      BY <2>1 DEF EditorInv, CopiesInv, Is
    <2>6. Moved
      BY <2>1 DEF Moved, Edited
    <2>7. QED
      BY <2>4, <2>5, <2>6, MovedKeepsHistory
  <1> QED
    BY <1>1, <1>2, <1>3, <1>4

LEMMA EditorStepAnswers ==
    ASSUME EditorInv, PlaceInv, NEW t \in Tasks, Answer(t)
    PROVE  EditorInv' /\ Moved
  <1>1. CASE CopyFile(t)
    <2>1. PICK k \in Ids, f \in Files, gs \in SUBSET FreshFiles :
             /\ task' = [task EXCEPT ![t] = Swap(task[t], k, f, gs)]
             /\ Swapped(task'[t], task[t], k, f, gs)
      BY <1>1, CopyFileFacts
    <2>2. /\ store' \in [has : SUBSET Files, given : SUBSET Files]
          /\ UNCHANGED <<map, history, dirty, scenario, clip, naming, panel,
                         saved, used, kept>>
      BY <1>1, CopyFileFacts DEF Unmutated
    <2>3. task \in [Tasks -> {Idle} \cup Copying \cup Uploading \cup NoteUploading]
      BY DEF EditorInv, CopiesInv
    <2>4. task'[t] = Swap(task[t], k, f, gs)
      BY <2>1, <2>3
    <2>5. Forest(task[t].branch, task[t].tops)
      BY <1>1, CopyFileFacts DEF EditorInv, CopiesInv, Is, Copying
    <2>6. task'[t] \in Copying /\ Forest(task'[t].branch, task'[t].tops)
      BY <2>1, <2>5 DEF Swapped
    <2>7. CopiesInv'
      BY <2>1, <2>2, <2>4, <2>6, TaskPut
    <2>8. PartsTypeOK'
      BY <2>2 DEF EditorInv, PartsTypeOK
    <2>9. Moved
      BY <2>2 DEF Moved, Still
    <2>10. QED
      BY <2>7, <2>8, <2>9, MovedKeepsHistory
  <1>2. ASSUME task' = [task EXCEPT ![t] = Idle],
               UNCHANGED <<scenario, clip, naming, saved, used, kept>>,
               Still \/ Edited, dirty' \in BOOLEAN,
               store' \in [has : SUBSET Files, given : SUBSET Files],
               panel' \in [open : BOOLEAN, node : Ids \cup {None}, text : Text,
                           doc : Text, selected : Ids \cup {None}],
               panel'.open => panel'.node \in Ids
        PROVE  EditorInv' /\ Moved
    <2>1. CopiesInv'
      BY <1>2, TaskStops
    <2>2. PartsTypeOK'
      BY <1>2 DEF EditorInv, PartsTypeOK
    <2>3. Moved
      BY <1>2 DEF Moved
    <2>4. QED
      BY <2>1, <2>2, <2>3, MovedKeepsHistory
  <1>3. ASSUME Unmutated \/ \E m \in Map : Mutate(m)
        PROVE  (Still \/ Edited) /\ dirty' \in BOOLEAN
    BY <1>3, PanelType DEF Unmutated, Mutate, Still, Edited
  <1>4. store \in [has : SUBSET Files, given : SUBSET Files]
    BY DEF EditorInv, PartsTypeOK
  <1>5. \A f \in FreshFiles :
           Stored(f) \in [has : SUBSET Files, given : SUBSET Files]
    BY <1>4 DEF Stored, FreshFiles
  <1>6. CASE FinishCopy(t)
    <2>1. /\ task' = [task EXCEPT ![t] = Idle]
          /\ UNCHANGED <<scenario, clip, naming, store, saved, used, kept>>
          /\ Unmutated \/ \E m \in Map : Mutate(m)
          /\ panel' = panel \/ \E n \in task[t].tops : panel' = Selects(n)
          /\ task[t].tops \subseteq Ids
      BY <1>6, FinishCopyFacts DEF Copying
    <2>2. /\ panel' \in [open : BOOLEAN, node : Ids \cup {None}, text : Text,
                         doc : Text, selected : Ids \cup {None}]
          /\ panel'.open => panel'.node \in Ids
      BY <2>1, PanelType
    <2>3. QED
      BY <1>2, <1>3, <1>4, <2>1, <2>2
  <1>7. CASE FinishUpload(t)
    <2>1. /\ task' = [task EXCEPT ![t] = Idle]
          /\ panel' = panel \/ \E n \in Ids : panel' = Selects(n)
          /\ UNCHANGED <<scenario, clip, naming, saved, used, kept>>
          /\ Unmutated \/ \E m \in Map : Mutate(m)
          /\ UNCHANGED store \/ \E f \in FreshFiles : store' = Stored(f)
      BY <1>7, FinishUploadFacts
    <2>2. /\ panel' \in [open : BOOLEAN, node : Ids \cup {None}, text : Text,
                         doc : Text, selected : Ids \cup {None}]
          /\ panel'.open => panel'.node \in Ids
      BY <2>1, PanelType
    <2>3. store' \in [has : SUBSET Files, given : SUBSET Files]
      BY <1>4, <1>5, <2>1
    <2>4. QED
      BY <1>2, <1>3, <2>1, <2>2, <2>3
  <1>8. CASE FinishNoteUpload(t)
    <2>1. /\ task' = [task EXCEPT ![t] = Idle]
          /\ panel' \in {panel} \cup
                {[panel EXCEPT !.doc = x, !.text = x] : x \in Text}
          /\ UNCHANGED <<scenario, clip, naming, saved, used, kept>>
          /\ Unmutated \/ \E m \in Map : Mutate(m)
          /\ UNCHANGED store \/ \E f \in FreshFiles : store' = Stored(f)
      BY <1>8, FinishNoteUploadFacts
    <2>2. /\ panel' \in [open : BOOLEAN, node : Ids \cup {None}, text : Text,
                         doc : Text, selected : Ids \cup {None}]
          /\ panel'.open => panel'.node \in Ids
      BY <2>1, PanelType
    <2>3. store' \in [has : SUBSET Files, given : SUBSET Files]
      BY <1>4, <1>5, <2>1
    <2>4. QED
      BY <1>2, <1>3, <2>1, <2>2, <2>3
  <1> QED
    BY <1>1, <1>6, <1>7, <1>8 DEF Answer

(* An empty clipboard.                                                     *)
LEMMA NoCopies ==
    /\ NoClip \in [branch : Branch, tops : SUBSET Ids, cut : BOOLEAN]
    /\ Forest(NoClip.branch, NoClip.tops)
    /\ DOMAIN NoClip.branch = {}
  <1>1. <<>> = [x \in {} |-> {}] /\ DOMAIN <<>> = {}
    OBVIOUS
  <1>2. <<>> \in [{} -> Node]
    BY <1>1
  <1>3. <<>> \in Branch
    BY <1>2 DEF Branch
  <1>4. Forest(<<>>, {})
    BY <1>1 DEF Forest, Closed
  <1> QED
    BY <1>1, <1>3, <1>4 DEF NoClip

(* The note panel and the uploads that begin.                              *)
LEMMA EditorStepPanel ==
    ASSUME EditorInv,
           \/ StartUpload \/ StartNoteUpload
           \/ OpenNotes \/ TypeNote \/ SaveNotes \/ CloseNotes \/ DeleteNotes
           \/ DeleteNotesAttachment
    PROVE  EditorInv' /\ Moved
  <1> DEFINE Panels == [open : BOOLEAN, node : Ids \cup {None}, text : Text,
                        doc : Text, selected : Ids \cup {None}]
  <1>1. ASSUME CopiesInv', UNCHANGED <<scenario, naming, saved, used>>,
               Unmutated \/ \E m \in Map : Mutate(m),
               store' \in [has : SUBSET Files, given : SUBSET Files],
               kept' \in [Ids -> SUBSET Words],
               panel' \in Panels, panel'.open => panel'.node \in Ids
        PROVE  EditorInv' /\ Moved
    <2>1. Moved /\ dirty' \in BOOLEAN
      BY <1>1, PanelType DEF Moved, Unmutated, Mutate, Still, Edited
    <2>2. PartsTypeOK'
      BY <1>1, <2>1 DEF EditorInv, PartsTypeOK
    <2>3. QED
      BY <1>1, <2>1, <2>2, MovedKeepsHistory
  <1>2. UNCHANGED <<task, clip>> => CopiesInv'
    BY DEF EditorInv, CopiesInv, Is
  <1>3. /\ store \in [has : SUBSET Files, given : SUBSET Files]
        /\ kept \in [Ids -> SUBSET Words]
        /\ panel \in Panels /\ (panel.open => panel.node \in Ids)
        /\ ClosedPanel \in Panels /\ ~ClosedPanel.open
    BY PanelType DEF EditorInv, PartsTypeOK
  <1>4. CASE StartUpload
    <2>1. PICK n \in DOMAIN map, t \in Tasks, how \in {"attach", "drop", "image"} :
             task' = [task EXCEPT ![t] = [kind |-> "upload", how |-> how,
                                          node |-> n, root |-> map]]
      BY <1>4 DEF StartUpload
    <2> DEFINE x == [kind |-> "upload", how |-> how, node |-> n, root |-> map]
    <2>2. n \in Ids /\ map \in Map
      BY EditorFacts
    <2>3. x \in Uploading /\ x.kind # "copy"
      BY <2>2 DEF Uploading
    <2>4. /\ UNCHANGED <<scenario, naming, saved, used, store, kept, panel, clip>>
          /\ Unmutated
      BY <1>4 DEF StartUpload, UserDoes
    <2> HIDE DEF x
    <2>5. CopiesInv'
      BY <2>1, <2>3, <2>4, TaskPut DEF x
    <2> HIDE DEF Panels
    <2>6. QED
      BY <1>1, <1>3, <2>4, <2>5
  <1>5. CASE StartNoteUpload
    <2>1. PICK t \in Tasks :
             task' = [task EXCEPT ![t] = [kind |-> "note", node |-> panel.selected,
                                          text |-> panel.text, root |-> map]]
      BY <1>5 DEF StartNoteUpload
    <2> DEFINE x == [kind |-> "note", node |-> panel.selected,
                     text |-> panel.text, root |-> map]
    <2>2. panel.selected \in Ids \cup {None} /\ panel.text \in Text /\ map \in Map
      BY <1>3, EditorFacts
    <2>3. x \in NoteUploading /\ x.kind # "copy"
      BY <2>2 DEF NoteUploading
    <2>4. /\ UNCHANGED <<scenario, naming, saved, used, store, kept, panel, clip>>
          /\ Unmutated
      BY <1>5 DEF StartNoteUpload, UserDoes
    <2> HIDE DEF x
    <2>5. CopiesInv'
      BY <2>1, <2>3, <2>4, TaskPut DEF x
    <2> HIDE DEF Panels
    <2>6. QED
      BY <1>1, <1>3, <2>4, <2>5
  <1>6. CASE OpenNotes
    <2>1. PICK n \in DOMAIN map :
             panel' = [open |-> TRUE, node |-> n, text |-> map[n].note,
                       doc |-> map[n].note, selected |-> n]
      BY <1>6 DEF OpenNotes
    <2>2. n \in Ids /\ map[n].note \in Text
      BY EditorFacts DEF Node, Text
    <2>3. panel' \in Panels /\ panel'.node \in Ids
      BY <2>1, <2>2
    <2>4. /\ UNCHANGED <<scenario, naming, saved, used, store, kept, task, clip>>
          /\ Unmutated
      BY <1>6 DEF OpenNotes, UserDoes
    <2> HIDE DEF Panels
    <2>5. QED
      BY <1>1, <1>2, <1>3, <2>3, <2>4
  <1>7. CASE TypeNote
    <2>1. PICK w \in Words :
             LET add == w \notin panel.doc
                 doc == IF add THEN panel.doc \cup {w} ELSE panel.doc \ {w}
             IN  /\ panel' = [panel EXCEPT !.doc = doc, !.text = doc]
                 /\ kept' = [kept EXCEPT ![panel.node] =
                               IF add THEN @ \cup {w} ELSE @ \ {w}]
      BY <1>7 DEF TypeNote
    <2> DEFINE doc == IF w \notin panel.doc THEN panel.doc \cup {w}
                                            ELSE panel.doc \ {w}
    <2>2. panel.node \in Ids /\ panel.doc \in Text
      BY <1>3, <1>7 DEF TypeNote
    <2>3. doc \in Text
      BY <2>2 DEF Text
    <2> HIDE DEF doc
    <2>4. panel' = [panel EXCEPT !.doc = doc, !.text = doc]
      BY <2>1 DEF doc
    <2>5. panel' \in Panels /\ panel'.node = panel.node
      BY <1>3, <2>3, <2>4
    <2>6. kept' \in [Ids -> SUBSET Words]
      BY <1>3, <2>1, <2>2
    <2>7. /\ UNCHANGED <<scenario, naming, saved, used, store, task, clip>>
          /\ Unmutated
      BY <1>7 DEF TypeNote, UserDoes
    <2> HIDE DEF Panels
    <2>8. QED
      BY <1>1, <1>2, <1>3, <2>2, <2>5, <2>6, <2>7
  <1>8. CASE SaveNotes \/ CloseNotes
    <2>1. panel.open /\ CommitNotes
      BY <1>8 DEF SaveNotes, CloseNotes
    <2>2. Unmutated \/ \E m \in Map : Mutate(m)
      BY <2>1, CommitFacts
    <2>3. panel' \in Panels /\ (panel'.open => panel'.node \in Ids)
      BY <1>3, <1>8 DEF SaveNotes, CloseNotes
    <2>4. UNCHANGED <<scenario, naming, saved, used, store, kept, task, clip>>
      BY <1>8 DEF SaveNotes, CloseNotes
    <2> HIDE DEF Panels
    <2>5. QED
      BY <1>1, <1>2, <1>3, <2>2, <2>3, <2>4
  <1>9. CASE DeleteNotes
    <2>1. Unmutated \/ \E m \in Map : Mutate(m)
      BY <1>9, DeleteNotesFacts
    <2>2. kept' \in [Ids -> SUBSET Words]
      BY <1>3, <1>9 DEF DeleteNotes
    <2>3. /\ UNCHANGED <<scenario, naming, saved, used, store, task, clip>>
          /\ panel' = ClosedPanel
      BY <1>9 DEF DeleteNotes, UserDoes
    <2> HIDE DEF Panels
    <2>4. QED
      BY <1>1, <1>2, <1>3, <2>1, <2>2, <2>3
  <1>10. CASE DeleteNotesAttachment
    <2>1. PICK m \in Map, f \in Files :
             /\ Holds(panel.node) /\ Mutate(m)
             /\ panel' = [panel EXCEPT !.text = map[panel.node].note \ {f}]
      BY <1>10, DeleteAttachmentFacts
    <2>2. map[panel.node].note \ {f} \in Text
      BY <2>1, EditorFacts DEF Holds, Node, Text
    <2>3. panel' \in Panels /\ panel'.node = panel.node /\ panel'.open = panel.open
      BY <1>3, <2>1, <2>2
    <2>4. /\ UNCHANGED <<scenario, naming, saved, used, kept, task, clip>>
          /\ store' \in [has : SUBSET Files, given : SUBSET Files]
      BY <1>10, DeleteAttachmentFacts
    <2> HIDE DEF Panels
    <2>5. QED
      BY <1>1, <1>2, <1>3, <2>1, <2>3, <2>4
  <1> QED
    BY <1>4, <1>5, <1>6, <1>7, <1>8, <1>9, <1>10

(* Saving, and opening the vault again.                                    *)
LEMMA EditorStepSaves ==
    ASSUME EditorInv, Save \/ Autosave \/ SaveOk \/ SaveFail \/ Reopen
    PROVE  EditorInv' /\ Moved
  <1>1. /\ saved \in [map : Map, now : Map \cup {None}, failed : BOOLEAN]
        /\ map \in Map
        /\ dirty \in BOOLEAN
    BY EditorFacts DEF EditorInv, PartsTypeOK
  <1>2. ASSUME saved' \in [map : Map, now : Map \cup {None}, failed : BOOLEAN],
               dirty' \in BOOLEAN,
               UNCHANGED <<scenario, map, history, clip, naming, panel, task,
                           store, used, kept>>
        PROVE  EditorInv' /\ Moved
    <2>1. Moved
      BY <1>2 DEF Moved, Still
    <2>2. PartsTypeOK'
      BY <1>2 DEF EditorInv, PartsTypeOK
    <2>3. CopiesInv'
      BY <1>2 DEF EditorInv, CopiesInv, Is
    <2>4. QED
      BY <2>1, <2>2, <2>3, MovedKeepsHistory
  <1>3. CASE Save \/ Autosave
    <2>1. /\ saved' = [saved EXCEPT !.now = map, !.failed = FALSE]
          /\ dirty' = FALSE
      BY <1>3, BeginSaveFacts
    <2>2. saved' \in [map : Map, now : Map \cup {None}, failed : BOOLEAN]
      BY <1>1, <2>1
    <2>3. UNCHANGED <<scenario, map, history, clip, naming, panel, task,
                      store, used, kept>>
      BY <1>3, BeginSaveFacts
    <2>4. QED
      BY <1>2, <2>1, <2>2, <2>3
  <1>4. CASE SaveOk \/ SaveFail
    <2>1. saved' \in [map : Map, now : Map \cup {None}, failed : BOOLEAN]
      <3>1. CASE SaveOk
        BY <1>1, <3>1 DEF SaveOk
      <3>2. CASE SaveFail
        <4>1. PICK m \in {saved.now, saved.map} :
                 saved' = [map |-> m, now |-> None, failed |-> TRUE]
          BY <3>2 DEF SaveFail
        <4>2. m \in Map
          BY <1>1, <3>2 DEF SaveFail
        <4>3. QED
          BY <4>1, <4>2
      <3>3. QED
        BY <1>4, <3>1, <3>2
    <2>2. UNCHANGED <<scenario, map, history, dirty, clip, naming, panel, task,
                      store, used, kept>>
      BY <1>4 DEF SaveOk, SaveFail
    <2>3. QED
      BY <1>1, <1>2, <2>1, <2>2
  <1>5. CASE Reopen
    <2>1. /\ UNCHANGED <<scenario, panel, used>> /\ dirty' = FALSE
          /\ clip' = NoClip /\ naming' = NotNaming
          /\ task' = [t \in Tasks |-> Idle]
          /\ saved' = [saved EXCEPT !.failed = FALSE]
          /\ store' = IF scenario.local THEN Pruned ELSE store
          /\ kept' = WordsOf(saved.map)
      BY <1>5 DEF Reopen, UserDoes
    <2>2. Moved
      BY <1>5 DEF Moved, Opened, Reopen
    <2>3. store' \in [has : SUBSET Files, given : SUBSET Files]
      BY <2>1 DEF Pruned, EditorInv, PartsTypeOK
    <2>4. saved' \in [map : Map, now : Map \cup {None}, failed : BOOLEAN]
      BY <1>1, <2>1
    <2>5. kept' \in [Ids -> SUBSET Words]
      BY <1>1, <2>1, WordsOfFacts
    <2>6. naming' \in [id : Ids \cup {None}, soon : Ids \cup {None}]
      BY <2>1 DEF NotNaming
    <2>7. PartsTypeOK'
      BY <2>1, <2>3, <2>4, <2>5, <2>6 DEF EditorInv, PartsTypeOK
    <2>8. CopiesInv'
      <3>1. /\ clip' \in [branch : Branch, tops : SUBSET Ids, cut : BOOLEAN]
            /\ Forest(clip'.branch, clip'.tops)
        BY <2>1, NoCopies
      <3>2. \A t \in Tasks : task'[t].kind # "copy"
        BY <2>1 DEF Idle
      <3>3. QED
        BY <2>1, <3>1, <3>2 DEF CopiesInv, Is
    <2>9. QED
      BY <2>2, <2>7, <2>8, MovedKeepsHistory
  <1> QED
    BY <1>3, <1>4, <1>5

(* A step that says nothing leaves everything as it is.                    *)
LEMMA EditorStutters ==
    ASSUME EditorInv, UNCHANGED vars
    PROVE  EditorInv' /\ Moved
  <1>1. PartsTypeOK'
    BY DEF vars, EditorInv, PartsTypeOK
  <1>2. CopiesInv'
    BY DEF vars, EditorInv, CopiesInv, Is
  <1>3. Moved
    BY DEF vars, Moved, Still
  <1> QED
    BY <1>1, <1>2, <1>3, MovedKeepsHistory

LEMMA EditorStep ==
    ASSUME EditorInv, PlaceInv, [Next]_vars
    PROVE  EditorInv' /\ Moved
  <1>1. CASE TrimsOnly
    BY <1>1, TrimsOnlyFacts, TrimStep
  <1> QED
    BY <1>1, EditorStepStructure, EditorStepCopies, EditorStepAnswers,
       EditorStepPanel, EditorStepSaves, EditorStutters DEF Next, TrimsOnly

-----------------------------------------------------------------------------
(* What the user can bring back.                                           *)

(* What is stored, or on its way to the store, was on the screen once.     *)
LEMMA SavedStep ==
    ASSUME EditorInv, [Next]_vars
    PROVE  saved'.map \in Known /\ saved'.now \in Known \cup {None}
  <1>1. /\ map \in Known /\ saved.map \in Known
        /\ saved.now \in Known \cup {None}
        /\ saved \in [map : Map, now : Map \cup {None}, failed : BOOLEAN]
    BY DEF EditorInv, HistoryInv, PartsTypeOK, Known, Entry
  <1>2. ASSUME saved' = saved
        PROVE  saved'.map \in Known /\ saved'.now \in Known \cup {None}
    BY <1>1, <1>2
  <1>3. CASE TrimsOnly
    BY <1>2, <1>3, TrimsOnlyFacts
  <1>4. CASE InsertNode \/ OpenInsertion \/ Undo \/ Redo
    BY <1>2, <1>4 DEF InsertNode, OpenInsertion, Undo, Redo
  <1>5. CASE DuplicateNode \/ CopyNodes \/ CutNodes \/ PasteMoved \/ PasteCopies
    BY <1>2, <1>5 DEF DuplicateNode, CopyNodes, CutNodes, PasteMoved, PasteCopies
  <1>6. CASE \/ StartUpload \/ StartNoteUpload
             \/ OpenNotes \/ TypeNote \/ SaveNotes \/ CloseNotes \/ DeleteNotes
             \/ DeleteNotesAttachment
    BY <1>2, <1>6 DEF StartUpload, StartNoteUpload, OpenNotes, TypeNote,
       SaveNotes, CloseNotes, DeleteNotes, DeleteNotesAttachment
  <1>7. CASE \E t \in Tasks : Answer(t)
    BY <1>2, <1>7 DEF Answer, CopyFile, FinishCopy, FinishUpload, FinishNoteUpload
  <1>8. CASE Save \/ Autosave
    <2>1. saved' = [saved EXCEPT !.now = map, !.failed = FALSE]
      BY <1>8, BeginSaveFacts
    <2>2. QED
      BY <1>1, <2>1
  <1>9. CASE SaveOk
    BY <1>1, <1>9 DEF SaveOk
  <1>10. CASE SaveFail
    <2>1. PICK m \in {saved.now, saved.map} :
             saved' = [map |-> m, now |-> None, failed |-> TRUE]
      BY <1>10 DEF SaveFail
    <2>2. saved.now # None
      BY <1>10 DEF SaveFail
    <2>3. QED
      BY <1>1, <2>1, <2>2
  <1>11. CASE Reopen
    BY <1>1, <1>11 DEF Reopen
  <1>12. CASE UNCHANGED vars
    BY <1>2, <1>12 DEF vars
  <1> QED
    BY <1>3, <1>4, <1>5, <1>6, <1>7, <1>8, <1>9, <1>10, <1>11, <1>12
       DEF Next, TrimsOnly

(* A step adds what is on the screen and what is copied, and nothing else. *)
LEMMA KnownStep ==
    ASSUME EditorInv, PlaceInv, [Next]_vars
    PROVE  Known' \subseteq Known \cup {map', clip'.branch}
  <1>1. Moved
    BY EditorStep
  <1>2. \A k \in 1 .. Len(history'.entries) :
           history'.entries[k] \in Known \cup {map'}
    BY <1>1, HistoryStep DEF Moved, Known, Entry
  <1>3. saved'.map \in Known /\ saved'.now \in Known \cup {None}
    BY SavedStep
  <1> QED
    BY <1>2, <1>3 DEF Known, Entry

LEMMA KnownFacts ==
    ASSUME EditorInv
    PROVE  /\ Known \subseteq Branch
           /\ map \in Known /\ saved.map \in Known /\ clip.branch \in Known
           /\ \A m \in Known : DOMAIN m \subseteq Seen /\ DOMAIN m \subseteq Ids
           /\ Seen \subseteq Ids
  <1>1. /\ history.entries \in Seq(Map) /\ Len(history.entries) \in Nat
        /\ map \in {Entry(i) : i \in 1 .. Len(history.entries)}
    BY DEF EditorInv, HistoryInv, Entry
  <1>2. \A i \in 1 .. Len(history.entries) : Entry(i) \in Map
    BY <1>1 DEF Entry
  <1>3. /\ saved.map \in Map /\ saved.now \in Map \cup {None}
        /\ clip.branch \in Branch
        /\ panel.open => panel.node \in Ids
    BY DEF EditorInv, PartsTypeOK, CopiesInv
  <1>4. Known \subseteq Branch
    BY <1>2, <1>3 DEF Known, Map
  <1>5. \A m \in Known : DOMAIN m \subseteq Ids
    BY <1>4, BranchFacts
  <1>6. \A m \in Known : DOMAIN m \subseteq Seen
    BY DEF Seen
  <1>7. Seen \subseteq Ids
    <2>1. UNION {DOMAIN m : m \in Known} \subseteq Ids
      BY <1>5
    <2>2. (IF panel.open THEN {panel.node} ELSE {}) \subseteq Ids
      BY <1>3
    <2>3. QED
      BY <2>1, <2>2 DEF Seen
  <1> QED
    BY <1>1, <1>4, <1>5, <1>6, <1>7 DEF Known

(* x has no node, no file and, without the note panel's files, no picture  *)
(* that m does not have.                                                   *)
Less(x, m) ==
    /\ DOMAIN x \subseteq DOMAIN m
    /\ \A k \in DOMAIN x : x[k].files \subseteq m[k].files
    /\ Ops("note_files") \/ (Pictured(m) => Pictured(x))

(* A step that puts nothing new anywhere.                                  *)
Quiet ==
    /\ UNCHANGED <<scenario, twice>>
    /\ used \subseteq used' /\ store.given \subseteq store'.given
    /\ \A t \in Tasks : task'[t] = task[t] \/ task'[t].kind # "copy"
    /\ \E m \in Known : Less(map', m)
    /\ \E m \in Known : Less(clip'.branch, m)
    /\ panel'.open => panel'.node \in Seen

LEMMA LessFacts ==
    /\ \A m : Less(m, m)
    /\ \A m, x : DOMAIN x = {} => Less(x, m)
    /\ \A m, x : Trims(x, m) => Less(x, m)
    /\ \A m, n, note :
          \/ OneEdit(m, n, map[n].files, map[n].image, note)
          \/ OneEdit(m, n, map[n].files, None, note)
          => Less(m, map)
  BY DEF Less, Trims, Pictured, OneEdit

(* What is copied is part of the map.                                      *)
LEMMA ClonesAreLess ==
    ASSUME EditorInv, NEW tops \in SUBSET DOMAIN map
    PROVE  Less(Clone(map, tops), map)
  BY EditorFacts, ClonedBranches DEF Less, Pictured

(* Most steps are quiet.                                                   *)
Loud ==
    \/ InsertNode \/ DuplicateNode \/ PasteMoved \/ PasteCopies
    \/ \E t \in Tasks : Answer(t)

LEMMA QuietSteps ==
    ASSUME EditorInv, PlaceInv, [Next]_vars, ~Loud
    PROVE  Quiet
  <1>1. /\ map \in Known /\ clip.branch \in Known /\ saved.map \in Known
        /\ \A m \in Known : Less(m, m)
        /\ Less(map, map) /\ Less(clip.branch, clip.branch)
        /\ DOMAIN map \subseteq Seen
        /\ panel.open => panel.node \in Seen
    BY KnownFacts, LessFacts DEF Seen
  <1>2. ASSUME UNCHANGED <<scenario, twice, used, clip>>,
               store.given \subseteq store'.given,
               \A t \in Tasks : task'[t] = task[t] \/ task'[t].kind # "copy",
               \E m \in Known : Less(map', m),
               panel'.open => panel'.node \in Seen
        PROVE  Quiet
    BY <1>1, <1>2 DEF Quiet
  <1>3. CASE TrimsOnly
    <2>1. Less(map', map)
      BY <1>1, <1>3, TrimsOnlyFacts, LessFacts DEF Trimmed, Unmutated, Mutate
    <2>2. QED
      BY <1>1, <1>2, <1>3, <2>1, TrimsOnlyFacts
  <1>4. CASE OpenInsertion
    <2>1. panel'.open = panel.open /\ panel'.node = panel.node
      BY <1>4 DEF OpenInsertion, EditorInv, PartsTypeOK
    <2>2. UNCHANGED <<scenario, twice, used, clip, store, task, map>>
      BY <1>4 DEF OpenInsertion, Unmutated
    <2>3. QED
      BY <1>1, <1>2, <2>1, <2>2
  <1>5. CASE Undo \/ Redo
    <2>1. PICK i \in 1 .. Len(history.entries) : map' = history.entries[i]
      BY <1>5 DEF Undo, Redo, Restore
    <2>2. map' \in Known
      BY <2>1 DEF Known, Entry
    <2>3. UNCHANGED <<scenario, twice, used, clip, store, task, panel>>
      BY <1>5 DEF Undo, Redo, UserDoes
    <2>4. QED
      BY <1>1, <1>2, <2>2, <2>3
  <1>6. CASE CopyNodes \/ CutNodes
    <2>1. PICK tops \in SUBSET DOMAIN map : clip'.branch = Clone(map, tops)
      <3>1. CASE CopyNodes
        <4>1. PICK ids \in SUBSET DOMAIN map :
                 clip' = [branch |-> Clone(map, TopLevel(map, ids)),
                          tops |-> TopLevel(map, ids), cut |-> FALSE]
          BY <3>1 DEF CopyNodes
        <4>2. TopLevel(map, ids) \in SUBSET DOMAIN map
          BY DEF TopLevel
        <4>3. QED
          BY <4>1, <4>2
      <3>2. CASE CutNodes
        BY <3>2, CutTrims
      <3>3. QED
        BY <1>6, <3>1, <3>2
    <2>2. Less(clip'.branch, map)
      BY <2>1, ClonesAreLess
    <2>3. Less(map', map)
      <3>1. Trimmed
        BY <1>6, CutTrims DEF CopyNodes, Trimmed
      <3>2. QED
        BY <1>1, <3>1, LessFacts DEF Trimmed, Unmutated, Mutate
    <2>4. UNCHANGED <<scenario, twice, used, store, task, panel>>
      BY <1>6 DEF CopyNodes, CutNodes, UserDoes
    <2>5. QED
      BY <1>1, <2>2, <2>3, <2>4 DEF Quiet
  <1>7. CASE StartUpload \/ StartNoteUpload
    <2>1. UNCHANGED <<scenario, twice, used, clip, store, panel, map>>
      BY <1>7 DEF StartUpload, StartNoteUpload, UserDoes, Unmutated
    <2>2. task \in [Tasks -> {Idle} \cup Copying \cup Uploading \cup NoteUploading]
      BY DEF EditorInv, CopiesInv
    <2>3. \A t \in Tasks : task'[t] = task[t] \/ task'[t].kind # "copy"
      BY <1>7, <2>2 DEF StartUpload, StartNoteUpload
    <2>4. QED
      BY <1>1, <1>2, <2>1, <2>3
  <1>8. CASE OpenNotes \/ TypeNote
    <2>1. UNCHANGED <<scenario, twice, used, clip, store, task, map>>
      BY <1>8 DEF OpenNotes, TypeNote, UserDoes, Unmutated
    <2>2. panel'.open => panel'.node \in Seen
      <3>1. CASE OpenNotes
        BY <1>1, <3>1 DEF OpenNotes
      <3>2. CASE TypeNote
        <4>1. PICK x : panel' = [panel EXCEPT !.doc = x, !.text = x]
          BY <3>2 DEF TypeNote
        <4>2. panel'.node = panel.node /\ panel.open
          BY <3>2, <4>1, PanelType DEF TypeNote
        <4>3. QED
          BY <1>1, <4>2
      <3>3. QED
        BY <1>8, <3>1, <3>2
    <2>3. QED
      BY <1>1, <1>2, <2>1, <2>2
  <1>9. CASE SaveNotes \/ CloseNotes \/ DeleteNotes
    <2>1. UNCHANGED <<scenario, twice, used, clip, store, task>>
      BY <1>9 DEF SaveNotes, CloseNotes, DeleteNotes, UserDoes
    <2>2. panel'.open => panel'.node \in Seen
      BY <1>1, <1>9 DEF SaveNotes, CloseNotes, DeleteNotes, ClosedPanel
    <2>3. Less(map', map)
      <3>1. CASE SaveNotes \/ CloseNotes
        <4>1. panel.open /\ CommitNotes
          BY <3>1 DEF SaveNotes, CloseNotes
        <4>2. QED
          BY <1>1, <4>1, CommitFacts, LessFacts DEF Unmutated, Mutate
      <3>2. CASE DeleteNotes
        BY <1>1, <3>2, DeleteNotesFacts, LessFacts DEF Unmutated, Mutate
      <3>3. QED
        BY <1>9, <3>1, <3>2
    <2>4. QED
      BY <1>1, <1>2, <2>1, <2>2, <2>3
  <1>10. CASE DeleteNotesAttachment
    <2>1. /\ UNCHANGED <<scenario, clip, task, used, twice>>
          /\ store'.given = store.given /\ Ops("note_files")
      BY <1>10, DeleteAttachmentFacts
    <2>2. PICK m \in Map, f \in Files :
             /\ Mutate(m)
             /\ OneEdit(m, panel.node, map[panel.node].files \ {f},
                        map[panel.node].image, map[panel.node].note \ {f})
             /\ panel' = [panel EXCEPT !.text = map[panel.node].note \ {f}]
      BY <1>10, DeleteAttachmentFacts
    <2>3. Less(map', map)
      BY <2>1, <2>2 DEF Less, OneEdit, Mutate
    <2>4. panel'.open => panel'.node \in Seen
      BY <1>1, <2>2 DEF EditorInv, PartsTypeOK
    <2>5. QED
      BY <1>1, <1>2, <2>1, <2>3, <2>4
  <1>11. CASE Save \/ Autosave
    BY <1>1, <1>2, <1>11, BeginSaveFacts
  <1>12. CASE SaveOk \/ SaveFail
    BY <1>1, <1>2, <1>12 DEF SaveOk, SaveFail
  <1>13. CASE Reopen
    <2>1. /\ UNCHANGED <<scenario, panel, used, twice>>
          /\ clip' = NoClip /\ task' = [t \in Tasks |-> Idle]
          /\ map' = saved.map
          /\ store'.given = store.given
      BY <1>13 DEF Reopen, UserDoes, Pruned, EditorInv, PartsTypeOK
    <2>2. \A t \in Tasks : task'[t].kind # "copy"
      BY <2>1 DEF Idle
    <2>3. Less(clip'.branch, map)
      BY <2>1, NoCopies, LessFacts
    <2>4. QED
      BY <1>1, <2>1, <2>2, <2>3 DEF Quiet
  <1>14. CASE UNCHANGED vars
    BY <1>1, <1>2, <1>14 DEF vars
  <1> QED
    BY <1>3, <1>4, <1>5, <1>6, <1>7, <1>8, <1>9, <1>10, <1>11, <1>12, <1>13,
       <1>14 DEF Next, Loud, TrimsOnly

(* Duplicating and pasting begin a copy of a branch one knows.             *)
LEMMA CopiesBegin ==
    ASSUME EditorInv, DuplicateNode \/ PasteCopies
    PROVE  \E t \in Tasks, c \in Branch, x \in Copying, m \in Known :
              /\ x.branch = c /\ x.todo = FilesOf(c)
              /\ task' = [task EXCEPT ![t] = x]
              /\ DOMAIN c \subseteq Ids \ used
              /\ used' = used \cup DOMAIN c
              /\ Pictured(m) => Pictured(c)
  <1>1. ASSUME NEW t \in Tasks, NEW b \in Branch, NEW tops, Forest(b, tops),
               NEW at \in {"after", "under"}, NEW n \in Ids,
               CopyTask(t, b, tops, at, n)
        PROVE  \E c \in Branch, x \in Copying :
                  /\ x.branch = c /\ x.todo = FilesOf(c)
                  /\ task' = [task EXCEPT ![t] = x]
                  /\ DOMAIN c \subseteq Ids \ used
                  /\ used' = used \cup DOMAIN c
                  /\ Pictured(b) => Pictured(c)
    <2>1. PICK c \in Branch, U \in SUBSET Ids :
             /\ task' = [task EXCEPT ![t] =
                   [kind |-> "copy", branch |-> c, tops |-> U,
                    todo |-> FilesOf(c), at |-> at, node |-> n, root |-> map]]
             /\ Forest(c, U)
             /\ DOMAIN c \subseteq Ids \ used
             /\ used' = used \cup DOMAIN c
             /\ Pictured(b) => Pictured(c)
      BY <1>1, CopyTaskFacts
    <2> DEFINE x == [kind |-> "copy", branch |-> c, tops |-> U,
                     todo |-> FilesOf(c), at |-> at, node |-> n, root |-> map]
    <2>2. FilesOf(c) \in SUBSET (Ids \X Files)
      BY <2>1 DEF FilesOf
    <2>3. x \in Copying /\ x.branch = c /\ x.todo = FilesOf(c)
      BY <2>2, EditorFacts DEF Copying
    <2> HIDE DEF x
    <2>4. task' = [task EXCEPT ![t] = x]
      BY <2>1 DEF x
    <2>5. QED
      BY <2>1, <2>3, <2>4
  <1>2. CASE DuplicateNode
    <2>1. PICK n \in Ids, t \in Tasks :
              /\ n \in DOMAIN map
              /\ Clone(map, {n}) \in Branch /\ Forest(Clone(map, {n}), {n})
              /\ CopyTask(t, Clone(map, {n}), {n}, "after", n)
      BY <1>2, DuplicateFacts
    <2>2. Pictured(map) => Pictured(Clone(map, {n}))
      BY <2>1, EditorFacts, ClonedBranches DEF Pictured
    <2>3. map \in Known
      BY KnownFacts
    <2> HIDE DEF Pictured
    <2>4. QED
      BY <1>1, <2>1, <2>2, <2>3
  <1>3. CASE PasteCopies
    <2>1. PICK n \in Ids, t \in Tasks :
              /\ clip.branch \in Branch /\ Forest(clip.branch, clip.tops)
              /\ CopyTask(t, clip.branch, clip.tops, "under", n)
      BY <1>3, PasteCopiesFacts
    <2>2. clip.branch \in Known
      BY KnownFacts
    <2>3. QED
      BY <1>1, <2>1, <2>2
  <1> QED
    BY <1>2, <1>3

(* The maps one knows, and the panel, name ids of S only.                  *)
LEMMA SeenStep ==
    ASSUME EditorInv, PlaceInv, [Next]_vars, NEW S, Seen \subseteq S,
           DOMAIN map' \subseteq S, DOMAIN clip'.branch \subseteq S,
           panel'.open => panel'.node \in S
    PROVE  Seen' \subseteq S
  <1>1. \A m \in Known' : DOMAIN m \subseteq S
    BY KnownStep, KnownFacts
  <1> QED
    BY <1>1 DEF Seen

LEMMA ClonedFacts ==
    ASSUME EditorInv, NEW t \in Tasks, NEW x,
           x \in {Idle} \cup Copying \cup Uploading \cup NoteUploading,
           task' = [task EXCEPT ![t] = x]
    PROVE  /\ Cloned(t)' = IF x.kind = "copy" THEN DOMAIN x.branch ELSE {}
           /\ \A u \in Tasks \ {t} : Cloned(u)' = Cloned(u)
  <1>1. task \in [Tasks -> {Idle} \cup Copying \cup Uploading \cup NoteUploading]
    BY DEF EditorInv, CopiesInv
  <1>2. task'[t] = x /\ \A u \in Tasks \ {t} : task'[u] = task[u]
    BY <1>1
  <1> QED
    BY <1>2 DEF Cloned, Is

LEMMA ClonedStops ==
    ASSUME EditorInv, NEW t \in Tasks, task' = [task EXCEPT ![t] = Idle]
    PROVE  Cloned(t)' = {} /\ \A u \in Tasks \ {t} : Cloned(u)' = Cloned(u)
  <1>1. Idle.kind # "copy"
    BY DEF Idle
  <1> QED
    BY <1>1, ClonedFacts

LEMMA PlaceStepQuiet ==
    ASSUME EditorInv, PlaceInv, [Next]_vars, Quiet
    PROVE  PlaceInv'
  <1>1. /\ DOMAIN map' \subseteq Seen /\ DOMAIN clip'.branch \subseteq Seen
        /\ panel'.open => panel'.node \in Seen
    BY KnownFacts DEF Quiet, Less
  <1>2. Seen' \subseteq Seen
    BY <1>1, SeenStep
  <1>3. \A t \in Tasks : Cloned(t)' \subseteq Cloned(t)
    BY DEF Quiet, Cloned, Is
  <1>4. twice' = twice /\ used \subseteq used'
    BY DEF Quiet
  <1> QED
    BY <1>2, <1>3, <1>4 DEF PlaceInv

(* A copy is given ids nobody has.                                         *)
LEMMA PlaceStepCopies ==
    ASSUME EditorInv, PlaceInv, [Next]_vars, DuplicateNode \/ PasteCopies
    PROVE  PlaceInv'
  <1>1. /\ UNCHANGED <<map, clip, panel, twice>>
    BY DEF DuplicateNode, PasteCopies, UserDoes, Unmutated
  <1>2. PICK t \in Tasks, c \in Branch, x \in Copying :
           /\ x.branch = c
           /\ task' = [task EXCEPT ![t] = x]
           /\ DOMAIN c \subseteq Ids \ used
           /\ used' = used \cup DOMAIN c
    BY CopiesBegin
  <1>3. Seen' \subseteq Seen
    BY <1>1, SeenStep, KnownFacts DEF Seen
  <1>4. /\ Cloned(t)' = DOMAIN c
        /\ \A u \in Tasks \ {t} : Cloned(u)' = Cloned(u)
    BY <1>2, ClonedFacts DEF Copying
  <1> QED
    BY <1>1, <1>2, <1>3, <1>4 DEF PlaceInv

(* A copy joins the map; no other place has its ids.                       *)
LEMMA PlaceStepJoins ==
    ASSUME EditorInv, PlaceInv, [Next]_vars, NEW t \in Tasks, FinishCopy(t)
    PROVE  PlaceInv'
  <1>1. /\ task[t] \in Copying
        /\ task' = [task EXCEPT ![t] = Idle]
        /\ twice' = twice
        /\ UNCHANGED <<clip, used>>
        /\ \/ Unmutated /\ UNCHANGED panel
           \/ /\ \E n \in task[t].tops : panel' = Selects(n)
              /\ \E m \in Map :
                    Mutate(m) /\ Attached(m, map, task[t].branch)
    BY FinishCopyFacts
  <1>2. Cloned(t) = DOMAIN task[t].branch /\ task[t].tops \subseteq Ids
    BY <1>1 DEF Cloned, Is, Copying
  <1>3. DOMAIN map' \subseteq Seen \cup Cloned(t)
    BY <1>1, <1>2, KnownFacts DEF Attached, Mutate, Unmutated
  <1>4. panel'.open => panel'.node \in Seen
    BY <1>1, <1>2, PanelType DEF Seen
  <1>5. Seen' \subseteq Seen \cup Cloned(t)
    BY <1>1, <1>3, <1>4, SeenStep, KnownFacts
  <1>6. Cloned(t)' = {} /\ \A u \in Tasks \ {t} : Cloned(u)' = Cloned(u)
    BY <1>1, ClonedStops
  <1> QED
    BY <1>1, <1>5, <1>6 DEF PlaceInv

LEMMA PlaceStep ==
    ASSUME EditorInv, PlaceInv, [Next]_vars
    PROVE  PlaceInv'
  <1>1. CASE ~Loud
    BY <1>1, QuietSteps, PlaceStepQuiet
  <1>2. CASE InsertNode
    <2>1. PICK new \in Ids \ used, m \in Map :
              /\ Mutate(m) /\ DOMAIN m = DOMAIN map \cup {new}
              /\ used' = used \cup {new}
              /\ UNCHANGED <<clip, panel, task, twice>>
      BY <1>2, InsertFacts
    <2>2. /\ DOMAIN map' \subseteq Seen \cup {new}
          /\ DOMAIN clip'.branch \subseteq Seen \cup {new}
          /\ panel'.open => panel'.node \in Seen \cup {new}
      BY <2>1, KnownFacts DEF Mutate, Seen
    <2>3. Seen' \subseteq Seen \cup {new}
      BY <2>2, SeenStep
    <2>4. \A t \in Tasks : Cloned(t)' = Cloned(t)
      BY <2>1 DEF Cloned, Is
    <2>5. QED
      BY <2>1, <2>3, <2>4 DEF PlaceInv
  <1>3. CASE PasteMoved
    <2>1. PICK m \in Map :
              /\ Mutate(m) /\ Attached(m, map, clip.branch)
              /\ clip' = [clip EXCEPT !.cut = FALSE]
              /\ UNCHANGED <<panel, task, used, twice>>
      BY <1>3, PasteFacts
    <2>2. /\ DOMAIN map' \subseteq Seen
          /\ panel'.open => panel'.node \in Seen
      BY <2>1, KnownFacts DEF Mutate, Attached, Seen
    <2>3. clip'.branch = clip.branch
      BY <2>1 DEF EditorInv, CopiesInv
    <2>4. Seen' \subseteq Seen
      BY <2>2, <2>3, SeenStep, KnownFacts
    <2>5. \A t \in Tasks : Cloned(t)' = Cloned(t)
      BY <2>1 DEF Cloned, Is
    <2>6. QED
      BY <2>1, <2>4, <2>5 DEF PlaceInv
  <1>4. ASSUME NEW t \in Tasks, CopyFile(t)
        PROVE  PlaceInv'
    <2>1. /\ UNCHANGED <<map, clip, panel, used, twice>>
          /\ task[t] \in Copying
          /\ task'[t].kind = "copy"
          /\ DOMAIN task'[t].branch = DOMAIN task[t].branch
          /\ \E y : task' = [task EXCEPT ![t] = y]
      BY <1>4, CopyFileFacts DEF Unmutated, Swapped, Copying
    <2>2. Seen' \subseteq Seen
      BY <2>1, SeenStep, KnownFacts DEF Seen
    <2>3. task \in [Tasks -> {Idle} \cup Copying \cup Uploading \cup NoteUploading]
      BY DEF EditorInv, CopiesInv
    <2>4. \A u \in Tasks : Cloned(u)' = Cloned(u)
      BY <2>1, <2>3 DEF Cloned, Is, Copying
    <2>5. QED
      BY <2>1, <2>2, <2>4 DEF PlaceInv
  <1>5. ASSUME NEW t \in Tasks, FinishUpload(t) \/ FinishNoteUpload(t)
        PROVE  PlaceInv'
    <2>1. /\ task' = [task EXCEPT ![t] = Idle]
          /\ UNCHANGED <<clip, used, twice>>
          /\ DOMAIN map' = DOMAIN map
      BY <1>5, FinishUploadFacts, FinishNoteUploadFacts
         DEF Unmutated, Mutate, OneEdit
    <2>2. panel'.open => panel'.node \in Seen
      <3>1. CASE FinishUpload(t)
        BY <3>1, FinishUploadFacts, PanelType DEF Seen
      <3>2. CASE FinishNoteUpload(t)
        <4>1. panel' \in {panel} \cup
                 {[panel EXCEPT !.doc = x, !.text = x] : x \in Text}
          BY <3>2, FinishNoteUploadFacts
        <4>2. panel'.open = panel.open /\ panel'.node = panel.node
          BY <4>1, PanelType
        <4>3. QED
          BY <4>2 DEF Seen
      <3>3. QED
        BY <1>5, <3>1, <3>2
    <2>3. Seen' \subseteq Seen
      BY <2>1, <2>2, SeenStep, KnownFacts
    <2>4. Cloned(t)' = {} /\ \A u \in Tasks \ {t} : Cloned(u)' = Cloned(u)
      BY <2>1, ClonedStops
    <2>5. QED
      BY <2>1, <2>3, <2>4 DEF PlaceInv
  <1> QED
    BY <1>1, <1>2, <1>3, <1>4, <1>5, PlaceStepCopies, PlaceStepJoins
       DEF Loud, Answer

-----------------------------------------------------------------------------
(* Whose a file is.                                                        *)

LEMMA OwnedFacts ==
    ASSUME EditorInv
    PROVE  /\ \A m \in Known : FilesIn(m) \subseteq Owned
           /\ \A t \in Tasks : Copied(t) \subseteq Owned
  BY DEF Owned

(* A step owns what the map, the clipboard and the copies it leaves own.   *)
LEMMA OwnedStep ==
    ASSUME EditorInv, PlaceInv, [Next]_vars, NEW S, Owned \subseteq S,
           FilesIn(map') \subseteq S, FilesIn(clip'.branch) \subseteq S,
           \A t \in Tasks : Copied(t)' \subseteq S
    PROVE  Owned' \subseteq S
  <1>1. \A m \in Known' : FilesIn(m) \subseteq S
    BY KnownStep, OwnedFacts
  <1> QED
    BY <1>1 DEF Owned

(* No pair is new, or one with a file that was never given.                *)
LEMMA OwnKept ==
    ASSUME OwnInv, Owned' \subseteq Owned, store.given \subseteq store'.given
    PROVE  OwnInv'
  BY DEF OwnInv

LEMMA OwnGrows ==
    ASSUME OwnInv, NEW n, NEW f \in FreshFiles,
           Owned' \subseteq Owned \cup {<<n, f>>},
           store.given \cup {f} \subseteq store'.given
    PROVE  OwnInv'
  <1>1. \A p \in Owned : p[2] \in store.given
    BY DEF OwnInv
  <1>2. \A p \in Owned : p[2] # f
    BY <1>1 DEF FreshFiles
  <1>3. \A p \in Owned' : p \in Owned \/ (p[1] = n /\ p[2] = f)
    OBVIOUS
  <1>4. \A p \in Owned' : p[2] \in store'.given
    BY <1>1, <1>3
  <1>5. \A p, q \in Owned' : p[2] = q[2] => p[1] = q[1]
    BY <1>2, <1>3 DEF OwnInv
  <1> QED
    BY <1>4, <1>5 DEF OwnInv

LEMMA CopiedStays ==
    ASSUME NEW t \in Tasks, task'[t] = task[t] \/ task'[t].kind # "copy"
    PROVE  Copied(t)' \subseteq Copied(t)
  BY DEF Copied, Is

LEMMA CopiedStops ==
    ASSUME EditorInv, NEW t \in Tasks, task' = [task EXCEPT ![t] = Idle]
    PROVE  \A u \in Tasks : Copied(u)' \subseteq Copied(u)
  <1>1. task \in [Tasks -> {Idle} \cup Copying \cup Uploading \cup NoteUploading]
    BY DEF EditorInv, CopiesInv
  <1>2. \A u \in Tasks : task'[u] = task[u] \/ task'[u].kind # "copy"
    BY <1>1 DEF Idle
  <1> QED
    BY <1>2, CopiedStays

LEMMA LessFiles ==
    ASSUME NEW x, NEW m, Less(x, m) PROVE FilesIn(x) \subseteq FilesIn(m)
  BY DEF Less, FilesIn

LEMMA AttachedFiles ==
    ASSUME NEW x, NEW m, NEW b, Attached(x, m, b)
    PROVE  FilesIn(x) \subseteq FilesIn(m) \cup FilesIn(b)
  BY DEF Attached, FilesIn

LEMMA OneEditFiles ==
    ASSUME EditorInv, NEW m, NEW n \in DOMAIN map, NEW f, NEW image, NEW note,
           OneEdit(m, n, map[n].files \cup {f}, image, note)
    PROVE  FilesIn(m) \subseteq FilesIn(map) \cup {<<n, f>>}
  BY DEF OneEdit, FilesIn

(* A copy has a file only when it was copied, under an id of its own.      *)
LEMMA OwnStepCopyFile ==
    ASSUME EditorInv, PlaceInv, [Next]_vars, OwnInv, NEW t \in Tasks,
           CopyFile(t)
    PROVE  OwnInv'
  <1>1. PICK k \in Ids, f \in Files, gs \in SUBSET FreshFiles :
           /\ <<k, f>> \in task[t].todo
           /\ gs = {} \/ \E g \in FreshFiles : gs = {g}
           /\ task' = [task EXCEPT ![t] = Swap(task[t], k, f, gs)]
           /\ Swapped(task'[t], task[t], k, f, gs)
           /\ store.given \cup gs \subseteq store'.given
    BY CopyFileFacts
  <1>2. /\ task[t] \in Copying /\ task'[t] \in Copying
        /\ UNCHANGED <<map, clip>>
    BY <1>1, CopyFileFacts DEF Unmutated, Swapped
  <1>3. task \in [Tasks -> {Idle} \cup Copying \cup Uploading \cup NoteUploading]
    BY DEF EditorInv, CopiesInv
  <1>4. \A u \in Tasks \ {t} : task'[u] = task[u]
    BY <1>1, <1>3
  <1>5. \A u \in Tasks \ {t} : Copied(u)' \subseteq Copied(u)
    BY <1>4, CopiedStays
  <1>6. Copied(t)' \subseteq Copied(t) \cup {<<k, g>> : g \in gs}
    <2> DEFINE x == task[t]
               y == task'[t]
    <2>1. /\ y.todo = x.todo \ {<<k, f>>}
          /\ DOMAIN y.branch = DOMAIN x.branch
          /\ \A j \in DOMAIN x.branch \ {k} : y.branch[j] = x.branch[j]
          /\ k \in DOMAIN x.branch =>
                y.branch[k].files = (x.branch[k].files \ {f}) \cup gs
      BY <1>1 DEF Swapped
    <2>2. /\ Copied(t) = FilesIn(x.branch) \ x.todo
          /\ Copied(t)' = FilesIn(y.branch) \ y.todo
      BY <1>2 DEF Copied, Is, Copying
    <2> HIDE DEF x, y
    <2>3. ASSUME NEW p \in FilesIn(y.branch), p \notin y.todo
          PROVE  p \in (FilesIn(x.branch) \ x.todo) \cup {<<k, g>> : g \in gs}
      <3>1. /\ p \in Ids \X Files /\ p[1] \in DOMAIN x.branch
            /\ p[2] \in y.branch[p[1]].files /\ p = <<p[1], p[2]>>
        BY <2>1, <2>3 DEF FilesIn
      <3>2. CASE p[1] # k
        BY <2>1, <2>3, <3>1, <3>2 DEF FilesIn
      <3>3. CASE p[1] = k /\ p[2] \in gs
        BY <3>1, <3>3
      <3>4. CASE p[1] = k /\ p[2] \notin gs
        <4>1. p[2] \in x.branch[k].files /\ p[2] # f
          BY <2>1, <3>1, <3>4
        <4>2. p \in FilesIn(x.branch)
          BY <3>1, <3>4, <4>1 DEF FilesIn
        <4>3. p \notin x.todo
          BY <2>1, <2>3, <3>1, <4>1
        <4>4. QED
          BY <4>2, <4>3
      <3>5. QED
        BY <3>2, <3>3, <3>4
    <2>4. QED
      BY <2>2, <2>3
  <1>7. CASE gs = {}
    <2>1. \A u \in Tasks : Copied(u)' \subseteq Owned
      BY <1>5, <1>6, <1>7, OwnedFacts
    <2>2. Owned' \subseteq Owned
      BY <1>2, <2>1, OwnedStep, OwnedFacts, KnownFacts
    <2>3. QED
      BY <1>1, <2>2, OwnKept
  <1>8. ASSUME NEW g \in FreshFiles, gs = {g}
        PROVE  OwnInv'
    <2>1. \A u \in Tasks : Copied(u)' \subseteq Owned \cup {<<k, g>>}
      BY <1>5, <1>6, <1>8, OwnedFacts
    <2>2. Owned' \subseteq Owned \cup {<<k, g>>}
      BY <1>2, <2>1, OwnedStep, OwnedFacts, KnownFacts
    <2>3. QED
      BY <1>1, <1>8, <2>2, OwnGrows
  <1> QED
    BY <1>1, <1>7, <1>8

LEMMA OwnStep ==
    ASSUME EditorInv, PlaceInv, [Next]_vars, OwnInv
    PROVE  OwnInv'
  <1>1. ASSUME ~Loud PROVE OwnInv'
    <2>1. Quiet
      BY <1>1, QuietSteps
    <2>2. FilesIn(map') \subseteq Owned /\ FilesIn(clip'.branch) \subseteq Owned
      BY <2>1, LessFiles, OwnedFacts DEF Quiet
    <2>3. \A t \in Tasks : Copied(t)' \subseteq Owned
      BY <2>1, CopiedStays, OwnedFacts DEF Quiet
    <2>4. Owned' \subseteq Owned
      BY <2>2, <2>3, OwnedStep
    <2>5. QED
      BY <2>1, <2>4, OwnKept DEF Quiet
  <1>2. CASE InsertNode
    <2>1. PICK new \in Ids \ used, m \in Map :
              /\ Mutate(m)
              /\ DOMAIN m = DOMAIN map \cup {new}
              /\ \A k \in DOMAIN map : m[k] = map[k]
              /\ m[new].files = {}
              /\ UNCHANGED <<clip, task, store>>
      BY <1>2, InsertFacts
    <2>2. FilesIn(map') \subseteq FilesIn(map)
      BY <2>1 DEF FilesIn, Mutate
    <2>3. \A t \in Tasks : Copied(t)' \subseteq Copied(t)
      BY <2>1, CopiedStays
    <2>4. Owned' \subseteq Owned
      BY <2>1, <2>2, <2>3, OwnedStep, OwnedFacts, KnownFacts
    <2>5. QED
      BY <2>1, <2>4, OwnKept
  <1>3. CASE DuplicateNode \/ PasteCopies
    <2>1. PICK t \in Tasks, c \in Branch, x \in Copying :
              /\ x.branch = c /\ x.todo = FilesOf(c)
              /\ task' = [task EXCEPT ![t] = x]
      BY <1>3, CopiesBegin
    <2>2. UNCHANGED <<map, clip, store>>
      BY <1>3 DEF DuplicateNode, PasteCopies, Unmutated
    <2>3. task \in [Tasks -> {Idle} \cup Copying \cup Uploading \cup NoteUploading]
      BY DEF EditorInv, CopiesInv
    <2>4. task'[t] = x /\ \A u \in Tasks \ {t} : task'[u] = task[u]
      BY <2>1, <2>3
    <2>5. FilesIn(c) \subseteq FilesOf(c)
      BY DEF FilesIn, FilesOf
    <2>6. Copied(t)' = {}
      BY <2>1, <2>4, <2>5 DEF Copied
    <2>7. \A u \in Tasks : Copied(u)' \subseteq Copied(u)
      BY <2>4, <2>6, CopiedStays
    <2>8. Owned' \subseteq Owned
      BY <2>2, <2>7, OwnedStep, OwnedFacts, KnownFacts
    <2>9. QED
      BY <2>2, <2>8, OwnKept
  <1>4. CASE PasteMoved
    <2>1. PICK m \in Map :
              /\ Mutate(m) /\ Attached(m, map, clip.branch)
              /\ clip' = [clip EXCEPT !.cut = FALSE]
              /\ UNCHANGED <<task, store>>
      BY <1>4, PasteFacts
    <2>2. clip'.branch = clip.branch
      BY <2>1 DEF EditorInv, CopiesInv
    <2>3. FilesIn(map') \subseteq Owned
      BY <2>1, AttachedFiles, OwnedFacts, KnownFacts DEF Mutate
    <2>4. \A t \in Tasks : Copied(t)' \subseteq Owned
      BY <2>1, CopiedStays, OwnedFacts
    <2>5. Owned' \subseteq Owned
      BY <2>2, <2>3, <2>4, OwnedStep, OwnedFacts, KnownFacts
    <2>6. QED
      BY <2>1, <2>5, OwnKept
  <1>5. ASSUME NEW t \in Tasks, FinishCopy(t)
        PROVE  OwnInv'
    <2>1. /\ task[t] \in Copying /\ task[t].todo = {}
          /\ task' = [task EXCEPT ![t] = Idle]
          /\ UNCHANGED <<clip, store>>
          /\ \/ Unmutated
             \/ \E m \in Map : Mutate(m) /\ Attached(m, map, task[t].branch)
      BY <1>5, FinishCopyFacts
    <2>2. FilesIn(task[t].branch) \subseteq Copied(t)
      BY <2>1 DEF Copied, Is, Copying
    <2>3. FilesIn(map') \subseteq Owned
      BY <2>1, <2>2, AttachedFiles, OwnedFacts, KnownFacts DEF Mutate, Unmutated
    <2>4. \A u \in Tasks : Copied(u)' \subseteq Owned
      BY <2>1, CopiedStops, OwnedFacts
    <2>5. Owned' \subseteq Owned
      BY <2>1, <2>3, <2>4, OwnedStep, OwnedFacts, KnownFacts
    <2>6. QED
      BY <2>1, <2>5, OwnKept
  <1>6. ASSUME NEW t \in Tasks, FinishUpload(t) \/ FinishNoteUpload(t)
        PROVE  OwnInv'
    <2>1. task' = [task EXCEPT ![t] = Idle] /\ UNCHANGED clip
      BY <1>6, FinishUploadFacts, FinishNoteUploadFacts
    <2>2. \A u \in Tasks : Copied(u)' \subseteq Owned
      BY <2>1, CopiedStops, OwnedFacts
    <2>3. \A f \in FreshFiles : store.given \cup {f} \subseteq Stored(f).given
      BY DEF Stored
    <2>4. ASSUME FilesIn(map') \subseteq Owned, store.given \subseteq store'.given
          PROVE  OwnInv'
      <3>1. Owned' \subseteq Owned
        BY <2>1, <2>2, <2>4, OwnedStep, OwnedFacts, KnownFacts
      <3>2. QED
        BY <2>4, <3>1, OwnKept
    <2>5. ASSUME NEW n, NEW f \in FreshFiles, store' = Stored(f),
                 FilesIn(map') \subseteq FilesIn(map) \cup {<<n, f>>}
          PROVE  OwnInv'
      <3>1. Owned' \subseteq Owned \cup {<<n, f>>}
        BY <2>1, <2>2, <2>5, OwnedStep, OwnedFacts, KnownFacts
      <3>2. QED
        BY <2>3, <2>5, <3>1, OwnGrows
    <2> DEFINE n == task[t].node
    <2>6. \/ /\ map' = map
             /\ UNCHANGED store \/ \E f \in FreshFiles : store' = Stored(f)
          \/ \E m \in Map, f \in FreshFiles : \E image, note :
                /\ n \in DOMAIN map /\ store' = Stored(f) /\ map' = m
                /\ OneEdit(m, n, map[n].files \cup {f}, image, note)
          \/ \E m \in Map : \E note :
                /\ UNCHANGED store /\ map' = m
                /\ OneEdit(m, n, map[n].files, None, note)
      <3>1. CASE FinishUpload(t)
        BY <3>1, FinishUploadFacts DEF Unmutated, Mutate
      <3>2. CASE FinishNoteUpload(t)
        BY <3>2, FinishNoteUploadFacts DEF Unmutated, Mutate
      <3>3. QED
        BY <1>6, <3>1, <3>2
    <2> HIDE DEF n
    <2>7. CASE map' = map /\ UNCHANGED store
      BY <2>4, <2>7, OwnedFacts, KnownFacts
    <2>8. CASE map' = map /\ \E f \in FreshFiles : store' = Stored(f)
      BY <2>3, <2>4, <2>8, OwnedFacts, KnownFacts
    <2>9. CASE \E m \in Map, f \in FreshFiles : \E image, note :
                /\ n \in DOMAIN map /\ store' = Stored(f) /\ map' = m
                /\ OneEdit(m, n, map[n].files \cup {f}, image, note)
      BY <2>5, <2>9, OneEditFiles
    <2>10. CASE \E m \in Map : \E note :
                   /\ UNCHANGED store /\ map' = m
                   /\ OneEdit(m, n, map[n].files, None, note)
      <3>1. FilesIn(map') \subseteq FilesIn(map)
        BY <2>10, LessFacts, LessFiles
      <3>2. QED
        BY <2>4, <2>10, <3>1, OwnedFacts, KnownFacts
    <2>11. QED
      BY <2>6, <2>7, <2>8, <2>9, <2>10
  <1> QED
    BY <1>1, <1>2, <1>3, <1>4, <1>5, <1>6, OwnStepCopyFile DEF Loud, Answer

-----------------------------------------------------------------------------
(* Pictures.                                                               *)

LEMMA ScenarioStays ==
    ASSUME EditorInv, PlaceInv, [Next]_vars
    PROVE  scenario' = scenario
  <1>1. CASE TrimsOnly
    BY <1>1, TrimsOnlyFacts
  <1>2. CASE InsertNode \/ OpenInsertion \/ Undo \/ Redo
    BY <1>2 DEF InsertNode, OpenInsertion, Undo, Redo, UserDoes
  <1>3. CASE DuplicateNode \/ CopyNodes \/ CutNodes \/ PasteMoved \/ PasteCopies
    BY <1>3 DEF DuplicateNode, CopyNodes, CutNodes, PasteMoved, PasteCopies,
       UserDoes
  <1>4. CASE \/ StartUpload \/ StartNoteUpload
             \/ OpenNotes \/ TypeNote \/ SaveNotes \/ CloseNotes \/ DeleteNotes
             \/ DeleteNotesAttachment
    BY <1>4 DEF StartUpload, StartNoteUpload, OpenNotes, TypeNote,
       SaveNotes, CloseNotes, DeleteNotes, DeleteNotesAttachment, UserDoes
  <1>5. CASE \E t \in Tasks : Answer(t)
    BY <1>5 DEF Answer, CopyFile, FinishCopy, FinishUpload, FinishNoteUpload
  <1>6. CASE Save \/ Autosave \/ SaveOk \/ SaveFail \/ Reopen
    BY <1>6 DEF Save, Autosave, SaveOk, SaveFail, Reopen, UserDoes
  <1>7. CASE UNCHANGED vars
    BY <1>7 DEF vars
  <1> QED
    BY <1>1, <1>2, <1>3, <1>4, <1>5, <1>6, <1>7 DEF Next, TrimsOnly

LEMMA PictureStep ==
    ASSUME EditorInv, PlaceInv, [Next]_vars, PictureInv
    PROVE  PictureInv'
  <1> SUFFICES ASSUME ~Ops("note_files")
               PROVE  \A m \in Held' : Pictured(m)
    BY ScenarioStays DEF PictureInv, Ops
  <1>1. /\ \A m \in Known : Pictured(m)
        /\ \A t \in Tasks : task[t].kind = "copy" => Pictured(task[t].branch)
    BY DEF PictureInv, Held, Is
  <1>2. /\ Pictured(map) /\ Pictured(clip.branch)
        /\ task \in [Tasks -> {Idle} \cup Copying \cup Uploading \cup NoteUploading]
    BY <1>1, KnownFacts DEF EditorInv, CopiesInv
  <1>3. ASSUME Pictured(map'), Pictured(clip'.branch),
               \A t \in Tasks : task'[t].kind = "copy" =>
                                   Pictured(task'[t].branch)
        PROVE  \A m \in Held' : Pictured(m)
    <2>1. \A m \in Known' : Pictured(m)
      BY <1>1, <1>3, KnownStep
    <2>2. QED
      BY <1>3, <2>1 DEF Held, Is
  <1>4. ASSUME NEW x, NEW m, NEW b, Attached(x, m, b), Pictured(m), Pictured(b)
        PROVE  Pictured(x)
    BY <1>4 DEF Attached, Pictured
  <1>5. CASE ~Loud
    <2>1. Quiet
      BY <1>5, QuietSteps
    <2>2. Pictured(map') /\ Pictured(clip'.branch)
      BY <1>1, <2>1 DEF Quiet, Less
    <2>3. \A t \in Tasks : task'[t].kind = "copy" => Pictured(task'[t].branch)
      BY <1>1, <2>1 DEF Quiet
    <2>4. QED
      BY <1>3, <2>2, <2>3
  <1>6. CASE InsertNode
    <2>1. PICK new \in Ids \ used, m \in Map :
              /\ Mutate(m)
              /\ DOMAIN m = DOMAIN map \cup {new}
              /\ \A k \in DOMAIN map : m[k] = map[k]
              /\ m[new].image = None
              /\ UNCHANGED <<clip, task>>
      BY <1>6, InsertFacts
    <2>2. Pictured(map')
      BY <1>2, <2>1 DEF Pictured, Mutate
    <2>3. QED
      BY <1>1, <1>2, <1>3, <2>1, <2>2
  <1>7. CASE DuplicateNode \/ PasteCopies
    <2>1. PICK t \in Tasks, c \in Branch, x \in Copying, m \in Known :
              /\ x.branch = c
              /\ task' = [task EXCEPT ![t] = x]
              /\ Pictured(m) => Pictured(c)
      BY <1>7, CopiesBegin
    <2>2. UNCHANGED <<map, clip>>
      BY <1>7 DEF DuplicateNode, PasteCopies, Unmutated
    <2>3. task'[t] = x /\ \A u \in Tasks \ {t} : task'[u] = task[u]
      BY <1>2, <2>1
    <2>4. Pictured(c)
      BY <1>1, <2>1
    <2>5. \A u \in Tasks : task'[u].kind = "copy" => Pictured(task'[u].branch)
      BY <1>1, <2>1, <2>3, <2>4
    <2>6. QED
      BY <1>2, <1>3, <2>2, <2>5
  <1>8. CASE PasteMoved
    <2>1. PICK m \in Map :
              /\ Mutate(m) /\ Attached(m, map, clip.branch)
              /\ clip' = [clip EXCEPT !.cut = FALSE]
              /\ UNCHANGED task
      BY <1>8, PasteFacts
    <2>2. clip'.branch = clip.branch
      BY <2>1 DEF EditorInv, CopiesInv
    <2>3. Pictured(map')
      BY <1>2, <1>4, <2>1 DEF Mutate
    <2>4. QED
      BY <1>1, <1>2, <1>3, <2>1, <2>2, <2>3
  <1>9. ASSUME NEW t \in Tasks, CopyFile(t)
        PROVE  \A m \in Held' : Pictured(m)
    <2>1. /\ UNCHANGED <<map, clip>>
          /\ task[t] \in Copying
          /\ Pictured(task[t].branch) => Pictured(task'[t].branch)
          /\ \E y : task' = [task EXCEPT ![t] = y]
      BY <1>9, CopyFileFacts DEF Unmutated, Swapped
    <2>2. Pictured(task[t].branch)
      BY <1>1, <2>1 DEF Copying
    <2>3. \A u \in Tasks \ {t} : task'[u] = task[u]
      BY <1>2, <2>1
    <2>4. \A u \in Tasks : task'[u].kind = "copy" => Pictured(task'[u].branch)
      BY <1>1, <2>1, <2>2, <2>3
    <2>5. QED
      BY <1>2, <1>3, <2>1, <2>4
  <1>10. ASSUME NEW t \in Tasks, task' = [task EXCEPT ![t] = Idle]
         PROVE  \A u \in Tasks : task'[u].kind = "copy" =>
                                    Pictured(task'[u].branch)
    <2>1. \A u \in Tasks : task'[u] = task[u] \/ task'[u].kind # "copy"
      BY <1>2, <1>10 DEF Idle
    <2>2. QED
      BY <1>1, <2>1
  <1>11. ASSUME NEW t \in Tasks, FinishCopy(t)
         PROVE  \A m \in Held' : Pictured(m)
    <2>1. /\ task[t] \in Copying
          /\ task' = [task EXCEPT ![t] = Idle]
          /\ UNCHANGED clip
          /\ \/ Unmutated
             \/ \E m \in Map : Mutate(m) /\ Attached(m, map, task[t].branch)
      BY <1>11, FinishCopyFacts
    <2>2. Pictured(task[t].branch)
      BY <1>1, <2>1 DEF Copying
    <2>3. Pictured(map')
      BY <1>2, <1>4, <2>1, <2>2 DEF Mutate, Unmutated
    <2>4. QED
      BY <1>2, <1>3, <1>10, <2>1, <2>3
  <1>12. ASSUME NEW t \in Tasks, FinishUpload(t) \/ FinishNoteUpload(t)
         PROVE  \A m \in Held' : Pictured(m)
    <2>1. task' = [task EXCEPT ![t] = Idle] /\ UNCHANGED clip
      BY <1>12, FinishUploadFacts, FinishNoteUploadFacts
    <2>2. ASSUME NEW m \in Map, NEW n \in DOMAIN map, NEW f, NEW note,
                 \/ OneEdit(m, n, map[n].files \cup {f}, f, note)
                 \/ OneEdit(m, n, map[n].files \cup {f}, map[n].image, note)
                 \/ OneEdit(m, n, map[n].files, None, note)
          PROVE  Pictured(m)
      BY <1>2, <2>2 DEF OneEdit, Pictured
    <2>3. Pictured(map')
      <3>1. CASE FinishUpload(t)
        BY <1>2, <2>2, <3>1, FinishUploadFacts DEF Unmutated, Mutate
      <3>2. CASE FinishNoteUpload(t)
        BY <1>2, <2>2, <3>2, FinishNoteUploadFacts DEF Unmutated, Mutate
      <3>3. QED
        BY <1>12, <3>1, <3>2
    <2>4. QED
      BY <1>2, <1>3, <1>10, <2>1, <2>3
  <1> QED
    BY <1>5, <1>6, <1>7, <1>8, <1>9, <1>11, <1>12 DEF Loud, Answer

-----------------------------------------------------------------------------
(* What is clean is stored.                                                *)

LEMMA CleanStep ==
    ASSUME EditorInv, PlaceInv, [Next]_vars, CleanInv
    PROVE  CleanInv'
  <1>1. ASSUME saved' = saved,
               \/ map' = map /\ dirty' = dirty
               \/ dirty' = TRUE
        PROVE  CleanInv'
    BY <1>1 DEF CleanInv
  <1>2. CASE TrimsOnly
    BY <1>1, <1>2, TrimsOnlyFacts DEF Trimmed, Unmutated, Mutate
  <1>3. CASE InsertNode \/ OpenInsertion \/ Undo \/ Redo
    BY <1>1, <1>3 DEF InsertNode, OpenInsertion, Undo, Redo, Restore, Unmutated,
       Mutate
  <1>4. CASE DuplicateNode \/ CopyNodes \/ CutNodes \/ PasteMoved \/ PasteCopies
    BY <1>1, <1>4 DEF DuplicateNode, CopyNodes, CutNodes, PasteMoved,
       PasteCopies, Unmutated, Mutate
  <1>5. CASE \/ StartUpload \/ StartNoteUpload
             \/ OpenNotes \/ TypeNote \/ SaveNotes \/ CloseNotes \/ DeleteNotes
             \/ DeleteNotesAttachment
    BY <1>1, <1>5 DEF StartUpload, StartNoteUpload, OpenNotes, TypeNote,
       SaveNotes, CloseNotes, DeleteNotes, DeleteNotesAttachment, CommitNotes,
       Unmutated, Mutate
  <1>6. CASE \E t \in Tasks : Answer(t)
    <2>1. PICK t \in Tasks : Answer(t)
      BY <1>6
    <2>2. CASE CopyFile(t)
      BY <1>1, <2>2 DEF CopyFile, Unmutated
    <2>3. CASE FinishCopy(t)
      BY <1>1, <2>3, FinishCopyFacts DEF Unmutated, Mutate
    <2>4. CASE FinishUpload(t)
      BY <1>1, <2>4, FinishUploadFacts DEF Unmutated, Mutate
    <2>5. CASE FinishNoteUpload(t)
      BY <1>1, <2>5, FinishNoteUploadFacts DEF Unmutated, Mutate
    <2>6. QED
      BY <2>1, <2>2, <2>3, <2>4, <2>5 DEF Answer
  <1>7. saved \in [map : Map, now : Map \cup {None}, failed : BOOLEAN]
    BY DEF EditorInv, PartsTypeOK
  <1>8. CASE Save \/ Autosave
    <2>1. saved' = [saved EXCEPT !.now = map, !.failed = FALSE] /\ map' = map
      BY <1>8, BeginSaveFacts
    <2>2. saved'.now = map /\ map # None
      BY <1>7, <2>1, EditorFacts, NoneIsNoMap
    <2>3. QED
      BY <2>1, <2>2 DEF CleanInv
  <1>9. CASE SaveOk
    BY <1>7, <1>9 DEF SaveOk, CleanInv
  <1>10. CASE SaveFail
    <2>1. saved'.now = None /\ saved'.failed = TRUE
      BY <1>10 DEF SaveFail
    <2>2. QED
      BY <2>1 DEF CleanInv
  <1>11. CASE Reopen
    BY <1>7, <1>11 DEF Reopen, CleanInv
  <1>12. CASE UNCHANGED vars
    BY <1>1, <1>12 DEF vars
  <1> QED
    BY <1>2, <1>3, <1>4, <1>5, <1>6, <1>8, <1>9, <1>10, <1>11, <1>12
       DEF Next, TrimsOnly
-----------------------------------------------------------------------------
(* Answers and edits.                                                      *)

LEMMA AnswerStep ==
    ASSUME EditorInv, PlaceInv, NEW t \in Tasks, Answer(t)
    PROVE  \A n \in DOMAIN map :
              /\ n \in DOMAIN map'
              /\ map'[n].parent = map[n].parent /\ map'[n].look = map[n].look
              /\ n # task[t].node => map'[n] = map[n]
  <1>1. CASE CopyFile(t)
    BY <1>1, CopyFileFacts DEF Unmutated
  <1>2. CASE FinishCopy(t)
    BY <1>2, FinishCopyFacts DEF Unmutated, Mutate, Attached
  <1>3. CASE FinishUpload(t)
    <2>1. \/ map' = map
          \/ \E m \in Map : \E files, image, note :
                map' = m /\ OneEdit(m, task[t].node, files, image, note)
      BY <1>3, FinishUploadFacts DEF Unmutated, Mutate
    <2>2. QED
      BY <2>1 DEF OneEdit
  <1>4. CASE FinishNoteUpload(t)
    <2>1. \/ map' = map
          \/ \E m \in Map : \E files, image, note :
                map' = m /\ OneEdit(m, task[t].node, files, image, note)
      <3>1. \/ Unmutated
            \/ \E m \in Map, f \in FreshFiles, text \in Text :
                  LET n == task[t].node
                  IN  /\ Mutate(m)
                      /\ OneEdit(m, n, map[n].files \cup {f}, map[n].image, text)
        BY <1>4, FinishNoteUploadFacts
      <3> HIDE DEF OneEdit
      <3>2. QED
        BY <3>1 DEF Unmutated, Mutate
    <2>2. QED
      BY <2>1 DEF OneEdit
  <1> QED
    BY <1>1, <1>2, <1>3, <1>4 DEF Answer
-----------------------------------------------------------------------------
(* Words.                                                                  *)

(* The words the user typed and did not remove.                            *)
WordsKept ==
    /\ KeepsWork
    /\ panel.open => /\ kept[panel.node] \subseteq panel.text
                     /\ panel.text = panel.doc

Unborn ==
    /\ \A n \in Ids : n \notin used => kept[n] = {}
    /\ \A t \in Tasks : \A n \in Cloned(t) : kept[n] = {}

LEMMA KeptInvParts ==
    KeptInv <=> \/ Ops("note_files")
                \/ WordsKept /\ Unborn /\ \A t \in Tasks : ~Is(t, "note")
  BY DEF KeptInv, WordsKept, Unborn

(* A step that keeps the notes and what is kept of them.                   *)
LEMMA WordsStay ==
    ASSUME WordsKept, panel'.open = panel.open, panel'.node = panel.node,
           panel'.text = panel.text, panel'.doc = panel.doc, kept' = kept,
           \A n \in DOMAIN map' :
              \/ n \in DOMAIN map /\ map'[n].note = map[n].note
              \/ kept[n] = {}
    PROVE  WordsKept'
  BY DEF WordsKept, KeepsWork

(* Nothing is kept of a node that is nowhere.                              *)
LEMMA UnbornStays ==
    ASSUME EditorInv, PlaceInv, PlaceInv', Unborn, used \subseteq used',
           \A n \in Ids : kept'[n] = kept[n] \/ n \in Seen \/ n \in Seen'
                          \/ kept'[n] = {},
           \A t \in Tasks : Cloned(t)' \subseteq Cloned(t) \cup (Ids \ used)
    PROVE  Unborn'
  <1>1. /\ Seen \subseteq used /\ Seen' \subseteq used'
        /\ \A t \in Tasks : Cloned(t)' \cap Seen' = {}
        /\ \A t \in Tasks : Cloned(t) \cap Seen = {}
    BY DEF PlaceInv
  <1>2. ASSUME NEW n \in Ids, n \notin used' PROVE kept'[n] = {}
    BY <1>1, <1>2 DEF Unborn
  <1>3. ASSUME NEW t \in Tasks, NEW n \in Cloned(t)' PROVE kept'[n] = {}
    <2>1. n \in Ids /\ n \notin Seen' /\ n \notin Seen
      BY <1>1, <1>3, PlacedFacts, EditorFacts DEF PlaceInv
    <2>2. kept[n] = {}
      BY <1>3, <2>1 DEF Unborn
    <2>3. QED
      BY <2>1, <2>2
  <1> QED
    BY <1>2, <1>3 DEF Unborn

LEMMA ShownIsSeen ==
    ASSUME EditorInv, PlaceInv,
           \/ TrimsOnly \/ InsertNode \/ OpenInsertion \/ Undo \/ Redo
           \/ DuplicateNode \/ CopyNodes \/ CutNodes \/ PasteMoved
           \/ PasteCopies \/ Reopen
    PROVE  DOMAIN map' \subseteq Seen'
  <1>1. EditorInv'
    BY EditorStep DEF Next, TrimsOnly
  <1>2. map' \in Known'
    BY <1>1 DEF EditorInv, HistoryInv, Known, Entry
  <1> QED
    BY <1>2 DEF Seen

(* A map that is brought back has the words it has.                        *)
LEMMA BroughtBack ==
    ASSUME map' \in Map, kept' = WordsOf(map'), ~panel.open, panel' = panel,
           DOMAIN map' \subseteq Seen'
    PROVE  /\ WordsKept'
           /\ \A n \in Ids : n \in Seen' \/ kept'[n] = {}
  <1>1. /\ \A n \in Ids \ DOMAIN map' : kept'[n] = {}
        /\ \A n \in DOMAIN map' : kept'[n] \subseteq map'[n].note
    BY WordsOfFacts
  <1> QED
    BY <1>1 DEF WordsKept, KeepsWork

(* Edits of the tree, the fields, the clipboard; copies; undo.             *)
LEMMA WordsStepTree ==
    ASSUME EditorInv, PlaceInv, PlaceInv', WordsKept, Unborn,
           \/ TrimsOnly \/ InsertNode \/ OpenInsertion \/ Undo \/ Redo
           \/ DuplicateNode \/ CopyNodes \/ CutNodes \/ PasteMoved
           \/ PasteCopies
    PROVE  WordsKept' /\ Unborn'
  <1>1. /\ Seen \subseteq used /\ DOMAIN map \subseteq Seen
        /\ kept \in [Ids -> SUBSET Words]
    BY KnownFacts DEF PlaceInv, EditorInv, PartsTypeOK
  <1>2. DOMAIN map' \subseteq Seen'
    BY ShownIsSeen
  <1>3. ASSUME UNCHANGED <<task, used>>,
               \A n \in Ids : kept'[n] = kept[n] \/ n \in Seen \/ n \in Seen'
                              \/ kept'[n] = {}
        PROVE  Unborn'
    <2>1. \A t \in Tasks : Cloned(t)' = Cloned(t)
      BY <1>3 DEF Cloned, Is
    <2>2. QED
      BY <1>3, <2>1, UnbornStays
  <1>4. CASE TrimsOnly \/ CutNodes
    <2>1. Trimmed /\ UNCHANGED <<panel, task, used, kept>>
      BY <1>4, TrimsOnlyFacts, CutTrims DEF CutNodes
    <2>2. \A n \in DOMAIN map' : n \in DOMAIN map /\ map'[n].note = map[n].note
      BY <2>1 DEF Trimmed, Trims, Unmutated, Mutate
    <2>3. WordsKept'
      BY <2>1, <2>2, WordsStay
    <2>4. QED
      BY <1>3, <2>1, <2>3
  <1>5. CASE InsertNode
    <2>1. PICK new \in Ids \ used, m \in Map :
              /\ Mutate(m)
              /\ DOMAIN m = DOMAIN map \cup {new}
              /\ \A k \in DOMAIN map : m[k] = map[k]
              /\ used' = used \cup {new}
              /\ UNCHANGED <<panel, task, kept>>
      BY <1>5, InsertFacts
    <2>2. kept[new] = {}
      BY <2>1 DEF Unborn
    <2>3. \A n \in DOMAIN map' :
             \/ n \in DOMAIN map /\ map'[n].note = map[n].note
             \/ kept[n] = {}
      BY <2>1, <2>2 DEF Mutate
    <2>4. WordsKept'
      BY <2>1, <2>3, WordsStay
    <2>5. \A t \in Tasks : Cloned(t)' = Cloned(t)
      BY <2>1 DEF Cloned, Is
    <2>6. Unborn'
      BY <2>1, <2>5, UnbornStays
    <2>7. QED
      BY <2>4, <2>6
  <1>6. CASE OpenInsertion
    <2>1. /\ panel' = panel \/ \E n : panel' = [panel EXCEPT !.selected = n]
          /\ UNCHANGED <<map, task, used, kept>>
      BY <1>6 DEF OpenInsertion, Unmutated
    <2>2. /\ panel'.open = panel.open /\ panel'.node = panel.node
          /\ panel'.text = panel.text /\ panel'.doc = panel.doc
      BY <2>1, PanelType
    <2>3. WordsKept'
      BY <2>1, <2>2, WordsStay
    <2>4. QED
      BY <1>3, <2>1, <2>3
  <1>7. CASE Undo \/ Redo
    <2>1. /\ kept' = WordsOf(map') /\ ~panel.open
          /\ UNCHANGED <<panel, task, used>>
      BY <1>7 DEF Undo, Redo, Restore, UserDoes, OnCanvas
    <2>2. map' \in Map
      BY <1>7, HistoryStep DEF Stepped, Undo, Redo
    <2>3. QED
      BY <1>2, <1>3, <2>1, <2>2, BroughtBack
  <1>8. CASE DuplicateNode \/ PasteCopies
    <2>1. PICK t \in Tasks, c \in Branch, x \in Copying :
             /\ x.branch = c
             /\ task' = [task EXCEPT ![t] = x]
             /\ DOMAIN c \subseteq Ids \ used
             /\ used' = used \cup DOMAIN c
      BY <1>8, CopiesBegin
    <2>2. UNCHANGED <<map, panel, kept>>
      BY <1>8 DEF DuplicateNode, PasteCopies, Unmutated
    <2>3. WordsKept'
      BY <2>2, WordsStay
    <2>4. \A u \in Tasks : Cloned(u)' \subseteq Cloned(u) \cup (Ids \ used)
      <3>1. /\ Cloned(t)' = DOMAIN c
            /\ \A u \in Tasks \ {t} : Cloned(u)' = Cloned(u)
        BY <2>1, ClonedFacts DEF Copying
      <3>2. QED
        BY <2>1, <3>1
    <2>5. Unborn'
      BY <2>1, <2>2, <2>4, UnbornStays
    <2>6. QED
      BY <2>3, <2>5
  <1>9. CASE CopyNodes
    <2>1. UNCHANGED <<map, panel, task, used, kept>>
      BY <1>9 DEF CopyNodes, Unmutated
    <2>2. WordsKept'
      BY <2>1, WordsStay
    <2>3. QED
      BY <1>3, <2>1, <2>2
  <1>10. CASE PasteMoved
    <2>1. PICK m \in Map :
              /\ Mutate(m) /\ Attached(m, map, clip.branch)
              /\ kept' = [k \in Ids |-> IF k \in DOMAIN clip.branch
                                          THEN WordsOf(map')[k] ELSE kept[k]]
              /\ UNCHANGED <<panel, task, used>>
      BY <1>10, PasteFacts
    <2>2. ~panel.open
      BY <1>10 DEF PasteMoved, OnCanvas
    <2>3. map' \in Map
      BY <2>1 DEF Mutate
    <2>4. ASSUME NEW n \in DOMAIN map' PROVE kept'[n] \subseteq map'[n].note
      <3>1. n \in Ids
        BY <2>3, MapFacts
      <3>2. CASE n \in DOMAIN clip.branch
        BY <2>1, <2>3, <2>4, <3>1, <3>2, WordsOfFacts
      <3>3. CASE n \notin DOMAIN clip.branch
        <4>1. n \in DOMAIN map /\ map'[n] = map[n] /\ kept'[n] = kept[n]
          BY <2>1, <2>4, <3>1, <3>3 DEF Attached, Mutate
        <4>2. QED
          BY <2>2, <4>1 DEF WordsKept, KeepsWork
      <3>4. QED
        BY <3>2, <3>3
    <2>5. WordsKept'
      BY <2>1, <2>2, <2>4 DEF WordsKept, KeepsWork
    <2>6. DOMAIN clip.branch \subseteq Seen
      BY KnownFacts
    <2>7. QED
      BY <1>3, <2>1, <2>5, <2>6
  <1> QED
    BY <1>4, <1>5, <1>6, <1>7, <1>8, <1>9, <1>10

(* The note panel: what it shows is what is kept, and closing it commits.  *)
LEMMA WordsStepPanel ==
    ASSUME EditorInv, PlaceInv, PlaceInv', WordsKept, Unborn,
           OpenNotes \/ TypeNote \/ SaveNotes \/ CloseNotes \/ DeleteNotes
    PROVE  WordsKept' /\ Unborn'
  <1>1. UNCHANGED <<task, used>>
    BY DEF OpenNotes, TypeNote, SaveNotes, CloseNotes, DeleteNotes
  <1>2. ASSUME \A n \in Ids : kept'[n] = kept[n] \/ n \in Seen
        PROVE  Unborn'
    <2>1. \A t \in Tasks : Cloned(t)' = Cloned(t)
      BY <1>1 DEF Cloned, Is
    <2>2. QED
      BY <1>1, <1>2, <2>1, UnbornStays
  <1>3. /\ kept \in [Ids -> SUBSET Words]
        /\ panel.open => panel.node \in Ids /\ panel.node \in Seen
    BY DEF EditorInv, PartsTypeOK, Seen
  <1>4. CASE OpenNotes
    <2>1. PICK n \in DOMAIN map :
             panel' = [open |-> TRUE, node |-> n, text |-> map[n].note,
                       doc |-> map[n].note, selected |-> n]
      BY <1>4 DEF OpenNotes
    <2>2. UNCHANGED <<map, kept>> /\ ~panel.open
      BY <1>4 DEF OpenNotes, Unmutated, OnCanvas
    <2>3. \A k \in DOMAIN map : kept[k] \subseteq map[k].note
      BY <2>2 DEF WordsKept, KeepsWork
    <2>4. WordsKept'
      BY <2>1, <2>2, <2>3 DEF WordsKept, KeepsWork
    <2>5. QED
      BY <1>2, <2>2, <2>4
  <1>5. CASE TypeNote
    <2>1. PICK w \in Words :
             LET add == w \notin panel.doc
                 doc == IF add THEN panel.doc \cup {w} ELSE panel.doc \ {w}
             IN  /\ panel' = [panel EXCEPT !.doc = doc, !.text = doc]
                 /\ kept' = [kept EXCEPT ![panel.node] =
                               IF add THEN @ \cup {w} ELSE @ \ {w}]
      BY <1>5 DEF TypeNote
    <2> DEFINE add == w \notin panel.doc
               doc == IF add THEN panel.doc \cup {w} ELSE panel.doc \ {w}
               k == panel.node
    <2>2. map' = map /\ panel.open
      BY <1>5 DEF TypeNote, Unmutated
    <2>3. /\ kept'[k] = IF add THEN kept[k] \cup {w} ELSE kept[k] \ {w}
          /\ \A n \in Ids \ {k} : kept'[n] = kept[n]
      BY <1>3, <2>1, <2>2
    <2>4. kept[k] \subseteq panel.doc /\ panel.text = panel.doc
      BY <2>2 DEF WordsKept
    <2>5. kept'[k] \subseteq doc
      BY <2>3, <2>4
    <2> HIDE DEF doc
    <2>6. panel' = [panel EXCEPT !.doc = doc, !.text = doc]
      BY <2>1 DEF doc
    <2>7. /\ panel'.open /\ panel'.node = k
          /\ panel'.text = doc /\ panel'.doc = doc
      BY <2>2, <2>6, PanelType
    <2>8. \A n \in DOMAIN map \ {k} : kept'[n] \subseteq map[n].note
      BY <2>2, <2>3, EditorFacts DEF WordsKept, KeepsWork
    <2> HIDE DEF k, add
    <2>9. WordsKept'
      BY <2>2, <2>5, <2>7, <2>8 DEF WordsKept, KeepsWork
    <2>10. Unborn'
      BY <1>2, <1>3, <2>2, <2>3 DEF k
    <2>11. QED
      BY <2>9, <2>10
  <1>6. CASE SaveNotes \/ CloseNotes
    <2>1. /\ panel.open /\ CommitNotes /\ UNCHANGED kept
          /\ panel' = panel \/ panel' = ClosedPanel
      BY <1>6 DEF SaveNotes, CloseNotes
    <2>2. kept[panel.node] \subseteq panel.text
      BY <2>1 DEF WordsKept
    <2>3. \A n \in DOMAIN map' : kept[n] \subseteq map'[n].note
      <3>1. \A n \in DOMAIN map \ {panel.node} : kept[n] \subseteq map[n].note
        BY DEF WordsKept, KeepsWork
      <3>2. \/ map' = map /\ (Holds(panel.node) =>
                                map[panel.node].note = panel.text)
            \/ \E m \in Map : \E files, image :
                  map' = m /\ OneEdit(m, panel.node, files, image, panel.text)
        BY <2>1, CommitFacts DEF Unmutated, Mutate
      <3>3. QED
        BY <2>2, <3>1, <3>2 DEF OneEdit, Holds
    <2>4. WordsKept'
      BY <2>1, <2>3 DEF WordsKept, KeepsWork, ClosedPanel
    <2>5. QED
      BY <1>2, <2>1, <2>4
  <1>7. CASE DeleteNotes
    <2>1. /\ panel.open /\ panel' = ClosedPanel
          /\ kept' = [kept EXCEPT ![panel.node] = {}]
      BY <1>7 DEF DeleteNotes
    <2>2. /\ kept'[panel.node] = {}
          /\ \A n \in Ids \ {panel.node} : kept'[n] = kept[n]
      BY <1>3, <2>1
    <2>3. \/ map' = map
          \/ \E m \in Map : \E files, image :
                map' = m /\ OneEdit(m, panel.node, files, image, {})
      BY <1>7, DeleteNotesFacts DEF Unmutated, Mutate
    <2>4. \A n \in DOMAIN map' : kept'[n] \subseteq map'[n].note
      <3>1. \A n \in DOMAIN map \ {panel.node} : kept[n] \subseteq map[n].note
        BY DEF WordsKept, KeepsWork
      <3>2. QED
        BY <2>2, <2>3, <3>1, EditorFacts DEF OneEdit
    <2>5. WordsKept'
      BY <2>1, <2>4 DEF WordsKept, KeepsWork, ClosedPanel
    <2>6. QED
      BY <1>2, <1>3, <2>1, <2>2, <2>5
  <1> QED
    BY <1>4, <1>5, <1>6, <1>7

(* Answers, where no file comes through the panel, touch no note.          *)
LEMMA WordsStepAnswer ==
    ASSUME EditorInv, PlaceInv, PlaceInv', WordsKept, Unborn,
           NEW t \in Tasks, Answer(t), ~Is(t, "note")
    PROVE  WordsKept' /\ Unborn'
  <1>1. CASE CopyFile(t)
    <2>1. /\ UNCHANGED <<map, panel, used, kept>>
          /\ task[t] \in Copying
          /\ task'[t].kind = "copy"
          /\ DOMAIN task'[t].branch = DOMAIN task[t].branch
          /\ \E y : task' = [task EXCEPT ![t] = y]
      BY <1>1, CopyFileFacts DEF Unmutated, Swapped, Copying
    <2>2. task \in [Tasks -> {Idle} \cup Copying \cup Uploading \cup NoteUploading]
      BY DEF EditorInv, CopiesInv
    <2>3. \A u \in Tasks : Cloned(u)' = Cloned(u)
      BY <2>1, <2>2 DEF Cloned, Is, Copying
    <2>4. QED
      BY <2>1, <2>3, WordsStay, UnbornStays
  <1>2. ASSUME task' = [task EXCEPT ![t] = Idle], UNCHANGED <<used, kept>>,
               panel' = panel \/ \E n \in Ids : panel' = Selects(n),
               \A n \in DOMAIN map' :
                  \/ n \in DOMAIN map /\ map'[n].note = map[n].note
                  \/ kept[n] = {}
        PROVE  WordsKept' /\ Unborn'
    <2>1. /\ panel'.open = panel.open /\ panel'.node = panel.node
          /\ panel'.text = panel.text /\ panel'.doc = panel.doc
      BY <1>2, PanelType
    <2>2. WordsKept'
      BY <1>2, <2>1, WordsStay
    <2>3. \A u \in Tasks : Cloned(u)' \subseteq Cloned(u)
      BY <1>2, ClonedStops
    <2>4. Unborn'
      BY <1>2, <2>3, UnbornStays
    <2>5. QED
      BY <2>2, <2>4
  <1>3. CASE FinishCopy(t)
    <2>1. /\ task[t] \in Copying
          /\ task' = [task EXCEPT ![t] = Idle]
          /\ UNCHANGED <<used, kept>>
          /\ panel' = panel \/ \E n \in task[t].tops : panel' = Selects(n)
          /\ \/ map' = map
             \/ Attached(map', map, task[t].branch)
      BY <1>3, FinishCopyFacts DEF Unmutated, Mutate
    <2>2. Cloned(t) = DOMAIN task[t].branch /\ task[t].tops \subseteq Ids
      BY <2>1 DEF Cloned, Is, Copying
    <2>3. \A n \in DOMAIN task[t].branch : kept[n] = {}
      BY <2>2 DEF Unborn
    <2>4. \A n \in DOMAIN map' :
             \/ n \in DOMAIN map /\ map'[n].note = map[n].note
             \/ kept[n] = {}
      BY <2>1, <2>3 DEF Attached
    <2>5. QED
      BY <1>2, <2>1, <2>2, <2>4
  <1>4. CASE FinishUpload(t)
    <2>1. /\ task' = [task EXCEPT ![t] = Idle] /\ UNCHANGED <<used, kept>>
          /\ panel' = panel \/ \E n \in Ids : panel' = Selects(n)
      BY <1>4, FinishUploadFacts
    <2>2. \/ map' = map
          \/ \E m \in Map : \E files, image :
                map' = m /\ OneEdit(m, task[t].node, files, image,
                                    map[task[t].node].note)
      BY <1>4, FinishUploadFacts DEF Unmutated, Mutate
    <2>3. \A n \in DOMAIN map' : n \in DOMAIN map /\ map'[n].note = map[n].note
      BY <2>2 DEF OneEdit
    <2>4. QED
      BY <1>2, <2>1, <2>3
  <1>5. ~FinishNoteUpload(t)
    BY FinishNoteUploadFacts
  <1> QED
    BY <1>1, <1>3, <1>4, <1>5 DEF Answer

LEMMA NoNotesBegin ==
    ASSUME EditorInv, PlaceInv, [Next]_vars, ~Ops("note_files"),
           \A t \in Tasks : ~Is(t, "note")
    PROVE  \A t \in Tasks : ~Is(t, "note")'
  <1>1. task \in [Tasks -> {Idle} \cup Copying \cup Uploading \cup NoteUploading]
    BY DEF EditorInv, CopiesInv
  <1>2. ASSUME NEW t \in Tasks, NEW x, task' = [task EXCEPT ![t] = x],
               x.kind # "note"
        PROVE  \A u \in Tasks : ~Is(u, "note")'
    BY <1>1, <1>2 DEF Is
  <1>3. ASSUME task' = task
        PROVE  \A u \in Tasks : ~Is(u, "note")'
    BY <1>3 DEF Is
  <1>4. ~StartNoteUpload /\ ~DeleteNotesAttachment
    BY DEF StartNoteUpload, DeleteNotesAttachment, UserDoes
  <1>5. CASE TrimsOnly
    BY <1>3, <1>5, TrimsOnlyFacts
  <1>6. CASE \/ InsertNode \/ OpenInsertion \/ Undo \/ Redo
             \/ CopyNodes \/ CutNodes \/ PasteMoved
             \/ OpenNotes \/ TypeNote \/ SaveNotes \/ CloseNotes \/ DeleteNotes
             \/ Save \/ Autosave \/ SaveOk \/ SaveFail \/ UNCHANGED vars
    <2>1. task' = task
      BY <1>6 DEF InsertNode, OpenInsertion, Undo, Redo, CopyNodes, CutNodes,
         PasteMoved, OpenNotes, TypeNote, SaveNotes, CloseNotes, DeleteNotes,
         Save, Autosave, BeginSave, SaveOk, SaveFail, vars
    <2>2. QED
      BY <1>3, <2>1
  <1>7. CASE DuplicateNode \/ PasteCopies
    <2>1. PICK t \in Tasks, x \in Copying : task' = [task EXCEPT ![t] = x]
      BY <1>7, CopiesBegin
    <2>2. x.kind # "note"
      BY DEF Copying
    <2>3. QED
      BY <1>2, <2>1, <2>2
  <1>8. CASE StartUpload
    <2>1. PICK t \in Tasks : \E n, how :
             task' = [task EXCEPT ![t] = [kind |-> "upload", how |-> how,
                                          node |-> n, root |-> map]]
      BY <1>8 DEF StartUpload
    <2>2. PICK n, how :
             task' = [task EXCEPT ![t] = [kind |-> "upload", how |-> how,
                                          node |-> n, root |-> map]]
      BY <2>1
    <2> DEFINE x == [kind |-> "upload", how |-> how, node |-> n, root |-> map]
    <2>3. x.kind # "note"
      OBVIOUS
    <2>4. QED
      BY <1>2, <2>2, <2>3
  <1>9. ASSUME NEW t \in Tasks, Answer(t)
        PROVE  \A u \in Tasks : ~Is(u, "note")'
    <2>1. CASE CopyFile(t)
      <3>1. task'[t].kind = "copy" /\ \E y : task' = [task EXCEPT ![t] = y]
        BY <2>1, CopyFileFacts DEF Swapped, Copying
      <3>2. QED
        BY <1>1, <3>1 DEF Is
    <2>2. Idle.kind # "note"
      BY DEF Idle
    <2>3. CASE ~CopyFile(t)
      <3>1. task' = [task EXCEPT ![t] = Idle]
        BY <1>9, <2>3 DEF Answer, FinishCopy, FinishUpload, FinishNoteUpload
      <3>2. QED
        BY <1>2, <2>2, <3>1
    <2>4. QED
      BY <2>1, <2>3
  <1>10. CASE Reopen
    BY <1>10 DEF Reopen, Is, Idle
  <1> QED
    BY <1>4, <1>5, <1>6, <1>7, <1>8, <1>9, <1>10 DEF Next, TrimsOnly

LEMMA KeptStep ==
    ASSUME EditorInv, PlaceInv, [Next]_vars, KeptInv
    PROVE  KeptInv'
  <1> SUFFICES ASSUME ~Ops("note_files")
               PROVE  WordsKept' /\ Unborn' /\ \A t \in Tasks : ~Is(t, "note")'
    BY ScenarioStays, KeptInvParts DEF KeptInv, Ops, WordsKept, Unborn
  <1>1. WordsKept /\ Unborn /\ \A t \in Tasks : ~Is(t, "note")
    BY KeptInvParts
  <1>2. \A t \in Tasks : ~Is(t, "note")'
    BY <1>1, NoNotesBegin
  <1>3. PlaceInv'
    BY PlaceStep
  <1>4. ~StartNoteUpload /\ ~DeleteNotesAttachment
    BY DEF StartNoteUpload, DeleteNotesAttachment, UserDoes
  <1>5. CASE \/ TrimsOnly \/ InsertNode \/ OpenInsertion \/ Undo \/ Redo
             \/ DuplicateNode \/ CopyNodes \/ CutNodes \/ PasteMoved
             \/ PasteCopies
    BY <1>1, <1>2, <1>3, <1>5, WordsStepTree
  <1>6. CASE OpenNotes \/ TypeNote \/ SaveNotes \/ CloseNotes \/ DeleteNotes
    BY <1>1, <1>2, <1>3, <1>6, WordsStepPanel
  <1>7. CASE \E t \in Tasks : Answer(t)
    BY <1>1, <1>2, <1>3, <1>7, WordsStepAnswer
  <1>8. CASE StartUpload \/ Save \/ Autosave \/ SaveOk \/ SaveFail
             \/ UNCHANGED vars
    <2>1. UNCHANGED <<map, panel, used, kept>>
      BY <1>8 DEF StartUpload, Save, Autosave, BeginSave, SaveOk, SaveFail,
         Unmutated, vars
    <2>2. \A t \in Tasks : Cloned(t)' \subseteq Cloned(t)
      <3>1. CASE StartUpload
        <4>1. PICK t \in Tasks : \E n, how :
                 task' = [task EXCEPT ![t] = [kind |-> "upload", how |-> how,
                                              node |-> n, root |-> map]]
          BY <3>1 DEF StartUpload
        <4>2. \A u \in Tasks : task'[u] = task[u] \/ task'[u].kind # "copy"
          BY <4>1 DEF EditorInv, CopiesInv
        <4>3. QED
          BY <4>2 DEF Cloned, Is
      <3>2. CASE Save \/ Autosave \/ SaveOk \/ SaveFail \/ UNCHANGED vars
        BY <3>2 DEF Save, Autosave, BeginSave, SaveOk, SaveFail, vars, Cloned, Is
      <3>3. QED
        BY <1>8, <3>1, <3>2
    <2>3. WordsKept' /\ Unborn'
      BY <1>1, <1>3, <2>1, <2>2, WordsStay, UnbornStays
    <2>4. QED
      BY <1>2, <2>3
  <1>9. CASE Reopen
    <2>1. /\ kept' = WordsOf(map') /\ ~panel.open /\ map' = saved.map
          /\ UNCHANGED <<panel, used>>
          /\ task' = [t \in Tasks |-> Idle]
      BY <1>9 DEF Reopen, OnCanvas
    <2>2. DOMAIN map' \subseteq Seen' /\ map' \in Map
      BY <1>9, <2>1, ShownIsSeen, EditorFacts
    <2>3. WordsKept' /\ \A n \in Ids : n \in Seen' \/ kept'[n] = {}
      BY <2>1, <2>2, BroughtBack
    <2>4. \A t \in Tasks : Cloned(t)' \subseteq Cloned(t)
      BY <2>1 DEF Cloned, Is, Idle
    <2>5. Unborn'
      BY <1>1, <1>3, <2>1, <2>3, <2>4, UnbornStays
    <2>6. QED
      BY <1>2, <2>3, <2>5
  <1> QED
    BY <1>4, <1>5, <1>6, <1>7, <1>8, <1>9 DEF Next, TrimsOnly

-----------------------------------------------------------------------------
(* What is opened.                                                         *)

LEMMA EditorStarts ==
    ASSUME Init
    PROVE  EditorInv /\ PlaceInv
  <1>1. /\ scenario \in Scenarios /\ map = scenario.start
        /\ history = [entries |-> <<map>>, index |-> 1]
        /\ dirty = FALSE /\ clip = NoClip /\ naming = NotNaming
        /\ panel = ClosedPanel /\ task = [t \in Tasks |-> Idle]
        /\ saved = [map |-> map, now |-> None, failed |-> FALSE]
        /\ used = DOMAIN map /\ twice = {} /\ kept = WordsOf(map)
    BY DEF Init, InitHistory
  <1>2. map \in Map
    BY <1>1, StartAssumption DEF IsBranch, Branch, Map
  <1>3. DOMAIN map \subseteq Ids /\ \A k \in DOMAIN map : map[k] \in Node
    BY <1>2, MapFacts
  <1>4. HistoryInv
    <2>1. <<map>> \in Seq(Map) /\ Len(<<map>>) = 1 /\ <<map>>[1] = map
      BY <1>2
    <2>2. HISTORY_LIMIT \in Nat /\ HISTORY_LIMIT >= 1
      BY EditorAssumption
    <2>3. QED
      BY <1>1, <2>1, <2>2 DEF HistoryInv
  <1>5. store \in [has : SUBSET Files, given : SUBSET Files]
    <2>1. UNION {map[n].files : n \in DOMAIN map} \subseteq Files
      BY <1>3 DEF Node
    <2>2. QED
      BY <2>1 DEF Init
  <1>6. kept \in [Ids -> SUBSET Words]
    BY <1>1, <1>2, WordsOfFacts
  <1>7. PartsTypeOK
    BY <1>1, <1>2, <1>3, <1>5, <1>6 DEF PartsTypeOK, ClosedPanel, NotNaming, Text
  <1>8. CopiesInv
    BY <1>1, NoCopies DEF CopiesInv, Is, Idle
  <1>9. EditorInv
    BY <1>4, <1>7, <1>8 DEF EditorInv
  <1>10. \A t \in Tasks : Cloned(t) = {}
    BY <1>1 DEF Cloned, Is, Idle
  <1>11. Known = {map, clip.branch}
    <2>1. {Entry(i) : i \in 1 .. Len(history.entries)} = {map}
      BY <1>1 DEF Entry
    <2>2. QED
      BY <1>1, <2>1 DEF Known
  <1>12. Seen \subseteq used
    BY <1>1, <1>11, NoCopies DEF Seen, ClosedPanel
  <1>13. PlaceInv
    BY <1>1, <1>10, <1>12 DEF PlaceInv
  <1> QED
    BY <1>9, <1>13

LEMMA FilesStart ==
    ASSUME Init
    PROVE  OwnInv /\ PictureInv
  <1>1. /\ scenario \in Scenarios /\ map = scenario.start
        /\ task = [t \in Tasks |-> Idle] /\ clip = NoClip
        /\ saved = [map |-> map, now |-> None, failed |-> FALSE]
        /\ store.given = UNION {map[n].files : n \in DOMAIN map}
    BY DEF Init
  <1>2. \A m \in Known : m = map \/ DOMAIN m = {}
    <2>1. \A i \in 1 .. Len(history.entries) : Entry(i) = map
      BY DEF Init, InitHistory, Entry
    <2>2. QED
      BY <1>1, <2>1, NoCopies DEF Known
  <1>3. \A t \in Tasks : ~Is(t, "copy")
    BY <1>1 DEF Is, Idle
  <1>4. \A p \in Owned : p[1] \in DOMAIN map /\ p[2] \in map[p[1]].files
    BY <1>2, <1>3 DEF Owned, Copied, FilesIn
  <1>5. OneOwner(map) /\ (Ops("note_files") \/ Pictured(map))
    BY <1>1, StartAssumption DEF Ops
  <1>6. OwnInv
    BY <1>1, <1>4, <1>5 DEF OwnInv, OneOwner
  <1>7. PictureInv
    BY <1>2, <1>3, <1>5 DEF PictureInv, Held, Pictured
  <1> QED
    BY <1>6, <1>7

LEMMA WordsStart ==
    ASSUME Init
    PROVE  KeptInv /\ CleanInv
  <1>1. /\ task = [t \in Tasks |-> Idle] /\ panel = ClosedPanel
        /\ saved.map = map /\ saved.now = None
        /\ used = DOMAIN map /\ kept = WordsOf(map)
    BY DEF Init
  <1>2. map \in Map
    BY EditorStarts, EditorFacts
  <1>3. /\ \A n \in Ids \ DOMAIN map : kept[n] = {}
        /\ \A n \in DOMAIN map : kept[n] \subseteq map[n].note
    BY <1>1, <1>2, WordsOfFacts
  <1>4. WordsKept
    BY <1>1, <1>3 DEF WordsKept, KeepsWork, ClosedPanel
  <1>5. \A t \in Tasks : Cloned(t) = {} /\ ~Is(t, "note")
    BY <1>1 DEF Cloned, Is, Idle
  <1>6. Unborn
    BY <1>1, <1>3, <1>5 DEF Unborn
  <1> QED
    BY <1>1, <1>4, <1>5, <1>6, KeptInvParts DEF CleanInv

-----------------------------------------------------------------------------
(* The theorems.                                                           *)

LEMMA EditorInvariant == Spec => [](EditorInv /\ PlaceInv)
  <1>1. Init => EditorInv /\ PlaceInv
    BY EditorStarts
  <1>2. EditorInv /\ PlaceInv /\ [Next]_vars => (EditorInv /\ PlaceInv)'
    BY EditorStep, PlaceStep
  <1>3. QED
    BY <1>1, <1>2, PTL DEF Spec

(* No edit, move, paste, undo or late answer cuts a branch off: every node *)
(* of the map is reached from the central one (treeOps.ts: removeNodes,    *)
(* reparentNode, cloneSubtreeWithNewIds, appendChildren, insertAfter).     *)
THEOREM MapStaysATree == Spec => []MapIsATree
  <1>1. EditorInv => MapIsATree
    BY EditorFacts, MapFacts DEF MapIsATree
  <1>2. QED
    BY <1>1, EditorInvariant, PTL

(* A cut node is put back only into a map without it, a copy's ids are its *)
(* own; a file has one node, in every state undo can go back to, and a     *)
(* picture is a file of its node (MindMapEditor.tsx: pasteNodes,           *)
(* copyCloneAttachments).                                                  *)
THEOREM OnePlaceForEach == Spec => []OnePlaceEach
  <1>1. Init => OwnInv /\ PictureInv
    BY FilesStart
  <1>2. EditorInv /\ PlaceInv /\ OwnInv /\ PictureInv /\ [Next]_vars
           => (OwnInv /\ PictureInv)'
    BY OwnStep, PictureStep
  <1>3. EditorInv /\ PlaceInv /\ OwnInv /\ PictureInv => OnePlaceEach
    <2> SUFFICES ASSUME EditorInv, PlaceInv, OwnInv, PictureInv
                 PROVE  OnePlaceEach
      OBVIOUS
    <2>1. twice = {}
      BY DEF PlaceInv
    <2>2. ASSUME NEW i \in 1 .. Len(history.entries)
          PROVE  OneOwner(history.entries[i])
      <3> DEFINE m == history.entries[i]
      <3>1. m \in Known
        BY DEF Known, Entry
      <3>2. m \in Branch /\ FilesIn(m) \subseteq Owned
        BY <3>1, KnownFacts, OwnedFacts
      <3>3. DOMAIN m \subseteq Ids /\ \A k \in DOMAIN m : m[k].files \subseteq Files
        BY <3>2, BranchFacts DEF Node
      <3> HIDE DEF m
      <3>4. \A k \in DOMAIN m : \A f \in m[k].files : <<k, f>> \in Owned
        BY <3>2, <3>3 DEF FilesIn
      <3>5. \A n, k \in DOMAIN m : \A f \in m[n].files \cap m[k].files : n = k
        BY <3>4 DEF OwnInv
      <3>6. OneOwner(m)
        BY <3>5 DEF OneOwner
      <3>7. QED
        BY <3>6 DEF m
    <2>3. Ops("note_files") \/ Pictured(map)
      BY KnownFacts DEF PictureInv, Held
    <2>4. QED
      BY <2>1, <2>2, <2>3 DEF OnePlaceEach
  <1>4. QED
    BY <1>1, <1>2, <1>3, EditorInvariant, PTL DEF Spec

(* Edits made while files are on their way survive the answers             *)
(* (MindMapEditor.tsx: what comes after an await starts from rootRef).     *)
THEOREM AnswersKeepEdits == Spec => EditsSurviveAnswers
  <1> DEFINE Survive ==
        \A t \in Tasks : Answer(t) =>
          \A n \in DOMAIN map :
             /\ n \in DOMAIN map'
             /\ map'[n].parent = map[n].parent /\ map'[n].look = map[n].look
             /\ n # task[t].node => map'[n] = map[n]
  <1>1. EditorInv /\ PlaceInv /\ [Next]_vars => [Survive]_vars
    BY AnswerStep
  <1>2. Spec => [][Survive]_vars
    BY <1>1, EditorInvariant, PTL DEF Spec
  <1>3. QED
    BY <1>2 DEF EditsSurviveAnswers

(* No word of a note is lost by closing the panel, by a timer, by undo or  *)
(* by an answer, where no file is attached through the panel               *)
(* (MindMapEditor.tsx: commitNotes, closeNotes, saveNotes).                *)
THEOREM NotesStayKept == Spec => []NotesAreKept
  <1>1. Init => KeptInv
    BY WordsStart
  <1>2. EditorInv /\ PlaceInv /\ KeptInv /\ [Next]_vars => KeptInv'
    BY KeptStep
  <1>3. KeptInv => NotesAreKept
    BY DEF KeptInv, NotesAreKept
  <1>4. QED
    BY <1>1, <1>2, <1>3, EditorInvariant, PTL DEF Spec

(* A clean editor with no save under way and none that failed shows what   *)
(* is stored (handleSave of MindMapEditor.tsx and EditorPage.tsx).         *)
THEOREM CleanIsSaved == Spec => []CleanMeansSaved
  <1>1. Init => CleanInv
    BY WordsStart
  <1>2. EditorInv /\ PlaceInv /\ CleanInv /\ [Next]_vars => CleanInv'
    BY CleanStep
  <1>3. CleanInv => CleanMeansSaved
    BY DEF CleanInv, CleanMeansSaved
  <1>4. QED
    BY <1>1, <1>2, <1>3, EditorInvariant, PTL DEF Spec

(* The entries and the cursor of mindmap/history.ts are an undo history:   *)
(* every step of the editor is an edit, an undo, a redo or an opening of   *)
(* UndoHistory, or leaves it as it is.                                     *)
THEOREM UndoIsImplemented == Spec => ImplementsUndo
  <1>1. Init => Remembered!Init
    BY DEF Init, InitHistory, Remembered!Init
  <1>2. EditorInv /\ PlaceInv /\ (EditorInv /\ PlaceInv)' /\ [Next]_vars
           => [Remembered!Next]_<<SubSeq(history.entries, 1, history.index - 1),
                                  map,
                                  SubSeq(history.entries, history.index + 1,
                                         Len(history.entries))>>
    BY EditorStep, UndoStep DEF Moved
  <1>3. QED
    BY <1>1, <1>2, EditorInvariant, PTL DEF Spec, ImplementsUndo, Remembered!Spec
=============================================================================
