---------------------------- MODULE MCMapEditor ----------------------------
(* Instances of MapEditor for TLC. *)
EXTENDS MapEditor, TLC

CONSTANTS a, b, c, d, e, f1, f2, f3, w1, w2, t1, t2

MCIds == {Root, a, b, c, d, e}
MCFiles == {f1, f2, f3}
MCWords == {w1, w2}
MCTasks == {t1, t2}

TreeNode(p, files) == [NewNode(p) EXCEPT !.named = TRUE, !.files = files]

(* a below the central node, with a file that is also its picture, and b   *)
(* below a.                                                                *)
Chain == (Root :> TreeNode(None, {})) @@ (b :> TreeNode(a, {}))
         @@ (a :> [TreeNode(Root, {f1}) EXCEPT !.image = f1])

(* a alone, with a word in its note.                                       *)
Noted == (Root :> TreeNode(None, {}))
         @@ (a :> [TreeNode(Root, {f1}) EXCEPT !.note = {w1, f1}])

S(start, edits, ops) ==
    [start |-> start, edits |-> edits, ops |-> ops, local |-> FALSE,
     autosave |-> FALSE, fails |-> FALSE]

MCScenarios ==
    {S(Chain, 3, {"structure", "rename", "undo"}),
     S(Chain, 4, {"clipboard", "undo"}),
     [S(Chain, 3, {"duplicate", "clipboard", "fields"}) EXCEPT !.fails = TRUE],
     [S(Noted, 3, {"upload", "duplicate", "structure"}) EXCEPT !.fails = TRUE],
     [S(Noted, 4, {"note", "upload", "undo"}) EXCEPT !.fails = TRUE],
     S(Noted, 3, {"note", "note_files", "duplicate"}),
     [S(Noted, 3, {"fields", "save", "undo", "open"}) EXCEPT !.fails = TRUE],
     [S(Noted, 3, {"fields", "upload", "note"}) EXCEPT !.autosave = TRUE],
     [S(Chain, 3, {"clipboard", "fields", "save", "open"}) EXCEPT
         !.local = TRUE]}
=============================================================================
