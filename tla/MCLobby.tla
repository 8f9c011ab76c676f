------------------------------ MODULE MCLobby ------------------------------
(* Instances of Lobby for TLC. *)
EXTENDS Lobby

CONSTANTS v1, v2, v3, old, new, memo, tag

MCVaults == {v1, v2, v3}
MCNames == {old, new}
MCNotes == {Blank, memo}
MCTags == {tag}

Case(steps, ops) ==
    [steps |-> steps, ops |-> ops, seed |-> {v1, v2}, boards |-> {v2},
     shared |-> {v1, v2}, unlock |-> FALSE, patient |-> TRUE,
     inOrder |-> TRUE, fails |-> FALSE]

(* Settings and names; creation and deletion; the unlock's two loads; calls *)
(* that fail; a user who does not wait; one who returns to a lobby while a  *)
(* deletion is under way; loads answered out of order; failures on pages    *)
(* that were left.                                                         *)
MCScenarios ==
    {Case(4, {"type", "tag", "rename", "save"}),
     Case(5, {"tag", "save", "open", "back"}),
     Case(4, {"create", "board", "delete", "rename", "open", "back"}),
     [Case(4, {"type", "tag", "save", "delete"}) EXCEPT !.unlock = TRUE],
     [Case(4, {"tag", "rename", "save", "delete", "board"}) EXCEPT !.fails = TRUE],
     [Case(4, {"type", "rename", "save", "delete", "open"}) EXCEPT
         !.patient = FALSE, !.inOrder = FALSE, !.unlock = TRUE],
     [Case(4, {"delete", "open", "back"}) EXCEPT !.patient = FALSE],
     [Case(4, {"tag", "save", "board", "create", "open", "back"}) EXCEPT
         !.inOrder = FALSE, !.unlock = TRUE],
     [Case(4, {"rename", "save", "create", "open", "back"}) EXCEPT
         !.fails = TRUE]}
=============================================================================
