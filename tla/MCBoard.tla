------------------------------ MODULE MCBoard ------------------------------
EXTENDS Board

CONSTANTS c1, c2, c3, f1, f2, s1, s2

MCCards == {c1, c2, c3}
MCFiles == {f1, f2}
MCSaves == {s1, s2}

Plain == [look |-> FALSE, src |-> None]

(* Two cards, one of them a picture, joined.                               *)
Start == [cards |-> [n \in {c1, c2} |->
                       IF n = c1 THEN Plain ELSE [Plain EXCEPT !.src = f1]],
          links |-> {[from |-> c1, to |-> c2, look |-> FALSE]},
          background |-> FALSE]

Case(ops, edits, calm, fails) ==
    [ops |-> ops, edits |-> edits, calm |-> calm, fails |-> fails,
     start |-> Start, rootCard |-> c1]

MCSittings ==
    {Case({"cards"}, 3, TRUE, TRUE),
     Case({"links"}, 4, TRUE, FALSE),
     Case({"cards", "links"}, 3, TRUE, FALSE),
     Case({"links", "cards", "armed"}, 2, TRUE, TRUE),
     Case({"files", "leave"}, 4, TRUE, TRUE),
     Case({"cards", "leave"}, 3, TRUE, FALSE),
     Case({"cards", "keyboard", "leave", "outage"}, 2, FALSE, TRUE)}
=============================================================================
