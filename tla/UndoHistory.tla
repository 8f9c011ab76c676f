---------------------------- MODULE UndoHistory ----------------------------
(***************************************************************************)
(* What undo and redo promise: the states behind the present one, newest   *)
(* last, and those that were undone, newest first.  An edit forgets what   *)
(* was undone; only the newest Limit - 1 past states are remembered.  The  *)
(* editor (MapEditor) keeps entries and a cursor into them, and is shown   *)
(* to implement this.                                                      *)
(***************************************************************************)
EXTENDS Naturals, Sequences

CONSTANTS Limit

VARIABLES past, present, future

Newest(s, n) == IF Len(s) > n THEN SubSeq(s, Len(s) - n + 1, Len(s)) ELSE s

Init == past = <<>> /\ future = <<>>

Edit ==
    /\ past' = Newest(Append(past, present), Limit - 1)
    /\ future' = <<>>

Undo ==
    /\ past # <<>>
    /\ present' = past[Len(past)]
    /\ past' = SubSeq(past, 1, Len(past) - 1)
    /\ future' = <<present>> \o future

Redo ==
    /\ future # <<>>
    /\ present' = future[1]
    /\ future' = Tail(future)
    /\ past' = Append(past, present)

(* Another document is opened.                                             *)
Open == past' = <<>> /\ future' = <<>>

Next == Edit \/ Undo \/ Redo \/ Open

Spec == Init /\ [][Next]_<<past, present, future>>
=============================================================================
