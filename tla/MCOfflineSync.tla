--------------------------- MODULE MCOfflineSync ---------------------------
(* Instances of OfflineSync for TLC. *)
EXTENDS OfflineSync

CONSTANTS d1, d2

MCDrains == {d1, d2}

(* One operation at a time: with calls that fail and reloads; two saves    *)
(* with reloads only and another session; two saves with calls that fail;  *)
(* one with an IndexedDB that fails.  Then operations that overlap: two    *)
(* drains; failing calls; another session and a vault that is opened while *)
(* calls are queued.                                                       *)
MCScenarios ==
    {[drains |-> {d1}, saves |-> 1, elsewhere |-> 1,
      faults |-> {"net", "lost_reply", "reload"}],
     [drains |-> {d1}, saves |-> 2, elsewhere |-> 1, faults |-> {"reload"}],
     [drains |-> {d1}, saves |-> 2, elsewhere |-> 0, faults |-> {"net"}],
     [drains |-> {d1}, saves |-> 1, elsewhere |-> 0, faults |-> {"idb"}],
     [drains |-> {d1, d2}, saves |-> 1, elsewhere |-> 0,
      faults |-> {"overlap"}],
     [drains |-> {d1}, saves |-> 1, elsewhere |-> 0,
      faults |-> {"overlap", "net", "lost_reply"}],
     [drains |-> {d1}, saves |-> 1, elsewhere |-> 1,
      faults |-> {"overlap", "reopen"}]}
=============================================================================
