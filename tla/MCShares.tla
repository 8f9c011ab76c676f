------------------------------ MODULE MCShares ------------------------------
(* Small instances of Shares. *)
EXTENDS Shares, TLC

CONSTANTS r1, r2, a1, a2

Scenario(slots, attachments, faults) ==
    [slots |-> slots, attachments |-> attachments, faults |-> faults]

(* Two requests and the timer with every failure, the same with statements *)
(* that succeed, and one request at a time, which may also be the sweep.   *)
MCScenarios ==
    {Scenario({r1, r2, Sweeper}, {a1}, FaultKinds),
     Scenario({r1, r2, Sweeper}, {a1}, {"store", "crash"}),
     Scenario({r1}, {a1, a2}, FaultKinds)}

(* One request beside the timer, and a store that fails now and then. *)
MCOutages == {Scenario({r1, Sweeper}, {a1}, {"store"})}

(* Requests are interchangeable, and so are attachments. *)
MCSymmetry == Permutations(Requests) \cup Permutations(Attachments)
=============================================================================
